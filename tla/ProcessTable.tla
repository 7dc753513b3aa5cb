---------------------------- MODULE ProcessTable ----------------------------
(***************************************************************************)
(* scan_process_tree: the list of processes, built from /proc while they   *)
(* come and go.  readdir hands out the ids in ascending order, a buffer of *)
(* them at a time.  sscanf writes the name and the parent of a stat line   *)
(* into two locals that are not initialised; from a name with a ")" it     *)
(* gets the name only, from an empty one neither, and the node is given    *)
(* what the locals hold, in this build what the entry before left there.   *)
(* A name or a parent is abstracted to the id of the process it is of.     *)
(***************************************************************************)
EXTENDS Integers, Sequences, FiniteSetsExt

CONSTANTS ScanPids,     \* process ids
          BufferSize    \* how many entries one getdents returns

ASSUME ScanAssumption == /\ ScanPids \subseteq Nat \ {0}
                         /\ BufferSize \in Nat \ {0}

VARIABLES
    table,          \* the name of each process that runs, or "absent"
    reader,         \* between scans, between entries, or with a line parsed
    entries,        \* the ids in the buffer of readdir
    entry,          \* the last id taken from it
    parsed,         \* the locals comm_raw and ppid
    process_list,
    due,            \* the processes that have run since opendir and for which
                    \* malloc did not fail (a history of the model)
    names           \* the names in the lines read since then (likewise)

tableVars == <<table, reader, entries, entry, parsed, process_list, due, names>>

Names   == {"plain", "paren", "empty"}
Garbage == 0

Running == {p \in ScanPids : table[p] # "absent"}

NothingRead == [p \in ScanPids |-> "absent"]

TableInit ==
    /\ table \in [ScanPids -> Names \cup {"absent"}]
    /\ reader = "idle" /\ entries = {} /\ entry = 0
    /\ parsed = [comm |-> Garbage, ppid |-> Garbage]
    /\ process_list = <<>>
    /\ due = {} /\ names = NothingRead
-----------------------------------------------------------------------------
ProcessStarts(p, name) ==
    /\ table[p] = "absent"
    /\ table' = [table EXCEPT ![p] = name]
    /\ UNCHANGED <<reader, entries, entry, parsed, process_list, due, names>>

ProcessEnds(p) ==
    /\ table[p] # "absent"
    /\ table' = [table EXCEPT ![p] = "absent"]
    /\ due' = due \ {p}
    /\ UNCHANGED <<reader, entries, entry, parsed, process_list, names>>

\* opendir, and under the lock the old list is freed.
OpenProc ==
    /\ reader = "idle"
    /\ reader' = "entries" /\ entries' = {} /\ entry' = 0
    /\ parsed' = [comm |-> Garbage, ppid |-> Garbage]
    /\ process_list' = <<>>
    /\ due' = Running /\ names' = NothingRead
    /\ UNCHANGED table

Ahead == {p \in Running : p > entry}

\* The first ids of those still ahead, as many as the buffer takes.
FillBuffer ==
    /\ reader = "entries" /\ entries = {} /\ Ahead # {}
    /\ entries' = {p \in Ahead :
                     Cardinality({q \in Ahead : q < p}) < BufferSize}
    /\ UNCHANGED <<table, reader, entry, parsed, process_list, due, names>>

\* MUTANT: an entry whose stat cannot be opened ends the loop.
SkipEntry_Break ==
    LET p == Min(entries)
    IN  /\ reader = "entries" /\ entries # {} /\ table[p] = "absent"
        /\ reader' = "idle" /\ entry' = p /\ entries' = {}
        /\ UNCHANGED <<table, parsed, process_list, due, names>>

\* The process of the entry has ended: stat cannot be opened or read.
SkipEntry ==
    LET p == Min(entries)
    IN  /\ reader = "entries" /\ entries # {} /\ table[p] = "absent"
        /\ entry' = p /\ entries' = entries \ {p}
        /\ UNCHANGED <<table, reader, parsed, process_list, due, names>>

\* MUTANT: the name must hold no "(" either.
ScanLine_Strict(p, name, old) ==
    [comm |-> IF name = "plain" THEN p ELSE old.comm,
     ppid |-> IF name = "plain" THEN p ELSE old.ppid]

\* What sscanf leaves in the locals.
ScanLine(p, name, old) ==
    [comm |-> IF name = "empty" THEN old.comm ELSE p,
     ppid |-> IF name = "plain" THEN p ELSE old.ppid]

ReadEntry ==
    LET p == Min(entries)
    IN  /\ reader = "entries" /\ entries # {} /\ table[p] # "absent"
        /\ entry' = p /\ entries' = entries \ {p}
        /\ parsed' = ScanLine(p, table[p], parsed)
        /\ names' = [names EXCEPT ![p] = table[p]]
        /\ reader' = "parsed"
        /\ UNCHANGED <<table, process_list, due>>

MallocFails ==
    /\ reader = "parsed"
    /\ reader' = "entries"
    /\ due' = due \ {entry}
    /\ UNCHANGED <<table, entries, entry, parsed, process_list, names>>

\* MUTANT: exe_path is left as malloc returned it when readlink fails.
AddNode_NoExe ==
    LET exe == IF table[entry] = "absent" THEN "garbage" ELSE "linked"
        new_node == [pid |-> entry, comm |-> parsed.comm, ppid |-> parsed.ppid,
                     exe |-> exe]
    IN  /\ reader = "parsed"
        /\ process_list' = <<new_node>> \o process_list
        /\ reader' = "entries"
        /\ UNCHANGED <<table, entries, entry, parsed, due, names>>

\* readlink comes after the line was read: the process may have ended since.
AddNode ==
    LET exe == IF table[entry] = "absent" THEN "unknown" ELSE "linked"
        new_node == [pid |-> entry, comm |-> parsed.comm, ppid |-> parsed.ppid,
                     exe |-> exe]
    IN  /\ reader = "parsed"
        /\ process_list' = <<new_node>> \o process_list
        /\ reader' = "entries"
        /\ UNCHANGED <<table, entries, entry, parsed, due, names>>

EndOfProc ==
    /\ reader = "entries" /\ entries = {} /\ Ahead = {}
    /\ reader' = "idle"
    /\ UNCHANGED <<table, entries, entry, parsed, process_list, due, names>>

TableNext ==
    \/ \E p \in ScanPids : \/ \E name \in Names : ProcessStarts(p, name)
                           \/ ProcessEnds(p)
    \/ OpenProc \/ FillBuffer \/ SkipEntry \/ ReadEntry
    \/ MallocFails \/ AddNode \/ EndOfProc

TableSpec == TableInit /\ [][TableNext]_tableVars
-----------------------------------------------------------------------------
Node == [pid : ScanPids, comm : ScanPids \cup {Garbage},
         ppid : ScanPids \cup {Garbage}, exe : {"linked", "unknown"}]

TableTypeOK ==
    /\ table \in [ScanPids -> Names \cup {"absent"}]
    /\ reader \in {"idle", "entries", "parsed"}
    /\ entries \subseteq ScanPids
    /\ entry \in ScanPids \cup {0}
    /\ parsed \in [comm : ScanPids \cup {Garbage}, ppid : ScanPids \cup {Garbage}]
    /\ process_list \in Seq(Node)
    /\ due \subseteq ScanPids
    /\ names \in [ScanPids -> Names \cup {"absent"}]

Positions(p) == {i \in DOMAIN process_list : process_list[i].pid = p}

(***************************************************************************)
(* However processes come and go during a scan, its list holds every       *)
(* process that has run since opendir (malloc permitting), and no id       *)
(* twice: neither skipped entries nor the gaps between two buffers lose    *)
(* one.                                                                    *)
(***************************************************************************)
StayersListedOnce ==
    /\ \A i, j \in DOMAIN process_list :
         i # j => process_list[i].pid # process_list[j].pid
    /\ reader = "idle" => \A p \in due : Positions(p) # {}

\* The last id before p, or p, whose line had a name of the given kinds.
LastWith(kinds, p) ==
    LET ids == {q \in ScanPids : q <= p /\ names[q] \in kinds}
    IN  IF ids = {} THEN Garbage ELSE Max(ids)

(***************************************************************************)
(* The name in a node is that of its process unless that is empty, and the *)
(* parent is that of its process unless the name is empty or holds a ")";  *)
(* then they are those of the nearest entry before it that could be read.  *)
(* So a process without a name is scored by the name of its neighbour.     *)
(***************************************************************************)
FieldsOfNearestReadable ==
    \A i \in DOMAIN process_list :
      LET n == process_list[i]
      IN  /\ n.comm = LastWith({"plain", "paren"}, n.pid)
          /\ n.ppid = LastWith({"plain"}, n.pid)
=============================================================================
