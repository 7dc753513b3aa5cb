---------------------------- MODULE DaemonProofs ----------------------------
(***************************************************************************)
(* Proofs about the daemon, for any set of process ids, any looks of the   *)
(* other processes, any queue capacity and any set of possible failures.   *)
(***************************************************************************)
EXTENDS Daemon, TLAPS

(***************************************************************************)
(* What a thread inside system() and the process table say of each other:  *)
(* it waits for a process that exists, is not the daemon itself, and is    *)
(* waited for by no other thread; and a thread runs one of the commands of *)
(* quarantine_process only while it has a process to quarantine.           *)
(***************************************************************************)
ShellsInv ==
    /\ proc[Self].status # "unused"
    /\ \A t \in Threads :
         /\ child[t] # NoPid => /\ pc[t] \in Commands
                                /\ child[t] # Self
                                /\ Exists(child[t])
         /\ pc[t] \in {"kill", "iptables"} => target[t] # NoPid
         /\ target[t] # NoPid => pc[t] \in {"kill", "iptables"}
    /\ \A t, u \in Threads : child[t] = child[u] /\ child[t] # NoPid => t = u

Inv == TypeOK /\ ShellsInv

\* The control steps, which touch neither processes nor quarantines.
LEMMA ControlSteps ==
    ASSUME TypeOK, ShellsInv, NEW t \in Threads,
           NEW label \in Labels \ {"kill", "iptables"},
           pc[t] \notin Commands, Goto(t, label),
           UNCHANGED <<proc, child, target>>
    PROVE  pc' \in [Threads -> Labels] /\ ShellsInv'
<1>1. pc' \in [Threads -> Labels]
  BY DEF Goto, TypeOK, Labels
<1>2. ShellsInv'
  BY <1>1 DEF ShellsInv, Goto, TypeOK, Exists, Commands
<1>3. QED
  BY <1>1, <1>2

\* What a starting process does to the table and the log.
LEMMA StartingProcess ==
    ASSUME TypeOK, NEW p \in Pids, NEW image \in AllImages, Starts(p, image)
    PROVE  /\ proc' \in [Pids -> [status : {"unused", "running", "stopped",
                                            "zombie", "gone"},
                                  img : AllImages]]
           /\ alerted' \subseteq Pids /\ quarantined' \subseteq Pids
<1>1. Process("running", image) \in
        [status : {"unused", "running", "stopped", "zombie", "gone"},
         img : AllImages]
  BY DEF Process
<1>2. proc' \in [Pids -> [status : {"unused", "running", "stopped", "zombie",
                                    "gone"},
                          img : AllImages]]
  BY <1>1 DEF Starts, TypeOK
<1>3. alerted' \subseteq Pids /\ quarantined' \subseteq Pids
  BY DEF Starts, TypeOK
<1>4. QED
  BY <1>2, <1>3

\* What an exec event does to the buffer.
LEMMA QueuedEvent ==
    ASSUME TypeOK, NEW p \in Pids, ExecEvent(p)
    PROVE  /\ queue' \in Seq(Pids) /\ Len(queue') <= QueueCap
           /\ overrun' \in BOOLEAN
<1>1. queue' \in Seq(Pids) /\ Len(queue') <= QueueCap
  <2>1. CASE NetlinkOpen /\ Len(queue) < QueueCap
    BY <2>1, DaemonAssumption DEF ExecEvent, TypeOK
  <2>2. CASE ~(NetlinkOpen /\ Len(queue) < QueueCap)
    BY <2>2 DEF ExecEvent, TypeOK
  <2>3. QED
    BY <2>1, <2>2
<1>2. overrun' \in BOOLEAN
  BY DEF ExecEvent, TypeOK
<1>3. QED
  BY <1>1, <1>2

\* What the log holds afterwards, whether the file can be opened or not.
LEMMA WrittenLines ==
    ASSUME NEW lines, NEW due, NEW after \in Written(lines, due)
    PROVE  /\ lines \subseteq after /\ after \subseteq lines \cup due
           /\ "log" \notin Failures => after = lines \cup due
  BY DEF Written

\* What an analysis does to the log, the targets and the program counters.
LEMMA Responding ==
    ASSUME TypeOK, ShellsInv, NEW t \in Threads, NEW node, node.pid \in Pids,
           NEW reports \in BOOLEAN,
           NEW otherwise \in Labels \ {"kill", "iptables"},
           pc[t] \notin Commands,
           Respond(t, node, reports, otherwise), UNCHANGED <<proc, child>>
    PROVE  /\ alerted' \subseteq Pids
           /\ target' \in [Threads -> Pids \cup {NoPid}]
           /\ pc' \in [Threads -> Labels]
           /\ ShellsInv'
<1> DEFINE kills == reports /\ Quarantines(Total(node))
<1>1. alerted' \subseteq Pids
  BY WrittenLines DEF Respond, TypeOK
<1>2. CASE kills
  <2>1. /\ target' = [target EXCEPT ![t] = node.pid]
        /\ pc' = [pc EXCEPT ![t] = "kill"]
    BY <1>2 DEF Respond, Goto
  <2>2. node.pid # NoPid
    BY DaemonAssumption DEF NoPid
  <2>3. QED
    BY <1>1, <2>1, <2>2 DEF TypeOK, ShellsInv, Exists, Labels, Commands
<1>3. CASE ~kills
  <2>1. target' = target /\ pc' = [pc EXCEPT ![t] = otherwise]
    BY <1>3 DEF Respond, Goto
  <2>2. QED
    BY <1>1, <2>1 DEF TypeOK, ShellsInv, Exists, Commands
<1>4. QED
  BY <1>2, <1>3

\* What the end of system() does to the targets and the program counters.
LEMMA AfterSystem ==
    ASSUME TypeOK, ShellsInv, NEW t \in Threads, NEW ok \in BOOLEAN,
           pc[t] \in Commands, AfterCommand(t, ok)
    PROVE  /\ pc' \in [Threads -> Labels]
           /\ target' \in [Threads -> Pids \cup {NoPid}]
           /\ \A u \in Threads : u # t => pc'[u] = pc[u] /\ target'[u] = target[u]
           /\ pc'[t] \in {"kill", "iptables"} <=> target'[t] # NoPid
           /\ Logged(t) \subseteq Pids
<1>1. /\ Logged(t) \subseteq Pids
      /\ pc[t] \in {"kill", "iptables"} <=> target[t] # NoPid
  BY DEF TypeOK, ShellsInv, Logged
<1>2. CASE pc[t] = "iptables"
  <2>1. /\ pc' = [pc EXCEPT ![t] = IF t = "monitor" THEN "walk" ELSE "loop"]
        /\ target' = [target EXCEPT ![t] = NoPid]
    BY <1>2 DEF AfterCommand, Goto
  <2>2. QED
    BY <1>1, <2>1 DEF TypeOK, Labels
<1>3. CASE pc[t] = "kill"
  BY <1>1, <1>3 DEF AfterCommand, Goto, TypeOK, Labels, Commands
<1>4. CASE pc[t] \notin {"kill", "iptables"}
  <2>1. target' = target
    BY <1>4 DEF AfterCommand
  <2>2. \E label \in {"is_active", "loop", "start", "recheck"} :
          pc' = [pc EXCEPT ![t] = label]
    <3>1. CASE pc[t] = "modprobe"
      BY <3>1 DEF AfterCommand, Goto
    <3>2. CASE pc[t] = "is_active"
      BY <3>2 DEF AfterCommand, Goto
    <3>3. CASE pc[t] = "start"
      BY <3>3 DEF AfterCommand, Goto
    <3>4. CASE pc[t] = "recheck"
      BY <3>4 DEF AfterCommand, Goto
    <3>5. QED
      BY <1>4, <3>1, <3>2, <3>3, <3>4 DEF Commands
  <2>3. QED
    BY <1>1, <1>4, <2>1, <2>2 DEF TypeOK, Labels, Commands
<1>5. QED
  BY <1>2, <1>3, <1>4

\* A freed entry, a suspended one and a zombie are entries of the table.
ProcTable == [Pids -> [status : {"unused", "running", "stopped", "zombie", "gone"},
                       img : AllImages]]

LEMMA TableEntries ==
    ASSUME proc \in ProcTable
    PROVE  /\ Freed \in [status : {"unused", "running", "stopped", "zombie", "gone"},
                         img : AllImages]
           /\ \A p \in Pids, status \in {"running", "stopped", "zombie"} :
                [proc[p] EXCEPT !.status = status] \in
                  [status : {"unused", "running", "stopped", "zombie", "gone"},
                   img : AllImages]
  BY DEF ProcTable, Freed, Process, AllImages

LEMMA InitInv == Init => Inv
<1> SUFFICES ASSUME Init PROVE Inv
  OBVIOUS
<1>1. Process("running", SelfImage) \in [status : {"running"}, img : AllImages]
      /\ Unused \in [status : {"unused"}, img : AllImages]
  BY DEF Process, Unused, AllImages
<1>2. proc \in ProcTable
  BY <1>1 DEF Init, ProcTable
<1>3. pc \in [Threads -> {"join", "init", "loop"}]
  BY DEF Init, Threads, Workers
<1>4. queue \in Seq(Pids) /\ Len(queue) <= QueueCap
  BY DaemonAssumption DEF Init
<1>5. TypeOK
  BY <1>2, <1>3, <1>4 DEF Init, TypeOK, ProcTable, Labels, NoOne
<1>6. ShellsInv
  BY <1>3, DaemonAssumption DEF Init, ShellsInv, Process
<1>7. QED
  BY <1>5, <1>6 DEF Inv

(***************************************************************************)
(* The other processes, and the commands that run on the daemon's behalf.  *)
(***************************************************************************)
LEMMA ProcessSteps ==
    ASSUME Inv
    PROVE  /\ \A p \in Pids, image \in Images :
                Spawn(p, image) \/ Exec(p, image) \/ Change(p, image) => Inv'
           /\ \A p \in Pids : Exit(p) => Inv'
           /\ \A t \in Workers : CommandRuns(t) => Inv'
           /\ Burst \/ StopUnit => Inv'
<1> USE DEF Inv
<1>0. proc \in ProcTable
  BY DEF TypeOK, ProcTable
<1>1. ASSUME NEW p \in Pids, NEW image \in Images, Spawn(p, image) PROVE Inv'
  <2>1. Starts(p, image) /\ image \in AllImages /\ proc[p].status = "unused"
    BY <1>1 DEF Spawn, FreePid, FreePids, AllImages
  <2>2. suspect' \subseteq Pids
    BY <1>1 DEF Spawn, TypeOK
  <2>3. TypeOK'
    BY <1>1, <2>1, <2>2, StartingProcess DEF Spawn, TypeOK, list
  <2>4. \A q \in Pids : q # p => proc'[q] = proc[q]
    BY <2>1 DEF Starts, TypeOK
  <2>5. ShellsInv'
    BY <1>1, <2>1, <2>4, DaemonAssumption DEF Spawn, ShellsInv, Exists, TypeOK
  <2>6. QED
    BY <2>3, <2>5
<1>2. ASSUME NEW p \in Pids, NEW image \in Images, Exec(p, image) \/ Change(p, image)
      PROVE  Inv'
  <2>1. /\ proc' = [proc EXCEPT ![p].img = image]
        /\ suspect' \subseteq suspect \cup {p}
        /\ UNCHANGED <<terminate_flag, pc, child, target, list, log, dropped>>
    BY <1>2 DEF Exec, Change, Becomes
  <2>2. queue' \in Seq(Pids) /\ Len(queue') <= QueueCap /\ overrun' \in BOOLEAN
    BY <1>2, QueuedEvent DEF Exec, Change, TypeOK
  <2>3. /\ proc'[p].status = proc[p].status
        /\ \A q \in Pids : q # p => proc'[q] = proc[q]
        /\ proc' \in ProcTable
    BY <1>0, <2>1 DEF ProcTable, AllImages
  <2>4. TypeOK'
    BY <2>1, <2>2, <2>3 DEF TypeOK, list, log, ProcTable
  <2>5. \A q \in Pids : proc'[q].status = proc[q].status
    BY <2>3
  <2>6. ShellsInv'
    BY <2>1, <2>5, DaemonAssumption DEF ShellsInv, Exists, TypeOK
  <2>7. QED
    BY <2>4, <2>6
<1>3. ASSUME NEW p \in Pids, Exit(p) PROVE Inv'
  <2>1. proc' = [proc EXCEPT ![p] = Freed]
    BY <1>3 DEF Exit
  <2>2. proc' \in ProcTable
    BY <1>0, <2>1, TableEntries DEF ProcTable
  <2>3. TypeOK'
    BY <1>3, <2>2 DEF Exit, TypeOK, list, log, ProcTable
  <2>4. p # Self /\ \A t \in Threads : child[t] # p
    BY <1>3 DEF Exit, Foreign
  <2>5. ShellsInv'
    BY <1>3, <2>1, <2>4, DaemonAssumption DEF Exit, ShellsInv, Exists, TypeOK
  <2>6. QED
    BY <2>3, <2>5
<1>4. ASSUME NEW t \in Workers, CommandRuns(t) PROVE Inv'
  <2> DEFINE hit(p) == pc[t] = "kill" /\ p = target[t] /\ Alive(p) /\ MaySignal(p)
  <2>1. /\ child[t] # NoPid /\ proc[child[t]].status = "running"
        /\ proc' = [p \in Pids |->
             CASE hit(p)                -> [proc[p] EXCEPT !.status = "stopped"]
               [] ~hit(p) /\ p = child[t] -> [proc[p] EXCEPT !.status = "zombie"]
               [] ~hit(p) /\ p # child[t] -> proc[p]]
        /\ UNCHANGED <<terminate_flag, pc, child, target, list, queue, overrun, log>>
        /\ dropped' \subseteq dropped \cup {DaemonUser}
        /\ suspect' = suspect
    BY <1>4 DEF CommandRuns, Rule
  <2>2. \A p \in Pids : \/ proc'[p] = [proc[p] EXCEPT !.status = "stopped"] /\ Alive(p)
                        \/ proc'[p] = [proc[p] EXCEPT !.status = "zombie"]
                             /\ p = child[t]
                        \/ proc'[p] = proc[p]
    BY <2>1
  <2>3. proc' \in ProcTable
    <3>1. \A p \in Pids : proc'[p] \in
            [status : {"unused", "running", "stopped", "zombie", "gone"},
             img : AllImages]
      BY <1>0, <2>2, TableEntries DEF ProcTable
    <3>2. DOMAIN proc' = Pids /\ proc' = [p \in Pids |-> proc'[p]]
      BY <2>1
    <3>3. QED
      BY <3>1, <3>2 DEF ProcTable
  <2>4. TypeOK'
    BY <2>1, <2>3 DEF TypeOK, list, log, ProcTable, DaemonUser
  <2>5. \A p \in Pids : Exists(p) => Exists(p)'
    BY <1>0, <2>2 DEF Exists, ProcTable
  <2>6. proc'[Self].status # "unused"
    BY <1>0, <2>2, DaemonAssumption DEF ShellsInv, ProcTable
  <2>7. ShellsInv'
    BY <2>1, <2>5, <2>6 DEF ShellsInv, TypeOK
  <2>8. QED
    BY <2>4, <2>7
<1>5. ASSUME StopUnit PROVE Inv'
  <2>1. \A p \in Pids : \/ p = Self /\ proc'[p] = [proc[p] EXCEPT !.status = "running"]
                        \/ p # Self /\ ~Foreign(p)
                             /\ proc'[p] = [proc[p] EXCEPT !.status = "zombie"]
                        \/ proc'[p] = proc[p]
    BY <1>5 DEF StopUnit
  <2>2. proc' \in ProcTable
    <3>1. \A p \in Pids : proc'[p] \in
            [status : {"unused", "running", "stopped", "zombie", "gone"},
             img : AllImages]
      BY <1>0, <2>1, TableEntries DEF ProcTable
    <3>2. DOMAIN proc' = Pids /\ proc' = [p \in Pids |-> proc'[p]]
      BY <1>5 DEF StopUnit
    <3>3. QED
      BY <3>1, <3>2 DEF ProcTable
  <2>3. TypeOK'
    BY <1>5, <2>2 DEF StopUnit, TypeOK, list, log, ProcTable
  <2>4. \A p \in Pids : Exists(p) => Exists(p)'
    BY <1>0, <2>1 DEF Exists, ProcTable
  <2>5. proc'[Self].status # "unused"
    BY <1>0, <2>1, DaemonAssumption DEF ShellsInv, ProcTable
  <2>6. ShellsInv'
    BY <1>5, <2>4, <2>5 DEF StopUnit, ShellsInv, TypeOK
  <2>7. QED
    BY <2>3, <2>6
<1>6. ASSUME Burst PROVE Inv'
  BY <1>6 DEF Burst, TypeOK, ShellsInv, Exists, list, log
<1>7. QED
  BY <1>1, <1>2, <1>3, <1>4, <1>5, <1>6

(***************************************************************************)
(* The calls of system().                                                  *)
(***************************************************************************)
LEMMA SystemSteps ==
    ASSUME Inv, NEW t \in Workers
    PROVE  /\ \A p \in Pids : Fork(t, p) => Inv'
           /\ ForkFails(t) => Inv'
           /\ \A ok \in BOOLEAN : Return(t, ok) => Inv'
<1> USE DEF Inv
<1>0. proc \in ProcTable /\ t \in Threads
  BY DEF TypeOK, ProcTable, Threads
<1>1. ASSUME NEW p \in Pids, Fork(t, p) PROVE Inv'
  <2>1. /\ proc[p].status = "unused" /\ p # Self
        /\ Starts(p, OwnImage(Self, HasSocket))
        /\ child' = [child EXCEPT ![t] = p]
    BY <1>1 DEF Fork, FreePid, FreePids, ShellsInv
  <2>2. HasSocket \in BOOLEAN
    BY DaemonAssumption DEF HasSocket, NetlinkOpen
  <2>3. OwnImage(Self, HasSocket) \in AllImages
    BY <2>2 DEF AllImages
  <2>4. TypeOK'
    BY <1>1, <2>1, <2>3, StartingProcess, QueuedEvent DEF Fork, TypeOK, list
  <2>5. /\ \A q \in Pids : q # p => proc'[q] = proc[q]
        /\ proc'[p].status = "running"
    BY <2>1 DEF Starts, TypeOK, Process
  <2>6. \A u \in Threads : child[u] # p
    BY <2>1, DaemonAssumption DEF ShellsInv, Exists, NoPid
  <2>7. ShellsInv'
    <3>1. /\ pc' = pc /\ target' = target /\ pc[t] \in Commands
          /\ child'[t] = p /\ \A u \in Threads : u # t => child'[u] = child[u]
      BY <1>0, <1>1, <2>1 DEF Fork, TypeOK
    <3>2. proc'[Self].status # "unused" /\ Exists(p)'
      BY <2>1, <2>5, DaemonAssumption DEF ShellsInv, Exists
    <3>3. \A u \in Threads :
            child'[u] # NoPid => /\ pc'[u] \in Commands
                                 /\ child'[u] # Self
                                 /\ proc'[child'[u]].status \in
                                      {"running", "stopped", "zombie"}
      BY <2>1, <2>5, <3>1, <3>2 DEF ShellsInv, Exists, TypeOK
    <3>4. \A u, v \in Threads : child'[u] = child'[v] /\ child'[u] # NoPid => u = v
      BY <2>6, <3>1 DEF ShellsInv
    <3>5. QED
      BY <3>1, <3>2, <3>3, <3>4 DEF ShellsInv, Exists
  <2>8. QED
    BY <2>4, <2>7
<1>2. ASSUME ForkFails(t) PROVE Inv'
  <2>1. pc[t] \in Commands /\ child[t] = NoPid /\ AfterCommand(t, FALSE)
    BY <1>2 DEF ForkFails
  <2>2. /\ pc' \in [Threads -> Labels]
        /\ target' \in [Threads -> Pids \cup {NoPid}]
        /\ \A u \in Threads : u # t => pc'[u] = pc[u] /\ target'[u] = target[u]
        /\ pc'[t] \in {"kill", "iptables"} <=> target'[t] # NoPid
        /\ Logged(t) \subseteq Pids
    BY <1>0, <2>1, AfterSystem
  <2>3. TypeOK'
    BY <1>2, <2>2, WrittenLines DEF ForkFails, TypeOK, shared, list
  <2>4. ShellsInv'
    BY <1>2, <2>1, <2>2 DEF ForkFails, ShellsInv, Exists, shared
  <2>5. QED
    BY <2>3, <2>4
<1>3. ASSUME NEW ok \in BOOLEAN, Return(t, ok) PROVE Inv'
  <2>1. /\ child[t] # NoPid /\ AfterCommand(t, ok)
        /\ child' = [child EXCEPT ![t] = NoPid]
        /\ proc' = [proc EXCEPT ![child[t]] = Freed]
    BY <1>3 DEF Return
  <2>2. /\ pc[t] \in Commands /\ child[t] # Self /\ child[t] \in Pids
        /\ \A u \in Threads : u # t => child[u] # child[t]
    BY <1>0, <2>1 DEF ShellsInv, TypeOK
  <2>3. /\ pc' \in [Threads -> Labels]
        /\ target' \in [Threads -> Pids \cup {NoPid}]
        /\ \A u \in Threads : u # t => pc'[u] = pc[u] /\ target'[u] = target[u]
        /\ pc'[t] \in {"kill", "iptables"} <=> target'[t] # NoPid
        /\ Logged(t) \subseteq Pids
    BY <1>0, <2>1, <2>2, AfterSystem
  <2>4. proc' \in ProcTable
    BY <1>0, <2>1, TableEntries DEF ProcTable
  <2>5. TypeOK'
    <3>1. child' \in [Threads -> Pids \cup {NoPid}]
      BY <2>1 DEF TypeOK
    <3>2. quarantined' \subseteq Pids
      BY <1>3, <2>3, WrittenLines DEF Return, TypeOK
    <3>3. QED
      BY <1>3, <2>3, <2>4, <3>1, <3>2 DEF Return, TypeOK, list, ProcTable
  <2>6. \A p \in Pids : p # child[t] => proc'[p] = proc[p]
    BY <2>1 DEF TypeOK
  <2>7. ShellsInv'
    BY <1>0, <2>1, <2>2, <2>3, <2>6, DaemonAssumption
       DEF ShellsInv, Exists, TypeOK
  <2>8. QED
    BY <2>5, <2>7
<1>4. QED
  BY <1>1, <1>2, <1>3

(***************************************************************************)
(* The two detection paths.                                                *)
(***************************************************************************)
LEMMA ImagesAreLooks == AllImages \subseteq ImageFields
<1>1. \A parent \in Int, socket \in BOOLEAN : OwnImage(parent, socket) \in ImageFields
  BY DEF OwnImage, ImageFields, NamePatterns, DaemonUser
<1>2. SelfImage \in ImageFields
  BY DEF SelfImage, OwnImage, ImageFields, NamePatterns, DaemonUser
<1>3. Self \in Int /\ Images \subseteq ImageFields
  BY DaemonAssumption
<1>4. QED
  BY <1>1, <1>2, <1>3 DEF AllImages

LEMMA NodesOfImages ==
    ASSUME TypeOK, NEW p \in Pids
    PROVE  /\ proc[p].img \in ImageFields
           /\ proc[p].img.fileless \in BOOLEAN /\ proc[p].img.socket \in BOOLEAN
<1>1. proc[p].img \in ImageFields
  BY ImagesAreLooks DEF TypeOK
<1>2. QED
  BY <1>1 DEF ImageFields

LEMMA NodesOfProcesses ==
    ASSUME TypeOK, NEW p \in Pids, Exists(p), NEW held \in [Garbled -> Held]
    PROVE  NodeOf(p, held) \in Nodes /\ NodeOf(p, held).pid = p
<1> DEFINE i == proc[p].img
<1>1. i \in ImageFields
  BY NodesOfImages
<1>2. i.stat # "whole" => held[p] \in Held
  BY DEF Garbled
<1>3. \A h \in Held : h.comm \subseteq NamePatterns /\ h.ppid \in Int
  BY ImagesAreLooks DEF Held, ImageFields
<1>4. /\ (IF i.stat = "empty" THEN held[p].comm ELSE i.comm) \in SUBSET NamePatterns
      /\ (IF i.stat = "whole" THEN i.ppid ELSE held[p].ppid) \in Int
      /\ (Alive(p) /\ i.fileless) \in BOOLEAN
  BY <1>1, <1>2, <1>3 DEF ImageFields
<1>5. QED
  BY <1>4 DEF NodeOf, Nodes

LEMMA DetectionSteps ==
    ASSUME Inv
    PROVE  /\ Monitor => Inv'
           /\ Netlink => Inv'
<1> USE DEF Inv
<1>1. ASSUME NEW nodes, nodes \subseteq Nodes, Scan(nodes) PROVE Inv'
  <2>1. pc["monitor"] \notin Commands /\ Goto("monitor", "walk")
        /\ UNCHANGED <<proc, child, target>>
    BY <1>1 DEF Scan, At, Commands, shared
  <2>2. pc' \in [Threads -> Labels] /\ ShellsInv'
    BY <2>1, ControlSteps DEF Threads, Workers, Labels, Commands
  <2>3. TypeOK'
    BY <1>1, <2>2 DEF Scan, TypeOK, shared, log, NoOne
  <2>4. QED
    BY <2>2, <2>3
<1>2. ScanProcessTree => Inv'
  <2> SUFFICES ASSUME NEW held \in [Garbled -> Held],
                      Scan({NodeOf(p, held) : p \in {q \in Pids : Exists(q)}})
               PROVE  Inv'
    BY DEF ScanProcessTree
  <2>1. {NodeOf(p, held) : p \in {q \in Pids : Exists(q)}} \subseteq Nodes
    BY NodesOfProcesses
  <2>2. QED
    BY <1>1, <2>1
<1>3. ScanFails => Inv'
  BY <1>1 DEF ScanFails, TypeOK
<1>4. EndOfWalk => Inv'
  <2> SUFFICES ASSUME EndOfWalk PROVE Inv'
    OBVIOUS
  <2>1. pc["monitor"] \notin Commands /\ Goto("monitor", "loop")
        /\ UNCHANGED <<proc, child, target>>
    BY DEF EndOfWalk, At, Commands, shared
  <2>2. pc' \in [Threads -> Labels] /\ ShellsInv'
    BY <2>1, ControlSteps DEF Threads, Workers, Labels, Commands
  <2>3. TypeOK'
    BY <2>2 DEF EndOfWalk, TypeOK, shared, log, NoOne
  <2>4. QED
    BY <2>2, <2>3
<1>5. ASSUME NEW node \in current, Visit(node) PROVE Inv'
  <2>1. node.pid \in Pids
    BY DEF TypeOK, Nodes
  <2>2. /\ pc["monitor"] \notin Commands
        /\ Respond("monitor", node, ScanReports(Total(node)), "walk")
        /\ UNCHANGED <<proc, child>>
    BY <1>5 DEF Visit, At, Commands, shared
  <2>3. ScanReports(Total(node)) \in BOOLEAN
    BY DEF ScanReports
  <2>4. /\ alerted' \subseteq Pids
        /\ target' \in [Threads -> Pids \cup {NoPid}]
        /\ pc' \in [Threads -> Labels]
        /\ ShellsInv'
    BY <2>1, <2>2, <2>3, Responding DEF Threads, Workers, Labels, Commands
  <2>5. TypeOK'
    BY <1>5, <2>4 DEF Visit, TypeOK, shared
  <2>6. QED
    BY <2>4, <2>5
<1>6. ASSUME pc["netlink"] \notin Commands, CloseNetlink PROVE Inv'
  <2>1. pc' \in [Threads -> Labels] /\ ShellsInv'
    BY <1>6, ControlSteps DEF CloseNetlink, Threads, Workers, Labels, Commands
  <2>2. queue' \in Seq(Pids) /\ Len(queue') <= QueueCap
    BY <1>6, DaemonAssumption DEF CloseNetlink
  <2>3. TypeOK'
    BY <1>6, <2>1, <2>2 DEF CloseNetlink, TypeOK, list, log
  <2>4. QED
    BY <2>1, <2>3
<1>7. ListenFails \/ RecvFails => Inv'
  BY <1>6 DEF ListenFails, RecvFails, At, Commands
<1>8. Listen \/ RecvOther => Inv'
  <2> SUFFICES ASSUME Listen \/ RecvOther PROVE Inv'
    OBVIOUS
  <2>1. pc["netlink"] \notin Commands /\ Goto("netlink", "loop")
        /\ UNCHANGED <<terminate_flag, shared, child, target, list, log, dropped, suspect>>
    BY DEF Listen, RecvOther, At, Commands
  <2>2. pc' \in [Threads -> Labels] /\ ShellsInv'
    BY <2>1, ControlSteps DEF shared, Threads, Workers, Labels, Commands
  <2>3. TypeOK'
    BY <2>1, <2>2 DEF TypeOK, shared, list, log
  <2>4. QED
    BY <2>2, <2>3
<1>9. RecvExec => Inv'
  <2> SUFFICES ASSUME RecvExec PROVE Inv'
    OBVIOUS
  <2>1. /\ Head(queue) \in Pids /\ queue' \in Seq(Pids) /\ Len(queue') <= QueueCap
    BY DaemonAssumption DEF RecvExec, TypeOK
  <2>2. temp_node' \subseteq Nodes
    BY <2>1, NodesOfProcesses DEF RecvExec, TypeOK
  <2>3. PICK label \in {"analyze", "loop"} : Goto("netlink", label)
    BY DEF RecvExec
  <2>4. pc["netlink"] \notin Commands /\ UNCHANGED <<proc, child, target>>
    BY DEF RecvExec, At, Commands
  <2>5. pc' \in [Threads -> Labels] /\ ShellsInv'
    BY <2>3, <2>4, ControlSteps DEF Threads, Workers, Labels, Commands
  <2>6. TypeOK'
    BY <2>1, <2>2, <2>5 DEF RecvExec, TypeOK, log
  <2>7. QED
    BY <2>5, <2>6
<1>10. ASSUME NEW node \in temp_node, AnalyzeSingle(node) PROVE Inv'
  <2>1. node.pid \in Pids
    BY DEF TypeOK, Nodes
  <2>2. /\ pc["netlink"] \notin Commands
        /\ Respond("netlink", node, ExecReports(Total(node)), "loop")
        /\ UNCHANGED <<proc, child>>
    BY <1>10 DEF AnalyzeSingle, At, Commands, shared
  <2>3. ExecReports(Total(node)) \in BOOLEAN
    BY DEF ExecReports
  <2>4. /\ alerted' \subseteq Pids
        /\ target' \in [Threads -> Pids \cup {NoPid}]
        /\ pc' \in [Threads -> Labels]
        /\ ShellsInv'
    BY <2>1, <2>2, <2>3, Responding DEF Threads, Workers, Labels, Commands
  <2>5. TypeOK'
    BY <1>10, <2>4 DEF AnalyzeSingle, TypeOK, shared
  <2>6. QED
    BY <2>4, <2>5
<1>11. QED
  BY <1>2, <1>3, <1>4, <1>5, <1>7, <1>8, <1>9, <1>10 DEF Monitor, Netlink

(***************************************************************************)
(* The steps that only move one thread, signals, and the end of main.      *)
(***************************************************************************)
LEMMA ThreadSteps ==
    ASSUME Inv
    PROVE  /\ \A loaded \in BOOLEAN : Check(loaded) => Inv'
           /\ InotifyInit \/ FileEvent \/ FileFails => Inv'
           /\ \A t \in DOMAIN Blocks : LoopAgain(t) => Inv'
           /\ \A t \in Workers : LoopEnds(t) => Inv'
           /\ Sigterm => Inv'
           /\ MainReturns => Inv'
<1> USE DEF Inv
<1>1. ASSUME NEW t \in Threads, NEW label \in Labels \ {"kill", "iptables"},
             pc[t] \notin Commands, ControlStep(t, label)
      PROVE  Inv'
  <2>1. pc' \in [Threads -> Labels] /\ ShellsInv'
    BY <1>1, ControlSteps DEF ControlStep, shared
  <2>2. TypeOK'
    BY <1>1, <2>1 DEF ControlStep, TypeOK, shared, list, log
  <2>3. QED
    BY <2>1, <2>2
<1>2. ASSUME NEW loaded \in BOOLEAN, Check(loaded) PROVE Inv'
  <2>1. CASE loaded
    BY <1>1, <1>2, <2>1 DEF Check, At, Threads, Workers, Labels, Commands
  <2>2. CASE ~loaded
    BY <1>1, <1>2, <2>2 DEF Check, At, Threads, Workers, Labels, Commands
  <2>3. QED
    BY <2>1, <2>2
<1>3. InotifyInit \/ FileEvent \/ FileFails => Inv'
  BY <1>1 DEF InotifyInit, FileEvent, FileFails, At, Threads, Workers, Labels,
              Commands
<1>4. ASSUME NEW t \in DOMAIN Blocks, LoopAgain(t) PROVE Inv'
  <2>1. t \in Threads /\ Blocks[t] \in Labels \ {"kill", "iptables"}
    BY DEF Blocks, Threads, Workers, Labels, Commands
  <2>2. pc[t] \notin Commands /\ ControlStep(t, Blocks[t])
    BY <1>4 DEF LoopAgain, At, Commands
  <2>3. QED
    BY <1>1, <2>1, <2>2
<1>5. ASSUME NEW t \in Workers, LoopEnds(t) PROVE Inv'
  <2>1. pc[t] \notin Commands /\ t \in Threads
    BY <1>5 DEF LoopEnds, At, Commands, Threads
  <2>2. CASE t # "netlink"
    BY <1>1, <1>5, <2>1, <2>2 DEF LoopEnds, Labels, Commands
  <2>3. CASE t = "netlink"
    <3>1. CloseNetlink
      BY <1>5, <2>3 DEF LoopEnds
    <3>2. pc' \in [Threads -> Labels] /\ ShellsInv'
      BY <2>1, <2>3, <3>1, ControlSteps DEF CloseNetlink, Labels, Commands
    <3>3. queue' \in Seq(Pids) /\ Len(queue') <= QueueCap
      BY <3>1, DaemonAssumption DEF CloseNetlink
    <3>4. TypeOK'
      BY <3>1, <3>2, <3>3 DEF CloseNetlink, TypeOK, list, log
    <3>5. QED
      BY <3>2, <3>4
  <2>4. QED
    BY <2>2, <2>3
<1>6. Sigterm => Inv'
  BY DEF Sigterm, TypeOK, ShellsInv, Exists, shared, list, log
<1>7. ASSUME MainReturns PROVE Inv'
  <2>1. /\ pc["main"] \notin Commands /\ "main" \in Threads
        /\ proc' = [proc EXCEPT ![Self] = Process("gone", SelfImage)]
        /\ pc' = [pc EXCEPT !["main"] = "done"]
    BY <1>7 DEF MainReturns, At, Goto, Threads, Commands
  <2>2. pc' \in [Threads -> Labels]
    BY <2>1 DEF TypeOK, Labels
  <2>3. Process("gone", SelfImage) \in
          [status : {"unused", "running", "stopped", "zombie", "gone"},
           img : AllImages]
    BY DEF Process, AllImages
  <2>4. proc' \in ProcTable
    BY <2>1, <2>3 DEF TypeOK, ProcTable
  <2>5. TypeOK'
    BY <1>7, <2>2, <2>4 DEF MainReturns, TypeOK, log, ProcTable
  <2>6. /\ proc'[Self].status = "gone"
        /\ \A q \in Pids : q # Self => proc'[q] = proc[q]
    BY <2>1, DaemonAssumption DEF TypeOK, Process
  <2>7. \A t \in Threads : pc'[t] = pc[t] \/ (pc[t] \notin Commands
                                               /\ pc'[t] \notin Commands)
    BY <2>1 DEF TypeOK, Commands
  <2>8. ShellsInv'
    BY <1>7, <2>6, <2>7 DEF MainReturns, ShellsInv, Exists, TypeOK, Commands
  <2>9. QED
    BY <2>5, <2>8
<1>8. QED
  BY <1>2, <1>3, <1>4, <1>5, <1>6, <1>7

LEMMA DaemonTypesStep ==
    ASSUME Inv, [Next]_vars
    PROVE  Inv'
<1>1. CASE Daemon
  <2>1. \A t \in Workers : System(t) => Inv'
    BY SystemSteps, DaemonAssumption DEF System
  <2>2. \A loaded \in ModuleLoaded : Check(loaded) => Inv'
    BY ThreadSteps, DaemonAssumption
  <2>3. QED
    BY <1>1, <2>1, <2>2, ThreadSteps, DetectionSteps DEF Daemon
<1>2. CASE Environment
  BY <1>2, ProcessSteps, ThreadSteps DEF Environment
<1>3. CASE \E t \in Workers : CommandRuns(t)
  BY <1>3, ProcessSteps
<1>4. CASE UNCHANGED vars
  BY <1>4 DEF vars, Inv, TypeOK, ShellsInv, Exists
<1>5. QED
  BY <1>1, <1>2, <1>3, <1>4 DEF Next

(***************************************************************************)
(* The types, and the agreement of the threads with the process table,     *)
(* hold throughout, whatever the machine does.                             *)
(***************************************************************************)
THEOREM DaemonTypes == Spec => [](TypeOK /\ ShellsInv)
<1>1. Inv /\ [Next]_vars => Inv'
  BY DaemonTypesStep
<1>2. QED
  BY InitInv, <1>1, PTL DEF Spec, Inv
-----------------------------------------------------------------------------
(***************************************************************************)
(* Why only a suspect is suspended.  The causes that Incriminates lists    *)
(* are those through which a decision of the daemon can be wrong, so that  *)
(* whatever a step does: a process that deserves quarantine, or whose stat *)
(* line cannot be parsed, is a suspect; a node still says of its process   *)
(* what that looks like, or the process is a suspect; and so is every      *)
(* process that a thread is quarantining.  Only "other" processes matter:  *)
(* the daemon and its shells are excluded by Watched.                      *)
(***************************************************************************)
Exact(node) ==
    [comm |-> node.comm, ppid |-> node.ppid, fileless |-> node.fileless]
      = Static(proc[node.pid].img)

GuiltyInv    == \A p \in Pids : /\ Watched(p)
                                /\ Guilty(p) \/ proc[p].img.stat # "whole"
                                => p \in suspect
NodesInv     == \A node \in KnownNodes :
                  Watched(node.pid) => Exact(node) \/ node.pid \in suspect
TargetsInv   == \A t \in Threads :
                  target[t] # NoPid /\ Watched(target[t]) => target[t] \in suspect

CauseInv == GuiltyInv /\ NodesInv /\ TargetsInv /\ SuspendedForCause

\* What every step leaves of the processes and of what is known of them.
KeepsCauses ==
    \A p \in Pids : Watched(p)' =>
      /\ \/ p \in suspect'
         \/ ~Guilty(p)' /\ proc'[p].img.stat = "whole"
         \/ Watched(p) /\ proc'[p].img = proc[p].img
      /\ ~Watched(p) => p \in suspect' \/ p \notin KnownPids
      /\ Watched(p) /\ p \in suspect => p \in suspect'
      /\ Watched(p) /\ p \in NodePids =>
           p \in suspect' \/ Static(proc'[p].img) = Static(proc[p].img)
      /\ Suspended(p)' => \/ Suspended(p)
                          \/ Watched(p) /\ \E t \in Threads : target[t] = p

\* The steps that leave the processes and the suspects alone.
LEMMA IdleSteps ==
    ASSUME UNCHANGED <<proc, child, suspect>>
    PROVE  KeepsCauses
  BY DEF KeepsCauses, Watched, Suspended, Alive, Foreign

LEMMA CauseKeepingSteps ==
    ASSUME Inv, [Next]_vars
    PROVE  KeepsCauses
<1> USE DEF Inv
<1>1. ASSUME NEW p \in Pids, NEW image \in Images, Spawn(p, image)
      PROVE  KeepsCauses
  <2>1. /\ proc'[p] = Process("running", image)
        /\ \A q \in Pids : q # p => proc'[q] = proc[q]
        /\ proc[p].status = "unused" /\ child' = child
        /\ suspect' = IF Incriminates(p, image, p \in KnownPids)
                      THEN suspect \cup {p} ELSE suspect \ {p}
    BY <1>1 DEF Spawn, Starts, FreePid, FreePids, TypeOK
  <2>2. proc'[p].img = image /\ proc'[p].status = "running"
    BY <2>1 DEF Process
  <2>3. \A q \in Pids : /\ q # p => (Watched(q)' <=> Watched(q))
                        /\ q # p => (Suspended(q)' <=> Suspended(q))
    BY <2>1 DEF Watched, Suspended, Alive, Foreign
  <2>4. ~Watched(p) /\ ~Suspended(p)'
    BY <2>1, <2>2 DEF Watched, Suspended, Alive
  <2>5. \/ p \in suspect'
        \/ ~Guilty(p)' /\ proc'[p].img.stat = "whole" /\ p \notin KnownPids
    BY <2>1, <2>2 DEF Incriminates, Guilty
  <2>6. QED
    BY <2>1, <2>3, <2>4, <2>5 DEF KeepsCauses
<1>2. ASSUME NEW p \in Pids, NEW image \in Images, Exec(p, image) \/ Change(p, image)
      PROVE  KeepsCauses
  <2>1. Becomes(p, image)
    BY <1>2 DEF Exec, Change
  <2>2. /\ proc'[p].status = proc[p].status /\ proc'[p].img = image
        /\ \A q \in Pids : q # p => proc'[q] = proc[q]
        /\ Foreign(p) /\ proc[p].status = "running" /\ child' = child
        /\ suspect' = IF Incriminates(p, image,
                            p \in NodePids /\ Static(image) # Static(proc[p].img))
                      THEN suspect \cup {p} ELSE suspect
    BY <2>1 DEF Becomes, TypeOK
  <2>3. \A q \in Pids : /\ Watched(q)' <=> Watched(q)
                        /\ Suspended(q)' <=> Suspended(q)
    BY <2>2 DEF Watched, Suspended, Alive, Foreign
  <2>4. /\ p \in suspect' \/ (~Guilty(p)' /\ proc'[p].img.stat = "whole")
        /\ p \in NodePids => p \in suspect' \/ Static(image) = Static(proc[p].img)
    BY <2>2 DEF Incriminates, Guilty
  <2>5. QED
    BY <2>2, <2>3, <2>4 DEF KeepsCauses
<1>3. ASSUME NEW p \in Pids, proc' = [proc EXCEPT ![p] = Freed], suspect' = suspect,
             \A q \in Pids : q # p /\ Foreign(q)' => Foreign(q)
      PROVE  KeepsCauses
  <2>1. /\ proc'[p].status \in {"gone", "unused"}
        /\ \A q \in Pids : q # p => proc'[q] = proc[q]
    BY <1>3 DEF Freed, Process, TypeOK
  <2>2. QED
    BY <1>3, <2>1 DEF KeepsCauses, Watched, Suspended, Alive
<1>4. ASSUME NEW p \in Pids, Exit(p) PROVE KeepsCauses
  BY <1>3, <1>4 DEF Exit, Foreign
<1>5. ASSUME NEW t \in Workers, NEW p \in Pids, Fork(t, p) PROVE KeepsCauses
  <2>1. /\ \A q \in Pids : q # p => proc'[q] = proc[q]
        /\ child[t] = NoPid /\ child' = [child EXCEPT ![t] = p]
        /\ suspect' = suspect \ {p} /\ t \in Threads
    BY <1>5 DEF Fork, Starts, TypeOK, Threads
  <2>2. ~Foreign(p)'
    BY <2>1 DEF Foreign, TypeOK
  <2>3. \A q \in Pids : q # p /\ Foreign(q)' => Foreign(q)
    BY <2>1, DaemonAssumption DEF Foreign, NoPid, TypeOK
  <2>4. QED
    BY <2>1, <2>2, <2>3 DEF KeepsCauses, Watched, Suspended, Alive
<1>6. ASSUME NEW t \in Workers, NEW ok, Return(t, ok) PROVE KeepsCauses
  <2>1. /\ child[t] \in Pids /\ suspect' = suspect
        /\ proc' = [proc EXCEPT ![child[t]] = Freed]
        /\ child' = [child EXCEPT ![t] = NoPid]
    BY <1>6 DEF Return, TypeOK, Threads
  <2>2. \A q \in Pids : q # child[t] /\ Foreign(q)' => Foreign(q)
    BY <2>1 DEF Foreign, TypeOK
  <2>3. QED
    BY <1>3, <2>1, <2>2
<1>7. ASSUME NEW t \in Workers, CommandRuns(t) PROVE KeepsCauses
  <2>1. child' = child /\ suspect' = suspect /\ t \in Threads
    BY <1>7 DEF CommandRuns, Threads
  <2>2. \A p \in Pids :
           \/ proc'[p] = [proc[p] EXCEPT !.status = "stopped"] /\ Alive(p)
                /\ p = target[t]
           \/ proc'[p] = [proc[p] EXCEPT !.status = "zombie"] /\ p = child[t]
           \/ proc'[p] = proc[p]
    BY <1>7 DEF CommandRuns
  <2>3. \A p \in Pids :
           \/ /\ proc'[p].status = "stopped" /\ Alive(p) /\ p = target[t]
              /\ proc'[p].img = proc[p].img
           \/ proc'[p].status = "zombie" /\ p = child[t]
           \/ proc'[p] = proc[p]
    BY <2>2 DEF TypeOK
  <2>4. QED
    BY <2>1, <2>3 DEF KeepsCauses, Watched, Suspended, Alive, Foreign
<1>8. ASSUME StopUnit PROVE KeepsCauses
  <2>1. child' = child /\ suspect' = suspect
    BY <1>8 DEF StopUnit
  <2>2. \A p \in Pids : Foreign(p) => proc'[p] = proc[p]
    BY <1>8 DEF StopUnit, Foreign
  <2>3. QED
    BY <2>1, <2>2 DEF KeepsCauses, Watched, Suspended, Alive, Foreign
<1>9. ASSUME MainReturns PROVE KeepsCauses
  <2>1. /\ child' = child /\ suspect' = suspect
        /\ \A p \in Pids : p # Self => proc'[p] = proc[p]
    BY <1>9 DEF MainReturns, TypeOK
  <2>2. QED
    BY <2>1 DEF KeepsCauses, Watched, Suspended, Alive, Foreign
<1>10. ASSUME NEW t \in Workers, ForkFails(t) PROVE KeepsCauses
  BY <1>10, IdleSteps DEF ForkFails, shared
<1>11. ASSUME Monitor PROVE KeepsCauses
  BY <1>11, IdleSteps
     DEF Monitor, ScanProcessTree, ScanFails, Scan, EndOfWalk, Visit, shared
<1>12. ASSUME Netlink PROVE KeepsCauses
  BY <1>12, IdleSteps
     DEF Netlink, Listen, ListenFails, RecvFails, RecvOther, RecvExec,
         AnalyzeSingle, CloseNetlink, shared
<1>13. ASSUME NEW t, NEW label, ControlStep(t, label) PROVE KeepsCauses
  BY <1>13, IdleSteps DEF ControlStep, shared
<1>14. ASSUME NEW t \in Workers, LoopEnds(t) PROVE KeepsCauses
  BY <1>13, <1>14, IdleSteps DEF LoopEnds, CloseNetlink
<1>15. ASSUME Sigterm \/ Burst PROVE KeepsCauses
  BY <1>15, IdleSteps DEF Sigterm, Burst, shared
<1>16. CASE Daemon
  <2>1. \A t \in Workers : System(t) => KeepsCauses
    BY <1>5, <1>6, <1>10 DEF System
  <2>2. \A t \in DOMAIN Blocks : LoopAgain(t) => KeepsCauses
    BY <1>13 DEF LoopAgain
  <2>3. \A loaded \in ModuleLoaded : Check(loaded) => KeepsCauses
    BY <1>13 DEF Check
  <2>4. InotifyInit \/ FileEvent \/ FileFails => KeepsCauses
    BY <1>13 DEF InotifyInit, FileEvent, FileFails
  <2>5. QED
    BY <1>9, <1>11, <1>12, <1>14, <1>16, <2>1, <2>2, <2>3, <2>4 DEF Daemon
<1>17. CASE Environment
  BY <1>1, <1>2, <1>4, <1>8, <1>15, <1>17 DEF Environment
<1>18. CASE UNCHANGED vars
  BY <1>18, IdleSteps DEF vars
<1>19. QED
  BY <1>7, <1>16, <1>17, <1>18 DEF Next

\* Nodes are added by a scan or for an event, and copy what is there.
LEMMA NodeSteps ==
    ASSUME Inv, [Next]_vars, NEW node \in KnownNodes'
    PROVE  \/ node \in KnownNodes
           \/ /\ \E p \in Pids, held \in [Garbled -> Held] :
                   Exists(p) /\ node = NodeOf(p, held)
              /\ UNCHANGED <<proc, child, suspect>>
<1>1. CASE ScanProcessTree
  <2>1. PICK held \in [Garbled -> Held] :
          Scan({NodeOf(p, held) : p \in {q \in Pids : Exists(q)}})
    BY <1>1 DEF ScanProcessTree
  <2>2. \/ node \in KnownNodes
        \/ node \in {NodeOf(p, held) : p \in {q \in Pids : Exists(q)}}
    BY <2>1 DEF Scan, KnownNodes
  <2>3. UNCHANGED <<proc, child, suspect>>
    BY <2>1 DEF Scan, shared
  <2>4. QED
    BY <2>2, <2>3
<1>2. CASE ScanFails
  BY <1>2 DEF ScanFails, Scan, KnownNodes
<1>3. CASE EndOfWalk \/ \E n \in current : Visit(n)
  BY <1>3 DEF EndOfWalk, Visit, KnownNodes
<1>4. CASE MainReturns
  BY <1>4 DEF MainReturns, KnownNodes
<1>5. CASE UNCHANGED list
  BY <1>5 DEF list, KnownNodes
<1>6. CASE RecvExec
  <2>1. /\ Head(queue) \in Pids
        /\ UNCHANGED <<proc, child, suspect, process_list, current>>
    BY <1>6 DEF RecvExec, Inv, TypeOK
  <2>2. \/ temp_node' = temp_node
        \/ /\ Exists(Head(queue))
           /\ \E held \in [Garbled -> Held] : temp_node' = {NodeOf(Head(queue), held)}
    BY <1>6 DEF RecvExec
  <2>3. QED
    BY <2>1, <2>2 DEF KnownNodes
<1>7. CASE \E n \in temp_node : AnalyzeSingle(n)
  BY <1>7 DEF AnalyzeSingle, KnownNodes
<1>8. CASE Netlink /\ ~RecvExec /\ ~\E n \in temp_node : AnalyzeSingle(n)
  BY <1>5, <1>8 DEF Netlink, Listen, ListenFails, RecvFails, RecvOther, CloseNetlink
<1>9. ASSUME NEW t, NEW label, ControlStep(t, label) PROVE UNCHANGED list
  BY <1>9 DEF ControlStep
<1>10. CASE Daemon /\ ~Monitor /\ ~Netlink /\ ~MainReturns
  <2>1. ASSUME NEW t \in Workers, System(t) PROVE UNCHANGED list
    BY <2>1 DEF System, Fork, ForkFails, Return, list
  <2>2. ASSUME NEW t \in Workers, LoopEnds(t) PROVE UNCHANGED list
    BY <1>9, <2>2 DEF LoopEnds, CloseNetlink
  <2>3. UNCHANGED list
    BY <1>9, <1>10, <2>1, <2>2
       DEF Daemon, Check, InotifyInit, FileEvent, FileFails, LoopAgain
  <2>4. QED
    BY <1>5, <2>3
<1>11. CASE Environment \/ (\E t \in Workers : CommandRuns(t)) \/ UNCHANGED vars
  <2>1. UNCHANGED list
    BY <1>11 DEF Environment, Spawn, Exec, Change, Becomes, Exit, Burst, Sigterm,
                 StopUnit, CommandRuns, vars, list
  <2>2. QED
    BY <1>5, <2>1
<1>12. QED
  BY <1>1, <1>2, <1>3, <1>4, <1>6, <1>7, <1>8, <1>10, <1>11
     DEF Next, Monitor, Daemon

\* The analysis of an exact node calls for quarantine if its process deserves it.
LEMMA ExactVerdict ==
    ASSUME Inv, NEW node \in Nodes, Watched(node.pid), Exact(node)
    PROVE  Quarantines(Total(node)) <=> Guilty(node.pid)
<1> DEFINE p == node.pid
           i == proc[p].img
<1>1. p # Self /\ Alive(p)
  BY DEF Watched, Foreign
<1>2. i.socket \in BOOLEAN
  BY NodesOfImages DEF Inv, Nodes
<1>3. Observed(p) = Live(i)
  BY <1>1, <1>2 DEF Observed, Live
<1>4. /\ node.comm = Static(i).comm /\ node.ppid = Static(i).ppid
      /\ node.fileless = Static(i).fileless
  BY DEF Exact, Static
<1>5. /\ crypto_miner(node, Live(i)) = crypto_miner(Static(i), Live(i))
      /\ reverse_shell(node, Live(i)) = reverse_shell(Static(i), Live(i))
      /\ privilege_esc(p, node) = privilege_esc(p, Static(i))
      /\ fileless_exec(node) = fileless_exec(Static(i))
  BY <1>4 DEF crypto_miner, reverse_shell, privilege_esc, fileless_exec
<1>6. Total(node) = analyze_process_behavior(p, Static(i), Live(i))
  BY <1>3, <1>5 DEF Total, analyze_process_behavior
<1>7. QED
  BY <1>6 DEF Guilty, GuiltyImage

\* A node that was just read is exact, if the stat line can be parsed.
LEMMA FreshNode ==
    ASSUME Inv, NEW p \in Pids, NEW held \in [Garbled -> Held], Exists(p),
           Watched(p), proc[p].img.stat = "whole"
    PROVE  Exact(NodeOf(p, held)) /\ NodeOf(p, held).pid = p
<1>1. proc[p].img.fileless \in BOOLEAN
  BY NodesOfImages DEF Inv
<1>2. QED
  BY <1>1 DEF NodeOf, Exact, Static, Watched

\* A thread gets a new target only by an analysis that calls for quarantine.
LEMMA TargetSteps ==
    ASSUME Inv, [Next]_vars, NEW t \in Threads, target'[t] # NoPid
    PROVE  \/ target'[t] = target[t]
           \/ /\ \E node \in KnownNodes : /\ target'[t] = node.pid
                                          /\ Quarantines(Total(node))
                                          /\ alerted' \in Written(alerted, {node.pid})
              /\ UNCHANGED <<proc, child, suspect>>
<1> USE DEF Inv
<1>1. ASSUME NEW u \in Threads, NEW node \in KnownNodes, NEW reports, NEW otherwise,
             Respond(u, node, reports, otherwise), UNCHANGED <<proc, child, suspect>>
      PROVE  \/ target'[t] = target[t]
             \/ /\ \E n \in KnownNodes : /\ target'[t] = n.pid
                                         /\ Quarantines(Total(n))
                                         /\ alerted' \in Written(alerted, {n.pid})
                /\ UNCHANGED <<proc, child, suspect>>
  <2>1. CASE reports /\ Quarantines(Total(node))
    <3>1. /\ target' = [target EXCEPT ![u] = node.pid]
          /\ alerted' \in Written(alerted, {node.pid})
      BY <1>1, <2>1 DEF Respond
    <3>2. t = u => target'[t] = node.pid
      BY <3>1 DEF TypeOK
    <3>3. t # u => target'[t] = target[t]
      BY <3>1 DEF TypeOK
    <3>4. QED
      BY <1>1, <2>1, <3>1, <3>2, <3>3
  <2>2. CASE ~(reports /\ Quarantines(Total(node)))
    BY <1>1, <2>2 DEF Respond
  <2>3. QED
    BY <2>1, <2>2
<1>2. ASSUME NEW u \in Workers, NEW ok \in BOOLEAN, AfterCommand(u, ok)
      PROVE  target'[t] = target[t]
  BY <1>2 DEF AfterCommand, TypeOK, NoPid
<1>3. ASSUME NEW node \in current, Visit(node)
      PROVE  /\ node \in KnownNodes
             /\ Respond("monitor", node, ScanReports(Total(node)), "walk")
             /\ UNCHANGED <<proc, child, suspect>>
  BY <1>3 DEF Visit, shared, KnownNodes, TypeOK
<1>4. ASSUME NEW node \in temp_node, AnalyzeSingle(node)
      PROVE  /\ node \in KnownNodes
             /\ Respond("netlink", node, ExecReports(Total(node)), "loop")
             /\ UNCHANGED <<proc, child, suspect>>
  BY <1>4 DEF AnalyzeSingle, shared, KnownNodes
<1>5. CASE Monitor
  <2>1. CASE \E node \in current : Visit(node)
    BY <1>1, <1>3, <2>1 DEF Threads, Workers
  <2>2. CASE ScanProcessTree \/ ScanFails \/ EndOfWalk
    BY <2>2 DEF ScanProcessTree, ScanFails, Scan, EndOfWalk
  <2>3. QED
    BY <1>5, <2>1, <2>2 DEF Monitor
<1>6. CASE Netlink
  <2>1. CASE \E node \in temp_node : AnalyzeSingle(node)
    BY <1>1, <1>4, <2>1 DEF Threads, Workers
  <2>2. CASE Listen \/ ListenFails \/ RecvFails \/ RecvOther \/ RecvExec
    BY <2>2 DEF Listen, ListenFails, RecvFails, RecvOther, RecvExec, CloseNetlink
  <2>3. QED
    BY <1>6, <2>1, <2>2 DEF Netlink
<1>7. ASSUME NEW u, NEW label, ControlStep(u, label) PROVE target' = target
  BY <1>7 DEF ControlStep
<1>8. CASE Daemon /\ ~Monitor /\ ~Netlink
  <2>1. ASSUME NEW u \in Workers, System(u) PROVE target'[t] = target[t]
    BY <1>2, <2>1, DaemonAssumption DEF System, Fork, ForkFails, Return
  <2>2. ASSUME NEW u \in Workers, LoopEnds(u) PROVE target' = target
    BY <1>7, <2>2 DEF LoopEnds, CloseNetlink
  <2>3. QED
    BY <1>7, <1>8, <2>1, <2>2
       DEF Daemon, Check, InotifyInit, FileEvent, FileFails, LoopAgain,
           MainReturns
<1>9. CASE Environment
  BY <1>9 DEF Environment, Spawn, Exec, Change, Becomes, Exit, Burst, Sigterm, StopUnit
<1>10. CASE \E u \in Workers : CommandRuns(u)
  BY <1>10 DEF CommandRuns
<1>11. CASE UNCHANGED vars
  BY <1>11 DEF vars
<1>12. QED
  BY <1>5, <1>6, <1>8, <1>9, <1>10, <1>11 DEF Next

LEMMA CauseInit == Init => CauseInv
<1> SUFFICES ASSUME Init PROVE CauseInv
  OBVIOUS
<1>1. \A p \in Pids : ~Watched(p)
  BY DEF Init, Watched, Alive, Foreign, Process, Unused
<1>2. KnownNodes = {} /\ \A t \in Threads : target[t] = NoPid
  BY DEF Init, KnownNodes
<1>3. QED
  BY <1>1, <1>2
     DEF CauseInv, GuiltyInv, NodesInv, TargetsInv, SuspendedForCause, Suspended,
         Watched, Alive

LEMMA CauseStep ==
    ASSUME Inv, CauseInv, [Next]_vars
    PROVE  CauseInv'
<1> USE DEF CauseInv, Inv
<1>1. KeepsCauses
  BY CauseKeepingSteps
<1>2. GuiltyInv'
  <2> SUFFICES ASSUME NEW p \in Pids, Watched(p)',
                      Guilty(p)' \/ proc'[p].img.stat # "whole"
               PROVE  p \in suspect'
    BY DEF GuiltyInv
  <2>1. CASE Watched(p) /\ proc'[p].img = proc[p].img
    <3>1. p \in suspect
      BY <2>1 DEF GuiltyInv, Guilty
    <3>2. QED
      BY <1>1, <2>1, <3>1 DEF KeepsCauses
  <2>2. QED
    BY <1>1, <2>1 DEF KeepsCauses
<1>3. NodesInv'
  <2> SUFFICES ASSUME NEW node \in KnownNodes', Watched(node.pid)',
                      node.pid \notin suspect'
               PROVE  Exact(node)'
    BY DEF NodesInv
  <2>1. CASE node \in KnownNodes
    <3>1. node.pid \in Pids /\ node.pid \in NodePids
      BY <2>1 DEF KnownNodes, NodePids, TypeOK, Nodes
    <3>2. Watched(node.pid)
      BY <1>1, <3>1 DEF KeepsCauses, KnownPids
    <3>3. node.pid \notin suspect /\ Static(proc'[node.pid].img) = Static(proc[node.pid].img)
      BY <1>1, <3>1, <3>2 DEF KeepsCauses
    <3>4. Exact(node)
      BY <2>1, <3>2, <3>3 DEF NodesInv
    <3>5. QED
      BY <3>3, <3>4 DEF Exact
  <2>2. CASE /\ \E p \in Pids, held \in [Garbled -> Held] :
                  Exists(p) /\ node = NodeOf(p, held)
             /\ UNCHANGED <<proc, child, suspect>>
    <3>1. PICK p \in Pids, held \in [Garbled -> Held] :
            Exists(p) /\ node = NodeOf(p, held)
      BY <2>2
    <3>2. node.pid = p
      BY <3>1, NodesOfProcesses
    <3>3. Watched(p) /\ p \notin suspect
      BY <2>2, <3>2 DEF Watched, Alive, Foreign
    <3>4. proc[p].img.stat = "whole"
      BY <3>3 DEF GuiltyInv
    <3>5. Exact(node)
      BY <3>1, <3>3, <3>4, FreshNode
    <3>6. QED
      BY <2>2, <3>5 DEF Exact
  <2>3. QED
    BY <2>1, <2>2, NodeSteps
<1>4. TargetsInv'
  <2> SUFFICES ASSUME NEW t \in Threads, target'[t] # NoPid, Watched(target[t])'
               PROVE  target'[t] \in suspect'
    BY DEF TargetsInv
  <2>1. target'[t] \in Pids
    BY DaemonTypesStep DEF TypeOK
  <2>2. CASE target'[t] = target[t]
    <3> DEFINE p == target[t]
    <3>1. p \in Pids /\ p \in KnownPids
      BY <2>1, <2>2 DEF KnownPids
    <3>2. CASE ~Watched(p)
      BY <1>1, <2>2, <3>1, <3>2 DEF KeepsCauses
    <3>3. CASE Watched(p)
      <4>1. p \in suspect
        BY <2>2, <3>3 DEF TargetsInv
      <4>2. QED
        BY <1>1, <2>2, <3>1, <3>3, <4>1 DEF KeepsCauses
    <3>4. QED
      BY <3>2, <3>3
  <2>3. CASE /\ \E node \in KnownNodes : /\ target'[t] = node.pid
                                         /\ Quarantines(Total(node))
             /\ UNCHANGED <<proc, child, suspect>>
    <3>1. PICK node \in KnownNodes : target'[t] = node.pid /\ Quarantines(Total(node))
      BY <2>3
    <3>2. Watched(node.pid) /\ node \in Nodes
      BY <2>3, <3>1 DEF Watched, Alive, Foreign, KnownNodes, TypeOK
    <3>3. CASE Exact(node)
      <4>1. Guilty(node.pid)
        BY <3>1, <3>2, <3>3, ExactVerdict
      <4>2. QED
        BY <2>1, <2>3, <3>1, <3>2, <4>1 DEF GuiltyInv
    <3>4. CASE node.pid \in suspect
      BY <2>3, <3>1, <3>4
    <3>5. QED
      BY <3>2, <3>3, <3>4 DEF NodesInv
  <2>4. QED
    BY <2>2, <2>3, TargetSteps
<1>5. SuspendedForCause'
  <2> SUFFICES ASSUME NEW p \in Pids, Suspended(p)' PROVE p \in suspect'
    BY DEF SuspendedForCause
  <2>1. Watched(p)'
    BY DEF Watched, Suspended, Alive, Foreign
  <2>2. CASE Suspended(p)
    <3>1. p \in suspect /\ Watched(p)
      BY <2>2 DEF SuspendedForCause, Watched, Suspended, Alive
    <3>2. QED
      BY <1>1, <2>1, <3>1 DEF KeepsCauses
  <2>3. CASE Watched(p) /\ \E t \in Threads : target[t] = p
    <3>1. p \in suspect
      BY <2>3, DaemonAssumption DEF TargetsInv, NoPid
    <3>2. QED
      BY <1>1, <2>1, <2>3, <3>1 DEF KeepsCauses
  <2>4. QED
    BY <1>1, <2>1, <2>2, <2>3 DEF KeepsCauses
<1>6. QED
  BY <1>2, <1>3, <1>4, <1>5

(***************************************************************************)
(* Whatever the machine does, and whenever ids are given out again, only a *)
(* suspect is suspended: a process whose own total called for it at some   *)
(* moment of its life, whose stat line cannot be parsed, or that took the  *)
(* place of what the daemon was still going to decide on.  The nodes may   *)
(* be scans old, calls may fail, and the two detection paths may           *)
(* interleave in any way with each other.                                  *)
(***************************************************************************)
THEOREM OnlySuspects == Spec => []SuspendedForCause
<1>1. Init => CauseInv
  BY CauseInit
<1>2. Inv /\ CauseInv /\ [Next]_vars => CauseInv'
  BY CauseStep
<1>3. CauseInv => SuspendedForCause
  BY DEF CauseInv
<1>4. Spec => []Inv
  BY DaemonTypes, PTL DEF Inv
<1>5. QED
  BY <1>1, <1>2, <1>3, <1>4, PTL DEF Spec
-----------------------------------------------------------------------------
(***************************************************************************)
(* Why no process is suspended silently.  A thread has written the line    *)
(* before it has a target; the line remains that of the target as long as  *)
(* the id is not given out again.                                          *)
(***************************************************************************)
Known(p) == proc[p].status # "unused"

Taken(p) == p \notin FreePids

NodesTaken   == \A node \in KnownNodes : Taken(node.pid)
TargetsTaken == \A t \in Threads : target[t] # NoPid => Taken(target[t])

TakenInv == NodesTaken /\ TargetsTaken

TargetsReported == \A t \in Threads : target[t] # NoPid => target[t] \in alerted

ReportInv == TakenInv /\ TargetsReported /\ SuspendedWasReported

\* What every step leaves of the ids and of the reports.
KeepsReports ==
    \A p \in Pids :
      /\ PidReuse = "never" /\ Known(p) => Known(p)'
      /\ Taken(p) /\ p \in alerted => p \in alerted'
      /\ Suspended(p)' => Suspended(p) \/ \E t \in Threads : target[t] = p

\* An id the daemon goes on using is not free, unless ids are given out early.
LEMMA TakenStays ==
    ASSUME PidReuse # "early", KeepsReports, NEW p \in Pids, Taken(p),
           (p \in KnownPids)'
    PROVE  Taken(p)'
<1>1. CASE PidReuse = "late"
  BY <1>1 DEF Taken, FreePids
<1>2. CASE PidReuse = "never"
  BY <1>2 DEF Taken, FreePids, Known, KeepsReports
<1>3. QED
  BY <1>1, <1>2, DaemonAssumption

\* The steps that neither start nor end a process, nor forget a report.
LEMMA QuietSteps ==
    ASSUME UNCHANGED <<proc, child>>, alerted \subseteq alerted'
    PROVE  KeepsReports
  BY DEF KeepsReports, Known, Suspended, Foreign

LEMMA ReportKeepingSteps ==
    ASSUME Inv, [Next]_vars
    PROVE  KeepsReports
<1> USE DEF Inv
<1>1. ASSUME NEW p \in Pids, NEW image, Starts(p, image), ~Known(p), ~Taken(p),
             \A q \in Pids : q # p /\ Foreign(q)' => Foreign(q)
      PROVE  KeepsReports
  <2>1. /\ proc'[p].status = "running"
        /\ \A q \in Pids : q # p => proc'[q] = proc[q]
        /\ alerted' = alerted \ {p}
    BY <1>1 DEF Starts, TypeOK, Process
  <2>2. QED
    BY <1>1, <2>1 DEF KeepsReports, Known, Suspended
<1>2. ASSUME NEW p \in Pids, proc' = [proc EXCEPT ![p] = Freed],
             alerted' = alerted,
             \A q \in Pids : q # p /\ Foreign(q)' => Foreign(q)
      PROVE  KeepsReports
  <2>1. /\ Freed.status \in {"gone", "unused"}
        /\ PidReuse = "never" => Freed.status = "gone"
    BY DEF Freed, Process
  <2>2. /\ proc'[p].status \in {"gone", "unused"}
        /\ PidReuse = "never" => proc'[p].status = "gone"
        /\ \A q \in Pids : q # p => proc'[q] = proc[q]
    BY <1>2, <2>1 DEF TypeOK
  <2>3. QED
    BY <1>2, <2>2 DEF KeepsReports, Known, Suspended
<1>3. ASSUME NEW p \in Pids, NEW image \in Images, Spawn(p, image)
      PROVE  KeepsReports
  BY <1>1, <1>3 DEF Spawn, FreePid, FreePids, Taken, Known, Foreign
<1>4. ASSUME NEW p \in Pids, NEW image \in Images, Exec(p, image) \/ Change(p, image)
      PROVE  KeepsReports
  <2>1. /\ Becomes(p, image) /\ alerted' = alerted /\ child' = child
    BY <1>4 DEF Exec, Change, Becomes, log
  <2>2. /\ proc'[p].status = proc[p].status
        /\ \A q \in Pids : q # p => proc'[q] = proc[q]
    BY <2>1 DEF Becomes, TypeOK
  <2>3. QED
    BY <2>1, <2>2 DEF KeepsReports, Known, Suspended, Foreign
<1>5. ASSUME NEW p \in Pids, Exit(p) PROVE KeepsReports
  BY <1>2, <1>5 DEF Exit, log, Foreign
<1>6. ASSUME NEW t \in Workers, NEW p \in Pids, Fork(t, p) PROVE KeepsReports
  <2>1. /\ Starts(p, OwnImage(Self, HasSocket)) /\ ~Known(p) /\ ~Taken(p)
        /\ child[t] = NoPid /\ child' = [child EXCEPT ![t] = p]
    BY <1>6 DEF Fork, FreePid, FreePids, Taken, Known
  <2>2. \A q \in Pids : q # p /\ Foreign(q)' => Foreign(q)
    BY <2>1, DaemonAssumption DEF Foreign, NoPid, TypeOK
  <2>3. QED
    BY <1>1, <2>1, <2>2
<1>7. ASSUME NEW t \in Workers, NEW ok, Return(t, ok) PROVE KeepsReports
  <2>1. /\ child[t] \in Pids /\ alerted' = alerted
        /\ proc' = [proc EXCEPT ![child[t]] = Freed]
        /\ child' = [child EXCEPT ![t] = NoPid]
    BY <1>7 DEF Return, TypeOK, Threads
  <2>2. \A q \in Pids : q # child[t] /\ Foreign(q)' => Foreign(q)
    BY <2>1 DEF Foreign, TypeOK
  <2>3. QED
    BY <1>2, <2>1, <2>2
<1>8. ASSUME NEW t \in Workers, CommandRuns(t) PROVE KeepsReports
  <2>1. child' = child /\ alerted' = alerted /\ t \in Threads
    BY <1>8 DEF CommandRuns, log, Threads
  <2>2. \A p \in Pids :
           \/ proc'[p] = [proc[p] EXCEPT !.status = "stopped"] /\ Alive(p)
                /\ p = target[t]
           \/ proc'[p] = [proc[p] EXCEPT !.status = "zombie"] /\ p = child[t]
           \/ proc'[p] = proc[p]
    BY <1>8 DEF CommandRuns
  <2>3. \A p \in Pids :
           \/ proc'[p].status = "stopped" /\ Alive(p) /\ p = target[t]
           \/ proc'[p].status = "zombie" /\ p = child[t]
           \/ proc'[p] = proc[p]
    BY <2>2 DEF TypeOK
  <2>4. QED
    BY <2>1, <2>3 DEF KeepsReports, Known, Suspended, Alive, Foreign
<1>9. ASSUME StopUnit PROVE KeepsReports
  <2>1. child' = child /\ alerted' = alerted
    BY <1>9 DEF StopUnit, log
  <2>2. \A p \in Pids :
           \/ p = Self /\ proc'[p] = [proc[p] EXCEPT !.status = "running"]
           \/ ~Foreign(p) /\ proc'[p] = [proc[p] EXCEPT !.status = "zombie"]
           \/ proc'[p] = proc[p]
    BY <1>9 DEF StopUnit
  <2>3. \A p \in Pids : \/ ~Foreign(p) /\ proc'[p].status \in {"running", "zombie"}
                        \/ proc'[p] = proc[p]
    BY <2>2 DEF TypeOK, Foreign
  <2>4. QED
    BY <2>1, <2>3 DEF KeepsReports, Known, Suspended, Foreign
<1>10. ASSUME MainReturns PROVE KeepsReports
  <2>1. /\ child' = child /\ alerted' = alerted
        /\ proc'[Self].status = "gone"
        /\ \A p \in Pids : p # Self => proc'[p] = proc[p]
    BY <1>10, DaemonAssumption DEF MainReturns, TypeOK, log, Process
  <2>2. QED
    BY <2>1 DEF KeepsReports, Known, Suspended, Foreign
<1>11. ASSUME NEW t \in Workers, ForkFails(t) PROVE KeepsReports
  BY <1>11, QuietSteps DEF ForkFails, shared
<1>12. ASSUME Monitor PROVE KeepsReports
  <2>1. CASE \E node \in current : Visit(node)
    BY <2>1, QuietSteps, WrittenLines DEF Visit, Respond, shared
  <2>2. CASE ScanProcessTree \/ ScanFails \/ EndOfWalk
    BY <2>2, QuietSteps DEF ScanProcessTree, ScanFails, Scan, EndOfWalk, shared, log
  <2>3. QED
    BY <1>12, <2>1, <2>2 DEF Monitor
<1>13. ASSUME Netlink PROVE KeepsReports
  <2>1. CASE \E node \in temp_node : AnalyzeSingle(node)
    BY <2>1, QuietSteps, WrittenLines DEF AnalyzeSingle, Respond, shared
  <2>2. CASE Listen \/ ListenFails \/ RecvFails \/ RecvOther \/ RecvExec
    BY <2>2, QuietSteps
       DEF Listen, ListenFails, RecvFails, RecvOther, RecvExec, CloseNetlink,
           shared, log
  <2>3. QED
    BY <1>13, <2>1, <2>2 DEF Netlink
<1>14. ASSUME NEW t, NEW label, ControlStep(t, label) PROVE KeepsReports
  BY <1>14, QuietSteps DEF ControlStep, shared, log
<1>15. ASSUME NEW t \in Workers, LoopEnds(t) PROVE KeepsReports
  BY <1>14, <1>15, QuietSteps DEF LoopEnds, CloseNetlink, log
<1>16. ASSUME Sigterm \/ Burst PROVE KeepsReports
  BY <1>16, QuietSteps DEF Sigterm, Burst, shared, log
<1>17. CASE Daemon
  <2>1. \A t \in Workers : System(t) => KeepsReports
    BY <1>6, <1>7, <1>11 DEF System
  <2>2. \A t \in DOMAIN Blocks : LoopAgain(t) => KeepsReports
    BY <1>14 DEF LoopAgain
  <2>3. \A loaded \in ModuleLoaded : Check(loaded) => KeepsReports
    BY <1>14 DEF Check
  <2>4. InotifyInit \/ FileEvent \/ FileFails => KeepsReports
    BY <1>14 DEF InotifyInit, FileEvent, FileFails
  <2>5. QED
    BY <1>10, <1>12, <1>13, <1>15, <1>17, <2>1, <2>2, <2>3, <2>4 DEF Daemon
<1>18. CASE Environment
  BY <1>3, <1>4, <1>5, <1>9, <1>16, <1>18 DEF Environment
<1>19. CASE UNCHANGED vars
  BY <1>19, QuietSteps DEF vars
<1>20. QED
  BY <1>8, <1>17, <1>18, <1>19 DEF Next

LEMMA ReportInit == Init => ReportInv
  BY DEF Init, ReportInv, TakenInv, NodesTaken, TargetsTaken, KnownNodes,
         TargetsReported, SuspendedWasReported, Suspended, Process, Unused

LEMMA TakenStep ==
    ASSUME Inv, TakenInv, PidReuse # "early", [Next]_vars
    PROVE  TakenInv'
<1> USE DEF TakenInv, Inv
<1>1. KeepsReports
  BY ReportKeepingSteps
<1>2. NodesTaken'
  <2> SUFFICES ASSUME NEW node \in KnownNodes' PROVE Taken(node.pid)'
    BY DEF NodesTaken
  <2>1. (node.pid \in KnownPids)'
    BY DEF KnownPids, NodePids
  <2>2. CASE node \in KnownNodes
    <3>1. node.pid \in Pids /\ Taken(node.pid)
      BY <2>2 DEF KnownNodes, NodesTaken, TypeOK, Nodes
    <3>2. QED
      BY <1>1, <2>1, <3>1, TakenStays DEF Taken
  <2>3. CASE /\ \E p \in Pids, held \in [Garbled -> Held] :
                  Exists(p) /\ node = NodeOf(p, held)
             /\ UNCHANGED <<proc, child, suspect>>
    <3>1. PICK p \in Pids, held \in [Garbled -> Held] :
            Exists(p) /\ node = NodeOf(p, held)
      BY <2>3
    <3>2. node.pid = p
      BY <3>1, NodesOfProcesses
    <3>3. proc'[p].status # "unused"
      BY <2>3, <3>1 DEF Exists
    <3>4. QED
      BY <3>2, <3>3 DEF Taken, FreePids
  <2>4. QED
    BY <2>2, <2>3, NodeSteps
<1>3. TargetsTaken'
  <2> SUFFICES ASSUME NEW t \in Threads, target'[t] # NoPid
               PROVE  Taken(target[t])'
    BY DEF TargetsTaken
  <2>1. PICK p : p = target'[t] /\ (p \in KnownPids)'
    BY DEF KnownPids
  <2>2. p \in Pids
    BY <2>1, DaemonTypesStep DEF TypeOK
  <2>3. Taken(p)
    BY <2>1, TargetSteps DEF TargetsTaken, NodesTaken
  <2>4. Taken(p)'
    BY <1>1, <2>1, <2>2, <2>3, TakenStays
  <2>5. QED
    BY <2>1, <2>4 DEF Taken
<1>4. QED
  BY <1>2, <1>3

LEMMA ReportStep ==
    ASSUME Inv, ReportInv, PidReuse # "early", "log" \notin Failures, [Next]_vars
    PROVE  ReportInv'
<1> USE DEF ReportInv, Inv
<1>1. KeepsReports
  BY ReportKeepingSteps
<1>2. TakenInv'
  BY TakenStep
<1>3. TargetsReported'
  <2> SUFFICES ASSUME NEW t \in Threads, target'[t] # NoPid
               PROVE  target'[t] \in alerted'
    BY DEF TargetsReported
  <2>1. CASE target'[t] = target[t]
    <3>1. PICK p \in Pids : p = target[t] /\ Taken(p) /\ p \in alerted
      BY <2>1 DEF TakenInv, TargetsTaken, TargetsReported, TypeOK
    <3>2. QED
      BY <1>1, <2>1, <3>1 DEF KeepsReports
  <2>2. CASE \E node \in KnownNodes : /\ target'[t] = node.pid
                                      /\ alerted' \in Written(alerted, {node.pid})
    BY <2>2, WrittenLines
  <2>3. QED
    BY <2>1, <2>2, TargetSteps
<1>4. SuspendedWasReported'
  <2> SUFFICES ASSUME NEW p \in Pids, Suspended(p)' PROVE p \in alerted'
    BY DEF SuspendedWasReported
  <2>1. CASE Suspended(p)
    <3>1. p \in alerted /\ Taken(p)
      BY <2>1 DEF SuspendedWasReported, Suspended, Taken, FreePids
    <3>2. QED
      BY <1>1, <3>1 DEF KeepsReports
  <2>2. CASE \E t \in Threads : target[t] = p
    <3>1. p # NoPid
      BY DaemonAssumption DEF NoPid
    <3>2. p \in alerted /\ Taken(p)
      BY <2>2, <3>1 DEF TargetsReported, TakenInv, TargetsTaken
    <3>3. QED
      BY <1>1, <3>2 DEF KeepsReports
  <2>3. QED
    BY <1>1, <2>1, <2>2 DEF KeepsReports
<1>5. QED
  BY <1>2, <1>3, <1>4

(***************************************************************************)
(* As long as the log can be opened, and no id is given to a second        *)
(* process while the daemon has a use for it, no process is suspended      *)
(* before the log tells of it, however the threads interleave.             *)
(***************************************************************************)
THEOREM SuspensionsReported ==
    ASSUME PidReuse # "early", "log" \notin Failures
    PROVE  Spec => []SuspendedWasReported
<1>1. Init => ReportInv
  BY ReportInit
<1>2. Inv /\ ReportInv /\ [Next]_vars => ReportInv'
  BY ReportStep
<1>3. ReportInv => SuspendedWasReported
  BY DEF ReportInv
<1>4. Spec => []Inv
  BY DaemonTypes, PTL DEF Inv
<1>5. QED
  BY <1>1, <1>2, <1>3, <1>4, PTL DEF Spec
-----------------------------------------------------------------------------
(***************************************************************************)
(* The events of processes that execute a file.  The netlink thread has a  *)
(* node at a time, and only while it analyses it.                          *)
(***************************************************************************)
TempInv == /\ temp_node # {} => pc["netlink"] = "analyze"
           /\ \A m, n \in temp_node : m = n

LEMMA TempStep ==
    ASSUME Inv, TempInv, [Next]_vars
    PROVE  TempInv'
<1> USE DEF Inv, TempInv
<1>1. ASSUME UNCHANGED temp_node, pc'["netlink"] = pc["netlink"] \/ temp_node = {}
      PROVE  TempInv'
  BY <1>1
<1>2. ASSUME NEW t \in Threads, NEW label, Goto(t, label), UNCHANGED temp_node,
             t = "netlink" => pc[t] # "analyze"
      PROVE  TempInv'
  BY <1>1, <1>2 DEF Goto, TypeOK
<1>3. ASSUME CloseNetlink, pc["netlink"] # "analyze" PROVE TempInv'
  BY <1>2, <1>3 DEF CloseNetlink, list, Threads, Workers
<1>4. ASSUME NEW t \in Threads, NEW label, ControlStep(t, label),
             t = "netlink" => pc[t] # "analyze"
      PROVE  TempInv'
  BY <1>2, <1>4 DEF ControlStep, list
<1>5. ASSUME NEW t \in Workers, NEW ok, pc[t] \in Commands, AfterCommand(t, ok),
             UNCHANGED temp_node
      PROVE  TempInv'
  <2>1. \E label : Goto(t, label)
    BY <1>5 DEF AfterCommand
  <2>2. pc[t] # "analyze" /\ t \in Threads
    BY <1>5 DEF Commands, Threads
  <2>3. QED
    BY <1>2, <1>5, <2>1, <2>2
<1>6. ASSUME NEW t \in Workers, System(t) PROVE TempInv'
  <2>1. ASSUME NEW p \in Pids, Fork(t, p) PROVE TempInv'
    BY <1>1, <2>1 DEF Fork, list
  <2>2. CASE ForkFails(t)
    BY <1>5, <2>2 DEF ForkFails, list
  <2>3. ASSUME NEW ok, Return(t, ok) PROVE TempInv'
    <3>1. pc[t] \in Commands
      BY <2>3 DEF Return, ShellsInv, Threads
    <3>2. QED
      BY <1>5, <2>3, <3>1 DEF Return, list
  <2>4. QED
    BY <1>6, <2>1, <2>2, <2>3 DEF System
<1>7. CASE Monitor
  <2>1. ASSUME NEW label, Goto("monitor", label), UNCHANGED temp_node PROVE TempInv'
    BY <1>2, <2>1 DEF Threads, Workers
  <2>2. QED
    BY <1>7, <2>1 DEF Monitor, ScanProcessTree, ScanFails, Scan, EndOfWalk, Visit,
       Respond
<1>8. CASE Netlink
  <2>1. CASE \E node \in temp_node : AnalyzeSingle(node)
    BY <2>1 DEF AnalyzeSingle
  <2>2. CASE RecvExec
    <3>1. temp_node = {}
      BY <2>2 DEF RecvExec, At
    <3>2. CASE \E node : temp_node' = {node} /\ Goto("netlink", "analyze")
      BY <3>2 DEF Goto, TypeOK, Threads, Workers
    <3>3. CASE temp_node' = temp_node
      BY <3>1, <3>3
    <3>4. QED
      BY <2>2, <3>2, <3>3 DEF RecvExec
  <2>3. CASE Listen \/ RecvOther
    <3>1. CASE Listen
      BY <1>2, <3>1 DEF Listen, At, list, Threads, Workers
    <3>2. CASE RecvOther
      BY <1>2, <3>2 DEF RecvOther, At, list, Threads, Workers
    <3>3. QED
      BY <2>3, <3>1, <3>2
  <2>4. CASE ListenFails \/ RecvFails
    BY <1>3, <2>4 DEF ListenFails, RecvFails, At
  <2>5. QED
    BY <1>8, <2>1, <2>2, <2>3, <2>4 DEF Netlink
<1>9. CASE \/ \E loaded \in ModuleLoaded : Check(loaded)
           \/ InotifyInit \/ FileEvent \/ FileFails
  BY <1>4, <1>9 DEF Check, InotifyInit, FileEvent, FileFails, Threads, Workers
<1>10. ASSUME NEW t \in DOMAIN Blocks, LoopAgain(t) PROVE TempInv'
  BY <1>4, <1>10 DEF LoopAgain, At, Blocks, Threads, Workers
<1>11. ASSUME NEW t \in Workers, LoopEnds(t) PROVE TempInv'
  <2>1. pc[t] = "loop" /\ t \in Threads
    BY <1>11 DEF LoopEnds, At, Threads
  <2>2. QED
    BY <1>3, <1>4, <1>11, <2>1 DEF LoopEnds
<1>12. CASE MainReturns
  BY <1>2, <1>12 DEF MainReturns, Threads
<1>13. CASE Environment \/ (\E t \in Workers : CommandRuns(t)) \/ UNCHANGED vars
  <2>1. UNCHANGED <<temp_node, pc>>
    BY <1>13 DEF Environment, Spawn, Exec, Change, Becomes, Exit, Burst, Sigterm,
                 StopUnit, CommandRuns, vars, list
  <2>2. QED
    BY <1>1, <2>1
<1>14. QED
  BY <1>6, <1>7, <1>8, <1>9, <1>10, <1>11, <1>12, <1>13 DEF Next, Daemon

LEMMA TempAlways == Spec => []TempInv
<1>1. Init => TempInv
  BY DEF Init, TempInv
<1>2. Spec => []Inv
  BY DaemonTypes, PTL DEF Inv
<1>3. Inv /\ TempInv /\ [Next]_vars => TempInv'
  BY TempStep
<1>4. QED
  BY <1>1, <1>2, <1>3, PTL DEF Spec

\* What calls for quarantine on sight is reported, whatever else is observed.
LEMMA SightVerdict ==
    ASSUME Inv, NEW p \in Pids, GuiltyOnSight(p), NEW node, node.pid = p, Exact(node)
    PROVE  ExecReports(Total(node))
<1> DEFINE static == Static(proc[p].img)
           live == Observed(p)
<1>1. /\ node.comm = static.comm /\ node.ppid = static.ppid
      /\ node.fileless = static.fileless
  BY DEF Exact, Static
<1>2. live.entropy \in Nat
  BY NodesOfImages DEF Inv, Observed, NothingLive, ImageFields
<1>3. memory_anomaly(live) \in Nat /\ memory_anomaly(NothingLive) = 0
  BY <1>2 DEF memory_anomaly, NothingLive
<1>4. /\ crypto_miner(static, NothingLive) \in Nat
      /\ crypto_miner(node, live) \in Nat
      /\ crypto_miner(node, live) >= crypto_miner(static, NothingLive)
  BY <1>1 DEF crypto_miner, NothingLive
<1>5. reverse_shell(static, NothingLive) = 0 /\ reverse_shell(node, live) \in Nat
  BY DEF reverse_shell, NothingLive
<1>6. /\ privilege_esc(p, node) = privilege_esc(p, static)
      /\ privilege_esc(p, static) \in Nat
      /\ fileless_exec(node) = fileless_exec(static)
      /\ fileless_exec(static) \in Nat
  BY <1>1 DEF privilege_esc, fileless_exec
<1>7. analyze_process_behavior(p, static, NothingLive) >= 80
  BY DEF GuiltyOnSight, Quarantines
<1>8. Total(node) = crypto_miner(node, live) + reverse_shell(node, live)
                      + privilege_esc(p, node) + fileless_exec(node)
                      + memory_anomaly(live)
  BY DEF Total, analyze_process_behavior
<1> HIDE DEF static, live
<1>9. Total(node) >= 80 /\ Total(node) \in Int
  BY <1>3, <1>4, <1>5, <1>6, <1>7, <1>8 DEF analyze_process_behavior
<1>10. QED
  BY <1>9 DEF ExecReports

\* An event finds room in the buffer, or overruns it; those there stay.
LEMMA EventCatches ==
    ASSUME Inv, NetlinkOpen, NEW q \in Pids, ExecEvent(q)
    PROVE  /\ Waits(q)' \/ overrun'
           /\ \A p \in Pids : Waits(p) => Waits(p)'
           /\ overrun => overrun'
<1> USE DEF Inv
<1>1. queue \in Seq(Pids)
  BY DEF TypeOK
<1>2. CASE Len(queue) < QueueCap
  <2>1. queue' = Append(queue, q)
    BY <1>2 DEF ExecEvent
  <2>2. Len(queue) + 1 \in DOMAIN queue' /\ queue'[Len(queue) + 1] = q
    BY <1>1, <2>1
  <2>3. \A i \in DOMAIN queue : i \in DOMAIN queue' /\ queue'[i] = queue[i]
    BY <1>1, <2>1
  <2>4. QED
    BY <2>2, <2>3 DEF Waits, ExecEvent
<1>3. CASE ~(Len(queue) < QueueCap)
  <2>1. Len(queue) >= QueueCap /\ queue' = queue
    BY <1>1, <1>3, DaemonAssumption DEF ExecEvent
  <2>2. QED
    BY <2>1 DEF ExecEvent, Waits
<1>4. QED
  BY <1>2, <1>3

LEMMA ExecCatches ==
    ASSUME Inv, NetlinkOpen, NEW p \in Pids, NEW image \in Images, Exec(p, image)
    PROVE  Caught(p)'
<1>1. ExecEvent(p)
  BY DEF Exec
<1>2. QED
  BY <1>1, EventCatches DEF Caught

\* The steps that take neither events nor nodes nor reports away.
LEMMA StaysCaught ==
    ASSUME NEW p \in Pids, NetlinkOpen, Caught(p),
           Static(proc[p].img)' = Static(proc[p].img),
           Waits(p) => Waits(p)', overrun => overrun', UNCHANGED temp_node,
           p \in alerted => p \in alerted'
    PROVE  Caught(p)'
  BY DEF Caught, InAnalysis

\* The next event is taken: its node is read, and is the process's own.
LEMMA CaughtByRecv ==
    ASSUME Inv, TempInv, NEW p \in Pids, RecvExec, GuiltyOnSight(p), Caught(p),
           NetlinkOpen
    PROVE  Caught(p)'
<1> USE DEF Inv
<1>1. /\ queue \in Seq(Pids) /\ queue # <<>> /\ queue' = Tail(queue)
      /\ UNCHANGED <<proc, overrun, alerted>> /\ temp_node = {}
  BY DEF RecvExec, TypeOK, log, TempInv, At
<1>2. CASE p = Head(queue)
  <2>1. Exists(p) /\ Watched(p) /\ proc[p].img.stat = "whole"
    BY DEF GuiltyOnSight, Watched, Alive, Exists
  <2>2. PICK held \in [Garbled -> Held] : temp_node' = {NodeOf(p, held)}
    BY <1>2, <2>1 DEF RecvExec
  <2>3. Exact(NodeOf(p, held)) /\ NodeOf(p, held).pid = p
    BY <2>1, FreshNode
  <2>4. InAnalysis(p)'
    BY <1>1, <2>2, <2>3 DEF InAnalysis, Exact
  <2>5. QED
    BY <2>4 DEF Caught
<1>3. CASE p # Head(queue) /\ Waits(p)
  <2>1. PICK i \in 1..Len(queue) : queue[i] = p
    BY <1>1, <1>3 DEF Waits
  <2>2. i # 1
    BY <1>1, <1>3, <2>1
  <2>3. i - 1 \in DOMAIN queue' /\ queue'[i - 1] = p
    BY <1>1, <2>1, <2>2
  <2>4. QED
    BY <2>3 DEF Caught, Waits
<1>4. CASE ~Waits(p)
  <2>1. ~InAnalysis(p)
    BY <1>1 DEF InAnalysis
  <2>2. QED
    BY <1>1, <1>4, <2>1 DEF Caught
<1>5. QED
  BY <1>2, <1>3, <1>4

\* The analysis of the node reports it.
LEMMA CaughtByAnalysis ==
    ASSUME Inv, TempInv, "log" \notin Failures, NEW p \in Pids,
           NEW node \in temp_node, AnalyzeSingle(node), GuiltyOnSight(p), Caught(p),
           NetlinkOpen
    PROVE  Caught(p)'
<1>1. /\ UNCHANGED <<proc, queue, overrun>>
      /\ alerted' = alerted \cup (IF ExecReports(Total(node)) THEN {node.pid} ELSE {})
  BY WrittenLines DEF AnalyzeSingle, Respond, shared
<1>2. CASE InAnalysis(p)
  <2>1. node.pid = p /\ Exact(node)
    BY <1>2 DEF InAnalysis, Exact, TempInv
  <2>2. ExecReports(Total(node))
    BY <2>1, SightVerdict
  <2>3. QED
    BY <1>1, <2>1, <2>2 DEF Caught
<1>3. CASE ~InAnalysis(p)
  BY <1>1, <1>3 DEF Caught, Waits
<1>4. QED
  BY <1>2, <1>3

LEMMA CaughtStep ==
    ASSUME Inv, TempInv, [Next]_vars, "log" \notin Failures, NEW p \in Pids,
           NetlinkOpen, GuiltyOnSight(p)',
           \/ \E image \in Images : Exec(p, image)
           \/ GuiltyOnSight(p) /\ Caught(p)
                /\ Static(proc[p].img)' = Static(proc[p].img)
    PROVE  Caught(p)'
<1> USE DEF Inv
<1>1. CASE \E image \in Images : Exec(p, image)
  BY <1>1, ExecCatches
<1> SUFFICES ASSUME GuiltyOnSight(p), Caught(p),
                    Static(proc[p].img)' = Static(proc[p].img)
             PROVE  Caught(p)'
  BY <1>1
<1>2. Watched(p) /\ proc[p].status # "unused"
  BY DEF GuiltyOnSight, Watched, Alive
<1>3. ASSUME UNCHANGED <<queue, overrun, temp_node>>, p \in alerted => p \in alerted'
      PROVE  Caught(p)'
  BY <1>3, StaysCaught DEF Waits
<1>4. ASSUME NEW q \in Pids, ExecEvent(q), UNCHANGED temp_node,
             p \in alerted => p \in alerted'
      PROVE  Caught(p)'
  BY <1>4, EventCatches, StaysCaught
<1>5. ASSUME NEW q \in Pids, NEW image, Starts(q, image), proc[q].status = "unused"
      PROVE  p \in alerted => p \in alerted'
  BY <1>2, <1>5 DEF Starts
<1>6. ASSUME CloseNetlink PROVE Caught(p)'
  BY <1>6 DEF CloseNetlink, Goto, Caught, NetlinkOpen, TypeOK, Threads, Workers
<1>7. ASSUME NEW t, NEW label, ControlStep(t, label) PROVE Caught(p)'
  BY <1>3, <1>7 DEF ControlStep, shared, log, list
<1>8. ASSUME NEW t \in Workers, System(t) PROVE Caught(p)'
  <2>1. ASSUME NEW q \in Pids, Fork(t, q) PROVE Caught(p)'
    BY <1>4, <1>5, <2>1 DEF Fork, FreePid, FreePids, list
  <2>2. CASE ForkFails(t)
    BY <1>3, <2>2 DEF ForkFails, shared, list
  <2>3. ASSUME NEW ok, Return(t, ok) PROVE Caught(p)'
    BY <1>3, <2>3 DEF Return, list
  <2>4. QED
    BY <1>8, <2>1, <2>2, <2>3 DEF System
<1>9. CASE Monitor
  <2>1. CASE \E node \in current : Visit(node)
    BY <1>3, <2>1, WrittenLines DEF Visit, Respond, shared
  <2>2. CASE ScanProcessTree \/ ScanFails \/ EndOfWalk
    BY <1>3, <2>2 DEF ScanProcessTree, ScanFails, Scan, EndOfWalk, shared, log
  <2>3. QED
    BY <1>9, <2>1, <2>2 DEF Monitor
<1>10. CASE Netlink
  <2>1. CASE RecvExec
    BY <2>1, CaughtByRecv
  <2>2. CASE \E node \in temp_node : AnalyzeSingle(node)
    BY <2>2, CaughtByAnalysis
  <2>3. CASE Listen \/ RecvOther
    BY <1>3, <2>3 DEF Listen, RecvOther, shared, log, list
  <2>4. CASE ListenFails \/ RecvFails
    BY <1>6, <2>4 DEF ListenFails, RecvFails
  <2>5. QED
    BY <1>10, <2>1, <2>2, <2>3, <2>4 DEF Netlink
<1>11. CASE \/ \E loaded \in ModuleLoaded : Check(loaded)
            \/ InotifyInit \/ FileEvent \/ FileFails
            \/ \E t \in DOMAIN Blocks : LoopAgain(t)
            \/ \E t \in Workers : LoopEnds(t)
  BY <1>6, <1>7, <1>11 DEF Check, InotifyInit, FileEvent, FileFails, LoopAgain, LoopEnds
<1>12. CASE MainReturns
  BY <1>3, <1>12 DEF MainReturns, log
<1>13. CASE Environment
  <2>1. ASSUME NEW q \in Pids, NEW image \in Images, Spawn(q, image) PROVE Caught(p)'
    BY <1>3, <1>5, <2>1 DEF Spawn, FreePid, FreePids, list
  <2>2. ASSUME NEW q \in Pids, NEW image \in Images, Exec(q, image) PROVE Caught(p)'
    BY <1>4, <2>2 DEF Exec, Becomes, list, log
  <2>3. ASSUME NEW q \in Pids, NEW image \in Images, Change(q, image) PROVE Caught(p)'
    BY <1>3, <2>3 DEF Change, Becomes, list, log
  <2>4. CASE (\E q \in Pids : Exit(q)) \/ Sigterm \/ StopUnit
    BY <1>3, <2>4 DEF Exit, Sigterm, StopUnit, shared, list, log
  <2>5. CASE Burst
    BY <2>5 DEF Burst, Caught
  <2>6. QED
    BY <1>13, <2>1, <2>2, <2>3, <2>4, <2>5 DEF Environment
<1>14. CASE \E t \in Workers : CommandRuns(t)
  BY <1>3, <1>14 DEF CommandRuns, list, log
<1>15. CASE UNCHANGED vars
  BY <1>3, <1>15 DEF vars
<1>16. QED
  BY <1>8, <1>9, <1>10, <1>11, <1>12, <1>13, <1>14, <1>15 DEF Next, Daemon

(***************************************************************************)
(* As long as the log can be opened, a process whose name, parent or file  *)
(* call for quarantine does not slip through a netlink thread that         *)
(* listens, for any size of the buffer and however the other threads hold  *)
(* the daemon up: its event waits, its node is being analysed, it is       *)
(* reported, or an event was lost and the thread ends.                     *)
(***************************************************************************)
THEOREM ExecsCaught ==
    ASSUME "log" \notin Failures
    PROVE  Spec => ExecsAreAnalysed
<1>1. Inv /\ TempInv /\ [Next]_vars
      => [\A p \in Pids :
            /\ NetlinkOpen /\ GuiltyOnSight(p)'
            /\ \/ \E image \in Images : Exec(p, image)
               \/ /\ GuiltyOnSight(p) /\ Caught(p)
                  /\ Static(proc[p].img)' = Static(proc[p].img)
            => Caught(p)']_vars
  BY CaughtStep
<1>2. Spec => [](Inv /\ TempInv)
  BY DaemonTypes, TempAlways, PTL DEF Inv
<1>3. QED
  BY <1>1, <1>2, PTL DEF Spec, ExecsAreAnalysed
-----------------------------------------------------------------------------
(***************************************************************************)
(* The state main leaves: every thread has ended, so none waits for a      *)
(* shell or is in the middle of a quarantine, the mutex is free and the    *)
(* list empty; the daemon's process is gone, so nothing moves any more.    *)
(***************************************************************************)
ExitInv ==
    /\ Exited => /\ proc[Self].status = "gone"
                 /\ \A t \in Workers : pc[t] = "done"
                 /\ process_list = {} /\ proc_mutex = NoOne
    /\ pc["main"] \in {"join", "done"}

THEOREM CleanExit == Spec => []LeavesNothingBehind
<1>1. Init => ExitInv
  BY DEF Init, ExitInv, Exited, Threads, Workers
<1>2. Inv /\ ExitInv /\ [Next]_vars => ExitInv'
  <2> SUFFICES ASSUME Inv, ExitInv, [Next]_vars PROVE ExitInv'
    OBVIOUS
  <2> USE DEF Inv
  <2>1. CASE UNCHANGED vars
    BY <2>1 DEF vars, ExitInv, Exited
  <2>2. CASE MainReturns
    BY <2>2, DaemonAssumption
       DEF MainReturns, At, Goto, ExitInv, Exited, TypeOK, Process, Threads,
           Workers
  <2>3. CASE Exited /\ Next
    <3>1. /\ ~Awake /\ ~Alive(Self)
          /\ \A t \in Threads : pc[t] \notin Commands /\ child[t] = NoPid
      BY <2>3 DEF ExitInv, Exited, Awake, Alive, ShellsInv, Threads, Commands
    <3>2. \/ \E p \in Pids, image \in Images :
                Spawn(p, image) \/ Exec(p, image) \/ Change(p, image)
          \/ \E p \in Pids : Exit(p)
          \/ Burst
      BY <2>3, <3>1
         DEF Next, Daemon, System, Fork, ForkFails, Return, Monitor,
             ScanProcessTree, ScanFails, Scan, EndOfWalk, Visit, Netlink, Listen,
             ListenFails, RecvFails, RecvOther, RecvExec, AnalyzeSingle, Check,
             InotifyInit, FileEvent, FileFails, LoopAgain, LoopEnds, MainReturns, At,
             Environment, Sigterm, StopUnit, CommandRuns, Threads
    <3>3. proc'[Self] = proc[Self] /\ UNCHANGED <<pc, list>>
      BY <3>2, DaemonAssumption
         DEF Spawn, Exec, Change, Becomes, Exit, Burst, FreePid, FreePids, Starts, Foreign, ShellsInv, TypeOK
    <3>4. QED
      BY <3>3 DEF ExitInv, Exited, list
  <2>4. CASE ~Exited /\ ~MainReturns /\ Next
    <3>1. ASSUME NEW t \in Workers, NEW label, Goto(t, label)
          PROVE  pc'["main"] = pc["main"]
      BY <3>1 DEF Goto, TypeOK, Workers
    <3>2. CASE pc' = pc
      BY <2>4, <3>2 DEF ExitInv, Exited
    <3>3. CASE \E t \in Workers : System(t)
      BY <2>4, <3>1, <3>3
         DEF System, Fork, ForkFails, Return, AfterCommand, ExitInv, Exited
    <3>4. CASE Monitor \/ Netlink
      BY <2>4, <3>1, <3>4
         DEF Monitor, ScanProcessTree, ScanFails, Scan, EndOfWalk, Visit,
             Respond, Netlink, Listen, ListenFails, RecvFails, RecvOther,
             RecvExec, AnalyzeSingle, CloseNetlink, Workers, ExitInv, Exited
    <3>5. CASE \/ \E loaded \in ModuleLoaded : Check(loaded)
               \/ InotifyInit \/ FileEvent \/ FileFails
               \/ \E t \in DOMAIN Blocks : LoopAgain(t)
               \/ \E t \in Workers : LoopEnds(t)
      BY <2>4, <3>1, <3>5
         DEF Check, InotifyInit, FileEvent, FileFails, LoopAgain, LoopEnds,
             ControlStep, CloseNetlink, Blocks, Workers, ExitInv, Exited
    <3>6. CASE Environment \/ \E t \in Workers : CommandRuns(t)
      BY <3>2, <3>6 DEF Environment, Spawn, Exec, Change, Becomes, Exit, Burst, Sigterm,
                           StopUnit, CommandRuns
    <3>7. QED
      BY <2>4, <3>3, <3>4, <3>5, <3>6 DEF Next, Daemon
  <2>5. QED
    BY <2>1, <2>2, <2>3, <2>4
<1>3. Inv /\ TempInv /\ ExitInv => LeavesNothingBehind
  BY DEF Inv, TempInv, ExitInv, Exited, LeavesNothingBehind, ShellsInv, Threads,
         Workers, Commands
<1>4. Spec => [](Inv /\ TempInv)
  BY DaemonTypes, TempAlways, PTL DEF Inv
<1>5. QED
  BY <1>1, <1>2, <1>3, <1>4, PTL DEF Spec
=============================================================================
