----------------------------- MODULE MCScoring -----------------------------
(* Scoring, and the smaller parts around it: what a node and a score are   *)
(* made from (ProcessTable, CpuPattern, MemoryScan), where alerts go       *)
(* (AlertLog), and the two sensors that work alone (FileWatcher,           *)
(* KernelModule).  They share no variable, so every behaviour moves one of *)
(* them, active, and leaves the others as they begin.                      *)
EXTENDS Scoring, ProcessTable, CpuPattern, MemoryScan, AlertLog, FileWatcher,
        KernelModule

\* Scoring: both sides of every boundary of its rules.  7.0, 7.5 and 10.0 bits
\* and their neighbours, and the 8.0 of a writable and executable mapping.
MCPids == {1, 2, 7}
MCPpids == {0, 1, 2, 7}
MCEntropies == {0, 700, 701, 750, 751, 800, 999, 1000}

MCScanPids == {1, 2, 3}

\* CpuPattern: 65543 = 65536 + 7.  As the linker has placed the arrays, its
\* last_stime is the last_utime of 7, and its last_utime lies beyond both.
MCCpuPids == {7, 65543}
MCTicks == {0, 502}
MCMaxLives == [p \in MCCpuPids |-> IF p = 7 THEN 1 ELSE 0]
MCJunk == {3}

\* MemoryScan: both sides of 7.5 bits, with a match and without, and lines
\* that are not executable, that cannot be read, and that are writable too.
MapLine(x, w, r, e, m) ==
    [exec |-> x, writable |-> w, readable |-> r, entropy |-> e, matches |-> m]
MCMapLines ==
    {MapLine(FALSE, TRUE, TRUE, 790, TRUE), MapLine(TRUE, FALSE, FALSE, 790, TRUE),
     MapLine(TRUE, TRUE, FALSE, 790, FALSE)}
      \cup {MapLine(TRUE, FALSE, TRUE, e, m) : e \in {640, 750, 751}, m \in BOOLEAN}
      \cup {MapLine(TRUE, TRUE, TRUE, 640, m) : m \in BOOLEAN}

MCWatchedFiles == {"shadow"}

\* NamedOf is what the library's SelectSeq selects.
ASSUME NamedOfAssumption ==
    \A s \in BoundedSeq(Events, 3) : NamedOf(s) = SelectSeq(s, IsNamed)

MCDaemonPids == {11, 12}
MCWords == {-1, 0, 11, 12, 99}
MCKernelTypes == {"direct", "wrapped"}

VARIABLE active    \* the part that moves

partVars == <<active, vars, tableVars, cpuVars, memoryVars, logVars, watchVars,
              kernelVars>>

\* The parts with several initial states; the others have one each.
AtRest(part) ==
    \/ active = part
    \/ CASE part = "scoring" ->
              /\ pid = 1 /\ live = NothingLive
              /\ node = [comm |-> {}, ppid |-> 0, fileless |-> FALSE]
         [] part = "table" -> table = NothingRead
         [] part = "cpu" -> memory = CHOOSE m \in FreshMemories : TRUE
         [] part = "kernel" -> kernel = "direct"

PartsInit ==
    /\ active \in {"scoring", "table", "cpu", "memory", "log", "watch", "kernel"}
    /\ Init /\ AtRest("scoring")
    /\ TableInit /\ AtRest("table")
    /\ CpuInit /\ AtRest("cpu")
    /\ KernelInit /\ AtRest("kernel")
    /\ MemoryInit /\ LogInit /\ WatchInit

PartsNext ==
    \/ active = "scoring" /\ Next
       /\ UNCHANGED <<active, tableVars, cpuVars, memoryVars, logVars, watchVars, kernelVars>>
    \/ active = "table" /\ TableNext
       /\ UNCHANGED <<active, vars, cpuVars, memoryVars, logVars, watchVars, kernelVars>>
    \/ active = "cpu" /\ CpuNext
       /\ UNCHANGED <<active, vars, tableVars, memoryVars, logVars, watchVars, kernelVars>>
    \/ active = "memory" /\ MemoryNext
       /\ UNCHANGED <<active, vars, tableVars, cpuVars, logVars, watchVars, kernelVars>>
    \/ active = "log" /\ LogNext
       /\ UNCHANGED <<active, vars, tableVars, cpuVars, memoryVars, watchVars, kernelVars>>
    \/ active = "watch" /\ WatchNext
       /\ UNCHANGED <<active, vars, tableVars, cpuVars, memoryVars, logVars, kernelVars>>
    \/ active = "kernel" /\ KernelNext
       /\ UNCHANGED <<active, vars, tableVars, cpuVars, memoryVars, logVars, watchVars>>

PartsSpec == PartsInit /\ [][PartsNext]_partVars
=============================================================================
