------------------------ MODULE DaemonResponseProofs ------------------------
(***************************************************************************)
(* Proofs about what the daemon does to other processes: a process whose   *)
(* quarantine is logged does not run, where commands can be relied on, and *)
(* the daemon implements Response.                                         *)
(***************************************************************************)
EXTENDS DaemonProofs

Down(p) == proc[p].status # "running"

Cut == DaemonUser \in dropped

Reaps(t) == child[t] # NoPid /\ proc[child[t]].status = "zombie"

(***************************************************************************)
(* The quarantine of a thread: once the shell of the first command has     *)
(* ended the process is down, once that of the second has the output of    *)
(* the daemon's user is dropped; and both hold of what is logged.          *)
(***************************************************************************)
ContainInv ==
    /\ \A t \in Threads :
         /\ pc[t] = "kill" /\ Reaps(t) => Down(target[t])
         /\ pc[t] = "iptables" => Down(target[t])
         /\ pc[t] = "iptables" /\ Reaps(t) => Cut
    /\ \A p \in quarantined : Down(p) /\ Cut

\* A process that is down stays so, unless its id is free and given out again.
KeepsDown == /\ \A p \in Pids : Down(p) /\ (Taken(p) \/ p \in quarantined') => Down(p)'
             /\ Cut => Cut'

LEMMA DownStays ==
    ASSUME Inv, CommandsRun, [Next]_vars
    PROVE  KeepsDown
<1> USE DEF Inv
<1>1. ASSUME NEW p \in Pids, NEW image, Starts(p, image), ~Taken(p),
             dropped' = dropped
      PROVE  KeepsDown
  <2>1. p \notin quarantined' /\ \A q \in Pids : q # p => proc'[q] = proc[q]
    BY <1>1 DEF Starts, TypeOK
  <2>2. QED
    BY <1>1, <2>1 DEF KeepsDown, Down, Cut
<1>2. ASSUME NEW p \in Pids, proc' = [proc EXCEPT ![p] = Freed],
             dropped' = dropped
      PROVE  KeepsDown
  BY <1>2 DEF KeepsDown, Down, Cut, Freed, Process, TypeOK
<1>3. ASSUME proc' = proc, dropped' = dropped PROVE KeepsDown
  BY <1>3 DEF KeepsDown, Down, Cut
<1>4. ASSUME NEW p \in Pids, NEW image \in Images,
             Spawn(p, image) \/ Exec(p, image) \/ Change(p, image)
      PROVE  KeepsDown
  <2>1. CASE Spawn(p, image)
    BY <1>1, <2>1 DEF Spawn, FreePid, Taken
  <2>2. CASE Exec(p, image) \/ Change(p, image)
    <3>1. proc' = [proc EXCEPT ![p].img = image] /\ dropped' = dropped
      BY <2>2 DEF Exec, Change, Becomes
    <3>2. \A q \in Pids : proc'[q].status = proc[q].status
      BY <3>1 DEF TypeOK
    <3>3. QED
      BY <3>1, <3>2 DEF KeepsDown, Down, Cut
  <2>3. QED
    BY <1>4, <2>1, <2>2
<1>5. ASSUME NEW p \in Pids, Exit(p) PROVE KeepsDown
  BY <1>2, <1>5 DEF Exit
<1>6. ASSUME NEW t \in Workers, NEW p \in Pids, Fork(t, p) PROVE KeepsDown
  BY <1>1, <1>6 DEF Fork, FreePid, Taken
<1>7. ASSUME NEW t \in Workers, NEW ok, Return(t, ok) PROVE KeepsDown
  BY <1>2, <1>7 DEF Return, TypeOK, Threads
<1>8. ASSUME NEW t \in Workers, CommandRuns(t) PROVE KeepsDown
  <2>1. Cut => Cut'
    BY <1>8 DEF CommandRuns, Cut
  <2>2. \A p \in Pids :
           \/ proc'[p] = [proc[p] EXCEPT !.status = "stopped"]
           \/ proc'[p] = [proc[p] EXCEPT !.status = "zombie"]
           \/ proc'[p] = proc[p]
    BY <1>8 DEF CommandRuns
  <2>3. \A p \in Pids : proc'[p].status \in {"stopped", "zombie"}
                          \/ proc'[p] = proc[p]
    BY <2>2 DEF TypeOK
  <2>4. QED
    BY <2>1, <2>3 DEF KeepsDown, Down, Cut
<1>9. ASSUME MainReturns PROVE KeepsDown
  <2>1. /\ proc'[Self].status = "gone" /\ dropped' = dropped
        /\ \A p \in Pids : p # Self => proc'[p] = proc[p]
    BY <1>9, DaemonAssumption DEF MainReturns, Process, TypeOK
  <2>2. QED
    BY <2>1 DEF KeepsDown, Down, Cut
<1>10. ASSUME NEW t, NEW label, ControlStep(t, label) PROVE KeepsDown
  BY <1>3, <1>10 DEF ControlStep, shared
<1>11. CASE Daemon
  <2>1. \A t \in Workers : System(t) => KeepsDown
    BY <1>3, <1>6, <1>7 DEF System, ForkFails, shared
  <2>2. Monitor => KeepsDown
    BY <1>3 DEF Monitor, ScanProcessTree, ScanFails, Scan, EndOfWalk, Visit, shared
  <2>3. Netlink => KeepsDown
    BY <1>3 DEF Netlink, Listen, ListenFails, RecvFails, RecvOther, RecvExec,
                AnalyzeSingle, CloseNetlink, shared
  <2>4. \A t \in Workers : LoopEnds(t) => KeepsDown
    BY <1>3, <1>10 DEF LoopEnds, CloseNetlink
  <2>5. \A t \in DOMAIN Blocks : LoopAgain(t) => KeepsDown
    BY <1>10 DEF LoopAgain
  <2>6. \A loaded \in ModuleLoaded : Check(loaded) => KeepsDown
    BY <1>10 DEF Check
  <2>7. InotifyInit \/ FileEvent \/ FileFails => KeepsDown
    BY <1>10 DEF InotifyInit, FileEvent, FileFails
  <2>8. QED
    BY <1>9, <1>11, <2>1, <2>2, <2>3, <2>4, <2>5, <2>6, <2>7 DEF Daemon
<1>12. CASE Environment
  BY <1>3, <1>4, <1>5, <1>12
     DEF Environment, Burst, Sigterm, StopUnit, shared, CommandsRun
<1>13. CASE UNCHANGED vars
  BY <1>3, <1>13 DEF vars
<1>14. QED
  BY <1>8, <1>11, <1>12, <1>13 DEF Next

\* Threads that enter no command of a quarantine, or only the first.
CalmThread(t) ==
    \/ pc'[t] \notin {"kill", "iptables"}
    \/ pc'[t] = "kill" /\ ~Reaps(t)'
    \/ pc'[t] = pc[t] /\ target'[t] = target[t] /\ (Reaps(t)' => Reaps(t))

LEMMA ContainFrame ==
    ASSUME Inv, TakenInv, ContainInv, KeepsDown, quarantined' \subseteq quarantined,
           \A t \in Threads : CalmThread(t)
    PROVE  ContainInv'
<1>1. \A p \in Pids : Down(p) /\ Taken(p) => Down(p)'
  BY DEF KeepsDown
<1>2. \A p \in quarantined' : Down(p)' /\ Cut'
  BY DEF ContainInv, KeepsDown, Inv, TypeOK
<1>3. ASSUME NEW t \in Threads
      PROVE  /\ pc'[t] = "kill" /\ Reaps(t)' => Down(target[t])'
             /\ pc'[t] = "iptables" => Down(target[t])'
             /\ pc'[t] = "iptables" /\ Reaps(t)' => Cut'
  <2>1. CASE pc'[t] \in {"kill", "iptables"} /\ pc'[t] = pc[t]
               /\ target'[t] = target[t] /\ (Reaps(t)' => Reaps(t))
    <3>1. PICK p \in Pids : p = target[t] /\ Taken(p)
      BY <2>1 DEF Inv, ShellsInv, TakenInv, TargetsTaken, TypeOK
    <3>2. Down(p) => Down(p)'
      BY <1>1, <3>1
    <3>3. Down(target[t]) => Down(target[t])'
      BY <2>1, <3>1, <3>2 DEF Down
    <3>4. QED
      BY <2>1, <3>3 DEF ContainInv, KeepsDown
  <2>2. CASE pc'[t] = "kill" /\ ~Reaps(t)'
    BY <2>2
  <2>3. CASE pc'[t] \notin {"kill", "iptables"}
    BY <2>3
  <2>4. QED
    BY <2>1, <2>2, <2>3 DEF CalmThread
<1>4. QED
  BY <1>2, <1>3 DEF ContainInv

\* The steps of one thread outside system() that neither start nor end a process.
LEMMA CalmSteps ==
    ASSUME Inv, TakenInv, ContainInv, KeepsDown, NEW t \in Threads, pc[t] \notin Commands,
           UNCHANGED <<proc, child, quarantined>>,
           \A u \in Threads : u # t => pc'[u] = pc[u] /\ target'[u] = target[u],
           pc'[t] # "iptables"
    PROVE  ContainInv'
<1>1. ~Reaps(t)'
  BY DEF Inv, ShellsInv, Reaps
<1>2. \A u \in Threads : CalmThread(u)
  BY <1>1 DEF CalmThread, Reaps
<1>3. QED
  BY <1>2, ContainFrame

LEMMA ContainSystem ==
    ASSUME Inv, TakenInv, ContainInv, KeepsDown, CommandsRun,
           NEW t \in Workers, System(t) \/ CommandRuns(t)
    PROVE  ContainInv'
<1> USE DEF Inv
<1>0. t \in Threads /\ ~ForkFails(t)
  BY DEF Threads, CommandsRun, ForkFails
<1>1. ASSUME NEW p \in Pids, Fork(t, p) PROVE ContainInv'
  <2>1. /\ child' = [child EXCEPT ![t] = p] /\ proc[p].status = "unused"
        /\ proc'[p].status = "running"
        /\ \A q \in Pids : q # p => proc'[q] = proc[q]
        /\ pc' = pc /\ target' = target
        /\ quarantined' \subseteq quarantined
    BY <1>1 DEF Fork, FreePid, FreePids, Starts, TypeOK, Process
  <2>2. ASSUME NEW u \in Threads PROVE CalmThread(u)
    <3>1. CASE u = t
      <4>1. ~Reaps(u)'
        BY <1>0, <2>1, <3>1 DEF Reaps, TypeOK
      <4>2. QED
        BY <2>1, <4>1 DEF CalmThread
    <3>2. CASE u # t
      <4>1. child'[u] = child[u]
        BY <1>0, <2>1, <3>2 DEF TypeOK
      <4>2. Reaps(u)' => Reaps(u)
        BY <2>1, <4>1 DEF Reaps, TypeOK
      <4>3. QED
        BY <2>1, <4>2 DEF CalmThread
    <3>3. QED
      BY <3>1, <3>2
  <2>3. QED
    BY <2>1, <2>2, ContainFrame
<1>2. ASSUME NEW ok \in BOOLEAN, Return(t, ok) PROVE ContainInv'
  <2>1. /\ Reaps(t) /\ child[t] \in Pids /\ pc[t] \in Commands
        /\ AfterCommand(t, ok)
        /\ child' = [child EXCEPT ![t] = NoPid]
        /\ proc' = [proc EXCEPT ![child[t]] = Freed]
        /\ quarantined' \subseteq quarantined \cup Logged(t)
        /\ dropped' = dropped
    BY <1>0, <1>2, WrittenLines DEF Return, Reaps, ShellsInv, TypeOK
  <2>2. /\ \A u \in Threads : u # t => pc'[u] = pc[u] /\ target'[u] = target[u]
        /\ pc'[t] \in {"kill", "iptables"} <=> target'[t] # NoPid
        /\ Logged(t) \subseteq Pids
    BY <1>0, <2>1, AfterSystem
  <2>3. ~Reaps(t)'
    BY <1>0, <2>1 DEF Reaps, TypeOK
  <2>4. ASSUME NEW u \in Threads, u # t PROVE Reaps(u)' => Reaps(u)
    <3>1. child'[u] = child[u] /\ Freed.status # "zombie"
      BY <1>0, <2>1, <2>4 DEF TypeOK, Freed, Process
    <3>2. QED
      BY <2>1, <3>1 DEF Reaps, TypeOK
  <2>5. ASSUME NEW u \in Threads, u # t PROVE CalmThread(u)
    BY <2>2, <2>4, <2>5 DEF CalmThread
  <2>6. CASE pc[t] = "kill"
    <3>1. pc'[t] = "iptables" /\ target' = target
      BY <1>0, <2>1, <2>6 DEF AfterCommand, Goto, TypeOK
    <3>2. PICK p \in Pids : p = target[t] /\ Taken(p)
      BY <1>0, <2>6 DEF ShellsInv, TakenInv, TargetsTaken, TypeOK
    <3>3. Down(p)'
      BY <1>0, <2>1, <2>6, <3>2 DEF ContainInv, KeepsDown
    <3>4. Down(target[t])'
      BY <3>1, <3>2, <3>3 DEF Down
    <3>5. \A u \in Threads :
            /\ pc'[u] = "kill" /\ Reaps(u)' => Down(target[u])'
            /\ pc'[u] = "iptables" => Down(target[u])'
            /\ pc'[u] = "iptables" /\ Reaps(u)' => Cut'
      <4>1. ASSUME NEW u \in Threads, u # t, pc'[u] \in {"kill", "iptables"}
            PROVE  /\ Down(target[u]) => Down(target[u])'
                   /\ pc'[u] = pc[u] /\ (Reaps(u)' => Reaps(u))
        <5>1. PICK q \in Pids : q = target[u] /\ Taken(q)
          BY <2>2, <4>1 DEF ShellsInv, TakenInv, TargetsTaken, TypeOK
        <5>2. Down(q) => Down(q)'
          BY <5>1 DEF KeepsDown
        <5>3. QED
          BY <2>2, <2>4, <4>1, <5>1, <5>2 DEF Down
      <4>2. QED
        BY <2>1, <2>3, <3>1, <3>4, <4>1 DEF ContainInv, KeepsDown
    <3>6. quarantined' \subseteq quarantined
      BY <2>1, <2>6 DEF Logged
    <3>7. \A p1 \in quarantined' : Down(p1)' /\ Cut'
      BY <3>6 DEF ContainInv, KeepsDown, TypeOK
    <3>8. QED
      BY <3>5, <3>7 DEF ContainInv
  <2>7. CASE pc[t] # "kill"
    <3>1. pc'[t] \notin {"kill", "iptables"}
      BY <1>0, <2>1, <2>7 DEF AfterCommand, Goto, TypeOK, Commands
    <3>2. \A u \in Threads : CalmThread(u)
      BY <2>5, <3>1 DEF CalmThread
    <3>3. \A p \in Logged(t) : p \in Pids /\ Down(p) /\ Cut
      BY <1>0, <2>1, <2>2 DEF Logged, ContainInv
    <3>4. \A p \in quarantined' : Down(p)' /\ Cut'
      BY <2>1, <3>3 DEF ContainInv, KeepsDown, TypeOK
    <3>5. \A u \in Threads :
            /\ pc'[u] = "kill" /\ Reaps(u)' => Down(target[u])'
            /\ pc'[u] = "iptables" => Down(target[u])'
            /\ pc'[u] = "iptables" /\ Reaps(u)' => Cut'
      <4>1. ASSUME NEW u \in Threads, u # t, pc'[u] \in {"kill", "iptables"}
            PROVE  /\ Down(target[u]) => Down(target[u])'
                   /\ pc'[u] = pc[u] /\ (Reaps(u)' => Reaps(u))
        <5>1. PICK q \in Pids : q = target[u] /\ Taken(q)
          BY <2>2, <4>1 DEF ShellsInv, TakenInv, TargetsTaken, TypeOK
        <5>2. Down(q) => Down(q)'
          BY <5>1 DEF KeepsDown
        <5>3. QED
          BY <2>2, <2>4, <4>1, <5>1, <5>2 DEF Down
      <4>2. QED
        BY <2>1, <3>1, <4>1 DEF ContainInv, KeepsDown
    <3>6. QED
      BY <3>4, <3>5 DEF ContainInv
  <2>8. QED
    BY <2>6, <2>7
<1>3. ASSUME CommandRuns(t) PROVE ContainInv'
  <2> DEFINE c == child[t]
             hit(p) == pc[t] = "kill" /\ p = target[t] /\ Alive(p) /\ MaySignal(p)
  <2>1. /\ c \in Pids /\ proc[c].status = "running"
        /\ UNCHANGED <<pc, child, target, quarantined>>
        /\ Cut' = (Cut \/ pc[t] = "iptables") /\ \A p \in Pids : MaySignal(p)
    BY <1>0, <1>3 DEF CommandRuns, log, TypeOK, CommandsRun, Rule, Cut, DaemonUser,
                      MaySignal
  <2>2. \A p \in Pids :
           \/ hit(p) /\ proc'[p] = [proc[p] EXCEPT !.status = "stopped"]
           \/ ~hit(p) /\ p = c /\ proc'[p] = [proc[p] EXCEPT !.status = "zombie"]
           \/ ~hit(p) /\ p # c /\ proc'[p] = proc[p]
    BY <1>3 DEF CommandRuns
  <2>3. \A p \in Pids :
           \/ hit(p) /\ proc'[p].status = "stopped"
           \/ ~hit(p) /\ p = c /\ proc'[p].status = "zombie"
           \/ ~hit(p) /\ p # c /\ proc'[p] = proc[p]
    <3> HIDE DEF c, hit
    <3>1. \A p \in Pids : proc[p] = [status |-> proc[p].status, img |-> proc[p].img]
      BY DEF TypeOK
    <3>2. QED
      BY <2>2, <3>1
  <2>4. ASSUME NEW u \in Threads, u # t PROVE Reaps(u)' => Reaps(u)
    <3>1. child[u] # NoPid => child[u] # c /\ child[u] \in Pids
      BY <1>0, <2>1, <2>4 DEF ShellsInv, TypeOK
    <3>2. QED
      BY <2>1, <2>3, <3>1 DEF Reaps
  <2>5. ASSUME NEW u \in Threads, pc'[u] \in {"kill", "iptables"}
        PROVE  target[u] \in Pids /\ (Down(target[u]) => Down(target[u])')
    <3>1. PICK q \in Pids : q = target[u] /\ Taken(q)
      BY <2>1, <2>5 DEF ShellsInv, TakenInv, TargetsTaken, TypeOK
    <3>2. Down(q) => Down(q)'
      BY <3>1 DEF KeepsDown
    <3>3. QED
      BY <2>1, <3>1, <3>2 DEF Down
  <2>6. pc[t] = "kill" => Down(target[t])'
    <3> SUFFICES ASSUME pc[t] = "kill" PROVE Down(target[t])'
      OBVIOUS
    <3>1. PICK q \in Pids : q = target[t] /\ q # NoPid
      BY <1>0 DEF ShellsInv, TypeOK
    <3>2. CASE Alive(q)
      BY <2>1, <2>3, <3>1, <3>2 DEF Down
    <3>3. CASE ~Alive(q)
      BY <2>1, <2>3, <3>1, <3>3 DEF Down, Alive
    <3>4. QED
      BY <3>2, <3>3
  <2>7. \A u \in Threads :
            /\ pc'[u] = "kill" /\ Reaps(u)' => Down(target[u])'
            /\ pc'[u] = "iptables" => Down(target[u])'
            /\ pc'[u] = "iptables" /\ Reaps(u)' => Cut'
    BY <2>1, <2>4, <2>5, <2>6 DEF ContainInv
  <2>8. \A p \in quarantined' : Down(p)' /\ Cut'
    BY <2>1 DEF ContainInv, KeepsDown, TypeOK
  <2>9. QED
    BY <2>7, <2>8 DEF ContainInv
<1>4. QED
  BY <1>0, <1>1, <1>2, <1>3, DaemonAssumption DEF System

LEMMA ContainStart == Init => ContainInv
<1> SUFFICES ASSUME Init PROVE ContainInv
  OBVIOUS
<1>1. \A t \in Threads : target[t] = NoPid
  BY DEF Init
<1>2. \A t \in Threads : pc[t] \notin {"kill", "iptables"}
  BY <1>1, InitInv DEF Inv, ShellsInv
<1>3. quarantined = {}
  BY DEF Init
<1>4. QED
  BY <1>2, <1>3 DEF ContainInv

LEMMA ContainStep ==
    ASSUME Inv, TakenInv, ContainInv, CommandsRun, [Next]_vars
    PROVE  ContainInv'
<1> USE DEF Inv
<1>1. KeepsDown
  BY DownStays
<1>2. ASSUME NEW t \in Workers, System(t) \/ CommandRuns(t) PROVE ContainInv'
  BY <1>1, <1>2, ContainSystem
<1>3. ASSUME NEW t \in Threads, NEW label \in Labels \ {"kill", "iptables"},
             pc[t] \notin Commands, Goto(t, label),
             UNCHANGED <<proc, child, target, quarantined>>
      PROVE  ContainInv'
  BY <1>1, <1>3, CalmSteps DEF Goto, TypeOK
<1>4. ASSUME NEW t \in {"monitor", "netlink"}, NEW node, NEW reports,
             NEW otherwise \in {"walk", "loop"}, pc[t] \notin Commands,
             Respond(t, node, reports, otherwise),
             UNCHANGED <<proc, child, quarantined>>
      PROVE  ContainInv'
  <2>1. /\ \A u \in Threads : u # t => pc'[u] = pc[u] /\ target'[u] = target[u]
        /\ pc'[t] # "iptables" /\ t \in Threads
    BY <1>4 DEF Respond, Goto, TypeOK, Threads, Workers
  <2>2. QED
    BY <1>1, <1>4, <2>1, CalmSteps
<1>5. ASSUME UNCHANGED <<pc, child, target, quarantined>>,
             \A p \in Pids : Exists(p) /\ ~Foreign(p) => proc'[p] = proc[p]
      PROVE  ContainInv'
  <2>1. ASSUME NEW t \in Threads PROVE CalmThread(t)
    <3>1. child[t] # NoPid => child[t] \in Pids /\ proc'[child[t]] = proc[child[t]]
      BY <1>5 DEF ShellsInv, TypeOK, Foreign
    <3>2. QED
      BY <1>5, <3>1 DEF CalmThread, Reaps
  <2>2. QED
    BY <1>1, <1>5, <2>1, ContainFrame
<1>6. CASE Monitor
  <2>1. ASSUME NEW nodes, Scan(nodes) PROVE ContainInv'
    BY <1>3, <2>1 DEF Scan, At, shared, log, Threads, Workers, Labels, Commands
  <2>2. CASE EndOfWalk
    BY <1>3, <2>2 DEF EndOfWalk, At, shared, log, Threads, Workers, Labels, Commands
  <2>3. ASSUME NEW node \in current, Visit(node) PROVE ContainInv'
    BY <1>4, <2>3 DEF Visit, At, shared, Commands
  <2>4. QED
    BY <1>6, <2>1, <2>2, <2>3 DEF Monitor, ScanProcessTree, ScanFails
<1>7. CASE Netlink
  <2>1. ASSUME CloseNetlink, pc["netlink"] \notin Commands PROVE ContainInv'
    BY <1>3, <2>1 DEF CloseNetlink, log, Threads, Workers, Labels, Commands
  <2>2. CASE Listen \/ RecvOther
    BY <1>3, <2>2 DEF Listen, RecvOther, At, shared, log, Threads, Workers,
                      Labels, Commands
  <2>3. CASE ListenFails \/ RecvFails
    BY <2>1, <2>3 DEF ListenFails, RecvFails, At, Commands
  <2>4. CASE RecvExec
    <3>1. \E label \in {"loop", "analyze"} : Goto("netlink", label)
      BY <2>4 DEF RecvExec
    <3>2. QED
      BY <1>3, <2>4, <3>1 DEF RecvExec, At, log, Threads, Workers, Labels, Commands
  <2>5. ASSUME NEW node \in temp_node, AnalyzeSingle(node) PROVE ContainInv'
    BY <1>4, <2>5 DEF AnalyzeSingle, At, shared, Commands
  <2>6. QED
    BY <1>7, <2>2, <2>3, <2>4, <2>5 DEF Netlink
<1>8. ASSUME NEW t \in Workers, NEW label \in Labels \ {"kill", "iptables"},
             pc[t] \notin Commands, ControlStep(t, label)
      PROVE  ContainInv'
  BY <1>3, <1>8 DEF ControlStep, shared, log, Threads
<1>9. ASSUME NEW t \in Workers, LoopEnds(t) PROVE ContainInv'
  <2>1. CASE t = "netlink"
    BY <1>3, <1>9, <2>1 DEF LoopEnds, At, CloseNetlink, log, Threads, Labels, Commands
  <2>2. CASE t # "netlink"
    BY <1>8, <1>9, <2>2 DEF LoopEnds, At, Labels, Commands
  <2>3. QED
    BY <2>1, <2>2
<1>10. ASSUME NEW t \in DOMAIN Blocks, LoopAgain(t) PROVE ContainInv'
  BY <1>8, <1>10 DEF LoopAgain, At, Blocks, Workers, Labels, Commands
<1>11. ASSUME NEW loaded, Check(loaded) PROVE ContainInv'
  BY <1>8, <1>11 DEF Check, At, Workers, Labels, Commands
<1>12. CASE InotifyInit \/ FileEvent \/ FileFails
  BY <1>8, <1>12 DEF InotifyInit, FileEvent, FileFails, At, Workers, Labels, Commands
<1>13. CASE MainReturns
  <2>1. /\ pc' = [pc EXCEPT !["main"] = "done"]
        /\ \A p \in Pids : p # Self => proc'[p] = proc[p]
        /\ UNCHANGED <<child, target, quarantined>>
    BY <1>13 DEF MainReturns, Goto, TypeOK, log
  <2>2. ASSUME NEW t \in Threads PROVE CalmThread(t)
    <3>1. child[t] # NoPid => child[t] \in Pids /\ child[t] # Self
      BY DEF ShellsInv, TypeOK
    <3>2. QED
      BY <2>1, <3>1 DEF CalmThread, Reaps, TypeOK
  <2>3. QED
    BY <1>1, <2>1, <2>2, ContainFrame
<1>14. CASE Environment
  <2>1. ASSUME NEW p \in Pids, NEW image \in Images, Spawn(p, image)
        PROVE  ContainInv'
    <3>1. /\ \A q \in Pids : Exists(q) => proc'[q] = proc[q]
          /\ quarantined' \subseteq quarantined
          /\ UNCHANGED <<pc, child, target>>
      BY <2>1 DEF Spawn, FreePid, FreePids, Starts, Exists, TypeOK
    <3>2. ASSUME NEW t \in Threads PROVE CalmThread(t)
      <4>1. child[t] # NoPid => proc'[child[t]] = proc[child[t]]
        BY <3>1 DEF ShellsInv, TypeOK
      <4>2. QED
        BY <3>1, <4>1 DEF CalmThread, Reaps
    <3>3. QED
      BY <1>1, <3>1, <3>2, ContainFrame
  <2>2. ASSUME NEW p \in Pids, Exit(p) PROVE ContainInv'
    BY <1>5, <2>2 DEF Exit, log, TypeOK
  <2>3. CASE Sigterm \/ Burst
    BY <1>5, <2>3 DEF Sigterm, Burst, shared, log
  <2>4. ~StopUnit
    BY DEF StopUnit, CommandsRun
  <2>5. ASSUME NEW p \in Pids, NEW image \in Images,
               Exec(p, image) \/ Change(p, image)
        PROVE  ContainInv'
    <3>1. Becomes(p, image)
      BY <2>5 DEF Exec, Change
    <3>2. /\ UNCHANGED <<pc, child, target, quarantined>> /\ Foreign(p)
          /\ \A q \in Pids : q # p => proc'[q] = proc[q]
      BY <3>1 DEF Becomes, log, TypeOK
    <3>3. QED
      BY <1>5, <3>2
  <2>6. QED
    BY <1>14, <2>1, <2>2, <2>3, <2>4, <2>5 DEF Environment
<1>15. CASE UNCHANGED vars
  BY <1>5, <1>15 DEF vars
<1>16. QED
  BY <1>2, <1>6, <1>7, <1>9, <1>10, <1>11, <1>12, <1>13, <1>14, <1>15
     DEF Next, Daemon

(***************************************************************************)
(* Where commands can be relied on (the daemon is root and not a unit of   *)
(* systemd, neither fork nor iptables fails, and no id is given out        *)
(* early), a process that the log calls quarantined does not run, and the  *)
(* output of the daemon's user is dropped, although other processes, and   *)
(* the daemon itself, may have been suspended, ended or forked between any *)
(* two of the steps.                                                       *)
(***************************************************************************)
THEOREM QuarantineContains ==
    ASSUME CommandsRun
    PROVE  Spec => []QuarantinedIsStopped
<1>1. Init => TakenInv /\ ContainInv
  BY ContainStart, ReportInit DEF ReportInv
<1>2. Inv /\ TakenInv /\ ContainInv /\ [Next]_vars => TakenInv' /\ ContainInv'
  BY ContainStep, TakenStep DEF CommandsRun
<1>3. ContainInv => QuarantinedIsStopped
  BY DEF ContainInv, Down, Cut, QuarantinedIsStopped
<1>4. Spec => []Inv
  BY DaemonTypes, PTL DEF Inv
<1>5. QED
  BY <1>1, <1>2, <1>3, <1>4, PTL DEF Spec
-----------------------------------------------------------------------------
(* The refinement: what each step shows of the processes of the machine.   *)

View == [p \in Pids |-> StateOf(p)]

\* What is known of the suspects, the log and the commands before a step.
Facts == /\ CauseInv
         /\ LogWritten => ReportInv
         /\ CommandsRun => TakenInv /\ ContainInv

\* The steps that leave the watched processes watched, and their status.
LEMMA ViewKept ==
    ASSUME \A p \in Pids : /\ Watched(p)' <=> Watched(p)
                           /\ Watched(p) => proc'[p].status = proc[p].status
    PROVE  View' = View
<1>1. \A p \in Pids : StateOf(p)' = StateOf(p)
  BY DEF StateOf
<1>2. QED
  BY <1>1 DEF View

LEMMA SameTable ==
    ASSUME UNCHANGED <<proc, child>>
    PROVE  View' = View
  BY ViewKept DEF Watched, Alive, Foreign

\* The steps that show nothing.
LEMMA HiddenSteps ==
    ASSUME UNCHANGED <<alerted, quarantined, dropped, suspect>>, View' = View
    PROVE  UNCHANGED R!respVars
  BY DEF R!respVars, View

LEMMA ReportSteps ==
    ASSUME NEW t, NEW node, node.pid \in Pids, NEW reports, NEW otherwise,
           Respond(t, node, reports, otherwise),
           UNCHANGED <<proc, child, quarantined, dropped, suspect>>
    PROVE  [R!RespNext]_R!respVars
<1>1. View' = View
  BY SameTable
<1>2. CASE alerted' = alerted \cup {node.pid}
  <2>1. R!Report(node.pid)
    BY <1>1, <1>2 DEF R!Report, View
  <2>2. QED
    BY <2>1 DEF R!RespNext
<1>3. CASE alerted' = alerted
  BY <1>1, <1>3, HiddenSteps
<1>4. QED
  BY <1>2, <1>3 DEF Respond, Written

LEMMA LogSteps ==
    ASSUME Inv, Facts, NEW t \in Workers,
           quarantined' \in Written(quarantined, Logged(t)), View' = View,
           UNCHANGED <<alerted, dropped, suspect>>,
           CommandsRun => Reaps(t)
    PROVE  [R!RespNext]_R!respVars
<1>1. CASE pc[t] = "iptables" /\ quarantined' = quarantined \cup Logged(t)
  <2>1. PICK p \in Pids : p = target[t] /\ p # NoPid /\ t \in Threads
    BY <1>1 DEF Inv, ShellsInv, TypeOK, Threads
  <2>2. LogWritten => p \in alerted
    BY <2>1 DEF Facts, ReportInv, TargetsReported
  <2>3. CommandsRun => View[p] # "running" /\ DaemonUser \in dropped
    BY <1>1, <2>1 DEF Facts, ContainInv, Down, Cut, View, StateOf, Watched, Alive
  <2>4. quarantined' = quarantined \cup {p}
    BY <1>1, <2>1 DEF Logged
  <2>5. R!Log(p)
    BY <1>1, <2>2, <2>3, <2>4 DEF R!Log, View
  <2>6. QED
    BY <2>5 DEF R!RespNext
<1>2. CASE quarantined' = quarantined
  BY <1>2, HiddenSteps
<1>3. QED
  BY <1>1, <1>2 DEF Logged, Written

LEMMA RefinedSystem ==
    ASSUME Inv, Facts, NEW t \in Workers, System(t) \/ CommandRuns(t)
    PROVE  [R!RespNext]_R!respVars
<1> USE DEF Inv
<1>0. t \in Threads
  BY DEF Threads
<1>1. ASSUME NEW p \in Pids, Fork(t, p) PROVE [R!RespNext]_R!respVars
  <2>1. /\ child' = [child EXCEPT ![t] = p] /\ child[t] = NoPid
        /\ ~Watched(p) /\ p # NoPid
        /\ \A q \in Pids : q # p => proc'[q] = proc[q]
        /\ alerted' = alerted \ {p} /\ quarantined' = quarantined \ {p}
        /\ suspect' = suspect \ {p} /\ dropped' = dropped
    BY <1>1, DaemonAssumption
       DEF Fork, FreePid, FreePids, Starts, Watched, Alive, TypeOK, NoPid
  <2>2. View' = View
    <3>1. \A q \in Pids : q # p => (Foreign(q)' <=> Foreign(q))
      BY <1>0, <2>1, DaemonAssumption DEF Foreign, TypeOK, NoPid
    <3>2. ~Foreign(p)'
      BY <1>0, <2>1 DEF Foreign, TypeOK
    <3>3. QED
      BY <2>1, <3>1, <3>2, ViewKept DEF Watched, Alive
  <2>3. View[p] = "absent"
    BY <2>1 DEF View, StateOf
  <2>4. R!StartOwn(p)
    BY <2>1, <2>2, <2>3 DEF R!StartOwn, R!Forget, View
  <2>5. QED
    BY <2>4 DEF R!RespNext
<1>2. ASSUME ForkFails(t) PROVE [R!RespNext]_R!respVars
  <2>1. /\ UNCHANGED <<proc, child, alerted, dropped, suspect>>
        /\ quarantined' \in Written(quarantined, Logged(t))
        /\ ~CommandsRun
    BY <1>2 DEF ForkFails, shared, CommandsRun
  <2>2. View' = View
    BY <2>1, SameTable
  <2>3. QED
    BY <2>1, <2>2, LogSteps
<1>3. ASSUME NEW ok, Return(t, ok) PROVE [R!RespNext]_R!respVars
  <2>1. PICK c \in Pids : c = child[t] /\ Reaps(t)
    BY <1>0, <1>3 DEF Return, Reaps, TypeOK
  <2>2. /\ child' = [child EXCEPT ![t] = NoPid]
        /\ proc' = [proc EXCEPT ![c] = Freed]
        /\ quarantined' \in Written(quarantined, Logged(t))
        /\ UNCHANGED <<alerted, dropped, suspect>>
    BY <1>3, <2>1 DEF Return
  <2>3. \A q \in Pids : q # c =>
           proc'[q] = proc[q] /\ (Foreign(q)' <=> Foreign(q))
    BY <1>0, <2>1, <2>2, DaemonAssumption DEF Foreign, TypeOK, NoPid
  <2>4. ~Watched(c) /\ ~Alive(c)'
    BY <1>0, <2>1, <2>2 DEF Watched, Foreign, Alive, TypeOK, Freed, Process
  <2>5. View' = View
    BY <2>3, <2>4, ViewKept DEF Watched, Alive
  <2>6. QED
    BY <2>1, <2>2, <2>5, LogSteps
<1>4. ASSUME CommandRuns(t) PROVE [R!RespNext]_R!respVars
  <2> DEFINE c == child[t]
             hit(p) == pc[t] = "kill" /\ p = target[t] /\ Alive(p) /\ MaySignal(p)
  <2>1. /\ c \in Pids /\ ~Foreign(c)
        /\ UNCHANGED <<child, alerted, quarantined, suspect>>
        /\ dropped' \in {dropped, dropped \cup Rule(t)}
    BY <1>0, <1>4 DEF CommandRuns, log, TypeOK, Foreign
  <2>2. \A p \in Pids :
           \/ hit(p) /\ proc'[p] = [proc[p] EXCEPT !.status = "stopped"]
           \/ ~hit(p) /\ p = c /\ proc'[p] = [proc[p] EXCEPT !.status = "zombie"]
           \/ ~hit(p) /\ p # c /\ proc'[p] = proc[p]
    BY <1>4 DEF CommandRuns
  <2>3. CASE \E p \in Pids : hit(p) /\ Foreign(p) /\ proc[p].status = "running"
    <3>1. PICK p \in Pids : hit(p) /\ Foreign(p) /\ proc[p].status = "running"
      BY <2>3
    <3>2. p # NoPid /\ Watched(p) /\ Watched(p)'
      BY <2>1, <2>2, <3>1, DaemonAssumption DEF NoPid, Watched, Alive, Foreign, TypeOK
    <3>3. p \in suspect
      BY <1>0, <3>1, <3>2 DEF Facts, CauseInv, TargetsInv
    <3>4. LogWritten => p \in alerted
      BY <1>0, <3>1, <3>2 DEF Facts, ReportInv, TargetsReported
    <3>5. \A q \in Pids : Foreign(q) /\ q # p => proc'[q] = proc[q]
      BY <2>1, <2>2, <3>1
    <3>6. proc'[p].status = "stopped"
      BY <2>2, <3>1 DEF TypeOK
    <3>7. View[p] = "running" /\ View'[p] = "suspended"
      BY <3>1, <3>2, <3>6 DEF View, StateOf
    <3>8. \A q \in Pids : q # p => View'[q] = View[q]
      BY <2>1, <3>5 DEF View, StateOf, Watched, Alive, Foreign
    <3>9. View' = [View EXCEPT ![p] = "suspended"]
      BY <3>7, <3>8 DEF View
    <3>10. dropped' = dropped
      BY <2>1, <3>1 DEF Rule
    <3>11. R!Suspend(p)
      BY <2>1, <3>3, <3>4, <3>7, <3>9, <3>10 DEF R!Suspend, View
    <3>12. QED
      BY <3>11 DEF R!RespNext
  <2>4. CASE ~\E p \in Pids : hit(p) /\ Foreign(p) /\ proc[p].status = "running"
    <3>1. ASSUME NEW p \in Pids, Foreign(p) PROVE proc'[p].status = proc[p].status
      <4>1. CASE hit(p)
        <5>1. proc[p].status = "stopped"
          BY <2>4, <3>1, <4>1 DEF Alive
        <5>2. proc'[p] = [proc[p] EXCEPT !.status = "stopped"]
          BY <2>2, <4>1
        <5>3. QED
          BY <5>1, <5>2 DEF TypeOK
      <4>2. CASE ~hit(p)
        BY <2>1, <2>2, <3>1, <4>2
      <4>3. QED
        BY <4>1, <4>2
    <3>2. View' = View
      BY <2>1, <3>1, ViewKept DEF Watched, Alive, Foreign
    <3>3. CASE dropped' = dropped
      BY <2>1, <3>2, <3>3, HiddenSteps
    <3>4. CASE dropped' # dropped
      <4>1. pc[t] = "iptables" /\ dropped' = dropped \cup {DaemonUser}
        BY <2>1, <3>4 DEF Rule
      <4>2. LogWritten => alerted # {}
        BY <1>0, <4>1 DEF ShellsInv, Facts, ReportInv, TargetsReported
      <4>3. R!Block
        BY <2>1, <3>2, <4>1, <4>2 DEF R!Block, View
      <4>4. QED
        BY <4>3 DEF R!RespNext
    <3>5. QED
      BY <3>3, <3>4
  <2>5. QED
    BY <2>3, <2>4
<1>5. QED
  BY <1>1, <1>2, <1>3, <1>4 DEF System

\* The other processes of the machine start, change and end.
LEMMA RefinedProcesses ==
    ASSUME Inv, Environment
    PROVE  [R!RespNext]_R!respVars
<1> USE DEF Inv
<1>1. ASSUME NEW p \in Pids, NEW image \in Images, Spawn(p, image)
      PROVE  [R!RespNext]_R!respVars
  <2>1. /\ proc[p].status = "unused" /\ UNCHANGED <<child, dropped>>
        /\ proc' = [proc EXCEPT ![p] = Process("running", image)]
        /\ alerted' = alerted \ {p} /\ quarantined' = quarantined \ {p}
        /\ suspect' \in {suspect \ {p}, suspect \cup {p}}
    BY <1>1 DEF Spawn, FreePid, FreePids, Starts
  <2>2. ~Watched(p) /\ Foreign(p)
    BY <2>1, DaemonAssumption DEF Watched, Foreign, Alive, ShellsInv, Exists, NoPid
  <2>3. /\ proc'[p].status = "running"
        /\ \A q \in Pids : q # p => proc'[q] = proc[q]
    BY <2>1 DEF TypeOK, Process
  <2>4. View[p] = "absent" /\ View'[p] = "running"
    BY <2>1, <2>2, <2>3 DEF View, StateOf, Watched, Alive, Foreign
  <2>5. \A q \in Pids : q # p => View'[q] = View[q]
    BY <2>1, <2>3 DEF View, StateOf, Watched, Alive, Foreign
  <2>6. View' = [View EXCEPT ![p] = "running"]
    BY <2>4, <2>5 DEF View
  <2>7. R!Start(p)
    BY <2>1, <2>4, <2>6 DEF R!Start, R!Forget, View
  <2>8. QED
    BY <2>7 DEF R!RespNext
<1>2. ASSUME NEW p \in Pids, NEW image \in Images, Exec(p, image) \/ Change(p, image)
      PROVE  [R!RespNext]_R!respVars
  <2>1. Becomes(p, image)
    BY <1>2 DEF Exec, Change
  <2>2. /\ UNCHANGED <<child, alerted, quarantined, dropped>> /\ Foreign(p)
        /\ proc[p].status = "running"
        /\ \A q \in Pids : proc'[q].status = proc[q].status
        /\ suspect' \in {suspect, suspect \cup {p}}
    BY <2>1 DEF Becomes, log, TypeOK
  <2>3. View' = View
    BY <2>2, ViewKept DEF Watched, Alive, Foreign
  <2>4. View[p] = "running"
    BY <2>2 DEF View, StateOf, Watched, Alive
  <2>5. CASE suspect' = suspect
    BY <2>2, <2>3, <2>5, HiddenSteps
  <2>6. CASE suspect' = suspect \cup {p}
    <3>1. R!GiveCause(p)
      BY <2>2, <2>3, <2>4, <2>6 DEF R!GiveCause, View
    <3>2. QED
      BY <3>1 DEF R!RespNext
  <2>7. QED
    BY <2>2, <2>5, <2>6
<1>3. ASSUME NEW p \in Pids, Exit(p) PROVE [R!RespNext]_R!respVars
  <2>1. /\ UNCHANGED <<child, alerted, quarantined, dropped, suspect>> /\ Foreign(p)
        /\ proc' = [proc EXCEPT ![p] = Freed]
    BY <1>3 DEF Exit, log
  <2>2. /\ ~Alive(p)'
        /\ \A q \in Pids : q # p => proc'[q] = proc[q]
    BY <2>1 DEF Alive, Freed, Process, TypeOK
  <2>3. CASE ~Alive(p)
    <3>1. View' = View
      BY <2>1, <2>2, <2>3, ViewKept DEF Watched, Alive, Foreign
    <3>2. QED
      BY <2>1, <3>1, HiddenSteps
  <2>4. CASE Alive(p)
    <3>1. View[p] # "absent" /\ View'[p] = "absent"
      BY <2>1, <2>2, <2>4 DEF View, StateOf, Watched
    <3>2. \A q \in Pids : q # p => View'[q] = View[q]
      BY <2>1, <2>2 DEF View, StateOf, Watched, Alive, Foreign
    <3>3. View' = [View EXCEPT ![p] = "absent"]
      BY <3>1, <3>2 DEF View
    <3>4. R!End(p)
      BY <2>1, <3>1, <3>3 DEF R!End, View
    <3>5. QED
      BY <3>4 DEF R!RespNext
  <2>5. QED
    BY <2>3, <2>4
<1>4. CASE Sigterm \/ Burst
  BY <1>4, HiddenSteps, SameTable DEF Sigterm, Burst, shared, log
<1>5. CASE StopUnit
  <2>1. UNCHANGED <<child, alerted, quarantined, dropped, suspect>>
    BY <1>5 DEF StopUnit, log
  <2>2. \A p \in Pids : Foreign(p) => proc'[p] = proc[p]
    BY <1>5 DEF StopUnit, Foreign
  <2>3. View' = View
    BY <2>1, <2>2, ViewKept DEF Watched, Alive, Foreign
  <2>4. QED
    BY <2>1, <2>3, HiddenSteps
<1>6. QED
  BY <1>1, <1>2, <1>3, <1>4, <1>5 DEF Environment

LEMMA RefinedStep ==
    ASSUME Inv, Facts, [Next]_vars
    PROVE  [R!RespNext]_R!respVars
<1> USE DEF Inv
<1>1. ASSUME NEW t \in Workers, System(t) \/ CommandRuns(t)
      PROVE  [R!RespNext]_R!respVars
  BY <1>1, RefinedSystem
<1>2. ASSUME UNCHANGED <<proc, child, alerted, quarantined, dropped, suspect>>
      PROVE  UNCHANGED R!respVars
  BY <1>2, HiddenSteps, SameTable
<1>3. CASE Monitor
  <2>1. ASSUME NEW node \in current, Visit(node) PROVE [R!RespNext]_R!respVars
    <3>1. node.pid \in Pids
      BY DEF TypeOK, Nodes
    <3>2. /\ Respond("monitor", node, ScanReports(Total(node)), "walk")
          /\ UNCHANGED <<proc, child, quarantined, dropped, suspect>>
      BY <2>1 DEF Visit, shared
    <3>3. QED
      BY <3>1, <3>2, ReportSteps
  <2>2. CASE ScanProcessTree \/ ScanFails \/ EndOfWalk
    BY <1>2, <2>2 DEF ScanProcessTree, ScanFails, Scan, EndOfWalk, shared, log
  <2>3. QED
    BY <1>3, <2>1, <2>2 DEF Monitor
<1>4. CASE Netlink
  <2>1. ASSUME NEW node \in temp_node, AnalyzeSingle(node)
        PROVE  [R!RespNext]_R!respVars
    <3>1. node.pid \in Pids
      BY DEF TypeOK, Nodes
    <3>2. /\ Respond("netlink", node, ExecReports(Total(node)), "loop")
          /\ UNCHANGED <<proc, child, quarantined, dropped, suspect>>
      BY <2>1 DEF AnalyzeSingle, shared
    <3>3. QED
      BY <3>1, <3>2, ReportSteps
  <2>2. CASE Listen \/ ListenFails \/ RecvFails \/ RecvOther \/ RecvExec
    BY <1>2, <2>2 DEF Listen, ListenFails, RecvFails, RecvOther, RecvExec,
                      CloseNetlink, shared, log
  <2>3. QED
    BY <1>4, <2>1, <2>2 DEF Netlink
<1>5. ASSUME NEW t, NEW label, ControlStep(t, label) PROVE UNCHANGED R!respVars
  BY <1>2, <1>5 DEF ControlStep, shared, log
<1>6. CASE \/ \E loaded \in ModuleLoaded : Check(loaded)
           \/ InotifyInit \/ FileEvent \/ FileFails
           \/ \E t \in DOMAIN Blocks : LoopAgain(t)
           \/ \E t \in Workers : LoopEnds(t)
  BY <1>2, <1>5, <1>6 DEF Check, InotifyInit, FileEvent, FileFails, LoopAgain,
                          LoopEnds, CloseNetlink, log
<1>7. CASE MainReturns
  <2>1. /\ UNCHANGED <<child, alerted, quarantined, dropped, suspect>>
        /\ \A p \in Pids : p # Self => proc'[p] = proc[p]
    BY <1>7 DEF MainReturns, TypeOK, log
  <2>2. View' = View
    BY <2>1, ViewKept DEF Watched, Alive, Foreign
  <2>3. QED
    BY <2>1, <2>2, HiddenSteps
<1>8. CASE Environment
  BY <1>8, RefinedProcesses
<1>9. CASE UNCHANGED vars
  BY <1>2, <1>9 DEF vars
<1>10. QED
  BY <1>1, <1>3, <1>4, <1>6, <1>7, <1>8, <1>9 DEF Next, Daemon

(***************************************************************************)
(* The daemon implements Response: whatever its threads, its shells and    *)
(* the machine do, whichever of its calls fail, and however ids are given  *)
(* out, the other processes see no step that Response does not allow.      *)
(* What Response asks of a log that can always be written, and of commands *)
(* that can be relied on, is asked where LogWritten and CommandsRun hold.  *)
(***************************************************************************)
THEOREM Refinement == Spec => ImplementsResponse
<1>1. Init => R!RespInit
  <2> SUFFICES ASSUME Init PROVE R!RespInit
    OBVIOUS
  <2>1. \A p \in Pids : ~Watched(p)
    BY DEF Init, Watched, Alive, Foreign, Process, Unused
  <2>2. alerted = {} /\ quarantined = {} /\ dropped = {} /\ suspect = {}
    BY DEF Init
  <2>3. QED
    BY <2>1, <2>2 DEF R!RespInit, StateOf
<1>2. Init => Facts
  BY CauseInit, ReportInit, ContainStart DEF Facts, ReportInv
<1>3. ASSUME Inv, Facts, [Next]_vars PROVE Facts'
  <2>1. CauseInv'
    BY <1>3, CauseStep DEF Facts
  <2>2. LogWritten => ReportInv'
    BY <1>3, ReportStep DEF Facts, LogWritten
  <2>3. CommandsRun => TakenInv' /\ ContainInv'
    BY <1>3, TakenStep, ContainStep DEF Facts, CommandsRun
  <2>4. QED
    BY <2>1, <2>2, <2>3 DEF Facts, LogWritten, CommandsRun
<1>4. Inv /\ Facts /\ [Next]_vars => [R!RespNext]_R!respVars
  BY RefinedStep
<1>5. Spec => []Inv
  BY DaemonTypes, PTL DEF Inv
<1>6. QED
  BY <1>1, <1>2, <1>3, <1>4, <1>5, PTL
     DEF Spec, ImplementsResponse, R!RespSpec
=============================================================================
