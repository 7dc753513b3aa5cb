------------------------------- MODULE Daemon -------------------------------
(***************************************************************************)
(* One life of the daemon zoedr_advanced, from the creation of its four    *)
(* threads to the return of main, next to the processes it watches.        *)
(*                                                                         *)
(* The threads share the process list (and its mutex) and terminate_flag,  *)
(* but they interact above all through the operating system: each of them  *)
(* runs shell commands with system(), the shell is one more process that   *)
(* the other threads look at, and the command may suspend any process, the *)
(* daemon and its own shells included.  So the process table is the centre *)
(* of this model.  A thread inside system() is blocked until its shell has *)
(* ended and been reaped; no thread moves while the daemon is suspended.   *)
(*                                                                         *)
(* A process looks different from one moment to the next: it forks, it     *)
(* executes another file, it renames itself, it opens sockets.  The daemon *)
(* copies part of that into nodes and decides on them later, so what it    *)
(* decides on may be out of date (see suspect).                            *)
(*                                                                         *)
(* The integrity check of the watchdog finds the binary intact here.       *)
(***************************************************************************)
EXTENDS ThreatScore, Sequences, FiniteSets

CONSTANTS
    Pids,              \* process ids
    Self,              \* the daemon's own
    Images,            \* what the processes that are not the daemon's look like
    UnderSystemd,      \* started by the unit (stdout and stderr are sockets)
    PidReuse,          \* when an id can be given to a new process
    Failures,          \* the calls that can fail
    Unavailable,       \* those that always do
    ModuleLoaded,      \* what the watchdog can find of the kernel module
    UnitActive,        \* what systemctl is-active can answer
    QueueCap,          \* events the netlink socket buffers
    MaxForeign         \* bound on the other processes alive at a time

\* stat tells what sscanf gets from the process's stat line: everything; no
\* parent, because there is a ")" in the name; or not even the empty name.
ImageFields == [comm : SUBSET NamePatterns, ppid : Int, fileless : BOOLEAN,
                stat : {"whole", "paren", "empty"}, owner : {"root", "user"},
                socket : BOOLEAN, hot : BOOLEAN, entropy : Nat]

ASSUME DaemonAssumption ==
    /\ Pids \subseteq Nat \ {0}
    /\ Self \in Pids
    /\ Images \subseteq ImageFields
    /\ UnderSystemd \in BOOLEAN
    /\ PidReuse \in {"never", "late", "early"}
    /\ Failures \subseteq {"fork", "opendir", "netlink", "inotify", "log",
                           "iptables"}
    /\ Unavailable \subseteq {"netlink", "inotify"}
    /\ ModuleLoaded \subseteq BOOLEAN /\ UnitActive \subseteq BOOLEAN
    /\ QueueCap \in Nat
    /\ MaxForeign \in Nat

VARIABLES
    proc,            \* the process table
    terminate_flag,
    pc,              \* where each thread of the daemon is
    child,           \* the shell a thread waits for in system()
    target,          \* the process a thread is quarantining
    process_list,    \* the nodes of the last scan
    current,         \* those the monitoring loop has yet to visit
    temp_node,       \* the node that the netlink thread analyses, if any
    proc_mutex,      \* the thread that holds it
    queue,           \* exec events in the netlink socket's buffer
    overrun,         \* an event found that buffer full
    alerted,         \* processes reported as SUSPICIOUS_BEHAVIOR
    quarantined,     \* processes reported as PROCESS_QUARANTINED
    dropped,         \* the users whose output iptables drops
    suspect          \* whose suspension has a cause (a history, see below)

shared == <<proc, queue, overrun>>
list   == <<process_list, current, temp_node, proc_mutex>>
log    == <<alerted, quarantined>>
vars   == <<proc, terminate_flag, pc, child, target, process_list, current,
            temp_node, proc_mutex, queue, overrun, alerted, quarantined,
            dropped, suspect>>
-----------------------------------------------------------------------------
Workers == {"monitor", "file", "watchdog", "netlink"}
Threads == Workers \cup {"main"}

\* The calls of system(), in quarantine_process and in the watchdog.
Commands == {"kill", "iptables", "modprobe", "is_active", "start", "recheck"}

Labels == {"init", "loop", "walk", "read", "sleep", "recv", "analyze", "join",
           "done"} \cup Commands

NoPid == 0
NoOne == "none"

(***************************************************************************)
(* The daemon and its shells.  The name zoedr_advanced contains "nc", that *)
(* of a shell is "sh".  A shell and the command it runs are one process; a *)
(* shell inherits the sockets open when it is forked, whereas those of the *)
(* daemon depend on what it has open at the moment (see Observed).         *)
(***************************************************************************)
DaemonUser == IF RunsAsRoot THEN "root" ELSE "user"

OwnImage(parent, socket) ==
    [comm |-> {"shell"}, ppid |-> parent, fileless |-> FALSE, stat |-> "whole",
     owner |-> DaemonUser, socket |-> socket, hot |-> FALSE, entropy |-> 0]
SelfImage == OwnImage(1, FALSE)
AllImages == Images \cup {SelfImage}
               \cup {OwnImage(Self, socket) : socket \in BOOLEAN}

\* What goes into a node, and what is read while the node is analysed.
Static(image) == [comm |-> image.comm, ppid |-> image.ppid,
                  fileless |-> image.fileless]
Live(image)   == [socket |-> image.socket, hot |-> image.hot,
                  entropy |-> image.entropy]

Process(status, image) == [status |-> status, img |-> image]
Unused == Process("unused", SelfImage)

Alive(p)   == proc[p].status \in {"running", "stopped"}
Exists(p)  == proc[p].status \in {"running", "stopped", "zombie"}
Foreign(p) == p # Self /\ \A t \in Threads : child[t] # p

NetlinkOpen == pc["netlink"] \notin {"init", "done"}
HasSocket   == UnderSystemd \/ NetlinkOpen

Nodes == [pid : Pids, comm : SUBSET NamePatterns, ppid : Int, fileless : BOOLEAN]

Garbled == {p \in Pids : Exists(p) /\ proc[p].img.stat # "whole"}

\* What the locals comm_raw and ppid, which nothing initialises, can hold:
\* what an earlier line left in them (ProcessTable has which, for a scan).
Held == [comm : {i.comm : i \in AllImages}, ppid : {i.ppid : i \in AllImages}]

\* The node that /proc/<pid>/stat and /proc/<pid>/exe give for a process.
NodeOf(p, held) ==
    LET i == proc[p].img
    IN  [pid      |-> p,
         comm     |-> IF i.stat = "empty" THEN held[p].comm ELSE i.comm,
         ppid     |-> IF i.stat = "whole" THEN i.ppid ELSE held[p].ppid,
         fileless |-> Alive(p) /\ i.fileless]

\* What the analysis reads from /proc for a node, however old the node is.
Observed(p) ==
    IF Alive(p)
    THEN [socket  |-> proc[p].img.socket \/ (p = Self /\ HasSocket),
          hot     |-> proc[p].img.hot,
          entropy |-> proc[p].img.entropy]
    ELSE NothingLive

Total(node) == analyze_process_behavior(node.pid, node, Observed(node.pid))

-----------------------------------------------------------------------------
Init ==
    /\ proc = [p \in Pids |-> IF p = Self THEN Process("running", SelfImage)
                                          ELSE Unused]
    /\ terminate_flag = FALSE
    /\ pc = [t \in Threads |-> CASE t = "main"                 -> "join"
                                 [] t \in {"file", "netlink"}  -> "init"
                                 [] t \in {"monitor", "watchdog"} -> "loop"]
    /\ child = [t \in Threads |-> NoPid]
    /\ target = [t \in Threads |-> NoPid]
    /\ process_list = {} /\ current = {} /\ temp_node = {} /\ proc_mutex = NoOne
    /\ queue = <<>> /\ overrun = FALSE
    /\ alerted = {} /\ quarantined = {} /\ dropped = {} /\ suspect = {}

Awake == proc[Self].status = "running"
At(t, label) == Awake /\ pc[t] = label
Goto(t, label) == pc' = [pc EXCEPT ![t] = label]

(***************************************************************************)
(* The kernel gives the id of a process that is gone to another one only   *)
(* after it has run through all the others: never in a short run, "late"   *)
(* when the daemon has no more use for it, or "early".  Which of the free  *)
(* ids is given out matters in the last case only.                         *)
(***************************************************************************)
\* The nodes yet to be analysed: a scan that fails comes back to all of them.
KnownNodes == temp_node \cup
                (IF "opendir" \in Failures THEN process_list ELSE current)

NodePids == {node.pid : node \in KnownNodes}

KnownPids == {target[t] : t \in Threads} \cup NodePids

FreePids == {p \in Pids : /\ proc[p].status = "unused"
                          /\ PidReuse = "late" => p \notin KnownPids}

FreePid(p) == p \in FreePids /\ (PidReuse = "early" \/ \A q \in FreePids : p <= q)

Freed == Process(IF PidReuse = "never" THEN "gone" ELSE "unused", SelfImage)

\* What was reported of an earlier process with the id does not concern this.
Starts(p, image) ==
    /\ proc' = [proc EXCEPT ![p] = Process("running", image)]
    /\ alerted' = alerted \ {p}
    /\ quarantined' = quarantined \ {p}

\* MUTANT: one event more than the buffer holds.
ExecEvent_OneTooMany(p) ==
    /\ queue' = IF NetlinkOpen /\ Len(queue) <= QueueCap
                THEN Append(queue, p) ELSE queue
    /\ overrun' = (overrun \/ (NetlinkOpen /\ Len(queue) > QueueCap))

\* The kernel tells the netlink socket that a process has executed a file.
ExecEvent(p) ==
    /\ queue' = IF NetlinkOpen /\ Len(queue) < QueueCap
                THEN Append(queue, p) ELSE queue
    /\ overrun' = (overrun \/ (NetlinkOpen /\ Len(queue) >= QueueCap))

-----------------------------------------------------------------------------
(* The other processes of the machine.                                     *)

\* The analysis of a process that looks like this calls for quarantine.
GuiltyImage(p, image) ==
    Quarantines(analyze_process_behavior(p, Static(image), Live(image)))

(***************************************************************************)
(* What can make the daemon suspend a process, since it began: that its    *)
(* own total called for it at some moment; that its stat line cannot be    *)
(* parsed; or that it replaced what the daemon was still going to decide   *)
(* on, be it what a node says of it or an earlier process with its id.     *)
(***************************************************************************)
Incriminates(p, image, outdated) ==
    GuiltyImage(p, image) \/ image.stat # "whole" \/ outdated

\* A process forks: the child looks like its parent, which may be one that
\* the model does not show, and there is no exec event.  The bounds: MaxForeign
\* of them at a time, and the last id is for a shell.
Spawn(p, image) ==
    /\ FreePid(p) /\ Cardinality(FreePids) > 1
    /\ Cardinality({q \in Pids : Foreign(q) /\ Exists(q)}) < MaxForeign
    /\ Starts(p, image)
    /\ suspect' = IF Incriminates(p, image, p \in KnownPids)
                  THEN suspect \cup {p} ELSE suspect \ {p}
    /\ UNCHANGED <<terminate_flag, pc, child, target, list, queue, overrun,
                   dropped>>

\* A process that runs looks different from now on.
Becomes(p, image) ==
    /\ Foreign(p) /\ proc[p].status = "running" /\ proc[p].img # image
    /\ proc' = [proc EXCEPT ![p].img = image]
    /\ suspect' = IF Incriminates(p, image,
                        p \in NodePids /\ Static(image) # Static(proc[p].img))
                  THEN suspect \cup {p} ELSE suspect
    /\ UNCHANGED <<terminate_flag, pc, child, target, list, log, dropped>>

\* It executes a file.
Exec(p, image) ==
    /\ Becomes(p, image)
    /\ image.ppid = proc[p].img.ppid
    /\ ExecEvent(p)

\* It renames itself, opens or closes sockets, uses CPU time, maps memory,
\* changes its user or loses its parent, but runs the same file.
Change(p, image) ==
    /\ Becomes(p, image)
    /\ image.fileless = proc[p].img.fileless
    /\ UNCHANGED <<queue, overrun>>

Exit(p) ==
    /\ Foreign(p) /\ Exists(p)
    /\ proc' = [proc EXCEPT ![p] = Freed]
    /\ UNCHANGED <<terminate_flag, pc, child, target, list, queue, overrun,
                   log, dropped, suspect>>

\* Events that are not exec events take room too, and can be too many.
Burst ==
    /\ NetlinkOpen
    /\ overrun' = TRUE
    /\ UNCHANGED <<proc, terminate_flag, pc, child, target, list, queue, log,
                   dropped, suspect>>
-----------------------------------------------------------------------------
(* system(): fork a shell, wait for it, go on whatever it returned.        *)

\* MUTANT: the watchdog asks again while the unit is active.
AfterCommand_AsksAgain(t, ok) ==
    /\ Goto(t, CASE pc[t] = "kill"     -> "iptables"
                 [] pc[t] = "iptables" -> IF t = "monitor" THEN "walk" ELSE "loop"
                 [] pc[t] = "modprobe" -> "is_active"
                 [] pc[t] = "is_active" -> IF ok THEN "is_active" ELSE "start"
                 [] pc[t] = "start"    -> "recheck"
                 [] pc[t] = "recheck"  -> "loop")
    /\ target' = IF pc[t] = "iptables" THEN [target EXCEPT ![t] = NoPid]
                                       ELSE target

\* What a thread does when system() has returned.
AfterCommand(t, ok) ==
    /\ Goto(t, CASE pc[t] = "kill"     -> "iptables"
                 [] pc[t] = "iptables" -> IF t = "monitor" THEN "walk" ELSE "loop"
                 [] pc[t] = "modprobe" -> "is_active"
                 [] pc[t] = "is_active" -> IF ok THEN "loop" ELSE "start"
                 [] pc[t] = "start"    -> "recheck"
                 [] pc[t] = "recheck"  -> "loop")
    /\ target' = IF pc[t] = "iptables" THEN [target EXCEPT ![t] = NoPid]
                                       ELSE target

\* The lines of the log after these are due: without the file there is none.
Written(lines, due) ==
    {lines \cup due} \cup (IF "log" \in Failures THEN {lines} ELSE {})

\* MUTANT: the line is written between the two commands.
Logged_TooEarly(t) == IF pc[t] = "kill" THEN {target[t]} ELSE {}

\* The line quarantine_process writes at its end.
Logged(t) == IF pc[t] = "iptables" THEN {target[t]} ELSE {}

\* fork and exec are one step here: until the child executes the shell it has
\* the name of the daemon and its sockets, which the analysis treats alike.
Fork(t, p) ==
    /\ Awake /\ pc[t] \in Commands /\ child[t] = NoPid
    /\ FreePid(p)
    /\ Starts(p, OwnImage(Self, HasSocket))
    /\ ExecEvent(p)
    /\ child' = [child EXCEPT ![t] = p]
    /\ suspect' = suspect \ {p}
    /\ UNCHANGED <<terminate_flag, pc, target, list, dropped>>

ForkFails(t) ==
    /\ Awake /\ pc[t] \in Commands /\ child[t] = NoPid
    /\ "fork" \in Failures
    /\ AfterCommand(t, FALSE)
    /\ quarantined' \in Written(quarantined, Logged(t))
    /\ UNCHANGED <<terminate_flag, shared, child, list, alerted, dropped, suspect>>

\* Only root may signal the processes of others.
MaySignal(p) == RunsAsRoot \/ proc[p].img.owner = DaemonUser

\* The rule of quarantine_process: it takes geteuid() for the owner of the
\* process, and only root can set it.
Rule(t) == IF pc[t] = "iptables" /\ RunsAsRoot THEN {DaemonUser} ELSE {}

\* The shell of a thread runs its command and ends.  A suspended process
\* stays suspended, a zombie is not affected, and a shell whose target's id
\* is now its own suspends itself.
CommandRuns(t) ==
    LET c == child[t]
        hit(p) == pc[t] = "kill" /\ p = target[t] /\ Alive(p) /\ MaySignal(p)
    IN  /\ c # NoPid /\ proc[c].status = "running"
        /\ proc' = [p \in Pids |->
                      CASE hit(p)              -> [proc[p] EXCEPT !.status = "stopped"]
                        [] ~hit(p) /\ p = c    -> [proc[p] EXCEPT !.status = "zombie"]
                        [] ~hit(p) /\ p # c    -> proc[p]]
        /\ \/ dropped' = dropped \cup Rule(t)
           \/ "iptables" \in Failures /\ dropped' = dropped
        /\ UNCHANGED <<terminate_flag, pc, child, target, list, queue, overrun,
                       log, suspect>>

\* waitpid returns; the exit status matters to the watchdog only.
Return(t, ok) ==
    /\ Awake /\ child[t] # NoPid /\ proc[child[t]].status = "zombie"
    /\ AfterCommand(t, ok)
    /\ child' = [child EXCEPT ![t] = NoPid]
    /\ proc' = [proc EXCEPT ![child[t]] = Freed]
    /\ quarantined' \in Written(quarantined, Logged(t))
    /\ UNCHANGED <<terminate_flag, list, queue, overrun, alerted, dropped, suspect>>
-----------------------------------------------------------------------------
(* The periodic scan: advanced_monitoring_loop and scan_process_tree.      *)

\* A scan whose opendir fails leaves the nodes of the one before.
Scan(nodes) ==
    /\ At("monitor", "loop") /\ ~terminate_flag /\ proc_mutex = NoOne
    /\ process_list' = nodes
    /\ current' = nodes
    /\ proc_mutex' = "monitor"
    /\ Goto("monitor", "walk")
    /\ UNCHANGED <<terminate_flag, shared, child, target, temp_node, log, dropped, suspect>>

ScanProcessTree ==
    \E held \in [Garbled -> Held] :
      Scan({NodeOf(p, held) : p \in {q \in Pids : Exists(q)}})

ScanFails == "opendir" \in Failures /\ Scan(process_list)

\* MUTANT: whatever is reported is quarantined.
Respond_Always(t, node, reports, otherwise) ==
    /\ alerted' \in Written(alerted, IF reports THEN {node.pid} ELSE {})
    /\ target' = IF reports THEN [target EXCEPT ![t] = node.pid] ELSE target
    /\ Goto(t, IF reports THEN "kill" ELSE otherwise)

\* MUTANT: a process is either quarantined or reported.
Respond_Silent(t, node, reports, otherwise) ==
    LET kills == reports /\ Quarantines(Total(node))
    IN  /\ alerted' \in Written(alerted, IF reports /\ ~kills THEN {node.pid} ELSE {})
        /\ target' = IF kills THEN [target EXCEPT ![t] = node.pid] ELSE target
        /\ Goto(t, IF kills THEN "kill" ELSE otherwise)

\* An analysis, its SUSPICIOUS_BEHAVIOR line, and the decision to quarantine.
Respond(t, node, reports, otherwise) ==
    LET kills == reports /\ Quarantines(Total(node))
    IN  /\ alerted' \in Written(alerted, IF reports THEN {node.pid} ELSE {})
        /\ target' = IF kills THEN [target EXCEPT ![t] = node.pid] ELSE target
        /\ Goto(t, IF kills THEN "kill" ELSE otherwise)

\* The list is built by prepending, so the highest id comes first.
Visit(node) ==
    /\ At("monitor", "walk")
    /\ node \in current /\ \A other \in current : other.pid <= node.pid
    /\ current' = current \ {node}
    /\ Respond("monitor", node, ScanReports(Total(node)), "walk")
    /\ UNCHANGED <<terminate_flag, shared, child, process_list, temp_node,
                   proc_mutex, quarantined, dropped, suspect>>

\* MUTANT: the mutex is not released.
EndOfWalk_KeepsLock ==
    /\ At("monitor", "walk") /\ current = {}
    /\ Goto("monitor", "loop")
    /\ UNCHANGED <<terminate_flag, shared, child, target, list, log, dropped, suspect>>

EndOfWalk ==
    /\ At("monitor", "walk") /\ current = {}
    /\ proc_mutex' = NoOne
    /\ Goto("monitor", "loop")
    /\ UNCHANGED <<terminate_flag, shared, child, target, process_list, current,
                   temp_node, log, dropped, suspect>>

Monitor == \/ ScanProcessTree \/ ScanFails \/ EndOfWalk
           \/ \E node \in current : Visit(node)
-----------------------------------------------------------------------------
(* The netlink thread: start_netlink_watcher and analyze_single_process.   *)

CloseNetlink ==
    /\ Goto("netlink", "done")
    /\ queue' = <<>>
    /\ overrun' = FALSE
    /\ UNCHANGED <<proc, terminate_flag, child, target, list, log, dropped, suspect>>

Listen ==
    /\ At("netlink", "init") /\ "netlink" \notin Unavailable
    /\ Goto("netlink", "loop")
    /\ UNCHANGED <<terminate_flag, shared, child, target, list, log, dropped, suspect>>

ListenFails ==
    /\ At("netlink", "init") /\ ("netlink" \in Failures \cup Unavailable)
    /\ CloseNetlink

\* MUTANT: the thread goes on after ENOBUFS.
RecvFails_GoesOn ==
    /\ At("netlink", "recv") /\ overrun
    /\ Goto("netlink", "loop")
    /\ overrun' = FALSE
    /\ UNCHANGED <<proc, queue, terminate_flag, child, target, list, log, dropped, suspect>>

\* recv fails with ENOBUFS once an event was lost; that ends the thread.
RecvFails == At("netlink", "recv") /\ overrun /\ CloseNetlink

\* An event that is not an exec: some process forked, exited or was renamed.
RecvOther ==
    /\ At("netlink", "recv") /\ ~overrun
    /\ Goto("netlink", "loop")
    /\ UNCHANGED <<terminate_flag, shared, child, target, list, log, dropped, suspect>>

\* The node is read at once, if the process still exists.
RecvExec ==
    /\ At("netlink", "recv") /\ ~overrun /\ queue # <<>>
    /\ queue' = Tail(queue)
    /\ LET p == Head(queue)
       IN  \/ /\ Exists(p)
              /\ \E held \in [Garbled -> Held] : temp_node' = {NodeOf(p, held)}
              /\ Goto("netlink", "analyze")
           \/ /\ ~Exists(p)
              /\ temp_node' = temp_node
              /\ Goto("netlink", "loop")
    /\ UNCHANGED <<proc, overrun, terminate_flag, child, target, process_list,
                   current, proc_mutex, log, dropped, suspect>>

AnalyzeSingle(node) ==
    /\ At("netlink", "analyze") /\ node \in temp_node
    /\ temp_node' = {}
    /\ Respond("netlink", node, ExecReports(Total(node)), "loop")
    /\ UNCHANGED <<terminate_flag, shared, child, process_list, current,
                   proc_mutex, quarantined, dropped, suspect>>

Netlink == \/ Listen \/ ListenFails \/ RecvFails \/ RecvOther \/ RecvExec
           \/ \E node \in temp_node : AnalyzeSingle(node)
-----------------------------------------------------------------------------
(* The watchdog and the file watcher.                                      *)

ControlStep(t, label) ==
    /\ Goto(t, label)
    /\ UNCHANGED <<terminate_flag, shared, child, target, list, log, dropped, suspect>>

\* The 15 seconds are over: the binary is intact, the module may be missing.
Check(loaded) ==
    /\ At("watchdog", "sleep")
    /\ ControlStep("watchdog", IF loaded THEN "is_active" ELSE "modprobe")

InotifyInit ==
    /\ At("file", "init") /\ "inotify" \notin Unavailable
    /\ ControlStep("file", "loop")

FileEvent == At("file", "read") /\ ControlStep("file", "loop")

FileFails ==
    /\ \/ At("file", "init") /\ "inotify" \in Failures \cup Unavailable
       \/ At("file", "read") /\ "inotify" \in Failures
    /\ ControlStep("file", "done")

\* The loops test the flag, then block without looking at it again.
Blocks == [watchdog |-> "sleep", file |-> "read", netlink |-> "recv"]

\* MUTANT: the loop does not test the flag.
LoopAgain_Forever(t) == At(t, "loop") /\ ControlStep(t, Blocks[t])

LoopAgain(t) ==
    /\ At(t, "loop") /\ ~terminate_flag
    /\ ControlStep(t, Blocks[t])

LoopEnds(t) ==
    /\ At(t, "loop") /\ terminate_flag
    /\ IF t = "netlink" THEN CloseNetlink ELSE ControlStep(t, "done")
-----------------------------------------------------------------------------
(* Shutdown.                                                               *)

Sigterm ==
    /\ Awake
    /\ terminate_flag' = TRUE
    /\ UNCHANGED <<shared, pc, child, target, list, log, dropped, suspect>>

\* systemctl stop: SIGTERM, then SIGCONT, to the daemon and all its shells.
StopUnit ==
    /\ UnderSystemd /\ Alive(Self)
    /\ terminate_flag' = TRUE
    /\ proc' = [p \in Pids |->
                  CASE p = Self -> [proc[p] EXCEPT !.status = "running"]
                    [] p # Self /\ ~Foreign(p) ->
                         [proc[p] EXCEPT !.status = "zombie"]
                    [] Foreign(p) -> proc[p]]
    /\ UNCHANGED <<pc, child, target, list, queue, overrun, log, dropped, suspect>>

\* MUTANT: main does not join the netlink thread.
MainReturns_NetlinkDetached ==
    /\ At("main", "join") /\ \A t \in Workers \ {"netlink"} : pc[t] = "done"
    /\ proc_mutex = NoOne
    /\ process_list' = {} /\ current' = {}
    /\ Goto("main", "done")
    /\ proc' = [proc EXCEPT ![Self] = Process("gone", SelfImage)]
    /\ UNCHANGED <<terminate_flag, child, target, temp_node, proc_mutex, queue,
                   overrun, log, dropped, suspect>>

\* main has joined the threads, in order: it frees the list and returns.
MainReturns ==
    /\ At("main", "join") /\ \A t \in Workers : pc[t] = "done"
    /\ proc_mutex = NoOne
    /\ process_list' = {} /\ current' = {}
    /\ Goto("main", "done")
    /\ proc' = [proc EXCEPT ![Self] = Process("gone", SelfImage)]
    /\ UNCHANGED <<terminate_flag, child, target, temp_node, proc_mutex, queue,
                   overrun, log, dropped, suspect>>
-----------------------------------------------------------------------------
System(t) == \/ \E p \in Pids : Fork(t, p)
             \/ ForkFails(t)
             \/ \E ok \in UnitActive : Return(t, ok)

Daemon == \/ \E t \in Workers : System(t)
          \/ Monitor \/ Netlink
          \/ \E loaded \in ModuleLoaded : Check(loaded)
          \/ InotifyInit \/ FileEvent \/ FileFails
          \/ \E t \in DOMAIN Blocks : LoopAgain(t)
          \/ \E t \in Workers : LoopEnds(t)
          \/ MainReturns

Environment == \/ \E p \in Pids, image \in Images :
                    Spawn(p, image) \/ Exec(p, image) \/ Change(p, image)
               \/ \E p \in Pids : Exit(p)
               \/ Burst \/ Sigterm \/ StopUnit

Next == Daemon \/ Environment \/ \E t \in Workers : CommandRuns(t)

Spec == Init /\ [][Next]_vars

(***************************************************************************)
(* The scheduler runs every thread that can run, and every shell that is   *)
(* not suspended; fork is not starved of ids for ever (a machine has many  *)
(* more than the model).  Nothing is assumed of the other processes, of    *)
(* signals or of failures.                                                 *)
(***************************************************************************)
Scheduling ==
    /\ \A t \in Workers : SF_vars(System(t)) /\ WF_vars(CommandRuns(t))
                           /\ WF_vars(LoopEnds(t))
    /\ \A t \in DOMAIN Blocks : WF_vars(LoopAgain(t))
    /\ WF_vars(Monitor)
    /\ WF_vars(\/ Listen \/ ListenFails \/ RecvFails \/ RecvExec
               \/ \E node \in temp_node : AnalyzeSingle(node))
    /\ WF_vars(InotifyInit \/ FileFails)
    /\ WF_vars(\E loaded \in ModuleLoaded : Check(loaded))
    /\ WF_vars(MainReturns)

\* Files go on changing in the watched directories, processes come and go.
Activity == WF_vars(FileEvent) /\ WF_vars(RecvOther)

ScheduledSpec == Spec /\ Scheduling

FairSpec == ScheduledSpec /\ Activity
-----------------------------------------------------------------------------
TypeOK ==
    /\ proc \in [Pids -> [status : {"unused", "running", "stopped", "zombie", "gone"},
                          img : AllImages]]
    /\ terminate_flag \in BOOLEAN
    /\ pc \in [Threads -> Labels]
    /\ child \in [Threads -> Pids \cup {NoPid}]
    /\ target \in [Threads -> Pids \cup {NoPid}]
    /\ process_list \subseteq Nodes
    /\ current \subseteq process_list
    /\ temp_node \subseteq Nodes
    /\ proc_mutex \in {NoOne, "monitor"}
    /\ queue \in Seq(Pids) /\ Len(queue) <= QueueCap
    /\ overrun \in BOOLEAN
    /\ alerted \subseteq Pids /\ quarantined \subseteq Pids
    /\ dropped \subseteq {"root", "user"} /\ suspect \subseteq Pids

Guilty(p) == GuiltyImage(p, proc[p].img)

Watched(p)   == Alive(p) /\ Foreign(p)
Suspended(p) == Foreign(p) /\ proc[p].status = "stopped"

(***************************************************************************)
(* The daemon suspends a process of the machine only for the causes that   *)
(* Incriminates lists: it decides on nodes that may be a whole scan old    *)
(* (or two, when a scan fails) and on names that may be another's, two     *)
(* threads decide independently, and kill is sent to a number.  Nothing    *)
(* else about other processes, ends and new starts misleads it.            *)
(***************************************************************************)
SuspendedForCause == \A p \in Pids : Suspended(p) => p \in suspect

(***************************************************************************)
(* No process is suspended silently: before its shell runs kill -STOP, a   *)
(* thread has written the SUSPICIOUS_BEHAVIOR line about the process.      *)
(***************************************************************************)
SuspendedWasReported == \A p \in Pids : Suspended(p) => p \in alerted

(***************************************************************************)
(* While the netlink thread listens, a process whose name, parent or file  *)
(* call for quarantine by themselves is caught once it executes a file,    *)
(* and stays so as long as these are the same: its event waits, its node   *)
(* is being analysed, it is reported, or an event was lost and the thread, *)
(* on its next recv, ends.  (A process that forks only, or that gives      *)
(* reason later, is not: the "instant tracking" of :809 is of execs only.) *)
(***************************************************************************)
GuiltyOnSight(p) ==
    /\ Watched(p) /\ proc[p].img.stat = "whole"
    /\ Quarantines(analyze_process_behavior(p, Static(proc[p].img), NothingLive))

Waits(p) == \E i \in DOMAIN queue : queue[i] = p

InAnalysis(p) ==
    \E node \in temp_node :
      /\ node.pid = p
      /\ [comm |-> node.comm, ppid |-> node.ppid, fileless |-> node.fileless]
           = Static(proc[p].img)

Caught(p) == Waits(p) \/ InAnalysis(p) \/ p \in alerted \/ overrun \/ ~NetlinkOpen

ExecsAreAnalysed ==
    [][\A p \in Pids :
         /\ NetlinkOpen /\ GuiltyOnSight(p)'
         /\ \/ \E image \in Images : Exec(p, image)
            \/ /\ GuiltyOnSight(p) /\ Caught(p)
               /\ Static(proc[p].img)' = Static(proc[p].img)
         => Caught(p)']_vars

(***************************************************************************)
(* A PROCESS_QUARANTINED line says of a process that it is suspended, and  *)
(* its network cut off.  The process does not run any more, and a rule     *)
(* drops output: that of the user of the daemon, whoever owns the process. *)
(***************************************************************************)
QuarantinedIsStopped ==
    \A p \in quarantined : proc[p].status # "running" /\ DaemonUser \in dropped

(***************************************************************************)
(* The daemon implements Response: its shells, threads and nodes are       *)
(* hidden, and the processes of the machine show what became of them.      *)
(***************************************************************************)
StateOf(p) == IF ~Watched(p) THEN "absent"
              ELSE IF proc[p].status = "stopped" THEN "suspended" ELSE "running"

LogWritten  == "log" \notin Failures /\ PidReuse # "early"

CommandsRun == /\ ~UnderSystemd /\ RunsAsRoot /\ PidReuse # "early"
               /\ "fork" \notin Failures /\ "iptables" \notin Failures

R == INSTANCE Response WITH
       Procs    <- Pids,
       Recorded <- LogWritten,
       Reliable <- CommandsRun,
       state    <- [p \in Pids |-> StateOf(p)],
       reported <- alerted,
       logged   <- quarantined,
       blocked  <- DaemonUser \in dropped

ImplementsResponse == R!RespSpec

(***************************************************************************)
(* When main returns nothing of the daemon is left: no shell that a thread *)
(* still waits for, no half-done quarantine, no node, no held mutex.       *)
(***************************************************************************)
Exited == pc["main"] = "done"
LeavesNothingBehind ==
    Exited => /\ \A t \in Threads : child[t] = NoPid /\ target[t] = NoPid
              /\ process_list = {} /\ temp_node = {} /\ proc_mutex = NoOne

(***************************************************************************)
(* The threads respect terminate_flag, so that main can join them.         *)
(***************************************************************************)
ShutdownCompletes == terminate_flag ~> Exited

(***************************************************************************)
(* A process that looks the same from some moment on, deserves quarantine  *)
(* and can be parsed does not run for ever.                                *)
(***************************************************************************)
GuiltyAreSuspended ==
    \A p \in Pids, image \in {i \in Images : i.stat = "whole"} :
      GuiltyImage(p, image) =>
        []<>(terminate_flag \/ ~(Foreign(p) /\ proc[p] = Process("running", image)))

(***************************************************************************)
(* The watchdog verifies the binary again and again, until the daemon is   *)
(* told to terminate.                                                      *)
(***************************************************************************)
WatchdogKeepsChecking == []<>(terminate_flag \/ pc["watchdog"] = "sleep")
                         /\ []<>(terminate_flag \/ pc["watchdog"] # "sleep")
=============================================================================
