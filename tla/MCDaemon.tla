------------------------------ MODULE MCDaemon ------------------------------
(* Small machines for the daemon: the ids are above those of init and       *)
(* kthreadd, the daemon has the lowest, so that a scan visits it last.       *)
EXTENDS Daemon

Image(comm, ppid) ==
    [comm |-> comm, ppid |-> ppid, fileless |-> FALSE, stat |-> "whole",
     owner |-> "root", socket |-> FALSE, hot |-> FALSE, entropy |-> 0]

Calm      == Image({}, 1)                             \* total 0
Miner     == Image({"miner"}, 1)                      \* total 85: quarantined
Orphan    == Image({}, 9)                             \* total 75: reported only
Stray     == Image({"miner"}, 9)                      \* total 160
Busy      == [Calm EXCEPT !.hot = TRUE]               \* total 85
Nameless  == [Calm EXCEPT !.stat = "empty"]           \* depends on another's name

Nobody              == {}
StrayAndOrphan      == {Stray, Orphan}
StrayOrphanNameless == {Stray, Orphan, Nameless}
MinerCalmBusy       == {Miner, Calm, Busy}

Pids3 == 10..12
Pids4 == 10..13
=============================================================================
