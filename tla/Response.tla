------------------------------ MODULE Response ------------------------------
(***************************************************************************)
(* What the daemon promises about the processes of its machine, whatever   *)
(* threads, scans, events and shells bring it about: a process is          *)
(* suspended only if it has given cause and, as far as the log can be      *)
(* written, been reported; it does not run again once it is; and the log   *)
(* says of a process that it is quarantined only if it is reported and, as *)
(* far as commands can be relied on, stopped and the output of the         *)
(* daemon's own user dropped.                                              *)
(***************************************************************************)
CONSTANTS Procs,      \* process ids
          Recorded,   \* TRUE if every line that is called for is also written
          Reliable    \* TRUE if every command that is called for also runs

VARIABLES state,      \* what has become of each process of the machine
          suspect,    \* those that have given cause since they started
          reported,   \* those the log calls suspicious
          logged,     \* those the log calls quarantined
          blocked     \* the output of the daemon's user is dropped

respVars == <<state, suspect, reported, logged, blocked>>

RespInit ==
    /\ state = [p \in Procs |-> "absent"]
    /\ suspect = {} /\ reported = {} /\ logged = {} /\ blocked = FALSE

\* What was said of an earlier process with the id does not concern a new one.
Forget(p) == reported' = reported \ {p} /\ logged' = logged \ {p}

Start(p) ==
    /\ state[p] = "absent"
    /\ state' = [state EXCEPT ![p] = "running"]
    /\ suspect' \in {suspect \ {p}, suspect \cup {p}}
    /\ Forget(p)
    /\ UNCHANGED blocked

\* The id is given to a process of the daemon, of which nothing is promised.
StartOwn(p) ==
    /\ state[p] = "absent"
    /\ suspect' = suspect \ {p}
    /\ Forget(p)
    /\ UNCHANGED <<state, blocked>>

End(p) ==
    /\ state[p] # "absent"
    /\ state' = [state EXCEPT ![p] = "absent"]
    /\ UNCHANGED <<suspect, reported, logged, blocked>>

\* What a process does while it runs gives cause.
GiveCause(p) ==
    /\ state[p] = "running"
    /\ suspect' = suspect \cup {p}
    /\ UNCHANGED <<state, reported, logged, blocked>>

Report(p) ==
    /\ reported' = reported \cup {p}
    /\ UNCHANGED <<state, suspect, logged, blocked>>

Suspend(p) ==
    /\ state[p] = "running"
    /\ p \in suspect /\ (Recorded => p \in reported)
    /\ state' = [state EXCEPT ![p] = "suspended"]
    /\ UNCHANGED <<suspect, reported, logged, blocked>>

Block ==
    /\ Recorded => reported # {}
    /\ blocked' = TRUE
    /\ UNCHANGED <<state, suspect, reported, logged>>

Log(p) ==
    /\ Recorded => p \in reported
    /\ Reliable => state[p] # "running" /\ blocked
    /\ logged' = logged \cup {p}
    /\ UNCHANGED <<state, suspect, reported, blocked>>

RespNext == \/ \E p \in Procs :
                 \/ Start(p) \/ StartOwn(p) \/ End(p) \/ GiveCause(p)
                 \/ Report(p) \/ Suspend(p) \/ Log(p)
            \/ Block

RespSpec == RespInit /\ [][RespNext]_respVars
=============================================================================
