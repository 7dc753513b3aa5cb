------------------------------ MODULE Scoring ------------------------------
(***************************************************************************)
(* One process under analysis.  A node of the process list holds what      *)
(* scan_process_tree or analyze_single_process copied out of /proc; the    *)
(* process goes on running, so what analyze_process_behavior reads later   *)
(* (sockets, CPU time, memory) may have changed by then, and may belong to *)
(* a process that has exited (NothingLive).                                *)
(***************************************************************************)
EXTENDS ThreatScore

CONSTANTS Pids,        \* the process ids looked at
          Ppids,       \* the parent ids a stat line can hold
          Entropies    \* the results analyze_memory_entropy can return

ASSUME ScoringAssumption == /\ Pids \subseteq Int
                            /\ Ppids \subseteq Int
                            /\ Entropies \subseteq Nat

VARIABLES pid,      \* the process analysed
          node,     \* its node
          live,     \* what /proc shows of it at this moment
          total     \* the total of its last analysis, -1 before the first

vars == <<pid, node, live, total>>

NotScored == -1

Nodes == [comm : SUBSET NamePatterns, ppid : Ppids, fileless : BOOLEAN]

Lives == [socket : BOOLEAN, hot : BOOLEAN, entropy : Entropies]
           \cup {NothingLive}

TypeOK ==
    /\ pid \in Pids
    /\ node \in Nodes
    /\ live \in Lives
    /\ total \in {NotScored} \cup Nat

Init ==
    /\ pid \in Pids
    /\ node \in Nodes
    /\ live \in Lives
    /\ total = NotScored

\* The process opens or closes sockets, uses CPU, maps memory, or exits.
ProcessRuns ==
    /\ live' \in Lives
    /\ total' = NotScored
    /\ UNCHANGED <<pid, node>>

Analyze ==
    /\ total' = analyze_process_behavior(pid, node, live)
    /\ UNCHANGED <<pid, node, live>>

Next == ProcessRuns \/ Analyze

Spec == Init /\ [][Next]_vars
-----------------------------------------------------------------------------
Scored == total # NotScored

(***************************************************************************)
(* The two detection paths use different thresholds (more than 50 for the  *)
(* periodic scan, at least 40 for an exec event), yet no process is        *)
(* reported by one and not by the other: no sum of the weights falls in    *)
(* 40..50.  A changed weight can silently break this.                      *)
(***************************************************************************)
PathsAgree == Scored => (ScanReports(total) <=> ExecReports(total))

(***************************************************************************)
(* A process is reported but not quarantined exactly when it shows no      *)
(* strong signal and one, but not both, of the two weak ones: an           *)
(* unexpected parent (75) or mildly suspicious memory (60).  This is what  *)
(* the code does; the README of the daemon promises more, see              *)
(* HighIsQuarantined.                                                      *)
(***************************************************************************)
ReportOnlyOnOneWeakSignal ==
    Scored =>
      (ExecReports(total) /\ ~Quarantines(total)
         <=> /\ ~StrongSignal(node, live)
             /\ (privilege_esc(pid, node) > 0) # (memory_anomaly(live) = 60))

(***************************************************************************)
(* What the documentation says of the response: a total of severity "high" *)
(* (70 to 89) or more is quarantined.                                      *)
(***************************************************************************)
HighIsQuarantined ==
    Scored /\ score_to_severity(total) \in {"high", "critical"} => Quarantines(total)
=============================================================================
