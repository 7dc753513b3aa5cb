---------------------------- MODULE ThreatScore ----------------------------
(***************************************************************************)
(* The scoring rules of the daemon: what analyze_process_behavior adds up  *)
(* for one process, which severity a total is given, and which totals the  *)
(* two detection paths (the periodic scan and the netlink exec events)     *)
(* report and quarantine.  Everything here is a constant operator; the     *)
(* modules that describe the running daemon extend this one.               *)
(*                                                                         *)
(* A command name is abstracted to the set of pattern groups that occur in *)
(* it: strstr() finds "minerd", "xmrig" or "cpuminer" ("miner"), and "nc", *)
(* "netcat", "bash" or "sh" ("shell").  Entropy is kept in hundredths of a *)
(* bit, so that the code's comparisons with 7.0, 7.5 and 10.0 are exact.   *)
(***************************************************************************)
EXTENDS Integers

CONSTANT RunsAsRoot   \* getuid() == 0 in the daemon; the service unit sets User=root

ASSUME RunsAsRootAssumption == RunsAsRoot \in BOOLEAN

NamePatterns == {"miner", "shell"}

(***************************************************************************)
(* What the analysis of a process looks at.  comm, ppid and fileless (the  *)
(* target of /proc/<pid>/exe) are copied into the process node; socket,    *)
(* hot (the verdict of check_cpu_pattern) and entropy (the result of       *)
(* analyze_memory_entropy) are read from /proc while the node is analysed. *)
(***************************************************************************)
NodeFields == [comm : SUBSET NamePatterns, ppid : Int, fileless : BOOLEAN]

LiveFields == [socket : BOOLEAN, hot : BOOLEAN, entropy : Nat]

\* What a /proc read that finds no such process yields: every check returns 0.
NothingLive == [socket |-> FALSE, hot |-> FALSE, entropy |-> 0]

is_known_system_process(ppid) == ppid \in {1, 2}

crypto_miner(node, live) ==
    IF "miner" \in node.comm \/ live.hot THEN 85 ELSE 0

reverse_shell(node, live) ==
    IF "shell" \in node.comm /\ live.socket THEN 90 ELSE 0

privilege_esc(pid, node) ==
    IF /\ pid > 1
       /\ RunsAsRoot
       /\ ~is_known_system_process(node.ppid)
    THEN 75
    ELSE 0

\* MUTANT: the weight of fileless execution is below the threshold.
fileless_exec_Light(node) == IF node.fileless THEN 75 ELSE 0

fileless_exec(node) == IF node.fileless THEN 80 ELSE 0

\* MUTANT: the weight of mildly suspicious memory is halved.
memory_anomaly_Light(live) ==
    CASE live.entropy >= 1000                       -> 100
      [] live.entropy > 750 /\ live.entropy < 1000  -> 95
      [] live.entropy > 700 /\ live.entropy <= 750  -> 45
      [] live.entropy <= 700                        -> 0

memory_anomaly(live) ==
    CASE live.entropy >= 1000                       -> 100
      [] live.entropy > 750 /\ live.entropy < 1000  -> 95
      [] live.entropy > 700 /\ live.entropy <= 750  -> 60
      [] live.entropy <= 700                        -> 0

\* The total of the threat_score_t that analyze_process_behavior returns.
analyze_process_behavior(pid, node, live) ==
    crypto_miner(node, live) + reverse_shell(node, live)
      + privilege_esc(pid, node) + fileless_exec(node) + memory_anomaly(live)

\* The thresholds of the two detection paths and of the common response.
ScanReports(total) == total > 50

ExecReports(total) == total >= 40

Quarantines(total) == total >= 80

score_to_severity(score) ==
    CASE score >= 90                 -> "critical"
      [] score >= 70 /\ score < 90   -> "high"
      [] score >= 40 /\ score < 70   -> "medium"
      [] score >= 10 /\ score < 40   -> "low"
      [] score < 10                  -> "info"

(***************************************************************************)
(* The strong signals reach the quarantine threshold alone; the two weak   *)
(* ones (an unexpected parent, mildly suspicious memory) do not.           *)
(***************************************************************************)
StrongSignal(node, live) ==
    \/ crypto_miner(node, live) > 0
    \/ reverse_shell(node, live) > 0
    \/ fileless_exec(node) > 0
    \/ memory_anomaly(live) > 60
=============================================================================
