--------------------------- MODULE ScoringProofs ---------------------------
(* Proofs about the scoring rules, for every set of process ids, parent    *)
(* ids and entropy values, and about the memory scan that yields one of    *)
(* the numbers they weigh, for any lines of maps in any order.             *)
EXTENDS Scoring, MemoryScan, TLAPS

(***************************************************************************)
(* The five summands of a total: each is one of the few weights written in *)
(* analyze_process_behavior.                                               *)
(***************************************************************************)
LEMMA Weights ==
    ASSUME NEW p \in Int, NEW n \in NodeFields, NEW l \in LiveFields
    PROVE  /\ crypto_miner(n, l) \in {0, 85}
           /\ reverse_shell(n, l) \in {0, 90}
           /\ privilege_esc(p, n) \in {0, 75}
           /\ fileless_exec(n) \in {0, 80}
           /\ memory_anomaly(l) \in {0, 60, 95, 100}
<1>1. /\ crypto_miner(n, l) \in {0, 85}
      /\ reverse_shell(n, l) \in {0, 90}
      /\ privilege_esc(p, n) \in {0, 75}
      /\ fileless_exec(n) \in {0, 80}
  BY DEF crypto_miner, reverse_shell, privilege_esc, fileless_exec
<1>2. l.entropy \in Nat
  BY DEF LiveFields
<1>3. memory_anomaly(l) \in {0, 60, 95, 100}
  BY <1>2 DEF memory_anomaly
<1>4. QED
  BY <1>1, <1>3

\* Every state of the specification looks at a process the lemma covers.
LEMMA Covered ==
    ASSUME TypeOK
    PROVE  pid \in Int /\ node \in NodeFields /\ live \in LiveFields
<1>1. pid \in Int
  BY ScoringAssumption DEF TypeOK
<1>2. node \in NodeFields
  BY ScoringAssumption DEF TypeOK, Nodes, NodeFields
<1>3. live \in LiveFields
  <2>1. CASE live = NothingLive
    BY <2>1 DEF NothingLive, LiveFields
  <2>2. CASE live \in [socket : BOOLEAN, hot : BOOLEAN, entropy : Entropies]
    BY <2>2, ScoringAssumption DEF LiveFields
  <2>3. QED
    BY <2>1, <2>2 DEF TypeOK, Lives
<1>4. QED
  BY <1>1, <1>2, <1>3

\* A state before the first analysis, or one that holds its result.
TotalIsCurrent ==
    Scored => total = analyze_process_behavior(pid, node, live)

(***************************************************************************)
(* The variables keep their types, and the total, once computed, is that   *)
(* of the process as it now is.                                            *)
(***************************************************************************)
THEOREM ScoringTypes == Spec => [](TypeOK /\ TotalIsCurrent)
<1> DEFINE IInv == TypeOK /\ TotalIsCurrent
<1>1. Init => IInv
  BY DEF Init, TypeOK, TotalIsCurrent, Scored, NotScored
<1>2. IInv /\ [Next]_vars => IInv'
  <2> SUFFICES ASSUME IInv, [Next]_vars
               PROVE  IInv'
    OBVIOUS
  <2>1. CASE ProcessRuns
    BY <2>1 DEF ProcessRuns, TypeOK, TotalIsCurrent, Scored, NotScored
  <2>2. CASE Analyze
    <3>1. analyze_process_behavior(pid, node, live) \in Nat
      BY Covered, Weights DEF analyze_process_behavior
    <3>2. analyze_process_behavior(pid', node', live') = total'
      BY <2>2 DEF Analyze
    <3>3. TypeOK'
      BY <2>2, <3>1 DEF Analyze, TypeOK
    <3>4. TotalIsCurrent'
      BY <3>2 DEF TotalIsCurrent
    <3>5. QED
      BY <3>3, <3>4
  <2>3. CASE UNCHANGED vars
    BY <2>3 DEF vars, TypeOK, TotalIsCurrent, Scored, NotScored
  <2>4. QED
    BY <2>1, <2>2, <2>3 DEF Next
<1>3. QED
  BY <1>1, <1>2, PTL DEF Spec

(***************************************************************************)
(* Whatever the process looks like, the periodic scan reports it if and    *)
(* only if the exec-event path does: no sum of the weights lies between    *)
(* the two thresholds.                                                     *)
(***************************************************************************)
THEOREM DetectionPathsAgree == Spec => []PathsAgree
<1>1. TypeOK /\ TotalIsCurrent => PathsAgree
  <2> SUFFICES ASSUME TypeOK, TotalIsCurrent, Scored
               PROVE  ScanReports(total) <=> ExecReports(total)
    BY DEF PathsAgree
  <2>1. total = analyze_process_behavior(pid, node, live)
    BY DEF TotalIsCurrent
  <2>2. QED
    BY <2>1, Covered, Weights
       DEF analyze_process_behavior, ScanReports, ExecReports
<1>2. QED
  BY <1>1, ScoringTypes, PTL

(***************************************************************************)
(* The processes that are reported and left running are exactly those with *)
(* one weak signal and no strong one.                                      *)
(***************************************************************************)
THEOREM ReportOnlyProcesses == Spec => []ReportOnlyOnOneWeakSignal
<1>1. TypeOK /\ TotalIsCurrent => ReportOnlyOnOneWeakSignal
  <2> SUFFICES ASSUME TypeOK, TotalIsCurrent, Scored
               PROVE  ExecReports(total) /\ ~Quarantines(total)
                        <=> /\ ~StrongSignal(node, live)
                            /\ (privilege_esc(pid, node) > 0)
                                 # (memory_anomaly(live) = 60)
    BY DEF ReportOnlyOnOneWeakSignal
  <2>1. total = analyze_process_behavior(pid, node, live)
    BY DEF TotalIsCurrent
  <2>2. QED
    BY <2>1, Covered, Weights
       DEF analyze_process_behavior, ExecReports, Quarantines, StrongSignal
<1>2. QED
  BY <1>1, ScoringTypes, PTL
-----------------------------------------------------------------------------
(* The memory scan.                                                        *)

LinesInv == /\ MemoryTypeOK
            /\ yara_rules = "none" => scan = "none"
            /\ scan = "none" => lines = {} /\ max_entropy = 0

MemoryInv == LinesInv /\ WorstRegionDecides

\* What the lines read so far hold.
Writable == \E r \in lines : r.exec /\ r.writable
Match    == \E r \in lines : Matches(r)
Measured == {r.entropy : r \in {l \in lines : l.exec /\ l.readable}} \cup {0}

LEMMA Decision ==
    WorstRegionDecides <=>
      /\ Writable => max_entropy = 800 /\ scan = "result"
      /\ ~Writable /\ Match => max_entropy = 1000
      /\ ~Writable /\ ~Match => /\ max_entropy \in Measured
                                /\ \A e \in Measured : e <= max_entropy
  BY DEF WorstRegionDecides, Writable, Match, Measured

LEMMA DecisionNext ==
    WorstRegionDecides' <=>
      /\ Writable' => max_entropy' = 800 /\ scan' = "result"
      /\ ~Writable' /\ Match' => max_entropy' = 1000
      /\ ~Writable' /\ ~Match' => /\ max_entropy' \in Measured'
                                  /\ \A e \in Measured' : e <= max_entropy'
  BY DEF WorstRegionDecides, Writable, Match, Measured

LEMMA LineRecords ==
    ASSUME NEW r \in MapLines
    PROVE  /\ r.exec \in BOOLEAN /\ r.writable \in BOOLEAN
           /\ r.readable \in BOOLEAN /\ r.matches \in BOOLEAN
           /\ r.entropy \in 0..800
  BY MemoryAssumption DEF calculate_shannon_entropy

\* One more line.
LEMMA LineStep ==
    ASSUME MemoryInv, NEW r \in MapLines, ReadLine(r)
    PROVE  MemoryInv'
<1> USE LineRecords
<1>1. /\ lines' = lines \cup {r} /\ UNCHANGED yara_rules
      /\ lines \subseteq MapLines /\ max_entropy \in 0..1000
      /\ scan = "reading"
  BY DEF ReadLine, MemoryInv, LinesInv, MemoryTypeOK
<1>2. ~Writable
  BY <1>1, Decision DEF MemoryInv
<1>3. /\ Writable' <=> (r.exec /\ r.writable)
      /\ Match' <=> (Match \/ Matches(r))
  BY <1>1, <1>2 DEF Writable, Match, Matches
<1>4. Measured' = Measured \cup (IF r.exec /\ r.readable THEN {r.entropy} ELSE {})
  BY <1>1 DEF Measured
<1>5. Measured \subseteq 0..800
  BY <1>1 DEF Measured
<1>6. LinesInv'
  <2>1. yara_rules' # "none" /\ scan' \in {"reading", "result"}
    BY <1>1 DEF MemoryInv, LinesInv, ReadLine
  <2>2. max_entropy' \in 0..1000
    BY <1>1 DEF ReadLine, AfterRegion, Greater
  <2>3. QED
    BY <1>1, <2>1, <2>2 DEF LinesInv, MemoryTypeOK, MemoryInv
<1>7. CASE ~r.exec
  <2>1. UNCHANGED max_entropy /\ ~Matches(r)
    BY <1>7 DEF ReadLine, Matches
  <2>2. ~Writable' /\ (Match' <=> Match) /\ Measured' = Measured
    BY <1>2, <1>3, <1>4, <1>7, <2>1
  <2>3. QED
    BY <1>2, <1>6, <2>1, <2>2, Decision, DecisionNext DEF MemoryInv
<1>8. CASE r.exec /\ r.writable
  <2>1. max_entropy' = 800 /\ scan' = "result" /\ Writable'
    BY <1>3, <1>8 DEF ReadLine, AfterRegion
  <2>2. QED
    BY <1>6, <2>1, DecisionNext DEF MemoryInv
<1>9. CASE r.exec /\ ~r.writable /\ Matches(r)
  <2>1. max_entropy' = 1000 /\ ~Writable' /\ Match'
    BY <1>2, <1>3, <1>9 DEF ReadLine, AfterRegion, Matches
  <2>2. QED
    BY <1>6, <2>1, DecisionNext DEF MemoryInv
<1>10. CASE r.exec /\ ~r.writable /\ ~Matches(r)
  <2>1. ~Writable' /\ (Match' <=> Match)
    BY <1>2, <1>3, <1>10
  <2>2. max_entropy' = IF r.readable THEN Greater(max_entropy, r.entropy)
                       ELSE max_entropy
    BY <1>10 DEF ReadLine, AfterRegion, Matches
  <2>3. CASE Match
    <3>1. max_entropy = 1000
      BY <1>2, <2>3, Decision DEF MemoryInv
    <3>2. max_entropy' = 1000
      BY <2>2, <3>1 DEF Greater
    <3>3. QED
      BY <1>6, <2>1, <2>3, <3>2, DecisionNext DEF MemoryInv
  <2>4. CASE ~Match
    <3>1. /\ max_entropy \in Measured
          /\ \A e \in Measured : e <= max_entropy
      BY <1>2, <2>4, Decision DEF MemoryInv
    <3>2. /\ max_entropy' \in Measured'
          /\ \A e \in Measured' : e <= max_entropy'
      BY <1>1, <1>4, <1>5, <1>10, <2>2, <3>1 DEF Greater
    <3>3. QED
      BY <1>6, <2>1, <2>4, <3>2, DecisionNext DEF MemoryInv
  <2>5. QED
    BY <2>3, <2>4
<1>11. QED
  BY <1>7, <1>8, <1>9, <1>10 DEF Matches

LEMMA MemoryStep ==
    ASSUME MemoryInv, [MemoryNext]_memoryVars
    PROVE  MemoryInv'
<1>1. ASSUME NEW result \in {"ready", "failed"}, init_yara_scanner(result)
      PROVE  MemoryInv'
  <2>1. lines = {} /\ max_entropy = 0 /\ scan = "none"
    BY <1>1 DEF init_yara_scanner, MemoryInv, LinesInv
  <2>2. UNCHANGED <<lines, max_entropy, scan>> /\ yara_rules' = result
    BY <1>1 DEF init_yara_scanner
  <2>3. QED
    BY <1>1, <2>1, <2>2
       DEF MemoryInv, LinesInv, MemoryTypeOK, WorstRegionDecides
<1>2. CASE StartScan \/ CannotOpen
  BY <1>2 DEF StartScan, CannotOpen, MemoryInv, LinesInv, MemoryTypeOK,
     WorstRegionDecides
<1>3. CASE EndOfMaps \/ UNCHANGED memoryVars
  <2>1. /\ UNCHANGED <<lines, max_entropy, yara_rules>>
        /\ scan' \in {scan, "result"}
        /\ scan' # scan => scan = "reading"
    BY <1>3 DEF EndOfMaps, memoryVars
  <2>2. LinesInv'
    BY <2>1 DEF MemoryInv, LinesInv, MemoryTypeOK
  <2>3. Writable' = Writable /\ Match' = Match /\ Measured' = Measured
    BY <2>1 DEF Writable, Match, Matches, Measured
  <2>4. QED
    BY <2>1, <2>2, <2>3, Decision, DecisionNext DEF MemoryInv
<1>4. QED
  BY <1>1, <1>2, <1>3, LineStep DEF MemoryNext

LEMMA MemoryStart == MemoryInit => MemoryInv
  BY DEF MemoryInit, MemoryInv, LinesInv, MemoryTypeOK, WorstRegionDecides

LEMMA MemoryAlways == MemorySpec => []MemoryInv
  BY MemoryStart, MemoryStep, PTL DEF MemorySpec
-----------------------------------------------------------------------------
(***************************************************************************)
(* The type invariant.                                                     *)
(***************************************************************************)
THEOREM MemoryTypes == MemorySpec => []MemoryTypeOK
<1>1. MemoryInv => MemoryTypeOK
  BY DEF MemoryInv, LinesInv
<1>2. QED
  BY <1>1, MemoryAlways, PTL

(***************************************************************************)
(* The number of analyze_memory_entropy says what the worst region is, for *)
(* every order of the lines of maps.                                       *)
(***************************************************************************)
THEOREM WorstDecides == MemorySpec => []WorstRegionDecides
<1>1. MemoryInv => WorstRegionDecides
  BY DEF MemoryInv
<1>2. QED
  BY <1>1, MemoryAlways, PTL

(***************************************************************************)
(* And it leads to quarantine exactly when one region is bad enough.       *)
(***************************************************************************)
THEOREM OneCondemns == MemorySpec => []OneRegionCondemns
<1>1. ASSUME MemoryInv, scan = "result"
      PROVE  Quarantines(memory_anomaly([NothingLive EXCEPT !.entropy = max_entropy]))
               <=> max_entropy > 750
  <2> DEFINE quiet == [NothingLive EXCEPT !.entropy = max_entropy]
  <2>1. quiet.entropy = max_entropy /\ max_entropy \in 0..1000
    BY <1>1 DEF NothingLive, MemoryInv, LinesInv, MemoryTypeOK
  <2>2. /\ max_entropy >= 1000 => memory_anomaly(quiet) = 100
        /\ max_entropy > 750 /\ max_entropy < 1000 => memory_anomaly(quiet) = 95
        /\ max_entropy > 700 /\ max_entropy <= 750 => memory_anomaly(quiet) = 60
        /\ max_entropy <= 700 => memory_anomaly(quiet) = 0
    BY <2>1 DEF memory_anomaly
  <2>3. QED
    BY <2>1, <2>2 DEF Quarantines
<1>2. ASSUME MemoryInv
      PROVE  max_entropy > 750
               <=> \/ Writable \/ Match
                   \/ \E e \in Measured : e > 750
  <2>1. Measured \subseteq 0..800 /\ max_entropy \in 0..1000
    BY <1>2, MemoryAssumption DEF calculate_shannon_entropy, Measured, MemoryInv, LinesInv, MemoryTypeOK
  <2>2. CASE Writable
    BY <1>2, <2>2, Decision DEF MemoryInv
  <2>3. CASE ~Writable /\ Match
    BY <1>2, <2>3, Decision DEF MemoryInv
  <2>4. CASE ~Writable /\ ~Match
    BY <1>2, <2>1, <2>4, Decision DEF MemoryInv
  <2>5. QED
    BY <2>2, <2>3, <2>4
<1>3. ASSUME MemoryInv
      PROVE  OneRegionCondemns
  <2>1. (\E e \in Measured : e > 750)
          <=> \E r \in lines : r.exec /\ r.readable /\ r.entropy > 750
    BY DEF Measured
  <2>2. QED
    BY <1>1, <1>2, <1>3, <2>1 DEF OneRegionCondemns, Writable, Match, Matches
<1>4. QED
  BY <1>3, MemoryAlways, PTL
=============================================================================
