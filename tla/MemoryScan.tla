----------------------------- MODULE MemoryScan -----------------------------
(***************************************************************************)
(* analyze_memory_entropy: one number, in hundredths of a bit, for all the *)
(* executable memory of a process, out of three signals that overwrite     *)
(* each other: the entropy of a region, a match of the YARA rules, and a   *)
(* mapping that is writable too, which ends the reading.  The process runs *)
(* on: which line of /proc/<pid>/maps comes next, and whether the region   *)
(* can still be read, is known only then.                                  *)
(***************************************************************************)
EXTENDS ThreatScore

CONSTANT MapLines    \* what a line of maps, and the memory it names, can be

\* What it can return: the most is that of equally frequent bytes.
calculate_shannon_entropy == 0..800

ASSUME MemoryAssumption ==
    MapLines \subseteq [exec : BOOLEAN, writable : BOOLEAN, readable : BOOLEAN,
                        entropy : calculate_shannon_entropy, matches : BOOLEAN]

VARIABLES
    yara_rules,     \* the rules were compiled ("none" before main tries to)
    scan,           \* no scan has begun, one is under way, or it has a result
    max_entropy,
    lines           \* the lines read so far (a history of the model)

memoryVars == <<yara_rules, scan, max_entropy, lines>>

MemoryInit ==
    /\ yara_rules = "none" /\ scan = "none"
    /\ max_entropy = 0 /\ lines = {}

\* Each of the four calls of init_yara_scanner may fail; main goes on then.
init_yara_scanner(result) ==
    /\ yara_rules = "none"
    /\ yara_rules' = result
    /\ UNCHANGED <<scan, max_entropy, lines>>

StartScan ==
    /\ yara_rules # "none" /\ scan # "reading"
    /\ scan' = "reading" /\ max_entropy' = 0 /\ lines' = {}
    /\ UNCHANGED yara_rules

\* maps or mem cannot be opened: the process has ended, or is the kernel's.
CannotOpen ==
    /\ yara_rules # "none" /\ scan # "reading"
    /\ scan' = "result" /\ max_entropy' = 0 /\ lines' = {}
    /\ UNCHANGED yara_rules

Greater(a, b) == IF a > b THEN a ELSE b

\* MUTANT: the check for W^X stands where the region was read in full.
AfterRegion_OnlyIfRead(r) ==
    IF ~r.readable THEN max_entropy
    ELSE IF r.writable THEN 800
    ELSE IF r.matches /\ yara_rules = "ready" THEN 1000
    ELSE Greater(max_entropy, r.entropy)

\* MUTANT: the entropy of the last region is kept, not the greatest.
AfterRegion_Last(r) ==
    IF r.writable THEN 800
    ELSE IF r.readable /\ r.matches /\ yara_rules = "ready" THEN 1000
    ELSE IF r.readable THEN r.entropy
    ELSE max_entropy

\* MUTANT: a match adds to the entropy.
AfterRegion_Sum(r) ==
    IF r.writable THEN 800
    ELSE IF r.readable /\ r.matches /\ yara_rules = "ready" THEN max_entropy + 1000
    ELSE IF r.readable THEN Greater(max_entropy, r.entropy)
    ELSE max_entropy

\* max_entropy after an executable region (a short pread leaves it as it is).
AfterRegion(r) ==
    IF r.writable THEN 800
    ELSE IF r.readable /\ r.matches /\ yara_rules = "ready" THEN 1000
    ELSE IF r.readable THEN Greater(max_entropy, r.entropy)
    ELSE max_entropy

ReadLine(r) ==
    /\ scan = "reading"
    /\ lines' = lines \cup {r}
    /\ max_entropy' = IF r.exec THEN AfterRegion(r) ELSE max_entropy
    /\ scan' = IF r.exec /\ r.writable THEN "result" ELSE "reading"
    /\ UNCHANGED yara_rules

EndOfMaps ==
    /\ scan = "reading"
    /\ scan' = "result"
    /\ UNCHANGED <<yara_rules, max_entropy, lines>>

MemoryNext == \/ \E result \in {"ready", "failed"} : init_yara_scanner(result)
              \/ StartScan \/ CannotOpen \/ EndOfMaps
              \/ \E r \in MapLines : ReadLine(r)

MemorySpec == MemoryInit /\ [][MemoryNext]_memoryVars
-----------------------------------------------------------------------------
MemoryTypeOK ==
    /\ yara_rules \in {"none", "ready", "failed"}
    /\ scan \in {"none", "reading", "result"}
    /\ max_entropy \in 0..1000
    /\ lines \subseteq MapLines

Matches(r) == r.exec /\ r.readable /\ r.matches /\ yara_rules = "ready"

(***************************************************************************)
(* However the lines were ordered, and whichever of the three signals      *)
(* overwrote another, the number says what the worst region is: writable   *)
(* and executable memory, else a match, else the greatest entropy.         *)
(***************************************************************************)
WorstRegionDecides ==
    LET writable == \E r \in lines : r.exec /\ r.writable
        match    == \E r \in lines : Matches(r)
        measured == {r.entropy : r \in {l \in lines : l.exec /\ l.readable}} \cup {0}
    IN  /\ writable => max_entropy = 800 /\ scan = "result"
        /\ ~writable /\ match => max_entropy = 1000
        /\ ~writable /\ ~match => /\ max_entropy \in measured
                                 /\ \A e \in measured : e <= max_entropy

(***************************************************************************)
(* One bad region is enough for quarantine, wherever it stands in the      *)
(* address space and whatever is read after it or no longer read, and      *)
(* nothing else is: writable mappings that overwrite a match with a        *)
(* smaller number cost severity, never the response.                       *)
(***************************************************************************)
OneRegionCondemns ==
    scan = "result" =>
      (Quarantines(memory_anomaly([NothingLive EXCEPT !.entropy = max_entropy]))
         <=> \E r \in lines : /\ r.exec
                              /\ \/ r.writable
                                 \/ Matches(r)
                                 \/ r.readable /\ r.entropy > 750)
=============================================================================
