------------------------- MODULE SelfHealingProofs -------------------------
(***************************************************************************)
(* Proofs about the daemon's recovery and its service, for any builds and  *)
(* any requests.                                                           *)
(***************************************************************************)
EXTENDS SelfHealing, TLAPS

\* The type invariant and UnitHasProcess, split by what a step can disturb.
DiskTypes == /\ {bin, corrupted, copy, baseline} \subseteq Contents
             /\ {scripts, wanted, removed} \subseteq BOOLEAN

RunTypes ==
    /\ known \in BOOLEAN
    /\ unit \in {"inactive", "active", "stopping", "waiting"}
    /\ job \in {None, "start", "stop"}
    /\ job # None <=> unit = "stopping"
    /\ blocked \subseteq Procs \cup {"operator"}
    /\ pc \in [Procs -> Labels]
    /\ cached \in [Daemons -> Contents]
    /\ image \in [Daemons -> Contents]
    /\ flag \in [Daemons -> BOOLEAN]
    /\ executing \subseteq Daemons

RunInv == RunTypes /\ UnitHasProcess

Inv == DiskTypes /\ RunInv

LEMMA InvIsTypesAndProcess == Inv <=> TypeOK /\ UnitHasProcess
  BY DEF Inv, RunInv, DiskTypes, RunTypes, TypeOK

\* The processes and their labels, spelled out.
LEMMA ProcsSpelled ==
    /\ Procs = {"unit", "manual", "unit_recover", "manual_recover",
                "operator_recover", "install", "uninstall"}
    /\ RecoverOf["unit"] = "unit_recover"
    /\ RecoverOf["manual"] = "manual_recover"
    /\ Idle \in Labels /\ DaemonLabels \subseteq Labels
    /\ RecoverLabels \subseteq Labels /\ InstallLabels \subseteq Labels
    /\ UninstallLabels \subseteq Labels
  BY DEF Procs, Daemons, Recovers, Scripts, RecoverOf, Labels

\* What a caller of systemctl may have done to pc: it moved on, and neither
\* the unit's daemon nor a recovery came or went.
MovedOn(next) ==
    /\ next \in [Procs -> Labels]
    /\ next["unit"] # Idle <=> pc["unit"] # Idle
    /\ \A d \in Daemons : next[RecoverOf[d]] # Idle => next[d] = "recovering"

\* Execution of the unit, when it has no process.
LEMMA Executing ==
    ASSUME RunTypes, DiskTypes, UNCHANGED bin,
           NEW next \in [Procs -> Labels], next["unit"] = Idle,
           \A d \in Daemons : next[RecoverOf[d]] # Idle => next[d] = "recovering",
           Execute(next), job' = None, blocked' \subseteq Procs \cup {"operator"}
    PROVE  RunInv'
<1> USE ProcsSpelled
<1>1. RunTypes'
  <2>1. CASE /\ known /\ bin # None
             /\ unit' = "active"
             /\ pc' = [next EXCEPT !["unit"] = "load"]
             /\ image' = [image EXCEPT !["unit"] = bin]
             /\ executing' = executing \cup {"unit"}
    <3>1. flag' = [flag EXCEPT !["unit"] = FALSE] /\ UNCHANGED <<known, cached>>
      BY DEF Execute
    <3>2. "load" \in Labels /\ "unit" \in Daemons /\ bin \in Contents
      BY DEF DaemonLabels, Daemons, DiskTypes
    <3>3. pc' \in [Procs -> Labels] /\ image' \in [Daemons -> Contents]
      BY <2>1, <3>2 DEF RunTypes
    <3>4. flag' \in [Daemons -> BOOLEAN] /\ executing' \subseteq Daemons
      BY <2>1, <3>1, <3>2 DEF RunTypes
    <3>5. known' \in BOOLEAN /\ cached' \in [Daemons -> Contents]
      BY <3>1 DEF RunTypes
    <3>6. QED
      BY <2>1, <3>3, <3>4, <3>5 DEF RunTypes, Contents
  <2>2. CASE /\ ~known \/ bin = None
             /\ unit' = IF known THEN "waiting" ELSE "inactive"
             /\ pc' = next
             /\ executing' = executing \ {"unit"}
             /\ UNCHANGED image
    <3>1. flag' = [flag EXCEPT !["unit"] = FALSE] /\ UNCHANGED <<known, cached>>
      BY DEF Execute
    <3>2. unit' \in {"inactive", "waiting"}
      BY <2>2
    <3>3. flag' \in [Daemons -> BOOLEAN] /\ executing' \subseteq Daemons
      BY <2>2, <3>1 DEF RunTypes, Daemons
    <3>4. known' \in BOOLEAN /\ cached' \in [Daemons -> Contents]
          /\ image' \in [Daemons -> Contents]
      BY <2>2, <3>1 DEF RunTypes
    <3>5. QED
      BY <2>2, <3>2, <3>3, <3>4 DEF RunTypes
  <2>3. QED
    BY <2>1, <2>2 DEF Execute
<1>2. UnitHasProcess'
  BY DEF UnitHasProcess, Execute, Daemons, Idle
<1>3. QED
  BY <1>1, <1>2 DEF RunInv

LEMMA Starting ==
    ASSUME Inv, NEW p \in Procs \cup {"operator"}, NEW next, MovedOn(next),
           SystemctlStart(p, next), UNCHANGED bin
    PROVE  RunInv'
<1> USE ProcsSpelled DEF Inv, RunInv
<1>1. CASE unit \in {"inactive", "waiting"} /\ Execute(next)
           /\ UNCHANGED <<job, blocked>>
  <2>1. next["unit"] = Idle /\ job' = None
    BY <1>1 DEF MovedOn, UnitHasProcess, RunTypes
  <2>2. blocked' \subseteq Procs \cup {"operator"}
    BY <1>1 DEF RunTypes
  <2>3. QED
    BY <1>1, <2>1, <2>2, Executing DEF MovedOn
<1>2. CASE Nothing(next)
  BY <1>2 DEF Nothing, MovedOn, RunTypes, UnitHasProcess, systemd, memory
<1>3. CASE unit = "stopping" /\ known /\ Request(p, "start", next)
  BY <1>3, HealingAssumption
  DEF Request, MovedOn, RunTypes, UnitHasProcess, memory, None
<1>4. QED
  BY <1>1, <1>2, <1>3 DEF SystemctlStart

LEMMA Stopping ==
    ASSUME Inv, NEW p \in Procs \cup {"operator"}, NEW next, MovedOn(next),
           SystemctlStop(p, next)
    PROVE  RunInv'
<1> USE ProcsSpelled DEF Inv, RunInv
<1>1. CASE unit = "inactive" /\ Nothing(next)
  BY <1>1 DEF Nothing, MovedOn, RunTypes, UnitHasProcess, systemd, memory
<1>2. CASE /\ unit = "waiting"
           /\ unit' = "inactive" /\ pc' = next
           /\ UNCHANGED <<known, job, blocked, memory, executing>>
  BY <1>2 DEF MovedOn, RunTypes, UnitHasProcess, memory
<1>3. CASE unit = "active" /\ Terminate(p, next)
  <2>1. RunTypes'
    BY <1>3 DEF Terminate, MovedOn, RunTypes, Daemons, None
  <2>2. UnitHasProcess'
    BY <1>3 DEF Terminate, MovedOn, RunTypes, UnitHasProcess, Daemons
  <2>3. QED
    BY <2>1, <2>2
<1>4. CASE unit = "stopping" /\ Request(p, "stop", next)
  BY <1>4 DEF Request, MovedOn, RunTypes, UnitHasProcess, memory, None
<1>5. QED
  BY <1>1, <1>2, <1>3, <1>4 DEF SystemctlStop

LEMMA Ending ==
    ASSUME Inv, UnitEnded, UNCHANGED bin
    PROVE  RunInv'
<1> USE ProcsSpelled DEF Inv, RunInv
<1> DEFINE next == [p \in Procs |-> IF p \in ControlGroup THEN Idle ELSE pc[p]]
<1>1. /\ next \in [Procs -> Labels] /\ next["unit"] = Idle
      /\ \A d \in Daemons : next[RecoverOf[d]] # Idle => next[d] = "recovering"
  BY DEF ControlGroup, RunTypes, UnitHasProcess, Daemons
<1>2. blocked' = {} /\ job' = None
  BY DEF UnitEnded, UnitEnds
<1>3. CASE unit = "stopping" /\ job = "start"
  <2>1. Execute(next)
    BY <1>3 DEF UnitEnded, UnitEnds
  <2>2. QED
    BY <1>1, <1>2, <2>1, Executing
<1>4. CASE ~(unit = "stopping" /\ job = "start")
  <2>1. /\ unit' \in {"waiting", "inactive"}
        /\ pc' = next
        /\ executing' = executing \ {"unit"}
        /\ flag' = [flag EXCEPT !["unit"] = FALSE]
        /\ UNCHANGED <<known, cached, image>>
    BY <1>4 DEF UnitEnded, UnitEnds
  <2>2. RunTypes'
    BY <1>1, <1>2, <2>1 DEF RunTypes
  <2>3. UnitHasProcess'
    BY <1>1, <2>1 DEF UnitHasProcess
  <2>4. QED
    BY <2>2, <2>3
<1>5. QED
  BY <1>3, <1>4

\* A daemon that is not recovering ends.
LEMMA DaemonEnding ==
    ASSUME Inv, NEW d \in Daemons, pc[d] # "recovering", Ends(d)
    PROVE  Inv'
<1> USE ProcsSpelled
<1>1. CASE d = "unit" /\ UnitEnded /\ UNCHANGED <<disk, asked>>
  <2>1. DiskTypes'
    BY <1>1 DEF Inv, DiskTypes, disk, asked
  <2>2. RunInv'
    BY <1>1, Ending DEF disk
  <2>3. QED
    BY <2>1, <2>2 DEF Inv
<1>2. CASE /\ d = "manual"
           /\ pc' = Moved(d, Idle)
           /\ executing' = executing \ {d}
           /\ flag' = [flag EXCEPT ![d] = FALSE]
           /\ UNCHANGED <<disk, systemd, cached, image, asked>>
  <2>1. DiskTypes'
    BY <1>2 DEF Inv, DiskTypes, disk, asked
  <2>2. RunTypes'
    BY <1>2 DEF Inv, RunInv, RunTypes, Moved, systemd
  <2>3. UnitHasProcess'
    BY <1>2 DEF Inv, RunInv, RunTypes, UnitHasProcess, Moved, systemd, Daemons
  <2>4. QED
    BY <2>1, <2>2, <2>3 DEF Inv, RunInv
<1>3. QED
  BY <1>1, <1>2 DEF Ends

\* A process that goes to another label disturbs no recovery.
LEMMA MovesOn ==
    ASSUME Inv, NEW p \in Procs, NEW label \in Labels,
           p \in Daemons => pc[p] # Idle /\ label # Idle,
           p \in Daemons => pc[p] # "recovering" \/ pc[RecoverOf[p]] = Idle,
           p \in {"unit_recover", "manual_recover"} => pc[p] # Idle
    PROVE  MovedOn(Moved(p, label))
  BY ProcsSpelled
  DEF MovedOn, Inv, RunInv, RunTypes, UnitHasProcess, Moved, Daemons

\* When nothing but the disk and the memory of the processes changes besides.
LEMMA Moving ==
    ASSUME Inv, MovedOn(pc'), UNCHANGED <<unit, job, blocked>>,
           known' \in BOOLEAN,
           cached' \in [Daemons -> Contents], image' \in [Daemons -> Contents],
           flag' \in [Daemons -> BOOLEAN], executing' \subseteq Daemons
    PROVE  RunInv'
<1>1. RunTypes'
  BY DEF Inv, RunInv, RunTypes, MovedOn
<1>2. UnitHasProcess'
  BY DEF Inv, RunInv, UnitHasProcess, MovedOn
<1>3. QED
  BY <1>1, <1>2 DEF RunInv

\* The daemon's actions.
LEMMA DaemonStep ==
    ASSUME Inv, NEW d \in Daemons, Daemon(d) \/ Return(d)
    PROVE  Inv'
<1> USE ProcsSpelled
<1>0. /\ d \in Procs /\ pc[d] \in Labels
      /\ RecoverOf[d] \in Procs
      /\ DiskTypes /\ RunInv /\ RunTypes /\ UnitHasProcess
  BY DEF Daemons, Inv, RunInv, RunTypes
<1>1. ASSUME NEW label \in DaemonLabels, pc[d] \in DaemonLabels \ {"recovering"}
      PROVE  MovedOn(Moved(d, label))
  BY <1>0, <1>1, MovesOn DEF DaemonLabels, Idle, Daemons
<1>2. RoundEnds(d) \in {"done", "sleep"}
  BY DEF RoundEnds
<1>3. ASSUME NEW label \in DaemonLabels, pc[d] \in DaemonLabels \ {"recovering"},
             Step(d, label)
      PROVE  Inv'
  BY <1>0, <1>1, <1>3, Moving
  DEF Step, Inv, DiskTypes, RunTypes, disk, systemd, memory, asked
<1>4. CASE load_baseline_hash(d)
  <2>1. CASE baseline = None
    BY <1>4, <2>1, DaemonEnding DEF load_baseline_hash, At
  <2>2. CASE baseline # None
    <3>1. /\ pc[d] = "load" /\ pc' = Moved(d, "check")
          /\ cached' = [cached EXCEPT ![d] = baseline]
          /\ UNCHANGED <<disk, systemd, flag, image, executing, asked>>
      BY <1>4, <2>2 DEF load_baseline_hash, At
    <3>2. MovedOn(pc')
      BY <3>1, <1>1 DEF DaemonLabels
    <3>3. QED
      BY <1>0, <3>1, <3>2, Moving
      DEF Inv, DiskTypes, RunTypes, disk, systemd, asked
  <2>3. QED
    BY <2>1, <2>2
<1>5. CASE Check(d)
  BY <1>2, <1>3, <1>5 DEF Check, check_self_integrity, At, DaemonLabels
<1>6. CASE IsActive(d)
  BY <1>2, <1>3, <1>6 DEF IsActive, At, DaemonLabels
<1>7. CASE StartService(d)
  <2>1. MovedOn(Moved(d, RoundEnds(d)))
    BY <1>1, <1>2, <1>7 DEF StartService, At, DaemonLabels
  <2>2. RunInv'
    BY <1>0, <1>7, <2>1, Starting DEF StartService, disk
  <2>3. QED
    BY <1>0, <1>7, <2>2 DEF StartService, Inv, DiskTypes, disk, asked
<1>8. CASE HealStop(d)
  <2>1. MovedOn(Moved(d, "heal_copy"))
    BY <1>1, <1>8 DEF HealStop, At, DaemonLabels
  <2>2. RunInv'
    BY <1>0, <1>8, <2>1, Stopping DEF HealStop
  <2>3. QED
    BY <1>0, <1>8, <2>2 DEF HealStop, Inv, DiskTypes, disk, asked
<1>9. CASE HealCopy(d)
  <2>1. MovedOn(pc')
    BY <1>1, <1>9 DEF HealCopy, At, DaemonLabels
  <2>2. RunInv'
    BY <1>0, <1>9, <2>1, Moving DEF HealCopy, RunTypes, systemd, memory
  <2>3. QED
    BY <1>0, <1>9, <2>2 DEF HealCopy, Inv, DiskTypes, asked
<1>10. CASE HealRecover(d)
  <2>1. MovedOn(pc')
    <3>1. CASE scripts
      <4>1. /\ pc[d] = "heal_recover"
            /\ pc' = [pc EXCEPT ![d] = "recovering", ![RecoverOf[d]] = "stop"]
        BY <1>10, <3>1 DEF HealRecover, At
      <4>2. pc' \in [Procs -> Labels]
        BY <1>0, <4>1 DEF RunTypes, DaemonLabels, RecoverLabels
      <4>3. QED
        BY <1>0, <4>1, <4>2
        DEF RunTypes, UnitHasProcess, MovedOn, Daemons, Idle
    <3>2. CASE ~scripts
      BY <1>1, <1>10, <3>2 DEF HealRecover, At, DaemonLabels
    <3>3. QED
      BY <3>1, <3>2
  <2>2. RunInv'
    BY <1>0, <1>10, <2>1, Moving DEF HealRecover, RunTypes, systemd, memory
  <2>3. QED
    BY <1>0, <1>10, <2>2 DEF HealRecover, Inv, DiskTypes, disk, asked
<1>11. CASE Recovered(d)
  <2>1. MovedOn(pc')
    BY <1>0, <1>11, MovesOn DEF Recovered, At, Step, DaemonLabels, Idle, Daemons
  <2>2. RunInv'
    BY <1>0, <1>11, <2>1, Moving DEF Recovered, Step, RunTypes, systemd, memory
  <2>3. QED
    BY <1>0, <1>11, <2>2 DEF Recovered, Step, Inv, DiskTypes, disk, asked
<1>12. CASE Exit(d) \/ Return(d)
  BY <1>12, DaemonEnding DEF Exit, Return
<1>13. QED
  BY <1>4, <1>5, <1>6, <1>7, <1>8, <1>9, <1>10, <1>11, <1>12 DEF Daemon

\* recover.sh, whoever runs it.
LEMMA RecoverStep ==
    ASSUME Inv, NEW r \in Recovers, Recover(r)
    PROVE  Inv'
<1> USE ProcsSpelled
<1>0. /\ r \in Procs /\ r \notin Daemons
      /\ DiskTypes /\ RunInv /\ RunTypes /\ UnitHasProcess
  BY DEF Recovers, Daemons, Inv, RunInv
<1>1. ASSUME NEW label \in RecoverLabels \cup {Idle}, pc[r] \in RecoverLabels
      PROVE  MovedOn(Moved(r, label))
  BY <1>0, <1>1, MovesOn DEF RecoverLabels, Idle
<1>2. CASE RecoverStop(r)
  <2>1. MovedOn(Moved(r, "restore"))
    BY <1>1, <1>2 DEF RecoverStop, At, RecoverLabels
  <2>2. RunInv'
    BY <1>0, <1>2, <2>1, Stopping DEF RecoverStop
  <2>3. QED
    BY <1>0, <1>2, <2>2 DEF RecoverStop, Inv, DiskTypes, disk, asked
<1>3. CASE Restore(r)
  <2>1. MovedOn(pc')
    BY <1>1, <1>3 DEF Restore, At, RecoverLabels
  <2>2. executing' \subseteq Daemons
    BY <1>0, <1>3 DEF Restore, RunTypes
  <2>3. RunInv'
    BY <1>0, <1>3, <2>1, <2>2, Moving DEF Restore, RunTypes, systemd, memory
  <2>4. DiskTypes'
    BY <1>0, <1>3 DEF Restore, DiskTypes, asked, Contents
  <2>5. QED
    BY <2>3, <2>4 DEF Inv
<1>4. CASE RecoverStart(r)
  <2>1. MovedOn(Moved(r, "last"))
    BY <1>1, <1>4 DEF RecoverStart, At, RecoverLabels
  <2>2. RunInv'
    BY <1>0, <1>4, <2>1, Starting DEF RecoverStart, disk
  <2>3. QED
    BY <1>0, <1>4, <2>2 DEF RecoverStart, Inv, DiskTypes, disk, asked
<1>5. CASE RecoverEnds(r)
  <2>1. MovedOn(pc')
    BY <1>1, <1>5 DEF RecoverEnds, Step, At, RecoverLabels
  <2>2. RunInv'
    BY <1>0, <1>5, <2>1, Moving DEF RecoverEnds, Step, RunTypes, systemd, memory
  <2>3. QED
    BY <1>0, <1>5, <2>2 DEF RecoverEnds, Step, Inv, DiskTypes, disk, asked
<1>6. QED
  BY <1>2, <1>3, <1>4, <1>5 DEF Recover

\* install.sh and uninstall.sh.
LEMMA ScriptStep ==
    ASSUME Inv, Install \/ Uninstall
    PROVE  Inv'
<1> USE ProcsSpelled
<1>0. DiskTypes /\ RunInv /\ RunTypes /\ UnitHasProcess
  BY DEF Inv, RunInv
<1>1. ASSUME NEW s \in {"install", "uninstall"}, NEW label \in Labels
      PROVE  MovedOn(Moved(s, label))
  BY <1>1, MovesOn DEF Daemons
<1>2. ASSUME NEW s \in {"install", "uninstall"}, NEW label \in Labels,
             pc' = Moved(s, label), UNCHANGED <<unit, job, blocked, memory>>,
             known' \in BOOLEAN, executing' \in {executing, {}}
      PROVE  RunInv'
  BY <1>0, <1>1, <1>2, Moving DEF RunTypes, memory
<1>3. CASE \E build \in Builds : InstallCopy(build)
  <2>1. RunInv'
    BY <1>0, <1>2, <1>3
    DEF InstallCopy, RunTypes, InstallLabels, systemd
  <2>2. DiskTypes'
    BY <1>0, <1>3 DEF InstallCopy, DiskTypes, Contents, asked
  <2>3. QED
    BY <2>1, <2>2 DEF Inv
<1>4. CASE InstallHash
  BY <1>0, <1>2, <1>4
  DEF InstallHash, Inv, DiskTypes, RunTypes, InstallLabels, systemd, asked
<1>5. CASE InstallUnit
  BY <1>0, <1>2, <1>5 DEF InstallUnit, Inv, DiskTypes, InstallLabels, disk, asked
<1>6. CASE InstallStart
  <2>1. MovedOn(Moved("install", "scripts"))
    BY <1>1 DEF InstallLabels
  <2>2. RunInv'
    BY <1>0, <1>6, <2>1, Starting DEF InstallStart, disk
  <2>3. QED
    BY <1>0, <1>6, <2>2 DEF InstallStart, Inv, DiskTypes, disk, asked
<1>7. CASE InstallScripts
  BY <1>0, <1>2, <1>7
  DEF InstallScripts, Inv, DiskTypes, RunTypes, systemd, asked
<1>8. CASE UninstallStop
  <2>1. MovedOn(Moved("uninstall", "rm_bin"))
    BY <1>1 DEF UninstallLabels
  <2>2. RunInv'
    BY <1>0, <1>8, <2>1, Stopping DEF UninstallStop
  <2>3. QED
    BY <1>0, <1>8, <2>2 DEF UninstallStop, Inv, DiskTypes, disk, asked
<1>9. CASE RemoveBinary
  <2>1. RunInv'
    BY <1>0, <1>2, <1>9 DEF RemoveBinary, RunTypes, UninstallLabels, systemd
  <2>2. DiskTypes'
    BY <1>0, <1>9 DEF RemoveBinary, DiskTypes, Contents, asked
  <2>3. QED
    BY <2>1, <2>2 DEF Inv
<1>10. CASE RemoveConfig
  <2>1. RunInv'
    BY <1>0, <1>2, <1>10 DEF RemoveConfig, RunTypes, UninstallLabels, systemd
  <2>2. DiskTypes'
    BY <1>0, <1>10 DEF RemoveConfig, DiskTypes, Contents, asked
  <2>3. QED
    BY <2>1, <2>2 DEF Inv
<1>11. CASE RemoveInstallDir
  <2>1. RunInv'
    BY <1>0, <1>2, <1>11 DEF RemoveInstallDir, RunTypes, UninstallLabels, systemd
  <2>2. DiskTypes'
    BY <1>0, <1>11 DEF RemoveInstallDir, DiskTypes, Contents, asked
  <2>3. QED
    BY <2>1, <2>2 DEF Inv
<1>12. CASE DaemonReload
  BY <1>0, <1>2, <1>12 DEF DaemonReload, Inv, DiskTypes, disk
<1>13. QED
  BY <1>3, <1>4, <1>5, <1>6, <1>7, <1>8, <1>9, <1>10, <1>11, <1>12
  DEF Install, Uninstall

\* systemd's timers.
LEMMA TimerStep ==
    ASSUME Inv, RestartSec \/ TimeoutStop
    PROVE  Inv'
<1> USE ProcsSpelled
<1>0. DiskTypes /\ RunInv /\ RunTypes /\ UnitHasProcess
  BY DEF Inv, RunInv
<1>1. CASE RestartSec
  <2>1. pc["unit"] = Idle /\ job' = None /\ blocked' = blocked
    BY <1>0, <1>1 DEF RestartSec, RunTypes, UnitHasProcess
  <2>2. RunInv'
    BY <1>0, <1>1, <2>1, Executing
    DEF RestartSec, RunTypes, UnitHasProcess, disk
  <2>3. QED
    BY <1>0, <1>1, <2>2 DEF RestartSec, Inv, DiskTypes, disk, asked
<1>2. CASE TimeoutStop
  <2>1. RunInv'
    BY <1>2, Ending DEF TimeoutStop, disk
  <2>2. QED
    BY <1>0, <1>2, <2>1 DEF TimeoutStop, Inv, DiskTypes, disk, asked
<1>3. QED
  BY <1>1, <1>2

\* The operator and accidents.
LEMMA OutsideStep ==
    ASSUME Inv, Outside
    PROVE  Inv'
<1> USE ProcsSpelled
<1>0. DiskTypes /\ RunInv /\ RunTypes /\ UnitHasProcess /\ MovedOn(pc)
  BY DEF Inv, RunInv, RunTypes, UnitHasProcess, MovedOn
<1>1. CASE OperatorStarts
  <2>1. RunInv'
    BY <1>0, <1>1, Starting DEF OperatorStarts, disk
  <2>2. QED
    BY <1>0, <1>1, <2>1 DEF OperatorStarts, Inv, DiskTypes, disk
<1>2. CASE OperatorStops
  <2>1. RunInv'
    BY <1>0, <1>2, Stopping DEF OperatorStops
  <2>2. QED
    BY <1>0, <1>2, <2>1 DEF OperatorStops, Inv, DiskTypes, disk
<1>3. ASSUME NEW s \in Scripts, NEW label \in Labels, NEW request,
             RunScript(s, label, request)
      PROVE  Inv'
  <2>1. MovedOn(pc')
    BY <1>3, MovesOn DEF RunScript, Scripts, Daemons
  <2>2. RunInv'
    BY <1>0, <1>3, <2>1, Moving DEF RunScript, RunTypes, systemd, memory
  <2>3. QED
    BY <1>0, <1>3, <2>2 DEF RunScript, Inv, DiskTypes, disk
<1>4. CASE RunRecover \/ RunInstall \/ RunUninstall
  BY <1>3, <1>4
  DEF RunRecover, RunInstall, RunUninstall, Scripts, RecoverLabels,
      InstallLabels, UninstallLabels
<1>5. CASE StartByHand
  <2>1. MovedOn(pc')
    BY <1>0, <1>5
    DEF StartByHand, MovedOn, RunTypes, Moved, Daemons, DaemonLabels, Idle
  <2>2. image' \in [Daemons -> Contents] /\ executing' \subseteq Daemons
    BY <1>0, <1>5 DEF StartByHand, RunTypes, DiskTypes, Daemons
  <2>3. RunInv'
    BY <1>0, <1>5, <2>1, <2>2, Moving
    DEF StartByHand, RunTypes, systemd
  <2>4. QED
    BY <1>0, <1>5, <2>3 DEF StartByHand, Inv, DiskTypes, disk, asked
<1>6. CASE Interrupt
  <2>1. flag' \in [Daemons -> BOOLEAN]
    BY <1>0, <1>6 DEF Interrupt, RunTypes
  <2>2. RunInv'
    BY <1>0, <1>6, <2>1, Moving DEF Interrupt, RunTypes, systemd, MovedOn
  <2>3. QED
    BY <1>0, <1>6, <2>2 DEF Interrupt, Inv, DiskTypes, disk, asked
<1>7. CASE Change
  <2>1. RunInv'
    BY <1>0, <1>7, Moving DEF Change, RunTypes, systemd, memory, MovedOn
  <2>2. DiskTypes'
    BY <1>0, <1>7 DEF Change, DiskTypes, Contents, asked
  <2>3. QED
    BY <2>1, <2>2 DEF Inv
<1>8. CASE \E d \in Daemons : Crash(d)
  BY <1>8, DaemonEnding DEF Crash
<1>9. QED
  BY <1>1, <1>2, <1>4, <1>5, <1>6, <1>7, <1>8 DEF Outside

LEMMA InvStep ==
    ASSUME Inv, [Next]_vars
    PROVE  Inv'
<1>1. CASE Next
  BY <1>1, DaemonStep, RecoverStep, ScriptStep, TimerStep, OutsideStep DEF Next
<1>2. CASE UNCHANGED vars
  BY <1>2
  DEF vars, disk, systemd, memory, asked, Inv, DiskTypes, RunInv, RunTypes,
      UnitHasProcess
<1>3. QED
  BY <1>1, <1>2

LEMMA InvInit == Init => Inv
<1> SUFFICES ASSUME Init PROVE Inv
  OBVIOUS
<1> USE ProcsSpelled
<1>1. DiskTypes
  BY HealingAssumption DEF Init, DiskTypes, Contents
<1>2. RunTypes
  BY DEF Init, RunTypes, Contents, None
<1>3. UnitHasProcess
  BY DEF Init, UnitHasProcess, Daemons
<1>4. QED
  BY <1>1, <1>2, <1>3 DEF Inv, RunInv

(***************************************************************************)
(* Whoever starts, stops, kills or reinstalls the service, and in whatever *)
(* order: systemd's view of the unit agrees with its process, and the      *)
(* shells of a recovery never outlive the daemon that waits for them.      *)
(***************************************************************************)
THEOREM UnitAlwaysHasProcess == Spec => [](TypeOK /\ UnitHasProcess)
<1>1. Spec => []Inv
  BY InvInit, InvStep, PTL DEF Spec
<1>2. Inv => TypeOK /\ UnitHasProcess
  BY InvIsTypesAndProcess
<1>3. QED
  BY <1>1, <1>2, PTL

(***************************************************************************)
(* The type invariant of the service and its scripts alone.                *)
(***************************************************************************)
THEOREM HealingTypes == Spec => []TypeOK
  BY UnitAlwaysHasProcess, PTL
-----------------------------------------------------------------------------
\* The service alone, without scripts that replace or remove the binary.
ServiceRequests == {"start", "stop", "crash", "install"}

\* The labels at which the unit's daemon executes the file that is bin, and
\* those at which it has compared that file with its baseline.
Loaded  == {"load", "check", "sleep", "is_active", "start"}
Checked == {"sleep", "is_active", "start"}

Alone(next) == \A p \in Procs \ {"unit", "unit_recover", "install"} :
                  next[p] = Idle

Attested == /\ Alone(pc)
            /\ executing \subseteq {"unit"}
            /\ pc["unit"] \in Loaded => /\ "unit" \in executing
                                        /\ image["unit"] = bin
            /\ pc["unit"] \in Checked => image["unit"] = cached["unit"]

\* The unit's daemon has not come to load or pass a check on the way.
Keeps(next) == /\ MovedOn(next) /\ Alone(next)
               /\ next["unit"] \in Loaded => pc["unit"] \in Loaded
               /\ next["unit"] \in Checked => pc["unit"] \in Checked

\* A unit that is executed starts with the binary on the disk.
LEMMA AttestedExecuting ==
    ASSUME Inv, Attested, NEW next \in [Procs -> Labels], Alone(next),
           next["unit"] = Idle, Execute(next), UNCHANGED bin
    PROVE  Attested'
<1> USE ProcsSpelled
<1>1. image \in [Daemons -> Contents] /\ "unit" \in Daemons
  BY DEF Inv, RunInv, RunTypes, Daemons
<1>2. pc'["unit"] \in {"load", Idle} /\ Alone(pc')
  BY DEF Execute, Alone
<1>3. executing' \subseteq {"unit"}
  BY DEF Execute, Attested
<1>4. pc'["unit"] = "load" => "unit" \in executing' /\ image'["unit"] = bin'
  BY <1>1 DEF Execute, Idle
<1>5. QED
  BY <1>2, <1>3, <1>4 DEF Attested, Loaded, Checked, Idle, Alone

LEMMA AttestedStarting ==
    ASSUME Inv, Attested, NEW p, NEW next, Keeps(next),
           SystemctlStart(p, next), UNCHANGED bin
    PROVE  Attested'
<1>1. CASE unit \in {"inactive", "waiting"} /\ Execute(next)
  <2>1. next["unit"] = Idle
    BY <1>1 DEF Inv, RunInv, UnitHasProcess, Keeps, MovedOn
  <2>2. QED
    BY <1>1, <2>1, AttestedExecuting DEF Keeps, MovedOn
<1>2. CASE pc' = next /\ UNCHANGED <<bin, memory, executing>>
  BY <1>2 DEF Keeps, Attested, memory, Alone
<1>3. QED
  BY <1>1, <1>2 DEF SystemctlStart, Nothing, Request

LEMMA AttestedStopping ==
    ASSUME Inv, Attested, NEW p, NEW next, Keeps(next),
           SystemctlStop(p, next), UNCHANGED bin
    PROVE  Attested'
<1>1. CASE pc' = next /\ UNCHANGED <<memory, executing>>
  BY <1>1 DEF Keeps, Attested, memory, Alone
<1>2. CASE Terminate(p, next)
  <2>1. /\ pc' = [next EXCEPT !["unit_recover"] = Idle]
        /\ UNCHANGED <<cached, image, executing>>
    BY <1>2 DEF Terminate
  <2>2. pc'["unit"] = next["unit"] /\ Alone(pc')
    BY <2>1, ProcsSpelled DEF Keeps, MovedOn, Alone
  <2>3. QED
    BY <2>1, <2>2 DEF Keeps, Attested, Alone
<1>3. QED
  BY <1>1, <1>2 DEF SystemctlStop, Nothing, Request

LEMMA AttestedEnding ==
    ASSUME Inv, Attested, UnitEnded, UNCHANGED bin
    PROVE  Attested'
<1> USE ProcsSpelled
<1> DEFINE next == [p \in Procs |-> IF p \in ControlGroup THEN Idle ELSE pc[p]]
<1>1. next \in [Procs -> Labels] /\ next["unit"] = Idle /\ Alone(next)
  BY DEF ControlGroup, Inv, RunInv, RunTypes, Attested, Alone
<1>2. CASE Execute(next)
  BY <1>1, <1>2, AttestedExecuting
<1>3. CASE pc' = next /\ executing' = executing \ {"unit"}
  BY <1>1, <1>3 DEF Attested, Loaded, Checked, Idle, Alone
<1>4. QED
  BY <1>2, <1>3 DEF UnitEnded, UnitEnds

\* The actions of the unit's daemon: the only one, as nobody starts another.
LEMMA AttestedDaemon ==
    ASSUME Inv, Attested, NEW d \in Daemons, Daemon(d) \/ Return(d) \/ Crash(d)
    PROVE  Attested'
<1> USE ProcsSpelled
<1>1. d = "unit"
  <2>1. pc["manual"] = Idle
    BY DEF Attested, Alone
  <2>2. pc[d] # Idle
    BY DEF Daemon, Return, Crash, load_baseline_hash, Check,
        check_self_integrity, IsActive, StartService, HealStop, HealCopy,
        HealRecover, Recovered, Exit, At, Idle
  <2>3. QED
    BY <2>1, <2>2 DEF Daemons
<1>0. /\ pc \in [Procs -> Labels] /\ cached \in [Daemons -> Contents]
      /\ "unit" \in Daemons
  BY DEF Inv, RunInv, RunTypes, Daemons
<1>2. ASSUME Ends(d)
      PROVE  Attested'
  BY <1>1, <1>2, AttestedEnding DEF Ends, disk
<1>3. ASSUME NEW label \in Labels, pc' = Moved(d, label), UNCHANGED <<bin, executing, image>>,
             label \in Loaded => pc[d] \in Loaded,
             label \in Checked => image[d] = cached'[d]
      PROVE  Attested'
  <2>1. pc'["unit"] = label /\ Alone(pc')
    BY <1>0, <1>1, <1>3 DEF Moved, Attested, Alone
  <2>2. QED
    BY <1>1, <1>3, <2>1 DEF Attested, Alone
<1>4. RoundEnds(d) \in {"done", "sleep"}
  BY DEF RoundEnds
<1>5. CASE load_baseline_hash(d)
  <2>1. CASE baseline = None
    BY <1>2, <1>5, <2>1 DEF load_baseline_hash
  <2>2. CASE baseline # None
    BY <1>3, <1>5, <2>2
    DEF load_baseline_hash, At, Loaded, Checked, Labels, DaemonLabels, disk
  <2>3. QED
    BY <2>1, <2>2
<1>6. CASE check_self_integrity(d, "check", RoundEnds(d))
  <2>1. PICK label \in {"heal_stop", "done", "sleep"} :
              /\ pc' = Moved(d, label)
              /\ label = "sleep" => bin = cached[d]
    BY <1>4, <1>6 DEF check_self_integrity, Step
  <2>2. pc[d] = "check" /\ UNCHANGED <<bin, executing, image, cached>>
    BY <1>6 DEF check_self_integrity, At, Step, disk, memory
  <2>3. image[d] = bin
    BY <1>1, <2>2 DEF Attested, Loaded
  <2>4. label \in Labels /\ (label \in Loaded => pc[d] \in Loaded)
    BY <2>2 DEF Labels, DaemonLabels, Loaded
  <2>5. label \in Checked => image[d] = cached'[d]
    BY <2>1, <2>2, <2>3 DEF Checked
  <2>6. QED
    BY <1>3, <2>1, <2>2, <2>4, <2>5
<1>7. ASSUME NEW label \in Labels, Step(d, label), pc[d] \in Labels \ {Idle},
             label \in Checked => pc[d] \in Checked,
             label \notin Loaded \ Checked
      PROVE  Attested'
  BY <1>1, <1>3, <1>7 DEF Step, Attested, Loaded, Checked, disk, memory
<1>8. CASE check_self_integrity(d, "sleep", "is_active")
  BY <1>7, <1>8
  DEF check_self_integrity, At, Loaded, Checked, Labels, DaemonLabels, Idle
<1>9. CASE IsActive(d)
  BY <1>4, <1>7, <1>9
  DEF IsActive, At, Loaded, Checked, Labels, DaemonLabels, Idle
<1>10. ASSUME NEW label \in DaemonLabels \ (Loaded \ Checked),
              pc[d] \in DaemonLabels \ {"recovering"},
              label \in Checked => pc[d] \in Checked
       PROVE  Keeps(Moved(d, label))
  <2>1. MovedOn(Moved(d, label))
    BY <1>0, <1>1, <1>10, MovesOn DEF DaemonLabels, Idle
  <2>2. QED
    BY <1>0, <1>1, <1>10, <2>1
    DEF Keeps, Moved, Attested, Alone, Loaded, Checked
<1>11. CASE StartService(d)
  <2>1. Keeps(Moved(d, RoundEnds(d)))
    BY <1>4, <1>10, <1>11 DEF StartService, At, DaemonLabels, Loaded, Checked
  <2>2. QED
    BY <1>11, <2>1, AttestedStarting DEF StartService, disk
<1>12. CASE HealStop(d)
  <2>1. Keeps(Moved(d, "heal_copy"))
    BY <1>10, <1>12 DEF HealStop, At, DaemonLabels, Loaded, Checked
  <2>2. QED
    BY <1>12, <2>1, AttestedStopping DEF HealStop, disk
<1>13. CASE HealCopy(d)
  BY <1>3, <1>13 DEF HealCopy, Labels, DaemonLabels, Loaded, Checked, memory
<1>14. CASE HealRecover(d)
  <2>1. pc'["unit"] \in {"recovering", "exit"} /\ Alone(pc')
    BY <1>0, <1>1, <1>14 DEF HealRecover, Moved, Attested, Alone
  <2>2. UNCHANGED executing
    BY <1>14 DEF HealRecover
  <2>3. QED
    BY <2>1, <2>2 DEF Attested, Alone, Loaded, Checked
<1>15. CASE Recovered(d)
  BY <1>7, <1>15
  DEF Recovered, At, Loaded, Checked, Labels, DaemonLabels, Idle
<1>16. CASE Exit(d) \/ Return(d) \/ Crash(d)
  BY <1>2, <1>16 DEF Exit, Return, Crash
<1>17. QED
  BY <1>5, <1>6, <1>8, <1>9, <1>11, <1>12, <1>13, <1>14, <1>15, <1>16
  DEF Daemon, Check

\* The recovery that the unit's daemon waits for: no other is under way.
LEMMA AttestedRecover ==
    ASSUME Inv, Attested, NEW r \in Recovers, Recover(r)
    PROVE  Attested'
<1> USE ProcsSpelled
<1>1. r = "unit_recover" /\ pc["unit"] = "recovering"
  <2>1. pc[r] # Idle
    BY DEF Recover, RecoverStop, Restore, RecoverStart, RecoverEnds, At, Idle
  <2>2. QED
    BY <2>1 DEF Attested, Alone, Recovers, Inv, RunInv, UnitHasProcess, Daemons
<1>2. pc \in [Procs -> Labels]
  BY DEF Inv, RunInv, RunTypes
<1>3. ASSUME NEW label \in Labels
      PROVE  /\ Moved(r, label)["unit"] = "recovering"
             /\ Alone(Moved(r, label))
             /\ Keeps(Moved(r, label))
  <2>1. MovedOn(Moved(r, label))
    BY <1>1, MovesOn DEF Daemons, Inv, RunInv, UnitHasProcess, Idle, Recover,
       RecoverStop, Restore, RecoverStart, RecoverEnds, At
  <2>2. Moved(r, label)["unit"] = "recovering" /\ Alone(Moved(r, label))
    BY <1>1, <1>2 DEF Moved, Attested, Alone
  <2>3. QED
    BY <2>1, <2>2 DEF Keeps, Loaded, Checked
<1>4. CASE RecoverStop(r)
  BY <1>3, <1>4, AttestedStopping DEF RecoverStop, disk, RecoverLabels
<1>5. CASE RecoverStart(r)
  BY <1>3, <1>5, AttestedStarting DEF RecoverStart, disk, RecoverLabels
<1>6. CASE Restore(r) \/ RecoverEnds(r)
  <2>1. pc'["unit"] = "recovering" /\ Alone(pc')
    BY <1>3, <1>6 DEF Restore, RecoverEnds, Step, RecoverLabels
  <2>2. executing' \in {executing, {}}
    BY <1>6 DEF Restore, RecoverEnds, Step
  <2>3. QED
    BY <2>1, <2>2 DEF Attested, Alone, Loaded, Checked
<1>7. QED
  BY <1>4, <1>5, <1>6 DEF Recover

\* install.sh cannot write the file while a daemon executes it.
LEMMA AttestedInstall ==
    ASSUME Inv, Attested, Install
    PROVE  Attested'
<1> USE ProcsSpelled
<1>1. pc \in [Procs -> Labels]
  BY DEF Inv, RunInv, RunTypes
<1>2. ASSUME NEW label \in Labels
      PROVE  Keeps(Moved("install", label)) /\ Alone(Moved("install", label))
  <2>1. MovedOn(Moved("install", label))
    BY MovesOn DEF Daemons
  <2>2. QED
    BY <1>1, <2>1 DEF Keeps, Moved, Attested, Alone
<1>3. CASE InstallStart
  BY <1>2, <1>3, AttestedStarting DEF InstallStart, disk, InstallLabels
<1>4. CASE \E build \in Builds : InstallCopy(build)
  <2>1. /\ pc' = Moved("install", "hash")
        /\ executing # {} => bin' = bin
        /\ UNCHANGED <<image, cached, executing>>
    BY <1>4 DEF InstallCopy, memory
  <2>2. QED
    BY <1>2, <2>1 DEF Attested, Keeps, Alone, InstallLabels
<1>5. CASE InstallHash \/ InstallUnit \/ InstallScripts
  <2>1. /\ \E label \in Labels : pc' = Moved("install", label)
        /\ UNCHANGED <<bin, image, cached, executing>>
    BY <1>5 DEF InstallHash, InstallUnit, InstallScripts, InstallLabels, disk,
                memory
  <2>2. QED
    BY <1>2, <2>1 DEF Attested, Keeps, Alone
<1>6. QED
  BY <1>3, <1>4, <1>5 DEF Install

LEMMA AttestedStep ==
    ASSUME Requests \subseteq ServiceRequests, Inv, Attested, [Next]_vars
    PROVE  Attested'
<1> USE ProcsSpelled
<1>1. Keeps(pc) /\ pc \in [Procs -> Labels]
  BY DEF Keeps, Attested, MovedOn, Inv, RunInv, RunTypes, UnitHasProcess
<1>2. ~Uninstall
  BY DEF Uninstall, UninstallStop, RemoveBinary, RemoveConfig,
     RemoveInstallDir, DaemonReload, At, Attested, Alone, Idle
<1>3. CASE RestartSec
  BY <1>1, <1>3, AttestedExecuting
  DEF RestartSec, Attested, Inv, RunInv, UnitHasProcess, disk
<1>4. CASE TimeoutStop
  BY <1>4, AttestedEnding DEF TimeoutStop, disk
<1>5. CASE OperatorStarts
  BY <1>1, <1>5, AttestedStarting DEF OperatorStarts, disk
<1>6. CASE OperatorStops
  BY <1>1, <1>6, AttestedStopping DEF OperatorStops, disk
<1>7. CASE RunInstall
  <2>1. /\ pc' = Moved("install", "copy")
        /\ UNCHANGED <<bin, executing, image, cached>>
    BY <1>7 DEF RunInstall, RunScript, disk, memory
  <2>2. pc'["unit"] = pc["unit"] /\ Alone(pc')
    BY <1>1, <2>1 DEF Moved, Attested, Alone
  <2>3. QED
    BY <2>1, <2>2 DEF Attested, Alone
<1>8. CASE Interrupt
  BY <1>8 DEF Interrupt, Monitoring, Attested, Alone, Idle
<1>9. ~RunRecover /\ ~RunUninstall /\ ~StartByHand /\ ~Change
  BY DEF RunRecover, RunUninstall, RunScript, StartByHand, Change,
     ServiceRequests
<1>10. CASE UNCHANGED vars
  BY <1>10 DEF vars, disk, memory, Attested, Alone
<1>11. QED
  BY <1>2, <1>3, <1>4, <1>5, <1>6, <1>7, <1>8, <1>9, <1>10, AttestedDaemon,
     AttestedRecover, AttestedInstall
  DEF Next, Outside

(***************************************************************************)
(* Whatever install.sh compiles and whenever it runs, and however often    *)
(* the service is started, stopped and killed meanwhile: the daemon at     *)
(* work was executed from the content whose hash it loaded as baseline.    *)
(***************************************************************************)
THEOREM AttestedImage ==
    Requests \subseteq ServiceRequests => (Spec => []ImageIsAttested)
<1> SUFFICES ASSUME Requests \subseteq ServiceRequests
             PROVE  Spec => []ImageIsAttested
  OBVIOUS
<1>1. Init => Inv /\ Attested
  <2>1. Init => Attested
    BY ProcsSpelled DEF Init, Attested, Alone, Loaded, Checked, Idle
  <2>2. QED
    BY <2>1, InvInit
<1>2. Inv /\ Attested /\ [Next]_vars => Inv' /\ Attested'
  BY InvStep, AttestedStep
<1>3. Inv /\ Attested => ImageIsAttested
  BY ProcsSpelled
  DEF Attested, Alone, ImageIsAttested, Monitoring, Daemons, Checked, Idle
<1>4. QED
  BY <1>1, <1>2, <1>3, PTL DEF Spec
-----------------------------------------------------------------------------
\* At rest: nobody is left who could start the unit.
LEMMA NobodyLeft ==
    ASSUME Inv, unit = "inactive", NoScript, pc["manual"] = Idle
    PROVE  \A p \in Procs : pc[p] = Idle
  BY ProcsSpelled
  DEF Inv, RunInv, RunTypes, UnitHasProcess, NoScript, Scripts, Daemons, Idle

\* Processes that are idle take no step.
LEMMA IdleStays ==
    ASSUME \A p \in Procs : pc[p] = Idle, Next
    PROVE  RestartSec \/ TimeoutStop \/ Outside
<1> USE ProcsSpelled
<1>1. ASSUME NEW d \in Daemons PROVE ~(Daemon(d) \/ Return(d))
  <2>1. pc[d] = Idle
    BY <1>1 DEF Daemons
  <2>2. QED
    BY <2>1
    DEF Daemon, load_baseline_hash, Check, check_self_integrity, IsActive,
        StartService, HealStop, HealCopy, HealRecover, Recovered, Exit, Return,
        At, Idle
<1>2. ASSUME NEW r \in Recovers PROVE ~Recover(r)
  BY <1>2
  DEF Recover, RecoverStop, Restore, RecoverStart, RecoverEnds, At, Idle,
      Recovers
<1>3. ~Install /\ ~Uninstall
  BY DEF Install, InstallCopy, InstallHash, InstallUnit, InstallStart,
     InstallScripts, Uninstall, UninstallStop, RemoveBinary, RemoveConfig,
     RemoveInstallDir, DaemonReload, At, Idle
<1>4. QED
  BY <1>1, <1>2, <1>3 DEF Next

(***************************************************************************)
(* A service that has stopped and is not wanted rests, for any builds and  *)
(* any requests, as long as no script and no daemon started by hand is at  *)
(* work: whoever else could start it is gone with the daemon of the unit.  *)
(***************************************************************************)
THEOREM ServiceRests == Spec => StoppedStaysDown
<1>1. ASSUME Inv, [Next]_vars, unit = "inactive",
             NoScript, pc["manual"] = Idle, ~wanted'
      PROVE  unit' = "inactive"
  <2>1. CASE UNCHANGED vars
    BY <1>1, <2>1 DEF vars, systemd
  <2>2. CASE Next
    <3>1. \A p \in Procs : pc[p] = Idle
      BY <1>1, NobodyLeft
    <3>2. RestartSec \/ TimeoutStop \/ Outside
      BY <2>2, <3>1, IdleStays
    <3>3. ~RestartSec /\ ~TimeoutStop
      BY <1>1 DEF RestartSec, TimeoutStop
    <3>4. ~OperatorStarts
      BY <1>1 DEF OperatorStarts
    <3>5. CASE OperatorStops
      BY <1>1, <3>5
      DEF OperatorStops, SystemctlStop, Nothing, systemd
    <3>6. CASE RunRecover \/ RunInstall \/ RunUninstall
      BY <1>1, <3>6 DEF RunRecover, RunInstall, RunUninstall, RunScript, systemd
    <3>7. CASE StartByHand \/ Interrupt \/ Change
      BY <1>1, <3>7 DEF StartByHand, Interrupt, Change, systemd
    <3>8. \A d \in Daemons : ~Crash(d)
      BY <3>1, ProcsSpelled DEF Crash, Idle, Daemons
    <3>9. QED
      BY <3>2, <3>3, <3>4, <3>5, <3>6, <3>7, <3>8 DEF Outside
  <2>3. QED
    BY <1>1, <2>1, <2>2
<1>2. Inv /\ [Next]_vars
        => (unit = "inactive" /\ unit' # "inactive"
              => wanted' \/ ~NoScript \/ pc["manual"] # Idle)
  BY <1>1
<1>3. QED
  BY <1>2, InvInit, InvStep, PTL DEF Spec, StoppedStaysDown
-----------------------------------------------------------------------------
\* One script of the two at a time, and a unit that was removed stays unknown.
RemovedInv ==
    /\ pc["install"] = Idle \/ pc["uninstall"] = Idle
    /\ removed => ~known /\ pc["install"] = Idle

\* What a request to systemd leaves: its caller went on to next, the scripts
\* stand where next has them, and what is not known is not executed.
Leaves(next) ==
    /\ pc'["install"] = next["install"]
    /\ pc'["uninstall"] = next["uninstall"]
    /\ UNCHANGED known
    /\ pc'["unit"] = "load" => known \/ next["unit"] = "load"

LEMMA ExecuteLeaves ==
    ASSUME NEW next \in [Procs -> Labels], Execute(next)
    PROVE  Leaves(next)
  BY ProcsSpelled DEF Execute, Leaves

LEMMA StartLeaves ==
    ASSUME NEW p, NEW next \in [Procs -> Labels], SystemctlStart(p, next)
    PROVE  Leaves(next)
  BY ExecuteLeaves
  DEF SystemctlStart, Nothing, Request, Leaves, systemd

LEMMA StopLeaves ==
    ASSUME NEW p, NEW next \in [Procs -> Labels], SystemctlStop(p, next)
    PROVE  Leaves(next)
  BY ProcsSpelled
  DEF SystemctlStop, Nothing, Request, Terminate, Leaves, systemd

LEMMA EndLeaves ==
    ASSUME pc \in [Procs -> Labels], UnitEnded
    PROVE  Leaves([pc EXCEPT !["unit"] = Idle])
<1> USE ProcsSpelled
<1> DEFINE next == [p \in Procs |-> IF p \in ControlGroup THEN Idle ELSE pc[p]]
<1>1. /\ next \in [Procs -> Labels] /\ next["unit"] = Idle
      /\ next["install"] = pc["install"] /\ next["uninstall"] = pc["uninstall"]
  BY DEF ControlGroup
<1>2. CASE unit = "stopping" /\ job = "start"
  <2>1. Execute(next)
    BY <1>2 DEF UnitEnded, UnitEnds
  <2>2. Leaves(next)
    BY <1>1, <2>1, ExecuteLeaves
  <2>3. QED
    BY <1>1, <2>2 DEF Leaves, Idle
<1>3. CASE ~(unit = "stopping" /\ job = "start")
  BY <1>1, <1>3 DEF UnitEnded, UnitEnds, Leaves, Idle
<1>4. QED
  BY <1>2, <1>3

\* A step that leaves the two scripts and the unit file alone.
LeavesAll == Leaves(pc) /\ UNCHANGED removed

LEMMA DaemonLeaves ==
    ASSUME pc \in [Procs -> Labels], NEW d \in Daemons, Daemon(d) \/ Return(d)
    PROVE  LeavesAll
<1> USE ProcsSpelled
<1>0. d \in {"unit", "manual"}
  BY DEF Daemons
<1>1. ASSUME NEW label \in {"check", "sleep", "is_active", "start", "done",
                            "heal_stop", "heal_copy", "heal_recover", "exit"}
      PROVE  /\ Moved(d, label) \in [Procs -> Labels]
             /\ Moved(d, label)["unit"] = "load" => pc["unit"] = "load"
             /\ Moved(d, label)["install"] = pc["install"]
             /\ Moved(d, label)["uninstall"] = pc["uninstall"]
  BY <1>0 DEF Moved, DaemonLabels
<1>2. RoundEnds(d) \in {"done", "sleep"}
  BY DEF RoundEnds
<1>3. ASSUME NEW label \in {"check", "sleep", "is_active", "start", "done",
                            "heal_stop", "heal_copy", "heal_recover", "exit"},
             pc' = Moved(d, label), UNCHANGED <<known, removed>>
      PROVE  LeavesAll
  BY <1>1, <1>3 DEF LeavesAll, Leaves
<1>4. CASE Ends(d)
  <2>1. CASE d = "unit" /\ UnitEnded /\ UNCHANGED <<disk, asked>>
    BY <2>1, EndLeaves DEF LeavesAll, Leaves, asked, Idle
  <2>2. CASE d = "manual" /\ pc' = Moved(d, Idle) /\ UNCHANGED <<systemd, asked>>
    BY <2>2 DEF LeavesAll, Leaves, Moved, systemd, asked
  <2>3. QED
    BY <1>4, <2>1, <2>2 DEF Ends
<1>5. CASE load_baseline_hash(d)
  BY <1>3, <1>4, <1>5 DEF load_baseline_hash, systemd, asked
<1>6. CASE Check(d) \/ IsActive(d) \/ Recovered(d)
  BY <1>2, <1>3, <1>6
  DEF Check, check_self_integrity, IsActive, Recovered, Step, systemd, asked
<1>7. CASE StartService(d)
  BY <1>1, <1>2, <1>7, StartLeaves DEF StartService, LeavesAll, Leaves, asked
<1>8. CASE HealStop(d)
  BY <1>1, <1>8, StopLeaves DEF HealStop, LeavesAll, Leaves, asked
<1>9. CASE HealCopy(d)
  BY <1>3, <1>9 DEF HealCopy, systemd, asked
<1>10. CASE HealRecover(d)
  <2>1. CASE scripts
    BY <1>0, <1>10, <2>1 DEF HealRecover, LeavesAll, Leaves, systemd, asked
  <2>2. CASE ~scripts
    BY <1>3, <1>10, <2>2 DEF HealRecover, systemd, asked
  <2>3. QED
    BY <2>1, <2>2
<1>11. CASE Exit(d) \/ Return(d)
  BY <1>4, <1>11 DEF Exit, Return
<1>12. QED
  BY <1>5, <1>6, <1>7, <1>8, <1>9, <1>10, <1>11 DEF Daemon

LEMMA RecoverLeaves ==
    ASSUME pc \in [Procs -> Labels], NEW r \in Recovers, Recover(r)
    PROVE  LeavesAll
<1> USE ProcsSpelled
<1>1. ASSUME NEW label \in {"restore", "start", "last", Idle}
      PROVE  /\ Moved(r, label) \in [Procs -> Labels]
             /\ Moved(r, label)["unit"] = pc["unit"]
             /\ Moved(r, label)["install"] = pc["install"]
             /\ Moved(r, label)["uninstall"] = pc["uninstall"]
  BY DEF Moved, RecoverLabels, Recovers
<1>2. CASE RecoverStop(r)
  BY <1>1, <1>2, StopLeaves DEF RecoverStop, LeavesAll, Leaves, asked
<1>3. CASE Restore(r)
  BY <1>1, <1>3 DEF Restore, LeavesAll, Leaves, systemd, asked
<1>4. CASE RecoverStart(r)
  BY <1>1, <1>4, StartLeaves DEF RecoverStart, LeavesAll, Leaves, asked
<1>5. CASE RecoverEnds(r)
  BY <1>1, <1>5 DEF RecoverEnds, Step, LeavesAll, Leaves, systemd, asked
<1>6. QED
  BY <1>2, <1>3, <1>4, <1>5 DEF Recover

\* The scripts themselves.
LEMMA ScriptsRemove ==
    ASSUME Inv, RemovedInv, Install \/ Uninstall
    PROVE  /\ RemovedInv'
           /\ removed /\ removed' /\ pc'["unit"] = "load" => pc["unit"] = "load"
<1> USE ProcsSpelled
<1>0. pc \in [Procs -> Labels]
  BY DEF Inv, RunInv, RunTypes
<1>1. CASE Install
  <2>1. pc["install"] # Idle /\ pc["uninstall"] = Idle /\ ~removed
    BY <1>1
    DEF Install, InstallCopy, InstallHash, InstallUnit, InstallStart,
        InstallScripts, At, RemovedInv, Idle
  <2>2. CASE InstallStart
    <3>1. Moved("install", "scripts") \in [Procs -> Labels]
      BY <1>0 DEF Moved, InstallLabels
    <3>2. Leaves(Moved("install", "scripts")) /\ UNCHANGED removed
      BY <2>2, <3>1, StartLeaves DEF InstallStart, asked
    <3>3. Moved("install", "scripts")["uninstall"] = Idle
      BY <1>0, <2>1 DEF Moved
    <3>4. QED
      BY <2>1, <3>2, <3>3 DEF RemovedInv, Leaves
  <2>3. CASE ~InstallStart
    <3>1. \E label \in Labels : pc' = Moved("install", label)
      BY <1>1, <2>3
      DEF Install, InstallCopy, InstallHash, InstallUnit, InstallScripts,
          InstallLabels
    <3>2. UNCHANGED removed
      BY <1>1, <2>3
      DEF Install, InstallCopy, InstallHash, InstallUnit, InstallScripts, asked
    <3>3. pc'["uninstall"] = Idle
      BY <1>0, <2>1, <3>1 DEF Moved
    <3>4. QED
      BY <2>1, <3>2, <3>3 DEF RemovedInv
  <2>4. QED
    BY <2>2, <2>3
<1>2. CASE Uninstall
  <2>1. pc["uninstall"] # Idle /\ pc["install"] = Idle
    BY <1>2
    DEF Uninstall, UninstallStop, RemoveBinary, RemoveConfig,
        RemoveInstallDir, DaemonReload, At, RemovedInv, Idle
  <2>2. CASE UninstallStop
    <3>1. Moved("uninstall", "rm_bin") \in [Procs -> Labels]
      BY <1>0 DEF Moved, UninstallLabels
    <3>2. Leaves(Moved("uninstall", "rm_bin")) /\ UNCHANGED removed
      BY <2>2, <3>1, StopLeaves DEF UninstallStop, asked
    <3>3. /\ Moved("uninstall", "rm_bin")["install"] = Idle
          /\ Moved("uninstall", "rm_bin")["unit"] = pc["unit"]
      BY <1>0, <2>1 DEF Moved
    <3>4. QED
      BY <2>1, <3>2, <3>3 DEF RemovedInv, Leaves
  <2>3. CASE ~UninstallStop
    <3>1. \E label \in Labels : pc' = Moved("uninstall", label)
      BY <1>2, <2>3
      DEF Uninstall, RemoveBinary, RemoveConfig, RemoveInstallDir,
          DaemonReload, UninstallLabels
    <3>2. known' = FALSE \/ UNCHANGED <<known, removed>>
      BY <1>2, <2>3
      DEF Uninstall, RemoveBinary, RemoveConfig, RemoveInstallDir,
          DaemonReload, systemd, asked
    <3>3. pc'["install"] = Idle /\ pc'["unit"] = pc["unit"]
      BY <1>0, <2>1, <3>1 DEF Moved
    <3>4. QED
      BY <2>1, <3>2, <3>3 DEF RemovedInv
  <2>4. QED
    BY <2>2, <2>3
<1>3. QED
  BY <1>1, <1>2

LEMMA RemovedStep ==
    ASSUME Inv, RemovedInv, [Next]_vars
    PROVE  /\ RemovedInv'
           /\ removed /\ removed' /\ pc'["unit"] = "load" => pc["unit"] = "load"
<1> USE ProcsSpelled
<1>0. pc \in [Procs -> Labels]
  BY DEF Inv, RunInv, RunTypes
<1>1. CASE LeavesAll
  BY <1>1 DEF LeavesAll, Leaves, RemovedInv
<1>2. CASE Install \/ Uninstall
  BY <1>2, ScriptsRemove
<1>3. CASE RestartSec \/ TimeoutStop
  <2>1. CASE RestartSec
    BY <1>0, <1>1, <2>1, ExecuteLeaves DEF RestartSec, LeavesAll, asked
  <2>2. CASE TimeoutStop
    BY <1>0, <1>1, <2>2, EndLeaves DEF TimeoutStop, LeavesAll, Leaves, asked, Idle
  <2>3. QED
    BY <1>3, <2>1, <2>2
<1>4. CASE RunRecover \/ RunInstall \/ RunUninstall
  <2>1. /\ ~removed'
        /\ \E s \in Scripts, label \in Labels : pc' = Moved(s, label)
    BY <1>4
    DEF RunRecover, RunInstall, RunUninstall, RunScript, Scripts,
        RecoverLabels, InstallLabels, UninstallLabels
  <2>2. pc["install"] = Idle /\ pc["uninstall"] = Idle
    BY <1>4 DEF RunRecover, RunInstall, RunUninstall, RunScript, NoScript, Scripts
  <2>3. QED
    BY <1>0, <2>1, <2>2 DEF RemovedInv, Moved
<1>5. CASE StartByHand \/ Interrupt \/ Change
  <2>1. UNCHANGED <<known, removed>> /\ pc' \in {pc, Moved("manual", "load")}
    BY <1>5 DEF StartByHand, Interrupt, Change, systemd, asked
  <2>2. LeavesAll
    BY <1>0, <2>1 DEF LeavesAll, Leaves, Moved
  <2>3. QED
    BY <1>1, <2>2
<1>6. ASSUME NEW d \in Daemons, Crash(d)
      PROVE  LeavesAll
  <2>1. CASE d = "unit" /\ UnitEnded /\ UNCHANGED asked
    BY <1>0, <2>1, EndLeaves DEF LeavesAll, Leaves, asked, Idle
  <2>2. CASE d = "manual" /\ pc' = Moved(d, Idle) /\ UNCHANGED <<systemd, asked>>
    BY <1>0, <2>2 DEF LeavesAll, Leaves, Moved, systemd, asked
  <2>3. QED
    BY <1>6, <2>1, <2>2 DEF Crash, Ends
<1>7. CASE UNCHANGED vars
  BY <1>1, <1>7 DEF vars, systemd, asked, LeavesAll, Leaves
<1>8. CASE OperatorStarts \/ OperatorStops
  BY <1>0, <1>1, <1>8, StartLeaves, StopLeaves
  DEF OperatorStarts, OperatorStops, LeavesAll
<1>9. QED
  BY <1>0, <1>1, <1>2, <1>3, <1>4, <1>5, <1>6, <1>7, <1>8, DaemonLeaves,
     RecoverLeaves
  DEF Next, Outside

(***************************************************************************)
(* A service that uninstall.sh has removed is not executed again before a  *)
(* script is run, for any builds and any requests: whatever jobs, recovery *)
(* scripts and watchdogs are still under way, systemd does not know it.    *)
(***************************************************************************)
THEOREM RemovedForGood == Spec => UninstalledStaysDown
<1>1. Init => RemovedInv
  BY ProcsSpelled DEF Init, RemovedInv
<1>2. Inv /\ RemovedInv /\ [Next]_vars => RemovedInv'
  BY RemovedStep
<1>3. Inv /\ RemovedInv /\ [Next]_vars
        => (removed /\ pc["unit"] # "load" /\ pc'["unit"] = "load" => ~removed')
  BY RemovedStep
<1>4. QED
  BY <1>1, <1>2, <1>3, InvInit, InvStep, PTL DEF Spec, UninstalledStaysDown
=============================================================================
