---------------------------- MODULE SelfHealing ----------------------------
(***************************************************************************)
(* The integrity check, the watchdog and the scripts around them: what the *)
(* daemon does about its own binary and its own service, while an operator *)
(* starts, stops, installs, recovers and uninstalls it.                    *)
(*                                                                         *)
(* A SHA-256 hash stands for the content it was computed from, so baseline *)
(* and the hash a daemon loaded are contents.  Of systemd there is what    *)
(* zoedr.service makes it do: Restart=always, no start limit, SIGTERM to   *)
(* the whole control group, SIGKILL after TimeoutStopSec.  A start request *)
(* takes the place of a stop request still under way, and the reverse; the *)
(* systemctl that asked for the one replaced returns.                      *)
(***************************************************************************)
EXTENDS Naturals, FiniteSets

CONSTANTS
    Builds,      \* contents that install.sh can compile
    Changed,     \* a content that no build has
    Requests,    \* what happens to the machine from outside
    CleanCopy    \* somebody keeps a copy of the binary in /opt/zoedr

None == "none"

AllRequests == {"start", "stop", "recover", "install", "uninstall", "manual",
                "change", "crash"}

ASSUME HealingAssumption == /\ None \notin Builds \cup {Changed}
                            /\ Changed \notin Builds
                            /\ Requests \subseteq AllRequests
                            /\ CleanCopy \in BOOLEAN

VARIABLES
    bin,         \* /usr/sbin/zoedr_advanced
    corrupted,   \* /usr/sbin/zoedr_advanced.corrupted
    copy,        \* /opt/zoedr/zoedr_advanced
    baseline,    \* /etc/zoedr/zoedr_advanced.sha256
    scripts,     \* /opt/zoedr/recover.sh is there
    known,       \* systemd has loaded the unit file
    unit,        \* state of the service unit
    job,         \* what systemd will do when the unit has stopped
    blocked,     \* processes whose systemctl waits for that job
    pc,          \* where each process is
    cached,      \* the baseline a daemon loaded at its start
    flag,        \* its terminate_flag
    image,       \* the content it was executed from
    executing,   \* daemons whose executable is the file that is bin now
    wanted,      \* the operator's last request was to have the service run
    removed      \* uninstall.sh has ended

disk    == <<bin, corrupted, copy, baseline, scripts>>
systemd == <<known, unit, job, blocked>>
memory  == <<cached, flag, image>>
asked   == <<wanted, removed>>
vars    == <<disk, systemd, pc, memory, executing, asked>>
-----------------------------------------------------------------------------
\* A daemon runs in the service unit or was started by hand; each may have
\* run recover.sh, and so may the operator.
Daemons  == {"unit", "manual"}
Recovers == {"unit_recover", "manual_recover", "operator_recover"}
Scripts  == {"operator_recover", "install", "uninstall"}
Procs    == Daemons \cup Recovers \cup Scripts

RecoverOf == [unit |-> "unit_recover", manual |-> "manual_recover"]

ControlGroup == {"unit", "unit_recover"}

DaemonLabels == {"load", "check", "sleep", "is_active", "start", "done",
                 "heal_stop", "heal_copy", "heal_recover", "recovering", "exit"}
RecoverLabels == {"stop", "restore", "start", "last"}
InstallLabels == {"copy", "hash", "unit", "start", "scripts"}
UninstallLabels == {"stop", "rm_bin", "rm_config", "rm_opt", "reload"}
Idle == "idle"
Labels == {Idle} \cup DaemonLabels \cup RecoverLabels
            \cup InstallLabels \cup UninstallLabels

\* The watchdog is at work: the check at the start was passed.
Monitoring(d) == pc[d] \in {"sleep", "is_active", "start"}

Moved(p, label) == [pc EXCEPT ![p] = label]

At(p, label) == pc[p] = label /\ p \notin blocked

Init ==
    /\ bin \in Builds \cup {None}
    /\ baseline = bin
    /\ corrupted = None
    /\ copy = IF CleanCopy THEN bin ELSE None
    /\ scripts = (bin # None) /\ known = (bin # None)
    /\ unit = "inactive" /\ job = None /\ blocked = {}
    /\ pc = [p \in Procs |-> Idle]
    /\ cached = [d \in Daemons |-> None]
    /\ image = [d \in Daemons |-> None]
    /\ flag = [d \in Daemons |-> FALSE]
    /\ executing = {}
    /\ wanted = FALSE /\ removed = FALSE
-----------------------------------------------------------------------------
(* systemd.  The argument next is pc once the caller has moved on.         *)

\* The process is executed; without a binary that fails, and is retried.
Execute(next) ==
    /\ \/ /\ known /\ bin # None
          /\ unit' = "active"
          /\ pc' = [next EXCEPT !["unit"] = "load"]
          /\ image' = [image EXCEPT !["unit"] = bin]
          /\ executing' = executing \cup {"unit"}
       \/ /\ ~known \/ bin = None
          /\ unit' = IF known THEN "waiting" ELSE "inactive"
          /\ pc' = next
          /\ executing' = executing \ {"unit"}
          /\ UNCHANGED image
    /\ flag' = [flag EXCEPT !["unit"] = FALSE]
    /\ UNCHANGED <<known, cached>>

\* A request for a unit that is stopping already, or for the same once more.
Request(p, verb, next) ==
    /\ job' = verb
    /\ blocked' = (IF job = verb THEN blocked ELSE {}) \cup {p}
    /\ pc' = next
    /\ UNCHANGED <<known, unit, memory, executing>>

Nothing(next) == pc' = next /\ UNCHANGED <<systemd, memory, executing>>

SystemctlStart(p, next) ==
    \/ /\ unit \in {"inactive", "waiting"} /\ Execute(next)
       /\ UNCHANGED <<job, blocked>>
    \/ /\ unit = "active" \/ (unit = "stopping" /\ ~known)
       /\ Nothing(next)
    \/ unit = "stopping" /\ known /\ Request(p, "start", next)

\* SIGTERM: the daemon raises its flag, its shells die and system() returns.
Terminate(p, next) ==
    /\ unit' = "stopping" /\ job' = "stop"
    /\ blocked' = {p} \ ControlGroup
    /\ flag' = [flag EXCEPT !["unit"] = TRUE]
    /\ pc' = [next EXCEPT !["unit_recover"] = Idle]
    /\ UNCHANGED <<known, cached, image, executing>>

SystemctlStop(p, next) ==
    \/ unit = "inactive" /\ Nothing(next)
    \/ /\ unit = "waiting"
       /\ unit' = "inactive" /\ pc' = next
       /\ UNCHANGED <<known, job, blocked, memory, executing>>
    \/ unit = "active" /\ Terminate(p, next)
    \/ unit = "stopping" /\ Request(p, "stop", next)

\* The daemon of the unit has ended, and with it the processes killed; the
\* unit restarts when it was not asked to stop.
UnitEnds(killed, restarts) ==
    LET next == [p \in Procs |-> IF p \in killed THEN Idle ELSE pc[p]]
    IN  /\ blocked' = {} /\ job' = None
        /\ IF unit = "stopping" /\ job = "start"
           THEN Execute(next)
           ELSE /\ unit' = IF unit = "active" /\ known /\ restarts
                           THEN "waiting" ELSE "inactive"
                /\ pc' = next
                /\ executing' = executing \ {"unit"}
                /\ flag' = [flag EXCEPT !["unit"] = FALSE]
                /\ UNCHANGED <<known, cached, image>>

\* MUTANT: only the main process is killed.
UnitEnded_MainOnly == UnitEnds({"unit"}, TRUE)

\* MUTANT: a unit that ends by itself is not restarted.
UnitEnded_NoRestart == UnitEnds(ControlGroup, FALSE)

UnitEnded == UnitEnds(ControlGroup, TRUE)

\* MUTANT: the restart leaves a job behind.
RestartSec_KeepsJob ==
    /\ unit = "waiting" /\ Execute(pc) /\ job' = "start"
    /\ UNCHANGED <<disk, blocked, asked>>

RestartSec == /\ unit = "waiting" /\ Execute(pc)
              /\ UNCHANGED <<disk, job, blocked, asked>>

TimeoutStop == unit = "stopping" /\ UnitEnded /\ UNCHANGED <<disk, asked>>
-----------------------------------------------------------------------------
(* The daemon: main up to the threads, then the watchdog.                  *)

Step(p, label) == /\ pc' = Moved(p, label)
                  /\ UNCHANGED <<disk, systemd, memory, executing, asked>>

Ends(d) ==
    \/ d = "unit" /\ UnitEnded /\ UNCHANGED <<disk, asked>>
    \/ /\ d = "manual"
       /\ pc' = Moved(d, Idle)
       /\ executing' = executing \ {d}
       /\ flag' = [flag EXCEPT ![d] = FALSE]
       /\ UNCHANGED <<disk, systemd, cached, image, asked>>

load_baseline_hash(d) ==
    /\ At(d, "load")
    /\ IF baseline = None
       THEN Ends(d)
       ELSE /\ cached' = [cached EXCEPT ![d] = baseline]
            /\ pc' = Moved(d, "check")
            /\ UNCHANGED <<disk, systemd, flag, image, executing, asked>>

\* Once in main, then at the beginning of each round of the watchdog.  A
\* binary that is missing has a hash of zeros, which no baseline has.
check_self_integrity(d, from, otherwise) ==
    /\ At(d, from)
    /\ Step(d, IF bin = cached[d] THEN otherwise ELSE "heal_stop")

\* The watchdog tests the flag before it sleeps.
RoundEnds(d) == IF flag[d] THEN "done" ELSE "sleep"

Check(d) == \/ check_self_integrity(d, "check", RoundEnds(d))
            \/ check_self_integrity(d, "sleep", "is_active")

IsActive(d) ==
    /\ At(d, "is_active")
    /\ Step(d, IF unit = "active" THEN RoundEnds(d) ELSE "start")

StartService(d) ==
    /\ At(d, "start")
    /\ SystemctlStart(d, Moved(d, RoundEnds(d)))
    /\ UNCHANGED <<disk, asked>>

HealStop(d) ==
    /\ At(d, "heal_stop")
    /\ SystemctlStop(d, Moved(d, "heal_copy"))
    /\ UNCHANGED <<disk, asked>>

HealCopy(d) ==
    /\ At(d, "heal_copy")
    /\ corrupted' = IF bin # None THEN bin ELSE corrupted
    /\ pc' = Moved(d, "heal_recover")
    /\ UNCHANGED <<bin, copy, baseline, scripts, systemd, memory, executing, asked>>

HealRecover(d) ==
    /\ At(d, "heal_recover")
    /\ pc' = IF scripts
             THEN [pc EXCEPT ![d] = "recovering", ![RecoverOf[d]] = "stop"]
             ELSE Moved(d, "exit")
    /\ UNCHANGED <<disk, systemd, memory, executing, asked>>

\* MUTANT: the daemon goes on after the recovery.
Recovered_GoesOn(d) ==
    /\ At(d, "recovering") /\ pc[RecoverOf[d]] = Idle
    /\ Step(d, RoundEnds(d))

Recovered(d) ==
    /\ At(d, "recovering") /\ pc[RecoverOf[d]] = Idle
    /\ Step(d, "exit")

Exit(d) == pc[d] = "exit" /\ Ends(d)

\* main has joined the threads; the others may keep it waiting for ever.
Return(d) == pc[d] = "done" /\ d \notin blocked /\ Ends(d)

Daemon(d) == \/ load_baseline_hash(d) \/ Check(d) \/ IsActive(d)
             \/ StartService(d) \/ HealStop(d) \/ HealCopy(d)
             \/ HealRecover(d) \/ Recovered(d) \/ Exit(d)
-----------------------------------------------------------------------------
(* recover.sh.                                                             *)

RecoverStop(r) ==
    /\ At(r, "stop")
    /\ SystemctlStop(r, Moved(r, "restore"))
    /\ UNCHANGED <<disk, asked>>

\* The corrupted copy is preferred; mv replaces the file, whereas cp cannot
\* write a file that is being executed.
Restore(r) ==
    /\ At(r, "restore")
    /\ pc' = Moved(r, "start")
    /\ IF corrupted # None
       THEN /\ bin' = corrupted /\ corrupted' = None
            /\ executing' = {}
       ELSE /\ bin' = IF /\ copy # None /\ baseline \notin {None, bin}
                         /\ executing = {}
                      THEN copy ELSE bin
            /\ UNCHANGED <<corrupted, executing>>
    /\ UNCHANGED <<copy, baseline, scripts, systemd, memory, asked>>

RecoverStart(r) ==
    /\ At(r, "start")
    /\ SystemctlStart(r, Moved(r, "last"))
    /\ UNCHANGED <<disk, asked>>

RecoverEnds(r) == At(r, "last") /\ Step(r, Idle)

Recover(r) == RecoverStop(r) \/ Restore(r) \/ RecoverStart(r) \/ RecoverEnds(r)
-----------------------------------------------------------------------------
(* install.sh and uninstall.sh.                                            *)

\* MUTANT: the binary is moved into place, also while it is executed.
InstallCopy_Moves(build) ==
    /\ At("install", "copy")
    /\ bin' = build /\ executing' = {}
    /\ pc' = Moved("install", "hash")
    /\ UNCHANGED <<corrupted, copy, baseline, scripts, systemd, memory, asked>>

InstallCopy(build) ==
    /\ At("install", "copy")
    /\ bin' = IF executing = {} THEN build ELSE bin
    /\ pc' = Moved("install", "hash")
    /\ UNCHANGED <<corrupted, copy, baseline, scripts, systemd, memory,
                   executing, asked>>

InstallHash ==
    /\ At("install", "hash")
    /\ baseline' = bin
    /\ pc' = Moved("install", "unit")
    /\ UNCHANGED <<bin, corrupted, copy, scripts, systemd, memory, executing,
                   asked>>

InstallUnit ==
    /\ At("install", "unit")
    /\ known' = TRUE
    /\ pc' = Moved("install", "start")
    /\ UNCHANGED <<disk, unit, job, blocked, memory, executing, asked>>

InstallStart ==
    /\ At("install", "start")
    /\ SystemctlStart("install", Moved("install", "scripts"))
    /\ UNCHANGED <<disk, asked>>

InstallScripts ==
    /\ At("install", "scripts")
    /\ scripts' = TRUE
    /\ pc' = Moved("install", Idle)
    /\ UNCHANGED <<bin, corrupted, copy, baseline, systemd, memory, executing,
                   asked>>

Install == \/ \E build \in Builds : InstallCopy(build)
           \/ InstallHash \/ InstallUnit \/ InstallStart \/ InstallScripts

UninstallStop ==
    /\ At("uninstall", "stop")
    /\ SystemctlStop("uninstall", Moved("uninstall", "rm_bin"))
    /\ UNCHANGED <<disk, asked>>

\* MUTANT: the binary is looked for in another directory.
RemoveBinary_Elsewhere ==
    /\ At("uninstall", "rm_bin")
    /\ pc' = Moved("uninstall", "rm_config")
    /\ UNCHANGED <<disk, systemd, memory, executing, asked>>

RemoveBinary ==
    /\ At("uninstall", "rm_bin")
    /\ bin' = None /\ executing' = {}
    /\ pc' = Moved("uninstall", "rm_config")
    /\ UNCHANGED <<corrupted, copy, baseline, scripts, systemd, memory, asked>>

RemoveConfig ==
    /\ At("uninstall", "rm_config")
    /\ baseline' = None
    /\ pc' = Moved("uninstall", "rm_opt")
    /\ UNCHANGED <<bin, corrupted, copy, scripts, systemd, memory, executing,
                   asked>>

RemoveInstallDir ==
    /\ At("uninstall", "rm_opt")
    /\ copy' = None /\ scripts' = FALSE
    /\ pc' = Moved("uninstall", "reload")
    /\ UNCHANGED <<bin, corrupted, baseline, systemd, memory, executing, asked>>

\* MUTANT: systemd is not told that the unit file has gone.
DaemonReload_Forgotten ==
    /\ At("uninstall", "reload")
    /\ removed' = TRUE
    /\ pc' = Moved("uninstall", Idle)
    /\ UNCHANGED <<disk, systemd, memory, executing, wanted>>

DaemonReload ==
    /\ At("uninstall", "reload")
    /\ known' = FALSE
    /\ removed' = TRUE
    /\ pc' = Moved("uninstall", Idle)
    /\ UNCHANGED <<disk, unit, job, blocked, memory, executing, wanted>>

Uninstall == \/ UninstallStop \/ RemoveBinary \/ RemoveConfig
             \/ RemoveInstallDir \/ DaemonReload
-----------------------------------------------------------------------------
(* The operator, who runs one script at a time, and accidents.             *)

NoScript == \A s \in Scripts : pc[s] = Idle

OperatorStarts ==
    /\ "start" \in Requests /\ NoScript
    /\ wanted' = TRUE
    /\ SystemctlStart("operator", pc)
    /\ UNCHANGED <<disk, removed>>

OperatorStops ==
    /\ "stop" \in Requests /\ NoScript
    /\ wanted' = FALSE
    /\ SystemctlStop("operator", pc)
    /\ UNCHANGED <<disk, removed>>

RunScript(s, label, request) ==
    /\ request \in Requests /\ NoScript
    /\ pc' = Moved(s, label)
    /\ wanted' = (s # "uninstall") /\ removed' = FALSE
    /\ UNCHANGED <<disk, systemd, memory, executing>>

RunRecover   == scripts /\ RunScript("operator_recover", "stop", "recover")
RunInstall   == RunScript("install", "copy", "install")
RunUninstall == RunScript("uninstall", "stop", "uninstall")

StartByHand ==
    /\ "manual" \in Requests
    /\ pc["manual"] = Idle /\ bin # None
    /\ pc' = Moved("manual", "load")
    /\ image' = [image EXCEPT !["manual"] = bin]
    /\ executing' = executing \cup {"manual"}
    /\ UNCHANGED <<disk, systemd, cached, flag, asked>>

Interrupt ==
    /\ Monitoring("manual")
    /\ flag' = [flag EXCEPT !["manual"] = TRUE]
    /\ UNCHANGED <<disk, systemd, pc, cached, image, executing, asked>>

\* The file is replaced by one with another content.
Change ==
    /\ "change" \in Requests /\ bin # None
    /\ bin' = Changed /\ executing' = {}
    /\ UNCHANGED <<corrupted, copy, baseline, scripts, systemd, pc, memory,
                   asked>>

Crash(d) == "crash" \in Requests /\ pc[d] = "sleep" /\ Ends(d)

Outside == \/ OperatorStarts \/ OperatorStops
           \/ RunRecover \/ RunInstall \/ RunUninstall
           \/ StartByHand \/ Interrupt \/ Change
           \/ \E d \in Daemons : Crash(d)

Next == \/ \E d \in Daemons : Daemon(d) \/ Return(d)
        \/ \E r \in Recovers : Recover(r)
        \/ Install \/ Uninstall
        \/ RestartSec \/ TimeoutStop
        \/ Outside

Spec == Init /\ [][Next]_vars

\* Daemons and scripts run on, and systemd keeps its timers.  Nothing makes
\* main return (a thread may be blocked) or the operator do anything.
Fairness == /\ \A d \in Daemons : WF_vars(Daemon(d))
            /\ \A r \in Recovers : WF_vars(Recover(r))
            /\ WF_vars(Install) /\ WF_vars(Uninstall)
            /\ WF_vars(RestartSec) /\ WF_vars(TimeoutStop)

FairSpec == Spec /\ Fairness
-----------------------------------------------------------------------------
Contents == Builds \cup {Changed, None}

TypeOK ==
    /\ {bin, corrupted, copy, baseline} \subseteq Contents
    /\ {scripts, known, wanted, removed} \subseteq BOOLEAN
    /\ unit \in {"inactive", "active", "stopping", "waiting"}
    /\ job \in {None, "start", "stop"}
    /\ job # None <=> unit = "stopping"
    /\ blocked \subseteq Procs \cup {"operator"}
    /\ pc \in [Procs -> Labels]
    /\ cached \in [Daemons -> Contents]
    /\ image \in [Daemons -> Contents]
    /\ flag \in [Daemons -> BOOLEAN]
    /\ executing \subseteq Daemons

\* The main process of the unit, and the shells of its control group.
UnitHasProcess ==
    /\ unit \in {"active", "stopping"} <=> pc["unit"] # Idle
    /\ \A d \in Daemons : pc[RecoverOf[d]] # Idle => pc[d] = "recovering"

(***************************************************************************)
(* A daemon that went on from the check at its start was executed from the *)
(* content that the baseline attests, although the check reads the path a  *)
(* second time, after the execution, while install.sh may be at work: a    *)
(* binary in use cannot be overwritten.                                    *)
(***************************************************************************)
ImageIsAttested == \A d \in Daemons : Monitoring(d) => image[d] = cached[d]

(***************************************************************************)
(* When the operator wants the service and binary and baseline agree, the  *)
(* service gets to work, whatever crashed or was stopped before, unless    *)
(* the operator has a script run once more.                                *)
(***************************************************************************)
Intact == known /\ bin # None /\ bin = baseline
WantedRuns ==
    (wanted /\ Intact)
      ~> (Monitoring("unit") \/ ~wanted \/ ~Intact \/ ~NoScript)

(***************************************************************************)
(* A daemon whose binary no longer matches ends, although it waits for a   *)
(* recovery that waits for the daemon to end.                              *)
(***************************************************************************)
TamperedDaemonEnds ==
    \A d \in Daemons :
      (Monitoring(d) /\ bin # cached[d])
        ~> (pc[d] \in {Idle, "load", "done"} \/ bin = cached[d])

(***************************************************************************)
(* After uninstall.sh has ended the service goes and does not come back,   *)
(* although its watchdog and systemd both restart it.                      *)
(***************************************************************************)
UninstallIsFinal == removed ~> [](pc["unit"] = Idle \/ ~removed)

(***************************************************************************)
(* What systemctl stop promises the operator: the service that was stopped *)
(* is not executed again, although its watchdog starts it when not active. *)
(***************************************************************************)
StopIsObeyed ==
    [][pc["unit"] # "load" /\ pc'["unit"] = "load" => wanted']_vars

(***************************************************************************)
(* A service that has stopped and is not wanted rests: neither systemd nor *)
(* what is left of the daemon that stopped it executes it again, only a    *)
(* script or the watchdog and the recovery of a daemon started by hand.    *)
(***************************************************************************)
StoppedStaysDown ==
    [][unit = "inactive" /\ unit' # "inactive"
         => wanted' \/ ~NoScript \/ pc["manual"] # Idle]_vars

(***************************************************************************)
(* Once uninstall.sh has ended, the service is not executed any more,      *)
(* though a watchdog may have a start job pending, or a recovery may have  *)
(* put the file .corrupted, which uninstall.sh forgets, where the binary   *)
(* was.                                                                    *)
(***************************************************************************)
UninstalledStaysDown ==
    [][removed /\ pc["unit"] # "load" /\ pc'["unit"] = "load" => ~removed']_vars

(***************************************************************************)
(* What recover.sh announces: when it has restored the binary, the binary  *)
(* matches the baseline, if a clean copy is at hand.                       *)
(***************************************************************************)
RestoreRepairs ==
    [][\A r \in Recovers :
         Restore(r) /\ baseline # None /\ copy = baseline => bin' = baseline]_vars

(***************************************************************************)
(* What the daemon waits for before it exits: the recovery that the daemon *)
(* of the service triggers gets to restoring the binary.                   *)
(***************************************************************************)
RecoveryRestores == pc["unit"] = "recovering" ~> pc["unit_recover"] = "start"
=============================================================================
