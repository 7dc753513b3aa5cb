# Verification of ZoEDR-Linux

TLA+ models of the ZoEDR endpoint detection daemon (`src/src/zoedr_advanced.c`), its kernel module,
service unit, scripts, log rotation and the part of the dashboard that reads the log, model-checked with TLC on small instances and, for the properties that matter
most, proved with TLAPS for every value of the constants. Line numbers below are those of
`src/src/zoedr_advanced.c` unless a file is named.

## 1. Inventory

| Part | State | Operations | Interacts with |
|---|---|---|---|
| Threat scoring (:472-514, :89-95) | none; sums five weights | `analyze_process_behavior`, `score_to_severity` | called by both detection threads |
| Process scan and monitoring loop (:149-217, :781-813) | `process_list`, `proc_mutex` | scan `/proc`, walk the list, report, quarantine, sleep 10 s | scoring, quarantine, alert log |
| Netlink engine (:665-777) | connector socket and its buffer | subscribe, `recv`, analyse one process, quarantine | the same, without the list |
| Quarantine (:606-625) | SIGSTOP and an iptables rule | two `system()` calls, one log line | every process, the daemon's own included |
| File watcher (:219-281) | inotify descriptor | watch six paths, score and report events | alert log |
| Watchdog and integrity (:518-661) | cached baseline hash | hash the binary, reload the module, restart the service, recover | systemd, `recover.sh`, kernel module |
| Main and signals (:816-874) | `terminate_flag` | start four threads, join them, free the list | all threads |
| Memory analysis (:332-412) | YARA rules | fold the executable regions of a process into one number | scoring |
| CPU pattern (:414-441) | two arrays indexed by pid | compare CPU time with the last look | scoring, from two threads |
| Alert log (:51-144, `config/zoedr.logrotate`) | `/var/log/zoedr/alerts.json`, the struct of `localtime` | stamp, append one line without a lock; rotate | all threads, dashboard |
| Dashboard (`Dashboard/zoedr_dashboard_advanced.py`) | none between refreshes | eight callbacks that each load the whole log | alert log |
| Service unit (`config/zoedr.service`) | state of the unit | start, stop, restart always | daemon, scripts, watchdog |
| Scripts (`script/*.sh`) | files in `/usr/sbin`, `/opt/zoedr`, `/etc/zoedr` | install, recover, verify, uninstall | unit, binary, baseline |
| Kernel module (`src/zoedr_kernel.c`) | two kprobes, `protected_pid` | register, log, unregister | watchdog (presence only) |

What is hard in this code:

- **Threads that meet through the operating system.** Two threads detect independently; each
  runs shells with `system()`; these shells are processes that the other thread sees, scores and
  may suspend. The daemon sees and may suspend itself.
- **Decisions on old data.** Nodes are up to a scan old (or older, if `opendir` fails), an exec
  event is analysed once, before the process has done anything, live checks read `/proc` of whatever
  has the id now, and SIGSTOP goes to a number.
- **Blocking calls and shutdown.** The signal handler sets a flag that each thread reads only
  between blocking calls, which the signal does not interrupt.
- **Ignored results.** `system()`, `pthread_create`, and most I/O results are dropped, among them
  those of the commands of a quarantine and of opening the log.
- **Limits.** Netlink and inotify queues of finite size, counters for 65536 ids.
- **State shared without a lock.** The CPU counters, the struct of `localtime`, and the log file,
  which a rotation renames under its writers.
- **Data left over.** Locals that `sscanf` did not fill, a baseline of the process that had the id
  before, a `protected_pid` of a daemon that has ended.
- **Recovery that stops itself.** The integrity check stops the unit it runs in, and
  `recover.sh` prefers the copy that the check has just made.

What makes each part correct: scoring — the two detection paths agree, and the response to a score is
the documented one; daemon — only processes that gave cause are suspended, none silently, what is
logged as quarantined is stopped, no process that executes a file slips through, nothing is left behind at
exit, the loops keep going and stop when told; watchdog and scripts — the daemon runs only binaries
that match the baseline, and an uninstalled one does not come back; alert log and dashboard — every
alert arrives and is seen; kernel module — its probes go with it.
Not all of this is true of the code: section 6 lists where it is not.
`PROJECT.json` lists every hazard at its line with the properties that cover it.

## 2. Plan

| Order | Module | Content | State |
|---|---|---|---|
| 1 | `ThreatScore`, `Scoring` | scoring rules as constant operators; one process under analysis | proved |
| 2 | `Daemon` | process table, four threads, shells, netlink buffer, signals, shutdown | safety proved |
| 3 | `Response` | the abstract promise of the daemon, implemented by `Daemon` | refinement proved |
| 4 | `SelfHealing` | integrity check, watchdog, systemd, recover/install/uninstall on the disk | safety proved |
| 5 | `MemoryScan`, `CpuPattern` | the two analyses that fold data into a verdict | proved |
| 6 | `AlertLog` | from an alert to the line in the log, its rotation, and the dashboard's alarm | proved |
| 7 | `KernelModule` | registration, failure, unloading, what the probes print | proved |
| 8 | `ProcessTable` | the readdir loop over a changing process table | proved |
| 9 | `FileWatcher` | the event loop and the kernel's queue | proved |

Left: how late an alert reaches the dashboard.

## 3. Modules

**`ThreatScore`** holds the constant operators: the five weights (named as the fields of
`threat_score_t`), `analyze_process_behavior` as their sum, the thresholds, `score_to_severity`.
A command name is the set of pattern groups `strstr` finds in it; entropy is in hundredths of a
bit, so that comparisons with 7.0, 7.5 and 10.0 are exact.

**`Scoring`** puts one process next to its analysis: the node is fixed when it is read, the live
data (`socket`, `hot`, `entropy`) may change, or vanish, until it is read.

**`Daemon`** extends `ThreatScore`. `proc` is the process table (running, stopped, zombie, and what
each process looks like: its image); `pc` says where each thread is; `child` is the shell a thread
waits for in `system()`, `target` the process it is quarantining; `process_list`, `current` and
`proc_mutex` are the list, the walk over it and the lock; `temp_node` is the node of the netlink
thread; `queue` and `overrun` are the netlink buffer; `alerted`, `quarantined` and `dropped` are the
lines of the log and the users whose output iptables drops. `suspect` is a history: the processes
that gave cause to be suspended (`Incriminates`). Correspondence:

| Code | Actions |
|---|---|
| `system()` (:612, :618, :646, :651-654) | `Fork` / `ForkFails`, `CommandRuns`, `Return` |
| `scan_process_tree` | `ScanProcessTree`, `ScanFails` (old list kept) |
| `advanced_monitoring_loop` | `Visit` (analysis, report, decision), `EndOfWalk` (unlock) |
| `start_netlink_watcher` | `Listen`, `ListenFails`, `RecvExec`, `RecvOther`, `RecvFails` |
| `analyze_single_process` | `RecvExec` (reads the node), `AnalyzeSingle` (analysis, report, decision) |
| `start_file_watcher` (control) | `InotifyInit`, `FileEvent`, `FileFails` |
| `watchdog_thread` | `Check`, then commands modprobe, is_active, start, recheck |
| `while (!terminate_flag)` | `LoopAgain`, `LoopEnds` |
| `sigterm_handler`, `systemctl stop` | `Sigterm`, `StopUnit` |
| end of `main` | `MainReturns` |
| the machine | `Spawn` (fork), `Exec`, `Change`, `Exit`, `Burst` |

The processes of the machine change under the daemon. A fork makes a process that looks like any of
the images and sends no exec event; an exec sends one and changes name and file; a change (a new name,
sockets, CPU time, memory, user, parent) sends none. A node keeps what was read (`Static`); what
the analysis reads later (`Observed`) is that of the process which has the id by then. A node is not always
the process's own: where the stat line holds no name, or a ")" in the name, the locals of :180-184 and
:675-677 keep what an earlier line left in them (`Garbled`, `Held`; which one, `ProcessTable` says
for a scan, and `Daemon` leaves open).

A quarantine is two commands whose results nobody reads. `kill` needs the permission to signal the
process (`MaySignal`); the firewall rule is for `geteuid()`, the user of the daemon (`Rule`, `DaemonUser`),
whoever owns the process, and `iptables` may fail. A line of the log is missing when the file cannot
be opened (`Written`).

Abstractions: a shell and the command it runs are one process with the shell's name, and its fork and exec
are one step (before the exec it has the name and the sockets of the daemon, which the analysis
treats like those of a shell); a shell inherits the sockets open when it is forked. A signal sent to a
suspended daemon waits until it runs; nobody but systemd sends SIGCONT. A scan is one step
(`ProcessTable` takes it entry by entry), `stat` and `exe` of a process are read together, and so are the
live files of one analysis; report and decision come with the analysis, since they read nothing more. The integrity
check finds the binary intact (`SelfHealing`); only SUSPICIOUS_BEHAVIOR and PROCESS_QUARANTINED
lines are kept; `pthread_create` succeeds. When ids are given out again is the constant `PidReuse`:
never (a short run), late (not while the daemon has a use for the id), early (at once). `KnownPids`
says what use it has: the targets of its threads and the nodes of `KnownNodes`, which are that of the
netlink thread, those still to be walked and, where `opendir` may fail, the whole list, since the
next round then walks the old one again.

**`Response`** is the abstract specification: each process of the machine is running, suspended or
absent, a suspect or not, and the daemon reports, suspends, blocks and logs. Suspension requires a
cause and, where the log can be written (`Recorded`), a report; a suspended process does not run
again; a process is logged as quarantined only if it was reported and, where commands can be relied on
(`Reliable`), is stopped and the output of the daemon's user dropped. `Daemon!R` maps the process table to it: threads,
shells, nodes, queues and the lock are hidden, a zombie and a process of the daemon are "absent";
`Recorded` is `LogWritten` and `Reliable` is `CommandsRun`: the daemon is root, fork and iptables do not
fail, no unit is stopped, and no id is given out early. A scan, a walk or an exec that gives no cause is
a stutter; the command `kill -STOP` of a shell is `Suspend`.

**`SelfHealing`** is about the binary and the service. `bin`, `corrupted`, `copy`, `baseline` and
`scripts` are the disk; `known`, `unit`, `job` and `blocked` are what systemd holds; a daemon may run
in the unit or have been started by hand (`install_wsl.sh`), each with its own `cached` baseline,
`flag` and `image` (what it was executed from); `executing` says which of them keep the file `bin`
busy; `wanted` and `removed` record what the operator asked for last. Correspondence:

| Code | Actions |
|---|---|
| `load_baseline_hash`, `check_self_integrity` in `main` (:831-835) | `load_baseline_hash`, `Check` |
| a round of `watchdog_thread` (:633-658) | `Check`, `IsActive`, `StartService` |
| the recovery (:597-602) | `HealStop`, `HealCopy`, `HealRecover`, `Recovered`, `Exit` |
| `recover.sh` | `RecoverStop`, `Restore`, `RecoverStart`, `RecoverEnds` |
| `install.sh` | `InstallCopy`, `InstallHash`, `InstallUnit`, `InstallStart`, `InstallScripts` |
| `uninstall.sh` | `UninstallStop`, `RemoveBinary`, `RemoveConfig`, `RemoveInstallDir`, `DaemonReload` |
| `zoedr.service` and systemd | `SystemctlStart`, `SystemctlStop`, `Terminate`, `TimeoutStop`, `UnitEnded`, `RestartSec` |
| the operator and the machine | `OperatorStarts`, `OperatorStops`, `Run...`, `StartByHand`, `Interrupt`, `Change`, `Crash` |

Abstractions: a hash stands for the content it was computed from; `TimeoutStop` may happen at any
moment of a stop, since the model has no clock; `cp` onto a file that a daemon executes fails (the
kernel reports ETXTBSY, and the scripts go on), whereas `mv` and `rm` put another file in its place;
the operator runs one script at a time; the commands between the modelled steps (kernel module,
dashboard, log directories) change nothing here and are left out. Of systemd only what the unit
file makes it do is modelled, among it that a new start or stop request replaces the one under way.

**`CpuPattern`** (:414-441) takes `check_cpu_pattern` one memory access at a time, by two threads.
The arrays are a map from element addresses, so that the element of an id above 65535 is one of the
other array, junk, or no memory (`Segfault`, after which the unit starts the daemon anew). Ids are
given out again (`ReusePid`). Each element remembers whose counter it holds; this history only states
the property. A look reads the counters, loads `last_utime`, loads `last_stime` and decides, and stores
the two; only the test and the use of `last_utime` (:432, :433) are taken as one load.

**`MemoryScan`** (:286-412) reads `maps` line by line: three signals overwrite each other in one
number (`AfterRegion`), a writable mapping ends the reading, YARA may have failed to initialise.

**`ProcessTable`** (:149-217) is the readdir loop: `OpenProc`, `FillBuffer` (the kernel's buffer of
entries), `SkipEntry` (the process has gone), `ReadEntry` (`sscanf` into locals that keep what they
held), `MallocFails`, `AddNode`, `EndOfProc`, while processes start and end between any two of them.
That the locals keep the values of the entry before is what the build does; the language leaves it open.

**`AlertLog`** has three actors. A thread in `send_json_alert` (:97-144) takes the time, calls
`localtime` (one struct for all), formats, opens the log by name, and writes or is cut off by a full
disk. logrotate (`config/zoedr.logrotate`) compresses the file of the day before, renames the log and
makes a new one; a rotation a day later finds no alert of the one before still under way. The
dashboard (`load_alerts`, `update_kpis`) drops lines it cannot parse, fails on bytes that are not UTF-8,
sorts by stamp, and sounds the alarm for the last row. `sanitize_string` replaces four characters;
what else a name may hold makes two more kinds of lines: "undecodable" (a name that the kernel has
cut inside a character) and "invalid" (a control character such as a tab, for which `json.loads` rejects the line).

**`FileWatcher`** (:219-281) has the kernel's queue (equal neighbours are merged, an overflow drops
events), the `read` of a buffer full, and the loop over it that passes over events without a name.

**`KernelModule`** (`src/zoedr_kernel.c`) registers and removes two kprobes. `TargetRead` and
`AttachSeen` say what the handlers find in the registers: the arguments up to Linux 4.16, since 4.17
(the branch that the module itself takes at :60-62) the address of the saved arguments.

**`MCScoring`**, **`MCDaemon`**, **`MCSelfHealing`** give the constants their values.
`MCScoring` also puts `ProcessTable`, `CpuPattern`, `MemoryScan`, `AlertLog`, `FileWatcher` and
`KernelModule` side by side: these parts share no variable, so instead of their product every
behaviour moves one of them (`active`) and leaves the others as they begin. Each part has all its
behaviours, and its properties read nothing else. The modules named `...Proofs` hold the theorems.

Operators marked `MUTANT` stand for plausible bugs; no specification uses them. For each checked
property there is one whose substitution for the definition that follows it makes the property
fail, so that every property is known to depend on the code.

## 4. Runs

| Run | Shows |
|---|---|
| `MCScoring.cfg`, scoring | `PathsAgree`: thresholds "> 50" and ">= 40" report the same processes. `ReportOnlyOnOneWeakSignal`: reported but left running exactly on one weak signal. |
| table | `StayersListedOnce`: a scan lists each process that stays, and none twice. `FieldsOfNearestReadable`: a process without a name is given the name of the nearest readable entry before it. |
| cpu | `FalseAlarmsHaveCause`: an alarm without 500 jiffies of work comes from an overtaken look or from another process's counters. `MissesHaveCause`: a look that lets a busy process pass has one of the same causes, or the baseline 0 of a process that had used no time (:433). |
| memory | `WorstRegionDecides`, `OneRegionCondemns`: overwriting loses severity, never the verdict. |
| log | `AlertsKept`: no line goes to an unlinked file. `TornStampsHaveCause`: a wrong stamp needs a second thread. `OverlooksForCause`: a silent refresh overlooks a critical alert only if its line is gone, or no JSON, or an alert that is not critical has the same or a later stamp. |
| watch | `QueuedChangesReported`: each queued change is reported once, in order. |
| kernel | `NoProbeWithoutModule`: whichever registration fails, no probe outlives the module. |
| `MCScoringHigh.cfg` | violated: `HighIsQuarantined`; 75 is severity high and left running. |
| `MCDaemon.cfg` | Both detection threads, with opendir, inotify and netlink failing: `SuspendedForCause`, `SuspendedWasReported`, `QuarantinedIsStopped`, `LeavesNothingBehind`, and `ImplementsResponse`. `ExecsAreAnalysed`: a process that executes a file, and whose name, parent or file calls for quarantine, is reported, or its event waits, or its node is in analysis, or an event was lost and the thread ends. |
| `MCDaemonReuse.cfg` | `SuspendedForCause` under systemd, with stops of the unit, when ids are given out again at once, opendir, fork and iptables fail and a process has no name of its own. |
| `MCDaemonLive.cfg` | With the scan alone: `GuiltyAreSuspended` (of processes that change between calm, busy and miner), `WatchdogKeepsChecking`, and `ShutdownCompletes` if file events go on, also when inotify fails. |
| `MCDaemonFrozen.cfg` | violated: under systemd the daemon suspends itself ("nc" in its name, a journal socket). |
| `MCDaemonQuiet.cfg` | violated: without file events shutdown never completes. |
| `MCHealing.cfg` | `UnitHasProcess`, `ImageIsAttested` with two builds, starts, stops, crashes, installations. |
| `MCHealingLive.cfg` | `WantedRuns`: a wanted and intact service gets to work again after whatever stopped it. `TamperedDaemonEnds`: a daemon whose binary changed ends, though it waits for a recovery that waits for it. `UninstallIsFinal`: after `uninstall.sh` the service goes for good. `StoppedStaysDown`: a service that has stopped and is not wanted is started only by a script or a daemon started by hand. `UninstalledStaysDown`: a removed service is not executed, though a recovery may have put `.corrupted` where the binary was. |
| `MCHealingStop.cfg` | violated: the watchdog takes a stop under way for a failure and starts the service again. |
| `MCHealingRepair.cfg` | violated: `recover.sh` restores the changed binary from `.corrupted`, although a clean copy is there. |
| `MCHealingOwn.cfg` | violated: the recovery that the service triggers is killed before it restores anything. |

Each module but `Scoring` has one type invariant besides (that an analysis yields a natural number is
proved alone). Each property has one passing run, the one whose bounds reach most of it (`SuspendedForCause` has
two); that the safety of `Daemon` holds under other bounds, and with a log that fails, follows from the theorems. Where a property needs an assumption, the code is the
reason:

- `SuspendedForCause` needs no assumption, and its causes are the ones `Incriminates` names: the
  process's own total called for it at some moment since it began; its stat line cannot be parsed; or it
  has changed, or taken an id, under a node or a target that the daemon had still to decide on.
  That nobody else is suspended is what the threads, shells and lists between reading and SIGSTOP could break.
- `SuspendedWasReported` needs that the log can be opened (:137) and `PidReuse # "early"`: the report
  may be of the process that had the id before (:611).
- `ExecsAreAnalysed` needs the log too, ends with the thread (what starts after a lost event is left to
  the scan), and is about what an exec event shows: a process that forks only, or that
  gives reason later, is not caught before the next scan (section 6).
- `StoppedStaysDown` is about a service that has come to rest; `MCHealingStop` shows that it may not
  hold while the stop is under way.
- `QuarantinedIsStopped` needs `CommandsRun`: the results of `system()` are ignored (:612, :618), a
  stop of the unit kills the shell before it has run `kill`, and only root can set the rule.
- `GuiltyAreSuspended` is checked without the netlink thread: any error of `recv` but EINTR, among
  them the ENOBUFS of a burst of events, ends that thread for good (:764-767).
- `AlertsKept` needs `delaycompress` and that an alert takes less than a day.
- `OverlooksForCause` is about refreshes that succeed: an undecodable name in the log makes
  all of them fail until the next rotation.
- `ImageIsAttested` and `WantedRuns` are not checked together: `install.sh` copies the binary (:186)
  before it writes the baseline (:203), and a daemon that restarts in between takes the new binary
  for tampered with and stops the service in its recovery.

Bounds. `Scoring` has every combination of signals and both sides of each boundary; one process is
enough because scoring keeps no state. `ProcessTable`: three ids and a buffer of two, so that a scan
needs a second buffer. `CpuPattern`: the ids 7 and 65543 = 65536 + 7 and the arrays placed side by
side, so that one id reaches into the other array and beyond both; counters 0 and 502, on both sides
of 500; 2^64 is replaced by 1000000, which wraps as well. `MemoryScan`: lines on both sides of 7.5
bits, any number of them. `AlertLog`: two threads, three alerts (two to tear a stamp or a line, one to
be overlooked), two rotations, three moments of which two share an hour. `FileWatcher`: a queue of
three and reads of two, so that it overflows and a buffer ends before the queue. `KernelModule`: two
daemon ids, so that the parameter can be stale, and other register contents. `Daemon` has four ids: the
daemon, one foreign process at a time (`MaxForeign`), and two for shells, so that both detection
threads can be inside `system()` together and see each other's shells. The runs of reuse and of
progress have three: where ids are given out again, one for shells lets a shell take the id of a
process that has ended, and the threads compete for it. Each run has two or three images between
which a process changes (the definitions in `MCDaemon`): both sides of the threshold (160 and 75)
for safety, one without a name beside them that is given theirs, and a calm, a busy and a miner's for progress. A
netlink buffer of one event is the smallest that overruns. `ModuleLoaded = {}` keeps the watchdog
asleep in the safety runs; the one for progress has it at work. With
`PidReuse = "never"` a run ends when the ids are used up, so deadlock is not checked; termination of
the daemon is also a legitimate end. `SelfHealing` has one daemon in the unit and one by hand, the most
that the code tells apart; two builds where an installation matters and one content that no build
has; `Requests` (given in `MCSelfHealing`) says for each run what may happen from outside, any number
of times, so no run is bounded in length. The system may come to rest when the operator does nothing,
so deadlock is not checked.

Fairness. `Scheduling` says that the kernel runs each thread that can run and each shell that is not
suspended, and that fork is not for ever starved of ids; blocked calls return only if there is
something to return. `Activity` adds that files in the watched directories and processes go on
changing; it is an assumption on the environment, needed only for shutdown, and `MCDaemonQuiet`
shows what happens without it. `SelfHealing!Fairness` says that daemons and scripts run on and that
systemd keeps its timers (`RestartSec=1`, `TimeoutStopSec=30`, no start limit); it asks nothing of the
operator, and not that `main` returns, which a blocked thread may prevent: the timeout covers that.

## 5. Proofs

- `ScoringProofs`: `ScoringTypes`, `DetectionPathsAgree`, `ReportOnlyProcesses`,
  for all ids, parents and entropies; and of `MemoryScan`, for any lines in any order, `MemoryTypes`,
  `WorstDecides`, `OneCondemns`. The invariant is `WorstRegionDecides` with the facts on what has
  been read so far (`LinesInv`).
- `DaemonProofs`, for every finite or infinite set of ids, images, failures and buffer size:
  - `DaemonTypes`: `TypeOK /\ ShellsInv`, where `ShellsInv` says that the shells threads wait for are
    distinct, belong to threads inside `system()`, and exist in the process table.
  - `OnlySuspects`: `SuspendedForCause`, for any `PidReuse` and any failures. It is not inductive; the
    proof adds (`CauseInv`) that a process that deserves quarantine or cannot be parsed is a suspect
    (`GuiltyInv`), that every node the daemon may still decide on describes its process exactly, or the
    process is a suspect (`NodesInv`, over `KnownNodes`), and that every target is one
    (`TargetsInv`). Each action keeps what is known (`KeepsCauses`), then each part follows.
  - `SuspensionsReported`: `SuspendedWasReported`, if `PidReuse # "early"` and the log can be opened. A
    thread has a target only once the line is written (`TargetsReported`), and the line stays that of
    the process because the id of a node or a target is not free (`TakenInv`).
  - `ExecsCaught`: `ExecsAreAnalysed`, for any `PidReuse`, if the log can be opened. Each step keeps
    what is caught: `Exec` queues the event or marks the buffer as overrun, `recv` hands on the first event
    and copies the process into `temp_node`, whose analysis writes the report; `TempInv` says that there is a node only
    in between. A node that is copied faithfully scores on name, parent and file at least what the process does.
  - `CleanExit`: `LeavesNothingBehind`, from `ExitInv`: a thread that is done waits for nothing and
    holds nothing.
- `DaemonResponseProofs`:
  - `QuarantineContains`: `QuarantinedIsStopped` if `CommandsRun`. What a thread has still to do
    must be traced back (`ContainInv`): a thread past its first command has suspended its target, past the
    second it has set the rule, and nothing undoes either while the other thread quarantines the
    same process, or while the id of a target that has ended is taken (`TakenInv`).
  - `Refinement`: `Spec => ImplementsResponse`, for all values of the constants. Initial states map to
    initial states, and each action to the step of `Response` it stands for or to a stutter, one
    lemma per group of actions, from `CauseInv`, from the invariant of `SuspensionsReported` where the log is
    written, and from that of `QuarantineContains` where commands run (`Facts`).
- `SelfHealingProofs`, for any builds:
  - `UnitAlwaysHasProcess`, `HealingTypes`: `TypeOK /\ UnitHasProcess`, with any requests; the
    conjunction is inductive, because a unit is executed only when its recovery shells are gone.
  - `AttestedImage`: `ImageIsAttested`, with starts, stops, crashes and installations only (a daemon
    started by hand, a recovery run by hand, a removal or a replaced file each break it). The check
    hashes the path, not the image, so the proof needs `Attested`: as long as the unit's daemon has
    not found a mismatch, it executes the very file that is `bin`, which therefore nobody can write.
  - `ServiceRests`: `StoppedStaysDown`, from `UnitHasProcess`: with the unit's daemon its recovery is
    gone, so that nobody is left who could start it (`NobodyLeft`).
  - `RemovedForGood`: `UninstalledStaysDown`. The invariant `RemovedInv` says that a removed unit is
    not known to systemd and no installation is under way, for which one script at a time is needed.
- `CpuPatternProofs`: `CpuTypes` and `FalseAlarms`, for any threads, ids, array size, placement of
  the arrays and word size. The invariant bounds what an element can hold: a counter of the
  present holder of an id is at most what that process has used (`MemoryInv`, `LookInv`), and at
  most what a look of it that is not overtaken has read (`EarlierInv`), so that the difference does
  not wrap. `Misses`: `MissesHaveCause` from the same invariant, for counters whose sum stays below
  2^64 (beyond, the addition of the two differences could wrap to less than 500).
- `ProcessTableProofs`: `TableTypes`, `StayersListed`, `NearestReadable`, for any ids and buffer size.
  The invariant `TableInv` says that a process that is due is listed, in the buffer, or behind every
  entry of the buffer (`DueInv`), that what is listed lies behind the walk (`ListInv`), and that the
  locals hold what the nearest readable entry left there (`FieldsInv`).
- `AlertLogProofs`: `LogTypes`, `RotationKeepsAlerts`, `TornStamps`, `Overlooked`, for any number of
  threads, alerts, rotations and any length of an hour. `AlertsKept` needs that a thread whose file
  has been renamed began its alert on the day of that rotation (`FileInv`); a stamp needs that a
  thread that was not raced reads the struct it has written itself (`StampInv`).
- `EventProofs`, of the parts that answer events. For any files, queue and reads: `WatchTypes`,
  `ChangesReported`. `QueuedChangesReported` says that what is owed to the log is `NamedOf` of buffer
  and queue, so the proof needs what `NamedOf` makes of a sequence that grows at its end (`Queued`), is
  cut (`ReadEvents`) or loses its head (`NextEvent`). `NamedOf` is a recursive function; its lemmas go
  by induction over the length, as the argument of the least number at which a claim would fail,
  since the induction theorems of the library cannot be instantiated here. `SelectSeq`, which says the same in one
  word, cannot be unfolded in a proof; that both agree is an assumption that `MCScoring` evaluates for
  every sequence of up to three events. For any ids, register contents and kernels:
  `ModuleTypes`, `ProbesGoWithModule`. The invariant says which probes are armed at each point of the
  two functions.

All rest on the assumptions named in the modules (`...Assumption`), which TLC evaluates in the runs.
Every safety property of a passing run is proved, with the restrictions on the constants given here.

Left to TLC: all liveness properties (fairness is out of the prover's reach), and the violations.

## 6. Observed

Six disagreements between the code and what the repository says of it are runs of their own (the
violated ones above, each with the line it contradicts under `findings` in `PROJECT.json`). Others that
need no model checker, or that follow from an exception stated in a property:

- The firewall rule is for `geteuid()` (:617), which is the daemon's user: a quarantined process of
  another user keeps its network, though the comment at :614 speaks of "the process owner" and
  README.md:365 of network isolation. This is why `QuarantinedIsStopped` names `DaemonUser`.
- Only exec events are analysed (:769), once, before the new program has done anything: a process
  that only forks, or a shell that opens its socket later, is unknown to a listening netlink thread until
  the next scan. "Instant tracking" (:809), the reason given for a scan every 10 instead of 3 seconds, is
  true of what an exec event shows (`ExecsAreAnalysed`).
- Since Linux 4.17 the probes of the kernel module see the address of the saved registers instead of
  the arguments that the comment at `zoedr_kernel.c:24` names: no attach is logged, and a kill only if
  that address happens to look like the protected id. "Deep hooks on kill and ptrace established" (:83) is
  printed all the same.
- The watchdog's `modprobe zoedr_kernel` (:643) cannot find a module that no script copies to
  `/lib/modules`; README.md:382 promises a reload. Each round writes an alert instead.
- A change of the daemon's own binary is watched (:230) but never reported, since such an event has no
  name (:259); only the watchdog notices.
- `check_cpu_pattern` does not move its baseline once it has raised an alarm (:435), so that a process
  that was busy once is condemned at every later look, however idle it is.
- A process without a name is judged by the name and parent of another (:180-184), and may be
  suspended for them.
- Where the daemon is root, every process whose parent is neither init nor a known system process scores 75
  (:491) and is reported at every scan.
- A process whose `comm` holds a blank is never measured by `check_cpu_pattern` (`%*s`, :424).
- An alert whose process name holds a tab is never shown by the dashboard (:68 lets it pass).
- One alert whose process name is not UTF-8 stops every view of the dashboard until the next rotation.

## 7. Not modelled

Charts, counts and layout of the dashboard, package detection and compilation in the installers,
`verify_hash.sh`, `test.sh`, the launchers and the Makefile: sequential code without state
that a model would tell apart. Of `recover.sh` the reload of the kernel module and the start of the
dashboard service are left out: they change nothing of the unit, the binary or the baseline. The
score of a file alert (:268-270) is a function of the event alone. See `components` in `PROJECT.json`.
