------------------------------ MODULE AlertLog ------------------------------
(***************************************************************************)
(* The log of alerts: send_json_alert, which the threads of the daemon     *)
(* call without a lock, logrotate, which renames and compresses the file   *)
(* under them, and the dashboard, which reads it again and again and looks *)
(* at the latest alert.  localtime() writes the moment into one struct for *)
(* all threads, from which strftime() reads the hour and the second; the   *)
(* line is stamped before it is written, so the order of the file is not   *)
(* that of the stamps.                                                     *)
(***************************************************************************)
EXTENDS Integers, SequencesExt

CONSTANTS
    LogThreads,    \* the threads that write alerts
    Hour,          \* how many moments have the same hour
    MaxClock,      \* bound: the moments of a run
    MaxAlerts,     \* bound: the alerts of a run
    MaxDays        \* bound: the rotations of a run

ASSUME LogAssumption == /\ Hour \in Nat \ {0}
                        /\ {MaxClock, MaxAlerts, MaxDays} \subseteq Nat

VARIABLES
    clock,         \* the moment
    tm,            \* the struct that localtime returns
    writer,        \* where each thread is in send_json_alert
    count,         \* the alerts so far
    alerts,        \* the lines of alerts.json
    rotation,      \* where logrotate is
    day,           \* the rotations so far
    lost,          \* a line was written to a file without a name (a history)
    fresh,         \* critical lines since the last refresh (a history)
    alarm          \* what the last refresh of the dashboard found

logVars == <<clock, tm, writer, count, alerts, rotation, day, lost, fresh, alarm>>

\* sanitize_string lets pass what a name may hold: bytes that are not UTF-8
\* (a name cut by the kernel), which make a line undecodable, and control
\* characters, which make it invalid JSON.  An invalid line is of a critical
\* alert here; one of a calm alert is as good as none.
Kinds == {"calm", "critical", "invalid", "undecodable"}

Critical == {"critical", "invalid"}

Idle == [at |-> "idle", kind |-> "calm", now |-> 0, hour |-> 0, stamp |-> 0,
         raced |-> FALSE, file |-> "none", day |-> 0]

LogInit ==
    /\ clock = 0 /\ tm = 0 /\ count = 0 /\ day = 0
    /\ writer = [t \in LogThreads |-> Idle]
    /\ alerts = <<>> /\ rotation = "done"
    /\ lost = FALSE /\ fresh = {} /\ alarm = "silent"

Tick ==
    /\ clock < MaxClock
    /\ clock' = clock + 1
    /\ UNCHANGED <<tm, writer, count, alerts, rotation, day, lost, fresh, alarm>>
-----------------------------------------------------------------------------
(* send_json_alert.                                                        *)

Writing(t, at, fields) ==
    /\ writer' = [writer EXCEPT ![t] = fields]
    /\ writer[t].at = at
    /\ UNCHANGED <<clock, rotation, day, alarm>>

Alert(t, kind) ==
    /\ count < MaxAlerts /\ count' = count + 1
    /\ Writing(t, "idle", [Idle EXCEPT !.at = "timed", !.kind = kind,
                                       !.now = clock, !.day = day])
    /\ UNCHANGED <<tm, alerts, lost, fresh>>

\* MUTANT: the struct is filled once, not for every alert.
LocalTime_Once(t) ==
    /\ Writing(t, "timed", [writer[t] EXCEPT !.at = "localtime"])
    /\ UNCHANGED <<tm, count, alerts, lost, fresh>>

\* The threads between localtime and the end of strftime now read this moment.
LocalTime(t) ==
    /\ writer[t].at = "timed"
    /\ tm' = writer[t].now
    /\ writer' = [u \in LogThreads |->
                    IF u = t THEN [writer[t] EXCEPT !.at = "localtime"]
                    ELSE [writer[u] EXCEPT !.raced =
                            (@ \/ writer[u].at \in {"localtime", "hour"})]]
    /\ UNCHANGED <<clock, count, alerts, rotation, day, lost, fresh, alarm>>

FormatHour(t) ==
    /\ Writing(t, "localtime", [writer[t] EXCEPT !.at = "hour", !.hour = tm \div Hour])
    /\ UNCHANGED <<tm, count, alerts, lost, fresh>>

FormatSecond(t) ==
    /\ Writing(t, "hour", [writer[t] EXCEPT !.at = "stamped", !.hour = 0,
                                            !.stamp = (writer[t].hour * Hour) + (tm % Hour)])
    /\ UNCHANGED <<tm, count, alerts, lost, fresh>>

\* fopen(..., "a"); it makes a file where logrotate has renamed the old one.
OpenLog(t) ==
    /\ Writing(t, "stamped", [Idle EXCEPT !.at = "open", !.kind = writer[t].kind,
                    !.stamp = writer[t].stamp, !.day = writer[t].day, !.file = "alerts"])
    /\ UNCHANGED <<tm, count, alerts, lost, fresh>>

\* MUTANT: the result of fopen is not looked at.
OpenFails_Unchecked(t) ==
    /\ Writing(t, "stamped", [writer[t] EXCEPT !.at = "open", !.file = "NULL"])
    /\ UNCHANGED <<tm, count, alerts, lost, fresh>>

\* The alert goes to stderr.
OpenFails(t) ==
    /\ Writing(t, "stamped", Idle)
    /\ UNCHANGED <<tm, count, alerts, lost, fresh>>

Line(t) == [kind |-> writer[t].kind, stamp |-> writer[t].stamp]

\* A line that follows the rest of a cut one is part of it.
Appended(lines, line) ==
    IF lines # <<>> /\ Last(lines).kind = "cut"
    THEN Append(Front(lines),
                [line EXCEPT !.kind = IF @ \in {"cut", "undecodable"} THEN @ ELSE "spoilt"])
    ELSE Append(lines, line)

\* fprintf and fclose: one write, at the end of the file as it then is.
WriteLine(t) ==
    /\ Writing(t, "open", Idle)
    /\ alerts' = IF writer[t].file = "alerts" THEN Appended(alerts, Line(t)) ELSE alerts
    /\ lost' = (lost \/ writer[t].file = "unlinked")
    /\ fresh' = IF writer[t].kind \in Critical THEN fresh \cup {Line(t)} ELSE fresh
    /\ UNCHANGED <<tm, count>>

\* The disk is full: part of the line is written, and nobody looks.
WriteCut(t) ==
    /\ Writing(t, "open", Idle)
    /\ alerts' = IF writer[t].file = "alerts"
                 THEN Appended(alerts, [Line(t) EXCEPT !.kind = "cut"]) ELSE alerts
    /\ UNCHANGED <<tm, count, lost, fresh>>
-----------------------------------------------------------------------------
(* logrotate: daily, compress, delaycompress, notifempty, create.          *)

Moves(from, to) ==
    [t \in LogThreads |->
       IF writer[t].file = from THEN [writer[t] EXCEPT !.file = to] ELSE writer[t]]

\* The file of the day before is compressed and unlinked.  An alert takes
\* less than a day: none is left from before the last rotation.
CompressPrevious ==
    /\ rotation = "done" /\ alerts # <<>> /\ day < MaxDays
    /\ \A t \in LogThreads : writer[t].at # "idle" => writer[t].day = day
    /\ writer' = Moves("previous", "unlinked")
    /\ rotation' = "compressed"
    /\ UNCHANGED <<clock, tm, count, alerts, day, lost, fresh, alarm>>

\* MUTANT: no delaycompress; the file just renamed is compressed.
RenameLog_Compress ==
    /\ rotation = "compressed"
    /\ writer' = Moves("alerts", "unlinked")
    /\ alerts' = <<>>
    /\ rotation' = "renamed"
    /\ UNCHANGED <<clock, tm, count, day, lost, fresh, alarm>>

RenameLog ==
    /\ rotation = "compressed"
    /\ writer' = Moves("alerts", "previous")
    /\ alerts' = <<>>
    /\ rotation' = "renamed"
    /\ UNCHANGED <<clock, tm, count, day, lost, fresh, alarm>>

\* A file that a thread has made meanwhile is kept, or renamed to a backup.
CreateLog ==
    /\ rotation = "renamed"
    /\ \/ UNCHANGED <<writer, alerts>>
       \/ writer' = Moves("alerts", "backup") /\ alerts' = <<>>
    /\ rotation' = "done" /\ day' = day + 1
    /\ UNCHANGED <<clock, tm, count, lost, fresh, alarm>>
-----------------------------------------------------------------------------
(* The dashboard: load_alerts and update_kpis.                             *)

Parsed == {line \in ToSet(alerts) : line.kind \in {"calm", "critical"}}

\* MUTANT: the last line of the file is taken for the latest.
Latest_InFile ==
    LET lines == SelectSeq(alerts, LAMBDA line : line.kind \in {"calm", "critical"})
    IN  IF lines = <<>> THEN {} ELSE {Last(lines)}

\* sort_values does not keep the order of equal stamps: any of them is last.
Latest == {line \in Parsed : \A other \in Parsed : other.stamp <= line.stamp}

\* Bytes that are not UTF-8 end the reading with an exception.
Refresh ==
    /\ alarm' \in IF \E line \in ToSet(alerts) : line.kind = "undecodable" THEN {"error"}
                  ELSE IF Parsed = {} THEN {"silent"}
                  ELSE {IF line.kind = "critical" THEN "sounds" ELSE "silent" : line \in Latest}
    /\ fresh' = {}
    /\ UNCHANGED <<clock, tm, writer, count, alerts, rotation, day, lost>>

LogNext ==
    \/ Tick \/ CompressPrevious \/ RenameLog \/ CreateLog \/ Refresh
    \/ \E t \in LogThreads : \/ \E kind \in Kinds : Alert(t, kind)
                             \/ LocalTime(t) \/ FormatHour(t) \/ FormatSecond(t)
                             \/ OpenLog(t) \/ OpenFails(t)
                             \/ WriteLine(t) \/ WriteCut(t)

LogSpec == LogInit /\ [][LogNext]_logVars
-----------------------------------------------------------------------------
LogTypeOK ==
    /\ clock \in Nat /\ tm \in Nat /\ count \in Nat /\ day \in Nat
    /\ writer \in [LogThreads ->
         [at : {"idle", "timed", "localtime", "hour", "stamped", "open"},
          kind : Kinds, now : Nat, hour : Nat, stamp : Nat,
          raced : BOOLEAN, day : Nat,
          file : {"none", "alerts", "previous", "backup", "unlinked"}]]
    /\ alerts \in Seq([kind : Kinds \cup {"cut", "spoilt"}, stamp : Nat])
    /\ rotation \in {"done", "compressed", "renamed"}
    /\ lost \in BOOLEAN
    /\ fresh \subseteq [kind : Critical, stamp : Nat]
    /\ alarm \in {"silent", "sounds", "error"}

(***************************************************************************)
(* No alert is written to a file that has no name any more, although every *)
(* thread opens the log by name and may be overtaken by any step of a      *)
(* rotation before it writes; it takes delaycompress, and less than a day. *)
(***************************************************************************)
AlertsKept == ~lost

(***************************************************************************)
(* A stamp is a moment between the call and now, unless another thread has *)
(* called localtime() while strftime() was reading.  Then it may mix two   *)
(* moments and lie before the call or, at the turn of an hour, up to an    *)
(* hour ahead.                                                             *)
(***************************************************************************)
TornStampsHaveCause ==
    \A t \in LogThreads :
      writer[t].at = "stamped" /\ ~writer[t].raced
        => writer[t].stamp \in writer[t].now .. clock

(***************************************************************************)
(* A refresh of the dashboard that stays silent overlooks no critical      *)
(* alert written since the one before, except those that a rotation or a   *)
(* cut line has taken out of its sight, those whose line the JSON parser   *)
(* rejects as a whole, and those that are not stamped later than every     *)
(* alert that is not critical.                                             *)
(***************************************************************************)
OverlooksForCause ==
    [][Refresh /\ alarm' = "silent"
         => \A line \in fresh : \/ line \notin ToSet(alerts)
                                \/ line.kind = "invalid"
                                \/ \E other \in Parsed : /\ other.kind = "calm"
                                                         /\ other.stamp >= line.stamp
      ]_logVars
=============================================================================
