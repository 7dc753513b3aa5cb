--------------------------- MODULE AlertLogProofs ---------------------------
(***************************************************************************)
(* Proofs about the log of alerts, for any threads and any bounds.         *)
(***************************************************************************)
EXTENDS AlertLog, SequenceTheorems, TLAPS

Writers == [at : {"idle", "timed", "localtime", "hour", "stamped", "open"},
            kind : Kinds, now : Nat, hour : Nat, stamp : Nat,
            raced : BOOLEAN, day : Nat,
            file : {"none", "alerts", "previous", "backup", "unlinked"}]

AlertLines == [kind : Kinds \cup {"cut", "spoilt"}, stamp : Nat]

\* A thread that is still writing to the file of the day before began its
\* alert before that file was renamed.
FileInv(w) ==
    /\ w.at # "idle" => w.day <= day
    /\ w.file # "unlinked"
    /\ w.file # "none" => w.at = "open"
    /\ w.file = "previous" =>
         rotation = "renamed" \/ w.day < day

\* What strftime reads is the moment of the call, unless another thread came
\* between.
StampInv(w) ==
    /\ w.at # "idle" => w.now <= clock
    /\ ~w.raced => /\ w.at \in {"localtime", "hour"} => tm = w.now
                   /\ w.at = "hour" => w.hour = w.now \div Hour
                   /\ w.at = "stamped" => w.stamp = w.now

LogInv == /\ LogTypeOK
          /\ lost = FALSE
          /\ \A t \in LogThreads : FileInv(writer[t]) /\ StampInv(writer[t])

LEMMA TypesSpelled ==
    LogTypeOK <=>
      /\ clock \in Nat /\ tm \in Nat /\ count \in Nat /\ day \in Nat
      /\ writer \in [LogThreads -> Writers]
      /\ alerts \in Seq(AlertLines)
      /\ rotation \in {"done", "compressed", "renamed"}
      /\ lost \in BOOLEAN
      /\ fresh \subseteq [kind : Critical, stamp : Nat]
      /\ alarm \in {"silent", "sounds", "error"}
  BY DEF LogTypeOK, Writers, AlertLines

LEMMA TypesSpelledNext ==
    LogTypeOK' <=>
      /\ clock' \in Nat /\ tm' \in Nat /\ count' \in Nat /\ day' \in Nat
      /\ writer' \in [LogThreads -> Writers]
      /\ alerts' \in Seq(AlertLines)
      /\ rotation' \in {"done", "compressed", "renamed"}
      /\ lost' \in BOOLEAN
      /\ fresh' \subseteq [kind : Critical, stamp : Nat]
      /\ alarm' \in {"silent", "sounds", "error"}
  BY DEF LogTypeOK, Writers, AlertLines

LEMMA IdleOK == Idle \in Writers /\ Idle.at = "idle" /\ Idle.file = "none"
  BY DEF Idle, Writers, Kinds

\* A line more is a line more.
LEMMA AppendedLines ==
    ASSUME NEW s \in Seq(AlertLines), NEW line \in AlertLines
    PROVE  Appended(s, line) \in Seq(AlertLines)
<1>1. Append(s, line) \in Seq(AlertLines)
  BY AppendProperties
<1>2. ASSUME s # <<>>
      PROVE  Append(Front(s), [line EXCEPT !.kind = IF @ \in {"cut", "undecodable"}
                                                   THEN @ ELSE "spoilt"])
               \in Seq(AlertLines)
  <2>1. Front(s) \in Seq(AlertLines)
    <3>1. Len(s) - 1 \in Int /\ \A i \in 1..(Len(s) - 1) : s[i] \in AlertLines
      BY ElementOfSeq, LenProperties
    <3>2. QED
      BY <3>1, SubSeqProperties DEF Front
  <2>2. [line EXCEPT !.kind = IF @ \in {"cut", "undecodable"} THEN @ ELSE "spoilt"]
          \in AlertLines
    BY DEF AlertLines
  <2>3. QED
    BY <2>1, <2>2, AppendProperties
<1>3. QED
  BY <1>1, <1>2 DEF Appended

\* The moment that its hour and its second make.
LEMMA HourAndSecond ==
    ASSUME NEW n \in Nat
    PROVE  /\ n \div Hour \in Nat /\ n % Hour \in Nat
           /\ ((n \div Hour) * Hour) + (n % Hour) = n
<1>1. n % Hour \in Nat
  BY LogAssumption, Z3
<1>2. n \div Hour \in Nat
  BY LogAssumption, Z3
<1>3. n = ((n \div Hour) * Hour) + (n % Hour)
  BY LogAssumption
<1>4. QED
  BY <1>1, <1>2, <1>3

\* A step that changes one writer, and nothing that the others speak of.
LEMMA OneWriter ==
    ASSUME LogInv, NEW t \in LogThreads, NEW w \in Writers,
           writer' = [writer EXCEPT ![t] = w], FileInv(w), StampInv(w),
           UNCHANGED <<clock, tm, rotation, day, alarm>>, lost' = FALSE,
           count' \in Nat, alerts' \in Seq(AlertLines),
           fresh' \subseteq [kind : Critical, stamp : Nat]
    PROVE  LogInv'
<1>1. writer \in [LogThreads -> Writers]
  BY TypesSpelled DEF LogInv
<1>2. LogTypeOK'
  <2>1. writer' \in [LogThreads -> Writers]
    BY <1>1
  <2>2. lost' \in BOOLEAN
    OBVIOUS
  <2>3. QED
    BY <2>1, <2>2, TypesSpelled, TypesSpelledNext DEF LogInv
<1>3. \A u \in LogThreads : writer'[u] = IF u = t THEN w ELSE writer[u]
  BY <1>1
<1>4. \A u \in LogThreads : FileInv(writer'[u]) /\ StampInv(writer'[u])
  BY <1>3 DEF LogInv
<1>5. \A u \in LogThreads : (FileInv(writer[u]) /\ StampInv(writer[u]))'
  BY <1>4 DEF FileInv, StampInv
<1>6. QED
  BY <1>2, <1>5 DEF LogInv

LEMMA LogStart == LogInit => LogInv
<1> SUFFICES ASSUME LogInit PROVE LogInv
  OBVIOUS
<1>1. writer = [t \in LogThreads |-> Idle]
  BY DEF LogInit
<1>2. LogTypeOK
  <2>1. writer \in [LogThreads -> Writers]
    BY <1>1, IdleOK
  <2>2. alerts \in Seq(AlertLines)
    BY DEF LogInit
  <2>3. QED
    BY <2>1, <2>2, TypesSpelled DEF LogInit
<1>3. ASSUME NEW t \in LogThreads PROVE FileInv(writer[t]) /\ StampInv(writer[t])
  BY <1>1 DEF FileInv, StampInv, Idle
<1>4. QED
  BY <1>2, <1>3 DEF LogInv, LogInit

\* The steps of send_json_alert but for localtime.
LEMMA WritingSteps ==
    ASSUME LogInv, NEW t \in LogThreads,
           \/ \E kind \in Kinds : Alert(t, kind)
           \/ FormatHour(t) \/ FormatSecond(t) \/ OpenLog(t) \/ OpenFails(t)
    PROVE  LogInv'
<1> DEFINE w == writer[t]
<1>1. /\ w \in Writers /\ FileInv(w) /\ StampInv(w)
      /\ clock \in Nat /\ tm \in Nat /\ day \in Nat /\ count \in Nat
      /\ alerts \in Seq(AlertLines) /\ lost = FALSE
      /\ fresh \subseteq [kind : Critical, stamp : Nat]
      /\ rotation \in {"done", "compressed", "renamed"}
  BY TypesSpelled DEF LogInv
<1>2. ASSUME NEW kind \in Kinds, Alert(t, kind)
      PROVE  LogInv'
  <2> DEFINE v == [Idle EXCEPT !.at = "timed", !.kind = kind, !.now = clock, !.day = day]
  <2>1. /\ v \in Writers /\ v.at = "timed" /\ v.file = "none" /\ v.day = day
        /\ v.now = clock
    BY <1>1 DEF Writers, Idle
  <2>2. FileInv(v) /\ StampInv(v)
    BY <1>1, <2>1 DEF FileInv, StampInv
  <2>3. /\ writer' = [writer EXCEPT ![t] = v] /\ count' = count + 1
        /\ UNCHANGED <<clock, tm, rotation, day, alarm, alerts, lost, fresh>>
    BY <1>2 DEF Alert, Writing
  <2>4. /\ count' \in Nat /\ alerts' \in Seq(AlertLines) /\ lost' = FALSE
        /\ fresh' \subseteq [kind : Critical, stamp : Nat]
    BY <1>1, <2>3
  <2> HIDE DEF v
  <2>5. QED
    BY <2>1, <2>2, <2>3, <2>4, OneWriter
<1>3. CASE FormatHour(t)
  <2> DEFINE v == [w EXCEPT !.at = "hour", !.hour = tm \div Hour]
  <2>1. /\ v \in Writers /\ v.at = "hour" /\ v.file = w.file /\ v.day = w.day
        /\ v.now = w.now /\ v.hour = tm \div Hour /\ v.raced = w.raced
    BY <1>1, HourAndSecond DEF Writers
  <2>2. w.at = "localtime"
    BY <1>3 DEF FormatHour, Writing
  <2>3. FileInv(v) /\ StampInv(v)
    BY <1>1, <2>1, <2>2 DEF FileInv, StampInv
  <2>4. QED
    BY <1>1, <1>3, <2>1, <2>3, OneWriter DEF FormatHour, Writing
<1>4. CASE FormatSecond(t)
  <2> DEFINE v == [w EXCEPT !.at = "stamped", !.hour = 0,
                            !.stamp = (w.hour * Hour) + (tm % Hour)]
  <2>1. w.at = "hour"
    BY <1>4 DEF FormatSecond, Writing
  <2>2. (w.hour * Hour) + (tm % Hour) \in Nat
    <3>1. w.hour \in Nat /\ Hour \in Nat
      BY <1>1, LogAssumption DEF Writers
    <3>2. w.hour * Hour \in Nat
      BY <3>1
    <3>3. tm % Hour \in Nat
      BY <1>1, HourAndSecond
    <3>4. QED
      BY <3>2, <3>3
  <2>3. /\ v \in Writers /\ v.at = "stamped" /\ v.file = w.file /\ v.day = w.day
        /\ v.now = w.now /\ v.raced = w.raced
        /\ v.stamp = (w.hour * Hour) + (tm % Hour)
    BY <1>1, <2>2 DEF Writers
  <2>4. ~w.raced => v.stamp = w.now
    <3>1. w.now \in Nat
      BY <1>1 DEF Writers
    <3>2. ~w.raced => w.hour = w.now \div Hour /\ tm = w.now
      BY <1>1, <2>1 DEF StampInv
    <3>3. ((w.now \div Hour) * Hour) + (w.now % Hour) = w.now
      BY <3>1, HourAndSecond
    <3>4. QED
      BY <2>3, <3>2, <3>3
  <2>5. FileInv(v) /\ StampInv(v)
    BY <1>1, <2>1, <2>3, <2>4 DEF FileInv, StampInv
  <2>6. QED
    BY <1>1, <1>4, <2>3, <2>5, OneWriter DEF FormatSecond, Writing
<1>5. CASE OpenLog(t)
  <2> DEFINE v == [Idle EXCEPT !.at = "open", !.kind = w.kind, !.stamp = w.stamp,
                               !.day = w.day, !.file = "alerts"]
  <2>1. /\ v \in Writers /\ v.at = "open" /\ v.file = "alerts" /\ v.day = w.day
        /\ v.now = 0
    BY <1>1 DEF Writers, Idle
  <2>2. w.at = "stamped"
    BY <1>5 DEF OpenLog, Writing
  <2>3. FileInv(v) /\ StampInv(v)
    BY <1>1, <2>1, <2>2 DEF FileInv, StampInv
  <2>4. QED
    BY <1>1, <1>5, <2>1, <2>3, OneWriter DEF OpenLog, Writing
<1>6. CASE OpenFails(t)
  <2>1. FileInv(Idle) /\ StampInv(Idle)
    BY DEF FileInv, StampInv, Idle
  <2>2. QED
    BY <1>1, <1>6, <2>1, IdleOK, OneWriter DEF OpenFails, Writing
<1>7. QED
  BY <1>2, <1>3, <1>4, <1>5, <1>6

\* localtime overwrites the moment that other threads are formatting.
LEMMA LocalTimeStep ==
    ASSUME LogInv, NEW t \in LogThreads, LocalTime(t)
    PROVE  LogInv'
<1> DEFINE Raced(u) == [writer[u] EXCEPT !.raced =
                          (@ \/ writer[u].at \in {"localtime", "hour"})]
           v == [writer[t] EXCEPT !.at = "localtime"]
<1>1. /\ writer \in [LogThreads -> Writers] /\ clock \in Nat /\ day \in Nat
      /\ \A u \in LogThreads : FileInv(writer[u]) /\ StampInv(writer[u])
  BY TypesSpelled DEF LogInv
<1>2. /\ writer[t].at = "timed" /\ tm' = writer[t].now
      /\ writer' = [u \in LogThreads |-> IF u = t THEN v ELSE Raced(u)]
      /\ UNCHANGED <<clock, count, alerts, rotation, day, lost, fresh, alarm>>
  BY DEF LocalTime
<1>3. /\ v \in Writers /\ v.at = "localtime" /\ v.now = writer[t].now
      /\ v.day = writer[t].day /\ v.file = writer[t].file /\ v.raced = writer[t].raced
  BY <1>1 DEF Writers
<1>4. ASSUME NEW u \in LogThreads
      PROVE  /\ Raced(u) \in Writers /\ Raced(u).at = writer[u].at
             /\ Raced(u).now = writer[u].now /\ Raced(u).hour = writer[u].hour
             /\ Raced(u).stamp = writer[u].stamp /\ Raced(u).day = writer[u].day
             /\ Raced(u).file = writer[u].file
             /\ Raced(u).raced = (writer[u].raced \/ writer[u].at \in {"localtime", "hour"})
  BY <1>1 DEF Writers
<1>5. LogTypeOK'
  <2>1. writer' \in [LogThreads -> Writers]
    BY <1>2, <1>3, <1>4
  <2>2. tm' \in Nat
    BY <1>1, <1>2 DEF Writers
  <2>3. QED
    BY <1>2, <2>1, <2>2, TypesSpelled, TypesSpelledNext DEF LogInv
<1>6. ASSUME NEW u \in LogThreads
      PROVE  (FileInv(writer[u]) /\ StampInv(writer[u]))'
  <2>1. CASE u = t
    <3>1. /\ writer'[u].at = "localtime" /\ writer'[u].now = writer[t].now
          /\ writer'[u].day = writer[t].day /\ writer'[u].file = writer[t].file
      BY <1>2, <1>3, <2>1
    <3>2. /\ writer[t].at = "timed" /\ FileInv(writer[t]) /\ StampInv(writer[t])
          /\ tm' = writer[t].now /\ UNCHANGED <<clock, rotation, day>>
      BY <1>1, <1>2
    <3>3. FileInv(writer[u])'
      BY <3>1, <3>2 DEF FileInv
    <3>4. StampInv(writer[u])'
      BY <3>1, <3>2 DEF StampInv
    <3>5. QED
      BY <3>3, <3>4
  <2>2. CASE u # t
    <3>1. /\ writer'[u].at = writer[u].at /\ writer'[u].now = writer[u].now
          /\ writer'[u].hour = writer[u].hour /\ writer'[u].stamp = writer[u].stamp
          /\ writer'[u].day = writer[u].day /\ writer'[u].file = writer[u].file
          /\ writer'[u].raced = (writer[u].raced \/ writer[u].at \in {"localtime", "hour"})
      BY <1>2, <1>4, <2>2
    <3>2. /\ FileInv(writer[u]) /\ StampInv(writer[u])
          /\ UNCHANGED <<clock, rotation, day>>
      BY <1>1, <1>2
    <3>3. FileInv(writer[u])'
      BY <3>1, <3>2 DEF FileInv
    <3>4. StampInv(writer[u])'
      BY <3>1, <3>2 DEF StampInv
    <3>5. QED
      BY <3>3, <3>4
  <2>3. QED
    BY <2>1, <2>2
<1>7. QED
  BY <1>2, <1>5, <1>6 DEF LogInv

\* A line, or part of one, is written at the end of the file as it then is.
LEMMA WriteSteps ==
    ASSUME LogInv, NEW t \in LogThreads, WriteLine(t) \/ WriteCut(t)
    PROVE  LogInv'
<1> DEFINE w == writer[t]
<1>1. /\ w \in Writers /\ FileInv(w) /\ w.at = "open" /\ lost = FALSE
      /\ alerts \in Seq(AlertLines) /\ count \in Nat
      /\ fresh \subseteq [kind : Critical, stamp : Nat]
  BY TypesSpelled DEF LogInv, WriteLine, WriteCut, Writing
<1>2. /\ writer' = [writer EXCEPT ![t] = Idle]
      /\ UNCHANGED <<clock, tm, rotation, day, alarm, count>>
  BY DEF WriteLine, WriteCut, Writing
<1>3. FileInv(Idle) /\ StampInv(Idle)
  BY DEF FileInv, StampInv, Idle
<1>4. Line(t) \in AlertLines /\ [Line(t) EXCEPT !.kind = "cut"] \in AlertLines
  BY <1>1 DEF Line, AlertLines, Writers
<1>5. alerts' \in Seq(AlertLines)
  <2>1. \/ alerts' = alerts \/ alerts' = Appended(alerts, Line(t))
        \/ alerts' = Appended(alerts, [Line(t) EXCEPT !.kind = "cut"])
    BY DEF WriteLine, WriteCut
  <2>2. QED
    BY <1>1, <1>4, <2>1, AppendedLines
<1>6. lost' = FALSE
  BY <1>1 DEF WriteLine, WriteCut, FileInv
<1>7. fresh' \subseteq [kind : Critical, stamp : Nat]
  <2>1. w.kind \in Critical => Line(t) \in [kind : Critical, stamp : Nat]
    BY <1>1 DEF Line, Writers
  <2>2. fresh' = fresh \/ (w.kind \in Critical /\ fresh' = fresh \cup {Line(t)})
    BY DEF WriteLine, WriteCut
  <2>3. QED
    BY <1>1, <2>1, <2>2
<1>8. count' \in Nat
  BY <1>1, <1>2
<1>9. QED
  BY <1>2, <1>3, <1>5, <1>6, <1>7, <1>8, IdleOK, OneWriter

\* logrotate moves the file that a thread has open, not what it writes.
LEMMA RotationSteps ==
    ASSUME LogInv, CompressPrevious \/ RenameLog \/ CreateLog
    PROVE  LogInv'
<1>1. /\ writer \in [LogThreads -> Writers] /\ day \in Nat /\ clock \in Nat
      /\ \A t \in LogThreads : FileInv(writer[t]) /\ StampInv(writer[t])
  BY TypesSpelled DEF LogInv
<1>2. /\ UNCHANGED <<clock, tm, count, lost, fresh, alarm>>
      /\ alerts' = alerts \/ alerts' = <<>>
  BY DEF CompressPrevious, RenameLog, CreateLog
<1>3. ASSUME NEW from, NEW to \in {"previous", "backup", "unlinked"},
             NEW t \in LogThreads
      PROVE  LET v == Moves(from, to)[t]
             IN  /\ v \in Writers /\ v.at = writer[t].at /\ v.now = writer[t].now
                 /\ v.hour = writer[t].hour /\ v.stamp = writer[t].stamp
                 /\ v.day = writer[t].day /\ v.raced = writer[t].raced
                 /\ v.file = IF writer[t].file = from THEN to ELSE writer[t].file
  BY <1>1 DEF Moves, Writers
<1>4. /\ \A t \in LogThreads :
           /\ writer'[t] \in Writers
           /\ writer'[t].at = writer[t].at /\ writer'[t].now = writer[t].now
           /\ writer'[t].hour = writer[t].hour /\ writer'[t].stamp = writer[t].stamp
           /\ writer'[t].day = writer[t].day /\ writer'[t].raced = writer[t].raced
      /\ writer' \in [LogThreads -> Writers]
  <2>1. \/ UNCHANGED writer
        \/ writer' = Moves("previous", "unlinked")
        \/ writer' = Moves("alerts", "previous")
        \/ writer' = Moves("alerts", "backup")
    BY DEF CompressPrevious, RenameLog, CreateLog
  <2>2. \A t \in LogThreads :
           /\ writer'[t] \in Writers
           /\ writer'[t].at = writer[t].at /\ writer'[t].now = writer[t].now
           /\ writer'[t].hour = writer[t].hour /\ writer'[t].stamp = writer[t].stamp
           /\ writer'[t].day = writer[t].day /\ writer'[t].raced = writer[t].raced
    BY <1>1, <1>3, <2>1
  <2>3. writer' = [t \in LogThreads |-> writer'[t]]
    BY <1>1, <2>1 DEF Moves
  <2>4. QED
    BY <2>2, <2>3
<1>5. day' \in Nat /\ day <= day' /\ rotation' \in {"done", "compressed", "renamed"}
  BY <1>1 DEF CompressPrevious, RenameLog, CreateLog
<1>6. LogTypeOK'
  <2>1. alerts \in Seq(AlertLines)
    BY TypesSpelled DEF LogInv
  <2>2. <<>> \in Seq(AlertLines)
    OBVIOUS
  <2>3. alerts' \in Seq(AlertLines)
    BY <1>2, <2>1, <2>2
  <2>4. QED
    BY <1>2, <1>4, <1>5, <2>3, TypesSpelled, TypesSpelledNext DEF LogInv
<1>7. ASSUME NEW t \in LogThreads PROVE StampInv(writer[t])'
  BY <1>1, <1>2, <1>4 DEF StampInv
<1>8. ASSUME NEW t \in LogThreads PROVE FileInv(writer[t])'
  <2>1. writer[t].day \in Nat /\ FileInv(writer[t])
    BY <1>1 DEF Writers
  <2>2. CASE CompressPrevious
    <3>1. /\ rotation = "done" /\ UNCHANGED day
          /\ writer[t].at # "idle" => writer[t].day = day
          /\ writer'[t] = Moves("previous", "unlinked")[t]
      BY <2>2 DEF CompressPrevious
    <3>2. writer[t].file # "previous"
      BY <1>1, <2>1, <3>1 DEF FileInv
    <3>3. writer'[t].file = writer[t].file
      BY <1>3, <3>1, <3>2
    <3>4. QED
      BY <1>4, <2>1, <3>1, <3>2, <3>3 DEF FileInv
  <2>3. CASE RenameLog
    <3>1. /\ rotation = "compressed" /\ rotation' = "renamed" /\ UNCHANGED day
          /\ writer'[t].file = IF writer[t].file = "alerts" THEN "previous"
                               ELSE writer[t].file
      BY <1>3, <2>3 DEF RenameLog
    <3>2. writer[t].file = "alerts" => writer[t].at = "open"
      BY <2>1 DEF FileInv
    <3>3. QED
      BY <1>4, <2>1, <3>1, <3>2 DEF FileInv
  <2>4. CASE CreateLog
    <3>1. /\ rotation = "renamed" /\ day' = day + 1
          /\ \/ writer'[t].file = "backup" /\ writer[t].file = "alerts"
             \/ writer'[t].file = writer[t].file
      BY <1>3, <2>4 DEF CreateLog
    <3>2. writer[t].at # "idle" => writer[t].day < day'
      BY <1>1, <2>1, <3>1 DEF FileInv
    <3>3. /\ writer'[t].at = writer[t].at /\ writer'[t].day = writer[t].day
      BY <1>4
    <3>4. writer'[t].at # "idle" => writer'[t].day <= day'
      BY <1>1, <2>1, <3>1, <3>2, <3>3
    <3>5. /\ writer'[t].file # "unlinked"
          /\ writer'[t].file # "none" => writer'[t].at = "open"
      BY <2>1, <3>1, <3>3 DEF FileInv
    <3>6. writer'[t].file = "previous" => writer'[t].day < day'
      BY <3>2, <3>3, <3>5
    <3>7. QED
      BY <3>4, <3>5, <3>6 DEF FileInv
  <2>5. QED
    BY <2>2, <2>3, <2>4
<1>9. QED
  BY <1>2, <1>6, <1>7, <1>8 DEF LogInv

LEMMA LogStep == LogInv /\ [LogNext]_logVars => LogInv'
<1> SUFFICES ASSUME LogInv, [LogNext]_logVars PROVE LogInv'
  OBVIOUS
<1>1. CASE UNCHANGED logVars
  <2>1. UNCHANGED <<clock, tm, writer, count, alerts, rotation, day, lost, fresh, alarm>>
    BY <1>1 DEF logVars
  <2>2. LogTypeOK'
    BY <2>1, TypesSpelled, TypesSpelledNext DEF LogInv
  <2>3. QED
    BY <2>1, <2>2 DEF LogInv, FileInv, StampInv
<1>2. CASE Tick
  <2>1. /\ clock' = clock + 1 /\ clock \in Nat
        /\ UNCHANGED <<tm, writer, count, alerts, rotation, day, lost, fresh, alarm>>
        /\ writer \in [LogThreads -> Writers]
    BY <1>2, TypesSpelled DEF LogInv, Tick
  <2>2. LogTypeOK'
    BY <2>1, TypesSpelled, TypesSpelledNext DEF LogInv
  <2>3. ASSUME NEW t \in LogThreads PROVE StampInv(writer[t])' /\ FileInv(writer[t])'
    <3>1. FileInv(writer[t]) /\ StampInv(writer[t]) /\ writer[t].now \in Nat
      BY <2>1 DEF LogInv, Writers
    <3>2. QED
      BY <2>1, <3>1 DEF FileInv, StampInv
  <2>4. QED
    BY <2>1, <2>2, <2>3 DEF LogInv
<1>3. CASE Refresh
  <2>1. /\ UNCHANGED <<clock, tm, writer, count, alerts, rotation, day, lost>>
        /\ fresh' = {} /\ alarm' \in {"silent", "sounds", "error"}
    BY <1>3 DEF Refresh
  <2>2. LogTypeOK'
    BY <2>1, TypesSpelled, TypesSpelledNext DEF LogInv
  <2>3. QED
    BY <2>1, <2>2 DEF LogInv, FileInv, StampInv
<1>4. QED
  BY <1>1, <1>2, <1>3, RotationSteps, WritingSteps, LocalTimeStep, WriteSteps
     DEF LogNext

LEMMA LogAlways == LogSpec => []LogInv
  BY LogStart, LogStep, PTL DEF LogSpec
-----------------------------------------------------------------------------
(***************************************************************************)
(* The type invariant.                                                     *)
(***************************************************************************)
THEOREM LogTypes == LogSpec => []LogTypeOK
<1>1. LogInv => LogTypeOK
  BY DEF LogInv
<1>2. QED
  BY <1>1, LogAlways, PTL

(***************************************************************************)
(* Rotation loses no alert, whichever thread it overtakes and where.       *)
(***************************************************************************)
THEOREM RotationKeepsAlerts == LogSpec => []AlertsKept
<1>1. LogInv => AlertsKept
  BY DEF LogInv, AlertsKept
<1>2. QED
  BY <1>1, LogAlways, PTL

(***************************************************************************)
(* A stamp that no other thread disturbed is the moment of the call.       *)
(***************************************************************************)
THEOREM TornStamps == LogSpec => []TornStampsHaveCause
<1>1. LogInv => TornStampsHaveCause
  <2> SUFFICES ASSUME LogInv, NEW t \in LogThreads,
                      writer[t].at = "stamped", ~writer[t].raced
               PROVE  writer[t].stamp \in writer[t].now .. clock
    BY DEF TornStampsHaveCause
  <2>1. /\ writer[t] \in Writers /\ clock \in Nat /\ StampInv(writer[t])
    BY TypesSpelled DEF LogInv
  <2>2. QED
    BY <2>1 DEF StampInv, Writers
<1>2. QED
  BY <1>1, LogAlways, PTL

(***************************************************************************)
(* Why a refresh that stays silent may overlook a critical alert.          *)
(***************************************************************************)
THEOREM Overlooked == LogSpec => OverlooksForCause
<1>1. ASSUME LogInv, Refresh, alarm' = "silent", NEW line \in fresh,
             line \in ToSet(alerts), line.kind # "invalid"
      PROVE  \E other \in Parsed : other.kind = "calm" /\ other.stamp >= line.stamp
  <2>1. line.kind = "critical" /\ line \in Parsed
    BY <1>1, TypesSpelled DEF LogInv, Parsed, Critical
  <2>2. alarm' \in {IF l.kind = "critical" THEN "sounds" ELSE "silent" : l \in Latest}
    BY <1>1, <2>1 DEF Refresh
  <2>3. PICK l \in Latest : l.kind # "critical"
    BY <1>1, <2>2
  <2>4. l \in Parsed /\ l.kind = "calm" /\ line.stamp <= l.stamp
    BY <2>1, <2>3 DEF Latest, Parsed
  <2>5. line.stamp \in Nat /\ l.stamp \in Nat
    <3>1. alerts \in Seq(AlertLines)
      BY <1>1, TypesSpelled DEF LogInv
    <3>2. \A x \in ToSet(alerts) : x \in AlertLines
      BY <3>1, ElementOfSeq DEF ToSet
    <3>3. QED
      BY <1>1, <2>4, <3>2 DEF Parsed, AlertLines
  <2>6. QED
    BY <2>4, <2>5
<1> DEFINE Excused ==
      Refresh /\ alarm' = "silent"
         => \A line \in fresh : \/ line \notin ToSet(alerts)
                                \/ line.kind = "invalid"
                                \/ \E other \in Parsed : /\ other.kind = "calm"
                                                         /\ other.stamp >= line.stamp
<1>2. LogInv => [Excused]_logVars
  BY <1>1
<1>3. QED
  BY <1>2, LogAlways, PTL DEF OverlooksForCause
=============================================================================
