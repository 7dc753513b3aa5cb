---------------------------- MODULE FileWatcher ----------------------------
(***************************************************************************)
(* start_file_watcher: a thread that reads the events of the watched       *)
(* directories, and of the daemon's own binary, a buffer full at a time,   *)
(* and reports those that carry a name.  The kernel queues the events:     *)
(* one that equals the last in the queue is merged with it, and when the   *)
(* queue is full it is dropped and one event without a name, IN_Q_OVERFLOW,*)
(* is queued instead.  The score of an alert, which follows from its name  *)
(* and mask alone, is left out, and so is the end of the thread (Daemon).  *)
(***************************************************************************)
EXTENDS Integers, SequencesExt

CONSTANTS WatchedFiles,   \* the names in the watched directories
          QueueLimit,     \* max_queued_events
          ReadLimit       \* the events one read returns at most

ASSUME WatchAssumption == /\ {QueueLimit, ReadLimit} \subseteq Nat \ {0}
                          /\ "" \notin WatchedFiles

VARIABLES
    watching,       \* the thread has set its watches, or has not
    binary_watch,   \* the watch on the binary itself exists
    inotify,        \* the kernel's queue
    buffer,         \* the events read and not yet looked at
    file_alert,     \* the last alert
    owed            \* changes the kernel took and no alert has told of, in
                    \* their order (a history of the model)

watchVars == <<watching, binary_watch, inotify, buffer, file_alert, owed>>

Masks == {"CREATE", "MODIFY", "DELETE", "ATTRIB", "CLOSE_WRITE"}

Event(name, mask) == [name |-> name, mask |-> mask]
Q_OVERFLOW == Event("", "Q_OVERFLOW")
IGNORED    == Event("", "IGNORED")
Nothing    == Event("", "none")

WatchInit ==
    /\ watching = FALSE /\ binary_watch = FALSE
    /\ inotify = <<>> /\ buffer = <<>>
    /\ file_alert = Nothing /\ owed = <<>>

\* A path is watched if it exists now; the binary may not.
SetWatches(exists) ==
    /\ ~watching
    /\ watching' = TRUE /\ binary_watch' = exists
    /\ UNCHANGED <<inotify, buffer, file_alert, owed>>
-----------------------------------------------------------------------------
(* The kernel.                                                             *)

Full == Len(inotify) >= QueueLimit

Taken(e) == ~Full /\ (inotify = <<>> \/ Last(inotify) # e)

Queued(e) ==
    IF Taken(e) THEN Append(inotify, e)
    ELSE IF Full /\ Q_OVERFLOW \notin ToSet(inotify) THEN Append(inotify, Q_OVERFLOW)
    ELSE inotify

FileChanges(f, mask) ==
    LET e == Event(f, mask)
    IN  /\ watching
        /\ inotify' = Queued(e)
        /\ owed' = IF Taken(e) THEN Append(owed, e) ELSE owed
        /\ UNCHANGED <<watching, binary_watch, buffer, file_alert>>

\* An event on the watch of a file carries no name.
BinaryChanges ==
    /\ binary_watch
    /\ inotify' = Queued(Event("", "MODIFY"))
    /\ UNCHANGED <<watching, binary_watch, buffer, file_alert, owed>>

\* The watch goes with the file; nothing sets another.
BinaryReplaced ==
    /\ binary_watch
    /\ binary_watch' = FALSE
    /\ inotify' = Queued(IGNORED)
    /\ UNCHANGED <<watching, buffer, file_alert, owed>>
-----------------------------------------------------------------------------
(* The thread.                                                             *)

ReadEvents ==
    LET n == IF Len(inotify) < ReadLimit THEN Len(inotify) ELSE ReadLimit
    IN  /\ watching /\ buffer = <<>> /\ inotify # <<>>
        /\ buffer' = SubSeq(inotify, 1, n)
        /\ inotify' = SubSeq(inotify, n + 1, Len(inotify))
        /\ UNCHANGED <<watching, binary_watch, file_alert, owed>>

Reported(e) == /\ file_alert' = e
               /\ owed' = IF owed # <<>> /\ Head(owed) = e THEN Tail(owed) ELSE owed

\* MUTANT: an event without a name ends the loop over the buffer.
NextEvent_Break ==
    LET e == Head(buffer)
    IN  /\ buffer # <<>>
        /\ buffer' = IF e.name = "" THEN <<>> ELSE Tail(buffer)
        /\ IF e.name = "" THEN UNCHANGED <<file_alert, owed>> ELSE Reported(e)
        /\ UNCHANGED <<watching, binary_watch, inotify>>

\* MUTANT: the length of the name is not looked at.
NextEvent_Nameless ==
    /\ buffer # <<>>
    /\ buffer' = Tail(buffer)
    /\ Reported(Head(buffer))
    /\ UNCHANGED <<watching, binary_watch, inotify>>

\* Reports the event if it carries a name, and goes on behind it.
NextEvent ==
    LET e == Head(buffer)
    IN  /\ buffer # <<>>
        /\ buffer' = Tail(buffer)
        /\ IF e.name = "" THEN UNCHANGED <<file_alert, owed>> ELSE Reported(e)
        /\ UNCHANGED <<watching, binary_watch, inotify>>

WatchNext == \/ \E exists \in BOOLEAN : SetWatches(exists)
             \/ \E f \in WatchedFiles, mask \in Masks : FileChanges(f, mask)
             \/ BinaryChanges \/ BinaryReplaced \/ ReadEvents \/ NextEvent

WatchSpec == WatchInit /\ [][WatchNext]_watchVars
-----------------------------------------------------------------------------
Named == [name : WatchedFiles, mask : Masks]

Events == Named \cup {Q_OVERFLOW, IGNORED, Event("", "MODIFY")}

WatchTypeOK ==
    /\ watching \in BOOLEAN /\ binary_watch \in BOOLEAN
    /\ inotify \in Seq(Events) /\ Len(inotify) <= QueueLimit + 1
    /\ buffer \in Seq(Events) /\ Len(buffer) <= ReadLimit
    /\ file_alert \in Named \cup {Nothing}
    /\ owed \in Seq(Named)

IsNamed(e) == e.name # ""

AddNamed(s, e) == IF IsNamed(e) THEN Append(s, e) ELSE s

\* The events of a sequence that carry a name, in their order: what SelectSeq
\* selects, written as a function so that it can be proved about.
NamedUpTo(s) ==
    LET f[i \in 0..Len(s)] == IF i = 0 THEN <<>> ELSE AddNamed(f[i - 1], s[i])
    IN  f

NamedOf(s) == NamedUpTo(s)[Len(s)]

(***************************************************************************)
(* Every change that the kernel queued is reported, once and in the order  *)
(* of the changes: what is still owed is what waits in the buffer and in   *)
(* the queue.  Events without a name (an overflow, a change of the binary, *)
(* the end of its watch) are passed over and do not disturb those behind   *)
(* them; nothing tells the reader of the log that an overflow lost some.   *)
(***************************************************************************)
QueuedChangesReported == owed = NamedOf(buffer \o inotify)
=============================================================================
