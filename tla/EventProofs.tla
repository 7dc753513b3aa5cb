---------------------------- MODULE EventProofs ----------------------------
(***************************************************************************)
(* Proofs about the two parts that wait for events of the kernel: the file *)
(* watcher, for any watched files and any size of the queue and of the     *)
(* buffer, and the kernel module, for any ids of the daemon and anything   *)
(* that a register may hold.                                               *)
(***************************************************************************)
EXTENDS FileWatcher, KernelModule, SequenceTheorems, WellFoundedInduction, TLAPS

(***************************************************************************)
(* NamedOf is defined by recursion.  What it yields is proved by looking   *)
(* at the least number for which a claim would be false, which exists      *)
(* because < is well-founded on the natural numbers.                       *)
(***************************************************************************)
Before == {pair \in Nat \X Nat : pair[1] < pair[2]}

\* A set of natural numbers that is not empty has a least element.
LEMMA LeastNumber ==
    ASSUME NEW T \in SUBSET Nat, T # {}
    PROVE  \E n \in T : \A m \in T : n <= m
<1>1. OpToRel(<, Nat) = Before
  BY Zenon DEF OpToRel, Before
<1>2. IsWellFoundedOn(Before, Nat)
  BY <1>1, NatLessThanWellFounded
<1>3. PICK n \in T : \A m \in T : ~(<<m, n>> \in Before)
  BY <1>2, WFMin
<1>4. ASSUME NEW m \in T PROVE n <= m
  <2>1. <<m, n>> \in Nat \X Nat /\ <<m, n>>[1] = m /\ <<m, n>>[2] = n
    OBVIOUS
  <2>2. ~(m < n)
    BY <1>3, <2>1, Zenon DEF Before
  <2>3. QED
    BY <2>2
<1>5. QED
  BY <1>4

\* The function g lists, for each number up to n, the events with a name.
Unrolls(g, s, n) ==
    /\ g \in [0..n -> Seq(Events)]
    /\ g[0] = <<>>
    /\ \A i \in 1..n : g[i] = AddNamed(g[i - 1], s[i])

LEMMA UnrolledOnce ==
    ASSUME NEW s \in Seq(Events), NEW n \in 0..Len(s)
    PROVE  \E g : Unrolls(g, s, n)
<1> DEFINE T == {m \in 0..Len(s) : ~\E g : Unrolls(g, s, m)}
<1>1. SUFFICES ASSUME T # {} PROVE FALSE
  OBVIOUS
<1>2. PICK m \in T : \A k \in T : m <= k
  <2>1. T \in SUBSET Nat
    OBVIOUS
  <2>2. QED
    BY <1>1, <2>1, LeastNumber
<1>3. m # 0
  <2>1. Unrolls([i \in 0..0 |-> <<>>], s, 0)
    BY DEF Unrolls
  <2>2. QED
    BY <2>1
<1>4. m - 1 \in 0..Len(s) /\ m - 1 \notin T
  BY <1>2, <1>3
<1>5. PICK g : Unrolls(g, s, m - 1)
  BY <1>4
<1> DEFINE h == [i \in 0..m |-> IF i = m THEN AddNamed(g[m - 1], s[m]) ELSE g[i]]
<1>6. AddNamed(g[m - 1], s[m]) \in Seq(Events)
  <2>1. g[m - 1] \in Seq(Events) /\ s[m] \in Events
    BY <1>3, <1>5 DEF Unrolls
  <2>2. QED
    BY <2>1 DEF AddNamed
<1>7. Unrolls(h, s, m)
  <2>1. h \in [0..m -> Seq(Events)]
    BY <1>5, <1>6 DEF Unrolls
  <2>2. h[0] = <<>>
    BY <1>3, <1>5 DEF Unrolls
  <2>3. ASSUME NEW i \in 1..m PROVE h[i] = AddNamed(h[i - 1], s[i])
    BY <1>3, <1>5 DEF Unrolls
  <2>4. QED
    BY <2>1, <2>2, <2>3 DEF Unrolls
<1>8. QED
  BY <1>7

\* NamedUpTo is such a function, so that it obeys its own definition.
LEMMA NamedUpToUnrolls ==
    ASSUME NEW s \in Seq(Events)
    PROVE  Unrolls(NamedUpTo(s), s, Len(s))
<1> DEFINE Obeys(f) ==
             f = [i \in 0..Len(s) |-> IF i = 0 THEN <<>>
                                      ELSE AddNamed(f[i - 1], s[i])]
<1>1. PICK g : Unrolls(g, s, Len(s))
  BY UnrolledOnce
<1>2. Obeys(g)
  <2>1. g = [i \in 0..Len(s) |-> g[i]]
    BY <1>1 DEF Unrolls
  <2>2. \A i \in 0..Len(s) :
          g[i] = IF i = 0 THEN <<>> ELSE AddNamed(g[i - 1], s[i])
    BY <1>1 DEF Unrolls
  <2>3. QED
    BY <2>1, <2>2, Zenon
<1>3. Obeys(NamedUpTo(s))
  BY <1>2, Zenon DEF NamedUpTo
<1> DEFINE f == NamedUpTo(s)
<1>4. /\ f = [i \in 0..Len(s) |-> f[i]]
      /\ f[0] = <<>>
      /\ \A i \in 1..Len(s) : f[i] = AddNamed(f[i - 1], s[i])
  <2> HIDE DEF f
  <2>1. Obeys(f)
    BY <1>3 DEF f
  <2>2. QED
    BY <2>1
<1>5. \A i \in 0..Len(s) : f[i] = g[i]
  <2> HIDE DEF f
  <2> DEFINE T == {i \in 0..Len(s) : f[i] # g[i]}
  <2>1. SUFFICES ASSUME T # {} PROVE FALSE
    OBVIOUS
  <2>2. T \in SUBSET Nat
    OBVIOUS
  <2>3. PICK i \in T : \A k \in T : i <= k
    BY <2>1, <2>2, LeastNumber
  <2>4. i # 0
    BY <1>1, <1>4 DEF Unrolls
  <2>5. i - 1 \in 0..Len(s) /\ f[i - 1] = g[i - 1]
    BY <2>3, <2>4
  <2>6. i \in 1..Len(s)
    BY <2>4
  <2>7. f[i] = AddNamed(f[i - 1], s[i]) /\ g[i] = AddNamed(g[i - 1], s[i])
    BY <1>1, <1>4, <2>6 DEF Unrolls
  <2>8. QED
    BY <2>5, <2>7
<1>6. f = g
  <2> HIDE DEF f
  <2>1. g = [i \in 0..Len(s) |-> g[i]]
    BY <1>1 DEF Unrolls
  <2>2. QED
    BY <1>4, <1>5, <2>1, Zenon
<1>7. QED
  BY <1>1, <1>6

LEMMA NamedOfType ==
    ASSUME NEW s \in Seq(Events)
    PROVE  NamedOf(s) \in Seq(Events)
<1>1. Len(s) \in 0..Len(s)
  OBVIOUS
<1>2. QED
  BY <1>1, NamedUpToUnrolls DEF NamedOf, Unrolls

LEMMA NamedOfEmpty == NamedOf(<<>>) = <<>>
<1>1. <<>> \in Seq(Events) /\ Len(<<>>) = 0
  OBVIOUS
<1>2. QED
  BY <1>1, NamedUpToUnrolls DEF NamedOf, Unrolls

\* An event behind the others.
LEMMA NamedOfAppend ==
    ASSUME NEW s \in Seq(Events), NEW e \in Events
    PROVE  NamedOf(Append(s, e)) = AddNamed(NamedOf(s), e)
<1> DEFINE t == Append(s, e)
           f == NamedUpTo(s)
           g == NamedUpTo(t)
           T == {i \in 0..Len(s) : f[i] # g[i]}
<1>1. /\ t \in Seq(Events) /\ Len(t) = Len(s) + 1 /\ t[Len(s) + 1] = e
      /\ \A i \in 1..Len(s) : t[i] = s[i]
  OBVIOUS
<1>2. Unrolls(f, s, Len(s)) /\ Unrolls(g, t, Len(t))
  BY <1>1, NamedUpToUnrolls
<1> HIDE DEF f, g, t
<1>3. f[Len(s)] = g[Len(s)]
  <2>1. SUFFICES ASSUME T # {} PROVE FALSE
    OBVIOUS
  <2>2. T \in SUBSET Nat
    OBVIOUS
  <2>3. PICK i \in T : \A k \in T : i <= k
    BY <2>1, <2>2, LeastNumber
  <2>4. i # 0
    BY <1>2 DEF Unrolls
  <2>5. i - 1 \in 0..Len(s) /\ f[i - 1] = g[i - 1]
    BY <2>3, <2>4
  <2>6. i \in 1..Len(s) /\ i \in 1..Len(t)
    BY <1>1, <2>4
  <2>7. f[i] = AddNamed(f[i - 1], s[i]) /\ g[i] = AddNamed(g[i - 1], t[i])
    BY <1>2, <2>6 DEF Unrolls
  <2>8. QED
    BY <1>1, <2>5, <2>6, <2>7
<1>4. g[Len(t)] = AddNamed(g[Len(s)], e)
  BY <1>1, <1>2 DEF Unrolls
<1>5. QED
  BY <1>3, <1>4 DEF NamedOf, f, g, t

LEMMA AddBehind ==
    ASSUME NEW u \in Seq(Events), NEW v \in Seq(Events), NEW e \in Events
    PROVE  AddNamed(u \o v, e) = u \o AddNamed(v, e)
<1>1. Append(u \o v, e) = u \o Append(v, e)
  OBVIOUS
<1>2. QED
  BY <1>1 DEF AddNamed

IsTail(t, s) == Len(s) = Len(t) + 1 /\ \A i \in 1..Len(t) : t[i] = s[i + 1]

\* Unrolling a sequence, and the same sequence without its first event.
LEMMA UnrolledTail ==
    ASSUME NEW s \in Seq(Events), NEW t \in Seq(Events), IsTail(t, s),
           NEW f, Unrolls(f, s, Len(s)), NEW g, Unrolls(g, t, Len(t))
    PROVE  f[Len(s)] = AddNamed(<<>>, s[1]) \o g[Len(t)]
<1> DEFINE first == AddNamed(<<>>, s[1])
<1>0. Len(t) \in Nat /\ Len(s) = Len(t) + 1 /\ first \in Seq(Events)
  BY DEF IsTail, AddNamed
<1> HIDE DEF first
<1> DEFINE Same(i) == f[i + 1] = first \o g[i]
           T == {i \in 0..Len(t) : ~Same(i)}
<1> HIDE DEF Same
<1>1. SUFFICES ASSUME T # {} PROVE FALSE
  <2>1. ASSUME T = {} PROVE f[Len(s)] = first \o g[Len(t)]
    <3>1. Len(t) \in 0..Len(t) /\ Len(t) \notin T
      BY <1>0, <2>1
    <3>2. QED
      BY <1>0, <3>1 DEF Same
  <2>2. QED
    BY <2>1 DEF first
<1>2. T \in SUBSET Nat
  OBVIOUS
<1>3. PICK i \in T : \A k \in T : i <= k
  BY <1>1, <1>2, LeastNumber
<1>4. i # 0
  <2>1. f[0] = <<>> /\ g[0] = <<>> /\ f[0 + 1] = AddNamed(f[0], s[1])
    BY <1>0 DEF Unrolls
  <2>2. first \o <<>> = first
    BY <1>0
  <2>3. Same(0)
    BY <2>1, <2>2 DEF Same, first
  <2>4. QED
    BY <1>3, <2>3
<1>5. i - 1 \in 0..Len(t) /\ i - 1 \notin T
  BY <1>3, <1>4
<1>6. f[(i - 1) + 1] = first \o g[i - 1]
  BY <1>5 DEF Same
<1>7. /\ i \in 1..Len(t) /\ i + 1 \in 1..Len(s)
      /\ (i - 1) + 1 = i /\ (i + 1) - 1 = i
  BY <1>0, <1>4
<1>8. f[i + 1] = AddNamed(f[i], s[i + 1])
  BY <1>7 DEF Unrolls
<1>9. g[i] = AddNamed(g[i - 1], t[i]) /\ t[i] = s[i + 1]
  BY <1>7 DEF Unrolls, IsTail
<1>10. g[i - 1] \in Seq(Events) /\ t[i] \in Events
  BY <1>5, <1>7 DEF Unrolls
<1>11. f[i] = first \o g[i - 1]
  BY <1>6, <1>7
<1>12. AddNamed(first \o g[i - 1], t[i]) = first \o AddNamed(g[i - 1], t[i])
  BY <1>0, <1>10, AddBehind
<1>13. Same(i)
  BY <1>8, <1>9, <1>11, <1>12 DEF Same
<1>14. QED
  BY <1>3, <1>13

\* An event in front of the others.
LEMMA NamedOfTail ==
    ASSUME NEW s \in Seq(Events), s # <<>>
    PROVE  NamedOf(s) = IF IsNamed(Head(s)) THEN <<Head(s)>> \o NamedOf(Tail(s))
                                            ELSE NamedOf(Tail(s))
<1>1. /\ Tail(s) \in Seq(Events) /\ Head(s) = s[1] /\ IsTail(Tail(s), s)
  BY DEF IsTail
<1>2. /\ Unrolls(NamedUpTo(s), s, Len(s))
      /\ Unrolls(NamedUpTo(Tail(s)), Tail(s), Len(Tail(s)))
  BY <1>1, NamedUpToUnrolls
<1>3. NamedOf(s) = AddNamed(<<>>, s[1]) \o NamedOf(Tail(s))
  BY <1>1, <1>2, UnrolledTail DEF NamedOf
<1>4. NamedOf(Tail(s)) \in Seq(Events)
  BY <1>1, NamedOfType
<1>5. CASE IsNamed(s[1])
  <2>1. AddNamed(<<>>, s[1]) = <<s[1]>>
    BY <1>5 DEF AddNamed
  <2>2. QED
    BY <1>1, <1>3, <1>5, <2>1, Zenon
<1>6. CASE ~IsNamed(s[1])
  <2>1. AddNamed(<<>>, s[1]) = <<>>
    BY <1>6, Zenon DEF AddNamed
  <2>2. <<>> \o NamedOf(Tail(s)) = NamedOf(Tail(s))
    BY <1>4
  <2>3. QED
    BY <1>1, <1>3, <1>6, <2>1, <2>2, Zenon
<1>7. QED
  BY <1>5, <1>6
-----------------------------------------------------------------------------
(* The file watcher.                                                       *)

\* The queue holds one event more than its limit only for an overflow.
WatchInv == /\ WatchTypeOK
            /\ Len(inotify) > QueueLimit => Q_OVERFLOW \in ToSet(inotify)
            /\ QueuedChangesReported

LEMMA Limits == /\ QueueLimit \in Nat /\ QueueLimit > 0
                /\ ReadLimit \in Nat /\ ReadLimit > 0
<1>1. QueueLimit \in Nat \ {0} /\ ReadLimit \in Nat \ {0}
  BY WatchAssumption, Zenon
<1>2. QED
  BY <1>1

\* An event that is queued last.
LEMMA QueuedBehind ==
    ASSUME WatchTypeOK, NEW e \in Events
    PROVE  NamedOf(buffer \o Append(inotify, e)) = AddNamed(NamedOf(buffer \o inotify), e)
<1>1. /\ buffer \o inotify \in Seq(Events)
      /\ buffer \o Append(inotify, e) = Append(buffer \o inotify, e)
  BY DEF WatchTypeOK
<1>2. QED
  BY <1>1, NamedOfAppend

LEMMA NamelessEvents == \A e \in {Q_OVERFLOW, IGNORED, Event("", "MODIFY")} :
                          e \in Events /\ ~IsNamed(e)
<1>1. \A m : Event("", m).name = ""
  BY DEF Event
<1>2. QED
  BY <1>1, Zenon DEF Events, Q_OVERFLOW, IGNORED, IsNamed

LEMMA LastInQueue ==
    ASSUME NEW s \in Seq(Events), NEW e \in Events
    PROVE  /\ Append(s, e) \in Seq(Events) /\ Len(Append(s, e)) = Len(s) + 1
           /\ e \in ToSet(Append(s, e))
<1> DEFINE t == Append(s, e)
<1>1. t \in Seq(Events) /\ Len(t) = Len(s) + 1 /\ t[Len(s) + 1] = e
  OBVIOUS
<1> HIDE DEF t
<1>2. Len(s) + 1 \in DOMAIN t
  <2>1. DOMAIN t = 1..Len(t)
    BY <1>1, LenProperties
  <2>2. QED
    BY <1>1, <2>1
<1>3. e \in ToSet(t)
  BY <1>1, <1>2, Zenon DEF ToSet
<1>4. QED
  BY <1>1, <1>3 DEF t

\* The three things the kernel does with an event.
LEMMA KernelQueues ==
    ASSUME WatchInv, NEW e \in Events, inotify' = Queued(e)
    PROVE  /\ inotify' \in Seq(Events) /\ Len(inotify') <= QueueLimit + 1
           /\ Len(inotify') > QueueLimit => Q_OVERFLOW \in ToSet(inotify')
           /\ NamedOf(buffer \o inotify') =
                IF Taken(e) THEN AddNamed(owed, e) ELSE owed
<1>1. /\ WatchTypeOK /\ QueueLimit \in Nat /\ inotify \in Seq(Events)
      /\ owed = NamedOf(buffer \o inotify)
  BY WatchAssumption DEF WatchInv, WatchTypeOK, QueuedChangesReported
<1>2. CASE Taken(e)
  <2>1. inotify' = Append(inotify, e)
    BY <1>2 DEF Queued
  <2>2. Len(inotify) < QueueLimit
    BY <1>1, <1>2 DEF Taken, Full
  <2>3. inotify' \in Seq(Events) /\ Len(inotify') <= QueueLimit
    BY <1>1, <2>1, <2>2
  <2>4. QED
    BY <1>1, <1>2, <2>1, <2>3, QueuedBehind
<1>3. CASE ~Taken(e) /\ Full /\ Q_OVERFLOW \notin ToSet(inotify)
  <2>1. inotify' = Append(inotify, Q_OVERFLOW)
    BY <1>3 DEF Queued
  <2>2. Len(inotify) <= QueueLimit
    BY <1>1, <1>3 DEF WatchInv
  <2>3. Q_OVERFLOW \in Events /\ ~IsNamed(Q_OVERFLOW)
    BY NamelessEvents, Zenon
  <2>4. /\ inotify' \in Seq(Events) /\ Len(inotify') <= QueueLimit + 1
        /\ Q_OVERFLOW \in ToSet(inotify')
    BY <1>1, <2>1, <2>2, <2>3, LastInQueue
  <2>5. NamedOf(buffer \o inotify') = owed
    <3>1. NamedOf(buffer \o inotify') =
            AddNamed(NamedOf(buffer \o inotify), Q_OVERFLOW)
      BY <1>1, <2>1, <2>3, QueuedBehind
    <3>2. QED
      BY <1>1, <2>3, <3>1, Zenon DEF AddNamed
  <2>6. QED
    BY <1>3, <2>4, <2>5
<1>4. CASE ~Taken(e) /\ ~(Full /\ Q_OVERFLOW \notin ToSet(inotify))
  <2>1. inotify' = inotify
    BY <1>4 DEF Queued
  <2>2. QED
    BY <1>1, <1>4, <2>1 DEF WatchInv, WatchTypeOK
<1>5. QED
  BY <1>2, <1>3, <1>4

LEMMA WatchesSet ==
    ASSUME WatchInv, NEW exists \in BOOLEAN, SetWatches(exists)
    PROVE  WatchInv'
  BY DEF WatchInv, WatchTypeOK, QueuedChangesReported, SetWatches

LEMMA FileChangesStep ==
    ASSUME WatchInv, NEW f \in WatchedFiles, NEW mask \in Masks, FileChanges(f, mask)
    PROVE  WatchInv'
<1> DEFINE e == Event(f, mask)
<1>1. e \in Named /\ e \in Events /\ IsNamed(e)
  BY WatchAssumption DEF Named, Events, Event, IsNamed
<1>2. /\ inotify' = Queued(e)
      /\ owed' = IF Taken(e) THEN Append(owed, e) ELSE owed
      /\ UNCHANGED <<watching, binary_watch, buffer, file_alert>>
  BY Zenon DEF FileChanges
<1> HIDE DEF e
<1>3. owed' \in Seq(Named)
  BY <1>1, <1>2 DEF WatchInv, WatchTypeOK
<1>4. owed' = IF Taken(e) THEN AddNamed(owed, e) ELSE owed
  BY <1>1, <1>2, Zenon DEF AddNamed
<1>5. /\ inotify' \in Seq(Events) /\ Len(inotify') <= QueueLimit + 1
      /\ Len(inotify') > QueueLimit => Q_OVERFLOW \in ToSet(inotify')
      /\ NamedOf(buffer \o inotify') = owed'
  BY <1>1, <1>2, <1>4, KernelQueues, Zenon
<1>6. WatchTypeOK'
  BY <1>2, <1>3, <1>5 DEF WatchInv, WatchTypeOK
<1>7. QED
  BY <1>2, <1>5, <1>6, Zenon DEF WatchInv, QueuedChangesReported

LEMMA BinaryStep ==
    ASSUME WatchInv, BinaryChanges \/ BinaryReplaced
    PROVE  WatchInv'
<1>1. PICK e \in {IGNORED, Event("", "MODIFY")} : inotify' = Queued(e)
  BY Zenon DEF BinaryChanges, BinaryReplaced
<1>2. e \in Events /\ ~IsNamed(e)
  BY <1>1, NamelessEvents, Zenon
<1>3. /\ UNCHANGED <<watching, buffer, file_alert, owed>>
      /\ binary_watch' \in BOOLEAN
  BY DEF BinaryChanges, BinaryReplaced, WatchInv, WatchTypeOK
<1>4. /\ inotify' \in Seq(Events) /\ Len(inotify') <= QueueLimit + 1
      /\ Len(inotify') > QueueLimit => Q_OVERFLOW \in ToSet(inotify')
      /\ NamedOf(buffer \o inotify') = owed
  BY <1>1, <1>2, KernelQueues, Zenon DEF AddNamed
<1>5. WatchTypeOK'
  BY <1>3, <1>4 DEF WatchInv, WatchTypeOK
<1>6. QED
  BY <1>3, <1>4, <1>5, Zenon DEF WatchInv, QueuedChangesReported

\* A sequence cut in two.
LEMMA CutInTwo ==
    ASSUME NEW s \in Seq(Events), NEW n \in 0..Len(s)
    PROVE  /\ SubSeq(s, 1, n) \in Seq(Events) /\ Len(SubSeq(s, 1, n)) = n
           /\ SubSeq(s, n + 1, Len(s)) \in Seq(Events)
           /\ Len(SubSeq(s, n + 1, Len(s))) = Len(s) - n
           /\ SubSeq(s, 1, n) \o SubSeq(s, n + 1, Len(s)) = s
<1> DEFINE a == SubSeq(s, 1, n)
           b == SubSeq(s, n + 1, Len(s))
<1>1. /\ Len(s) \in Nat /\ \A i \in 1..Len(s) : s[i] \in Events
  BY LenProperties, ElementOfSeq
<1>2. /\ a \in Seq(Events) /\ Len(a) = n /\ \A i \in 1..n : a[i] = s[i]
  <2>1. \A i \in 1..n : s[i] \in Events
    BY <1>1
  <2>2. /\ a \in Seq(Events) /\ Len(a) = IF 1 <= n THEN n - 1 + 1 ELSE 0
        /\ \A i \in 1..n - 1 + 1 : a[i] = s[1 + i - 1]
    BY <2>1, SubSeqProperties
  <2> HIDE DEF a
  <2>3. QED
    BY <2>2
<1>3. /\ b \in Seq(Events) /\ Len(b) = Len(s) - n
      /\ \A i \in 1..Len(s) - n : b[i] = s[n + i]
  <2>1. \A i \in n + 1..Len(s) : s[i] \in Events
    BY <1>1
  <2>2. /\ b \in Seq(Events)
        /\ Len(b) = IF n + 1 <= Len(s) THEN Len(s) - (n + 1) + 1 ELSE 0
        /\ \A i \in 1..Len(s) - (n + 1) + 1 : b[i] = s[(n + 1) + i - 1]
    BY <1>1, <2>1, SubSeqProperties
  <2> HIDE DEF b
  <2>3. QED
    BY <1>1, <2>2
<1> HIDE DEF a, b
<1>4. /\ a \o b \in Seq(Events) /\ Len(a \o b) = Len(a) + Len(b)
      /\ \A i \in 1..Len(a) + Len(b) :
           (a \o b)[i] = IF i <= Len(a) THEN a[i] ELSE b[i - Len(a)]
  BY <1>2, <1>3, ConcatProperties
<1>5. \A i \in 1..Len(s) : (a \o b)[i] = s[i]
  BY <1>1, <1>2, <1>3, <1>4
<1>6. a \o b = s
  <2>1. Len(s) = Len(a \o b) /\ \A i \in 1..Len(s) : s[i] = (a \o b)[i]
    BY <1>1, <1>2, <1>3, <1>4, <1>5
  <2>2. s = a \o b
    BY <1>4, <2>1, SeqEqual, Zenon
  <2>3. QED
    BY <2>2
<1>7. QED
  BY <1>2, <1>3, <1>6 DEF a, b

LEMMA ReadStep ==
    ASSUME WatchInv, ReadEvents
    PROVE  WatchInv'
<1>1. PICK n \in 1..Len(inotify) :
        /\ n <= ReadLimit
        /\ buffer' = SubSeq(inotify, 1, n)
        /\ inotify' = SubSeq(inotify, n + 1, Len(inotify))
  <2> DEFINE n == IF Len(inotify) < ReadLimit THEN Len(inotify) ELSE ReadLimit
  <2>1. inotify \in Seq(Events) /\ inotify # <<>>
    BY DEF ReadEvents, WatchInv, WatchTypeOK
  <2>2. n \in 1..Len(inotify) /\ n <= ReadLimit
    BY <2>1, Limits
  <2>3. /\ buffer' = SubSeq(inotify, 1, n)
        /\ inotify' = SubSeq(inotify, n + 1, Len(inotify))
    BY Zenon DEF ReadEvents
  <2> HIDE DEF n
  <2>4. QED
    BY <2>2, <2>3
<1>2. /\ buffer = <<>>
      /\ UNCHANGED <<watching, binary_watch, file_alert, owed>>
  BY DEF ReadEvents
<1>3. /\ buffer' \in Seq(Events) /\ Len(buffer') <= ReadLimit
      /\ inotify' \in Seq(Events) /\ Len(inotify') = Len(inotify) - n
      /\ buffer' \o inotify' = inotify
  BY <1>1, CutInTwo DEF WatchInv, WatchTypeOK
<1>4. Len(inotify') <= QueueLimit
  <2>1. inotify \in Seq(Events) /\ Len(inotify) <= QueueLimit + 1
    BY DEF WatchInv, WatchTypeOK
  <2>2. QED
    BY <1>1, <1>3, <2>1, Limits
<1>5. buffer \o inotify = buffer' \o inotify'
  BY <1>2, <1>3 DEF WatchInv, WatchTypeOK
<1>6. Len(inotify') <= QueueLimit + 1 /\ ~(Len(inotify') > QueueLimit)
  BY <1>3, <1>4, Limits
<1>7. WatchTypeOK'
  BY <1>2, <1>3, <1>6 DEF WatchInv, WatchTypeOK
<1>8. QED
  BY <1>2, <1>5, <1>6, <1>7, Zenon DEF WatchInv, QueuedChangesReported

LEMMA TailAndRest ==
    ASSUME NEW s \in Seq(Events), s # <<>>, NEW t \in Seq(Events)
    PROVE  /\ s \o t \in Seq(Events) /\ s \o t # <<>>
           /\ Head(s \o t) = Head(s)
           /\ Tail(s \o t) = Tail(s) \o t
           /\ Tail(s) \o t \in Seq(Events)
<1>1. /\ s \o t \in Seq(Events) /\ s \o t # <<>> /\ Head(s \o t) = Head(s)
      /\ Tail(s) \in Seq(Events) /\ Tail(s) \o t \in Seq(Events)
      /\ Tail(s \o t) \in Seq(Events)
  OBVIOUS
<1>2. Len(Tail(s \o t)) = Len(Tail(s) \o t)
  OBVIOUS
<1>3. \A i \in 1..Len(Tail(s \o t)) : Tail(s \o t)[i] = (Tail(s) \o t)[i]
  OBVIOUS
<1>4. QED
  BY <1>1, <1>2, <1>3, SeqEqual

LEMMA NextEventStep ==
    ASSUME WatchInv, NextEvent
    PROVE  WatchInv'
<1> DEFINE e == Head(buffer)
           rest == Tail(buffer) \o inotify
<1>1. /\ buffer # <<>> /\ buffer' = Tail(buffer)
      /\ IF e.name = "" THEN UNCHANGED <<file_alert, owed>> ELSE Reported(e)
      /\ UNCHANGED <<watching, binary_watch, inotify>>
  BY DEF NextEvent
<1>2. /\ buffer' \in Seq(Events) /\ Len(buffer') <= ReadLimit
      /\ e \in Events
  <2>1. buffer \in Seq(Events) /\ Len(buffer) <= ReadLimit
    BY DEF WatchInv, WatchTypeOK
  <2>2. /\ Head(buffer) \in Events /\ Tail(buffer) \in Seq(Events)
        /\ Len(Tail(buffer)) = Len(buffer) - 1
    BY <1>1, <2>1, HeadTailProperties
  <2>3. Len(Tail(buffer)) <= ReadLimit
    BY <2>1, <2>2, Limits
  <2>4. QED
    BY <1>1, <2>2, <2>3, Zenon
<1>3. /\ buffer \o inotify \in Seq(Events) /\ buffer \o inotify # <<>>
      /\ Head(buffer \o inotify) = e /\ Tail(buffer \o inotify) = rest
      /\ rest \in Seq(Events)
  <2>1. buffer \in Seq(Events) /\ inotify \in Seq(Events)
    BY DEF WatchInv, WatchTypeOK
  <2>2. QED
    BY <1>1, <2>1, TailAndRest
<1> HIDE DEF e, rest
<1>4. owed = IF IsNamed(e) THEN <<e>> \o NamedOf(rest) ELSE NamedOf(rest)
  BY <1>3, NamedOfTail DEF WatchInv, QueuedChangesReported
<1>5. owed' = NamedOf(rest)
  <2>1. CASE e.name = ""
    BY <1>1, <1>4, <2>1, Zenon DEF IsNamed
  <2>2. CASE e.name # ""
    <3>1. owed = <<e>> \o NamedOf(rest) /\ NamedOf(rest) \in Seq(Events)
      BY <1>3, <1>4, <2>2, NamedOfType DEF IsNamed
    <3>2. owed # <<>> /\ Head(owed) = e /\ Tail(owed) = NamedOf(rest)
      BY <1>2, <3>1
    <3>3. QED
      BY <1>1, <2>2, <3>2, Zenon DEF Reported
  <2>3. QED
    BY <2>1, <2>2
<1>6. file_alert' \in Named \cup {Nothing}
  <2>1. CASE e.name = ""
    BY <1>1, <2>1 DEF WatchInv, WatchTypeOK
  <2>2. CASE e.name # ""
    <3>1. e \in Named
      BY <1>2, <2>2, NamelessEvents, Zenon DEF Events, IsNamed
    <3>2. QED
      BY <1>1, <2>2, <3>1 DEF Reported
  <2>3. QED
    BY <2>1, <2>2
<1>7. owed' \in Seq(Named)
  <2>1. owed' \in {owed, Tail(owed)} /\ (owed' = Tail(owed) => owed # <<>> \/ owed' = owed)
    BY <1>1 DEF Reported
  <2>2. QED
    BY <2>1 DEF WatchInv, WatchTypeOK
<1>8. WatchTypeOK'
  BY <1>1, <1>2, <1>6, <1>7 DEF WatchInv, WatchTypeOK
<1>9. QED
  BY <1>1, <1>5, <1>8 DEF WatchInv, QueuedChangesReported, rest

LEMMA WatchStart == WatchInit => WatchInv
<1> SUFFICES ASSUME WatchInit PROVE WatchInv
  OBVIOUS
<1>1. /\ watching = FALSE /\ binary_watch = FALSE
      /\ inotify = <<>> /\ buffer = <<>>
      /\ file_alert = Nothing /\ owed = <<>>
  BY DEF WatchInit
<1>2. <<>> \in Seq(Events) /\ <<>> \in Seq(Named) /\ Len(<<>>) = 0
      /\ <<>> \o <<>> = <<>>
  OBVIOUS
<1>3. /\ Len(<<>>) <= QueueLimit + 1 /\ Len(<<>>) <= ReadLimit
      /\ ~(Len(<<>>) > QueueLimit)
  BY <1>2, Limits
<1>4. WatchTypeOK /\ ~(Len(inotify) > QueueLimit)
  BY <1>1, <1>2, <1>3, Zenon DEF WatchTypeOK
<1>5. QED
  BY <1>1, <1>2, <1>4, NamedOfEmpty, Zenon DEF WatchInv, QueuedChangesReported

LEMMA WatchStep == WatchInv /\ [WatchNext]_watchVars => WatchInv'
<1> SUFFICES ASSUME WatchInv, [WatchNext]_watchVars PROVE WatchInv'
  OBVIOUS
<1>1. CASE UNCHANGED watchVars
  BY <1>1 DEF watchVars, WatchInv, WatchTypeOK, QueuedChangesReported
<1>2. QED
  BY <1>1, WatchesSet, FileChangesStep, BinaryStep, ReadStep, NextEventStep
     DEF WatchNext

LEMMA WatchAlways == WatchSpec => []WatchInv
  BY WatchStart, WatchStep, PTL DEF WatchSpec

(***************************************************************************)
(* The type invariant of the file watcher: the kernel's queue never grows  *)
(* past its limit and the one event that stands for those dropped, and the *)
(* reports are about watched files.                                        *)
(***************************************************************************)
THEOREM WatchTypes == WatchSpec => []WatchTypeOK
<1>1. WatchInv => WatchTypeOK
  BY DEF WatchInv
<1>2. QED
  BY <1>1, WatchAlways, PTL

(***************************************************************************)
(* Every change that the kernel queued is reported, once and in order,     *)
(* whatever comes between: for any files, and any size of the queue and of *)
(* the buffer.                                                             *)
(***************************************************************************)
THEOREM ChangesReported == WatchSpec => []QueuedChangesReported
<1>1. WatchInv => QueuedChangesReported
  BY DEF WatchInv
<1>2. QED
  BY <1>1, WatchAlways, PTL
-----------------------------------------------------------------------------
(* The kernel module.                                                      *)

\* Which probes are armed at each point of a load and of an unload.
ProbesFollow ==
    hooks = CASE module_state \in {"absent", "loading"} -> {}
              [] module_state = "kill_probed"           -> {"kill"}
              [] module_state = "live"                  -> {"kill", "ptrace"}
              [] module_state = "leaving"               -> {"ptrace"}

KernelInv == /\ KernelTypeOK
             /\ ProbesFollow

LEMMA ProbesSpelled ==
    ASSUME KernelTypeOK
    PROVE  ProbesFollow <=>
             /\ module_state \in {"absent", "loading"} => hooks = {}
             /\ module_state = "kill_probed" => hooks = {"kill"}
             /\ module_state = "live" => hooks = {"kill", "ptrace"}
             /\ module_state = "leaving" => hooks = {"ptrace"}
  BY DEF KernelTypeOK, ProbesFollow

LEMMA ProbesSpelledNext ==
    ASSUME KernelTypeOK'
    PROVE  ProbesFollow' <=>
             /\ module_state' \in {"absent", "loading"} => hooks' = {}
             /\ module_state' = "kill_probed" => hooks' = {"kill"}
             /\ module_state' = "live" => hooks' = {"kill", "ptrace"}
             /\ module_state' = "leaving" => hooks' = {"ptrace"}
  BY DEF KernelTypeOK, ProbesFollow

\* Loading, unloading, and the life of the daemon leave the log as it is.
LEMMA ModuleSteps ==
    ASSUME KernelInv,
           \/ \E p \in {0, daemon_pid} : Insmod(p) \/ WriteParameter(p)
           \/ ProbeKill \/ ProbePtrace \/ UnprobeKill \/ UnprobePtrace
           \/ DaemonStarts \/ DaemonEnds
    PROVE  KernelInv'
<1>1. UNCHANGED <<kernel, syscall>>
  BY DEF Insmod, WriteParameter, ProbeKill, ProbePtrace, UnprobeKill,
     UnprobePtrace, DaemonStarts, DaemonEnds
<1>3. CASE \E p \in {0, daemon_pid} : Insmod(p) \/ WriteParameter(p)
  <2>1. PICK p \in {0, daemon_pid} : Insmod(p) \/ WriteParameter(p)
    BY <1>3
  <2>2. /\ p \in DaemonPids \cup {0} /\ protected_pid' = p
        /\ UNCHANGED <<hooks, daemon_pid>>
        /\ \/ UNCHANGED module_state
           \/ module_state = "absent" /\ module_state' = "loading"
    BY <2>1 DEF Insmod, WriteParameter, KernelInv, KernelTypeOK
  <2>3. KernelTypeOK'
    BY <1>1, <2>2 DEF KernelInv, KernelTypeOK
  <2>4. ProbesFollow'
    BY <2>2, <2>3, ProbesSpelled, ProbesSpelledNext DEF KernelInv
  <2>5. QED
    BY <2>3, <2>4 DEF KernelInv
<1>4. CASE ProbeKill \/ ProbePtrace \/ UnprobeKill \/ UnprobePtrace
  <2>1. UNCHANGED <<protected_pid, daemon_pid>>
    BY <1>4 DEF ProbeKill, ProbePtrace, UnprobeKill, UnprobePtrace
  <2>2. KernelTypeOK'
    BY <1>1, <1>4, <2>1 DEF KernelInv, KernelTypeOK, ProbeKill, ProbePtrace,
       UnprobeKill, UnprobePtrace
  <2>3. ProbesFollow'
    BY <1>4, <2>2, ProbesSpelled, ProbesSpelledNext
       DEF KernelInv, ProbeKill, ProbePtrace, UnprobeKill, UnprobePtrace
  <2>4. QED
    BY <2>2, <2>3 DEF KernelInv
<1>5. CASE DaemonStarts \/ DaemonEnds
  <2>1. UNCHANGED <<module_state, hooks, protected_pid>>
        /\ daemon_pid' \in DaemonPids \cup {0}
    BY <1>5 DEF DaemonStarts, DaemonEnds
  <2>2. KernelTypeOK'
    BY <1>1, <2>1 DEF KernelInv, KernelTypeOK
  <2>3. QED
    BY <2>1, <2>2 DEF KernelInv, ProbesFollow
<1>6. QED
  BY <1>3, <1>4, <1>5

LEMMA KillStep ==
    ASSUME KernelInv, NEW target \in Words, Kill(target)
    PROVE  KernelInv'
<1>1. PICK word \in TargetRead(target) :
        syscall' = [name |-> "kill", target |-> target,
                    printed |-> IF "kill" \in hooks THEN PrintedTarget(word)
                                ELSE {}]
  BY DEF Kill
<1>2. UNCHANGED <<kernel, module_state, hooks, protected_pid, daemon_pid>>
  BY DEF Kill
<1> DEFINE printed == IF "kill" \in hooks THEN PrintedTarget(word) ELSE {}
<1>3. printed \subseteq DaemonPids
  BY DEF PrintedTarget, KernelInv, KernelTypeOK
<1>4. syscall' = [name |-> "kill", target |-> target, printed |-> printed]
  BY <1>1
<1>5. syscall' \in Kills
  BY <1>3, <1>4 DEF Kills, KernelInv, KernelTypeOK
<1>6. KernelTypeOK'
  BY <1>2, <1>5 DEF KernelInv, KernelTypeOK
<1>7. QED
  BY <1>2, <1>6 DEF KernelInv, ProbesFollow

LEMMA PtraceStep ==
    ASSUME KernelInv, NEW request \in Requests, Ptrace(request)
    PROVE  KernelInv'
<1>1. UNCHANGED <<kernel, module_state, hooks, protected_pid, daemon_pid>>
  BY DEF Ptrace
<1>2. syscall' \in Ptraces
  BY DEF Ptrace, Ptraces
<1>3. KernelTypeOK'
  BY <1>1, <1>2 DEF KernelInv, KernelTypeOK
<1>4. QED
  BY <1>1, <1>3 DEF KernelInv, ProbesFollow

LEMMA KernelStart == KernelInit => KernelInv
  BY DEF KernelInit, KernelInv, KernelTypeOK, ProbesFollow, NoSyscall

LEMMA KernelStep == KernelInv /\ [KernelNext]_kernelVars => KernelInv'
<1> SUFFICES ASSUME KernelInv, [KernelNext]_kernelVars PROVE KernelInv'
  OBVIOUS
<1>1. CASE UNCHANGED kernelVars
  BY <1>1 DEF kernelVars, KernelInv, KernelTypeOK, ProbesFollow
<1>2. QED
  BY <1>1, ModuleSteps, KillStep, PtraceStep DEF KernelNext

LEMMA KernelAlways == KernelSpec => []KernelInv
  BY KernelStart, KernelStep, PTL DEF KernelSpec
-----------------------------------------------------------------------------
(***************************************************************************)
(* The type invariant.                                                     *)
(***************************************************************************)
THEOREM ModuleTypes == KernelSpec => []KernelTypeOK
<1>1. KernelInv => KernelTypeOK
  BY DEF KernelInv
<1>2. QED
  BY <1>1, KernelAlways, PTL

(***************************************************************************)
(* A module that is not loaded, however its load failed, has no probe.     *)
(***************************************************************************)
THEOREM ProbesGoWithModule == KernelSpec => []NoProbeWithoutModule
<1>1. KernelInv => NoProbeWithoutModule
  BY ProbesSpelled DEF KernelInv, NoProbeWithoutModule
<1>2. QED
  BY <1>1, KernelAlways, PTL
=============================================================================
