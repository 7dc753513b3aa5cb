-------------------------- MODULE CpuPatternProofs --------------------------
(***************************************************************************)
(* Proofs about check_cpu_pattern, for any threads, processes, counters    *)
(* and layout of the two arrays.                                           *)
(***************************************************************************)
EXTENDS CpuPattern, TLAPS

Modes == {"user", "kernel"}

\* The counter of a process, or of a look at one, that a tag names.
TimeOf(times, mode) == IF mode = "user" THEN times.utime ELSE times.stime

\* An element that was never stored to is 0, and one that was is no more than
\* the counter of its process has become since.
BoundedBy(e, p, l, times) ==
    \A mode \in Modes : e.of = Counter(p, l, mode) => e.val <= TimeOf(times, mode)

SampleInv(e) ==
    /\ e.of = Nobodys => e.val = 0
    /\ \A p \in CpuPids :
         /\ \A l \in Nat, mode \in Modes :
              e.of = Counter(p, l, mode) => l <= life[p]
         /\ BoundedBy(e, p, life[p], used[p])

MemoryInv == \A e \in Elements : SampleInv(memory[e])

\* The same for what a look has read and not yet stored.
LookInv(k) ==
    k.at \in {"read", "loaded", "clear", "half"} =>
      /\ k.pid \in CpuPids /\ k.life <= life[k.pid]
      /\ k.life = life[k.pid] =>
           k.utime <= used[k.pid].utime /\ k.stime <= used[k.pid].stime

\* Unless it was overtaken, a look compares with samples no later than its own.
EarlierInv(k) ==
    k.at \in {"read", "loaded"} /\ ~k.overtaken =>
      /\ \A e \in Elements : BoundedBy(memory[e], k.pid, k.life, k)
      /\ k.at = "loaded" => BoundedBy(k.old, k.pid, k.life, k)

OldInv(k) == k.old.of = Nobodys => k.old.val = 0

CpuInv == /\ CpuTypeOK
          /\ MemoryInv
          /\ \A t \in CpuThreads :
               LookInv(look[t]) /\ EarlierInv(look[t]) /\ OldInv(look[t])

LEMMA Tags ==
    /\ Nobodys # Others
    /\ \A p \in CpuPids, l \in Nat, mode \in Modes :
         Counter(p, l, mode) \notin {Nobodys, Others}
    /\ \A p, q \in CpuPids, l, m \in Nat, a, b \in Modes :
         Counter(p, l, a) = Counter(q, m, b) => p = q /\ l = m /\ a = b
  BY CpuAssumption DEF Counter, Nobodys, Others, Modes

LEMMA FreshInv ==
    ASSUME NEW m \in FreshMemories
    PROVE  /\ m \in [Elements -> Contents]
           /\ \A e \in Elements : m[e].of = Nobodys => m[e].val = 0
           /\ \A e \in Elements, p \in CpuPids, l \in Nat, mode \in Modes :
                m[e].of # Counter(p, l, mode)
<1>1. \A e \in Elements : m[e] = Element(0, Nobodys)
                            \/ \E n \in Junk : m[e] = Element(n, Others)
  BY DEF FreshMemories
<1>2. Element(0, Nobodys) \in Contents
      /\ \A n \in Junk : Element(n, Others) \in Contents
  BY CpuAssumption DEF Element, Contents
<1>3. m \in [Elements -> Contents]
  BY <1>1, <1>2 DEF FreshMemories
<1>4. \A e \in Elements : \/ m[e].of = Nobodys /\ m[e].val = 0
                          \/ m[e].of = Others
  <2>1. \A n, o : Element(n, o).val = n /\ Element(n, o).of = o
    BY DEF Element
  <2>2. QED
    BY <1>1, <2>1
<1>5. QED
  BY <1>3, <1>4, Tags

LEMMA CpuStart == CpuInit => CpuInv
<1> SUFFICES ASSUME CpuInit PROVE CpuInv
  OBVIOUS
<1>1. NoLook \in Looks /\ NoLook.at = "none" /\ NoLook.old.val = 0
  <2>1. Element(0, Nobodys) \in Contents
    BY CpuAssumption DEF Element, Contents
  <2>2. QED
    BY <2>1, CpuAssumption DEF NoLook, Looks, Element
<1>2. CpuTypeOK
  BY <1>1, FreshInv, CpuAssumption DEF CpuInit, CpuTypeOK
<1>3. MemoryInv
  BY FreshInv DEF CpuInit, MemoryInv, SampleInv, BoundedBy
<1>4. \A t \in CpuThreads : look[t] = NoLook
  BY DEF CpuInit
<1>5. QED
  BY <1>1, <1>2, <1>3, <1>4 DEF CpuInv, LookInv, EarlierInv, OldInv

\* The process runs: its counters grow.
LEMMA UseCpuStep ==
    ASSUME CpuInv, NEW p \in CpuPids, NEW u \in Ticks, NEW s \in Ticks,
           UseCpu(p, u, s)
    PROVE  CpuInv'
<1>1. /\ used' = [used EXCEPT ![p] = [utime |-> u, stime |-> s]]
      /\ used[p].utime <= u /\ used[p].stime <= s
      /\ UNCHANGED <<life, memory, look>>
  BY DEF UseCpu
<1>2. CpuTypeOK'
  BY <1>1 DEF CpuInv, CpuTypeOK
<1>3. \A q \in CpuPids : /\ used'[q].utime \in Nat /\ used'[q].stime \in Nat
                         /\ used[q].utime \in Nat /\ used[q].stime \in Nat
                         /\ used[q].utime <= used'[q].utime
                         /\ used[q].stime <= used'[q].stime
  <2>1. /\ used \in [CpuPids -> [utime : Ticks, stime : Ticks]]
        /\ \A n \in Ticks : n \in Nat
    BY CpuAssumption DEF CpuInv, CpuTypeOK
  <2>2. SUFFICES ASSUME NEW q \in CpuPids
                 PROVE  /\ used'[q].utime \in Nat /\ used'[q].stime \in Nat
                        /\ used[q].utime \in Nat /\ used[q].stime \in Nat
                        /\ used[q].utime <= used'[q].utime
                        /\ used[q].stime <= used'[q].stime
    OBVIOUS
  <2>3. used[q].utime \in Nat /\ used[q].stime \in Nat
    BY <2>1
  <2>4. CASE q = p
    <3>1. used'[q].utime = u /\ used'[q].stime = s
      BY <1>1, <2>1, <2>4
    <3>2. QED
      BY <1>1, <2>1, <2>3, <2>4, <3>1
  <2>5. CASE q # p
    BY <1>1, <2>1, <2>3, <2>5
  <2>6. QED
    BY <2>4, <2>5
<1>4. MemoryInv'
  <2>1. SUFFICES ASSUME NEW e \in Elements PROVE SampleInv(memory[e])'
    BY <1>1 DEF MemoryInv, Elements, last_utime, last_stime
  <2>2. SampleInv(memory[e]) /\ memory[e].val \in Nat
    BY CpuAssumption DEF CpuInv, MemoryInv, CpuTypeOK, Contents
  <2>3. ASSUME NEW q \in CpuPids, NEW mode \in Modes
        PROVE  TimeOf(used[q], mode) <= TimeOf(used[q], mode)'
               /\ TimeOf(used[q], mode) \in Nat /\ TimeOf(used[q], mode)' \in Nat
    BY <1>3 DEF TimeOf
  <2>4. QED
    BY <1>1, <2>2, <2>3 DEF SampleInv, BoundedBy
<1>5. ASSUME NEW t \in CpuThreads
      PROVE  (LookInv(look[t]) /\ EarlierInv(look[t]) /\ OldInv(look[t]))'
  <2>1. look[t].utime \in Nat /\ look[t].stime \in Nat
    BY CpuAssumption DEF CpuInv, CpuTypeOK, Looks
  <2>2. LookInv(look[t])'
    BY <1>1, <1>3, <2>1 DEF CpuInv, LookInv
  <2>3. QED
    BY <1>1, <2>2 DEF CpuInv, EarlierInv, OldInv, BoundedBy, TimeOf, Elements
<1>6. QED
  BY <1>2, <1>4, <1>5 DEF CpuInv

\* Another process is given the id: no element holds a counter of it.
LEMMA ReusePidStep ==
    ASSUME CpuInv, NEW p \in CpuPids, ReusePid(p)
    PROVE  CpuInv'
<1>1. /\ life' = [life EXCEPT ![p] = @ + 1]
      /\ used' = [used EXCEPT ![p] = [utime |-> 0, stime |-> 0]]
      /\ UNCHANGED <<memory, look>>
      /\ life \in [CpuPids -> Nat]
      /\ used \in [CpuPids -> [utime : Ticks, stime : Ticks]]
  BY DEF ReusePid, CpuInv, CpuTypeOK
<1>2. CpuTypeOK'
  <2>1. [utime |-> 0, stime |-> 0] \in [utime : Ticks, stime : Ticks]
    BY CpuAssumption
  <2>2. used' \in [CpuPids -> [utime : Ticks, stime : Ticks]]
    BY <1>1, <2>1
  <2>3. life' \in [CpuPids -> Nat]
    BY <1>1
  <2>4. QED
    BY <1>1, <2>2, <2>3 DEF CpuInv, CpuTypeOK
<1>3. \A q \in CpuPids : /\ life[q] \in Nat /\ life'[q] \in Nat
                         /\ q = p => life'[q] = life[q] + 1
                         /\ q # p => life'[q] = life[q] /\ used'[q] = used[q]
  BY <1>1
<1>4. MemoryInv'
  <2>1. SUFFICES ASSUME NEW e \in Elements PROVE SampleInv(memory[e])'
    BY <1>1 DEF MemoryInv, Elements, last_utime, last_stime
  <2>2. SampleInv(memory[e])
    BY DEF CpuInv, MemoryInv
  <2>3. ASSUME NEW q \in CpuPids, NEW l \in Nat, NEW mode \in Modes,
               memory[e].of = Counter(q, l, mode)
        PROVE  l <= life'[q]
    <3>1. l <= life[q]
      BY <2>2, <2>3 DEF SampleInv
    <3>2. QED
      BY <1>3, <3>1
  <2>4. ASSUME NEW q \in CpuPids, NEW mode \in Modes,
               memory[e].of = Counter(q, life'[q], mode)
        PROVE  memory[e].val <= TimeOf(used'[q], mode)
    <3>1. life'[q] <= life[q]
      BY <1>3, <2>2, <2>4 DEF SampleInv
    <3>2. q # p
      BY <1>3, <3>1
    <3>3. QED
      BY <1>3, <2>2, <2>4, <3>2 DEF SampleInv, BoundedBy
  <2>5. QED
    BY <1>1, <2>2, <2>3, <2>4 DEF SampleInv, BoundedBy, TimeOf
<1>5. ASSUME NEW t \in CpuThreads
      PROVE  (LookInv(look[t]) /\ EarlierInv(look[t]) /\ OldInv(look[t]))'
  <2>1. look[t].life \in Nat
    BY DEF CpuInv, CpuTypeOK, Looks
  <2>2. LookInv(look[t])'
    BY <1>1, <1>3, <1>5, <2>1 DEF CpuInv, LookInv
  <2>3. QED
    BY <1>1, <2>2 DEF CpuInv, EarlierInv, OldInv, BoundedBy, TimeOf, Elements
<1>6. QED
  BY <1>2, <1>4, <1>5 DEF CpuInv

\* What a step that changes only the look of t has to show.
LEMMA OneLook ==
    ASSUME CpuInv, NEW t \in CpuThreads, NEW k \in Looks,
           look' = [look EXCEPT ![t] = k], UNCHANGED <<life, used, memory>>,
           LookInv(k), EarlierInv(k), OldInv(k)
    PROVE  CpuInv'
<1>1. look \in [CpuThreads -> Looks]
  BY DEF CpuInv, CpuTypeOK
<1>2. CpuTypeOK'
  BY <1>1 DEF CpuInv, CpuTypeOK
<1>3. MemoryInv'
  BY DEF CpuInv, MemoryInv, SampleInv, BoundedBy, TimeOf, Elements
<1>4. ASSUME NEW u \in CpuThreads
      PROVE  (LookInv(look[u]) /\ EarlierInv(look[u]) /\ OldInv(look[u]))'
  <2>1. look'[u] = IF u = t THEN k ELSE look[u]
    BY <1>1
  <2>2. LookInv(look'[u]) /\ EarlierInv(look'[u]) /\ OldInv(look'[u])
    BY <2>1 DEF CpuInv
  <2>3. QED
    BY <2>2 DEF LookInv, EarlierInv, OldInv, BoundedBy, TimeOf, Elements
<1>5. QED
  BY <1>2, <1>3, <1>4 DEF CpuInv

LEMMA ReadStatStep ==
    ASSUME CpuInv, NEW t \in CpuThreads, NEW p \in CpuPids, ReadStat(t, p)
    PROVE  CpuInv'
<1> DEFINE k == [NoLook EXCEPT !.at = "read", !.pid = p, !.life = life[p],
                               !.utime = used[p].utime, !.stime = used[p].stime]
<1>1. /\ k.at = "read" /\ k.pid = p /\ k.life = life[p] /\ ~k.overtaken
      /\ k.utime = used[p].utime /\ k.stime = used[p].stime
      /\ k.old = Element(0, Nobodys)
  BY DEF NoLook
<1>2. k \in Looks
  <2>1. /\ life[p] \in Nat /\ used[p].utime \in Ticks /\ used[p].stime \in Ticks
    BY DEF CpuInv, CpuTypeOK
  <2>2. Element(0, Nobodys) \in Contents
    BY CpuAssumption DEF Element, Contents
  <2>3. QED
    BY <2>1, <2>2 DEF NoLook, Looks
<1>3. LookInv(k)
  <2>1. life[p] \in Nat /\ used[p].utime \in Nat /\ used[p].stime \in Nat
    BY CpuAssumption DEF CpuInv, CpuTypeOK
  <2>2. QED
    BY <1>1, <2>1 DEF LookInv
<1>4. EarlierInv(k)
  BY <1>1 DEF EarlierInv, CpuInv, MemoryInv, SampleInv, BoundedBy, TimeOf
<1>5. OldInv(k)
  BY <1>1 DEF OldInv, Element
<1>6. QED
  BY <1>2, <1>3, <1>4, <1>5, OneLook DEF ReadStat

LEMMA LoadUtimeStep ==
    ASSUME CpuInv, NEW t \in CpuThreads, LoadUtime(t)
    PROVE  CpuInv'
<1>1. look[t] \in Looks /\ LookInv(look[t]) /\ EarlierInv(look[t])
  BY DEF CpuInv, CpuTypeOK
<1>2. look[t].at = "read" /\ look[t].pid \in CpuPids
  BY <1>1 DEF LoadUtime, LookInv
<1> DEFINE e == last_utime(look[t].pid)
           k == [look[t] EXCEPT !.at = "loaded", !.old = memory[e]]
<1>3. e \in Elements /\ memory[e] \in Contents
  BY <1>2 DEF Elements, CpuInv, CpuTypeOK
<1>4. /\ k \in Looks /\ k.at = "loaded" /\ k.old = memory[e]
      /\ k.pid = look[t].pid /\ k.life = look[t].life
      /\ k.utime = look[t].utime /\ k.stime = look[t].stime
      /\ k.overtaken = look[t].overtaken
  BY <1>1, <1>3 DEF Looks
<1>5. LookInv(k)
  BY <1>1, <1>2, <1>4 DEF LookInv
<1>6. EarlierInv(k)
  BY <1>1, <1>2, <1>3, <1>4 DEF EarlierInv, BoundedBy, TimeOf
<1>7. OldInv(k)
  BY <1>3, <1>4 DEF OldInv, CpuInv, MemoryInv, SampleInv
<1>8. look' = [look EXCEPT ![t] = k] /\ UNCHANGED <<life, used, memory>>
  BY DEF LoadUtime, CpuInv, CpuTypeOK
<1>9. QED
  BY <1>4, <1>5, <1>6, <1>7, <1>8, OneLook

LEMMA CondemnStep ==
    ASSUME CpuInv, NEW t \in CpuThreads, Condemn(t)
    PROVE  CpuInv'
<1> DEFINE k == [NoLook EXCEPT !.at = "hot"]
<1>1. k \in Looks /\ k.at = "hot" /\ k.old.val = 0
  <2>1. Element(0, Nobodys) \in Contents
    BY CpuAssumption DEF Element, Contents
  <2>2. QED
    BY <2>1, CpuAssumption DEF NoLook, Looks, Element
<1>2. LookInv(k) /\ EarlierInv(k) /\ OldInv(k)
  BY <1>1 DEF LookInv, EarlierInv, OldInv
<1>3. QED
  BY <1>1, <1>2, OneLook DEF Condemn

\* A look that passes keeps its counters.
LEMMA PassStep ==
    ASSUME CpuInv, NEW t \in CpuThreads, Pass(t)
    PROVE  CpuInv'
<1> DEFINE k == look[t]
           after == [k EXCEPT !.at = "clear", !.old = NoLook.old, !.overtaken = FALSE]
<1>1. /\ k \in Looks /\ LookInv(k) /\ k.at \in {"read", "loaded"}
      /\ look' = [look EXCEPT ![t] = after] /\ UNCHANGED <<life, used, memory>>
  BY DEF Pass, CpuInv, CpuTypeOK
<1>2. NoLook.old \in Contents /\ NoLook.old.val = 0
  BY CpuAssumption DEF NoLook, Element, Contents
<1>3. /\ after \in Looks /\ after.at = "clear" /\ after.pid = k.pid
      /\ after.life = k.life /\ after.utime = k.utime /\ after.stime = k.stime
      /\ after.old = NoLook.old
  BY <1>1, <1>2 DEF Looks
<1>4. LookInv(after) /\ EarlierInv(after) /\ OldInv(after)
  BY <1>1, <1>2, <1>3 DEF LookInv, EarlierInv, OldInv
<1>5. QED
  BY <1>1, <1>3, <1>4, OneLook

\* A look stores one of its counters; it is one that its process really had,
\* and whoever compares with it now has been overtaken.
LEMMA StoreStep ==
    ASSUME CpuInv, NEW t \in CpuThreads, NEW e \in Elements, NEW mode \in Modes,
           NEW after \in Looks, NEW n \in Ticks, n = TimeOf(look[t], mode),
           look[t].at \in {"clear", "half"}, Store(t, e, n, mode, after),
           after.at \in {"none", "half"}, LookInv(after), OldInv(after)
    PROVE  CpuInv'
<1> DEFINE k == look[t]
           c == Element(n, Counter(k.pid, k.life, mode))
           Over(o) == [look[o] EXCEPT !.overtaken =
                         @ \/ (look[o].at \in {"read", "loaded"} /\ look[o].pid = k.pid)]
<1>1. /\ memory' = [memory EXCEPT ![e] = c]
      /\ look' = [o \in CpuThreads |-> IF o = t THEN after ELSE Over(o)]
      /\ UNCHANGED <<life, used>>
  BY DEF Store
<1>2. /\ k \in Looks /\ LookInv(k) /\ k.pid \in CpuPids /\ k.life \in Nat
      /\ memory \in [Elements -> Contents] /\ look \in [CpuThreads -> Looks]
      /\ \A x \in Ticks : x \in 0..(Word - 1) /\ x \in Nat
  BY CpuAssumption DEF CpuInv, CpuTypeOK, LookInv, Looks
<1>3. c \in Contents /\ c.val = n /\ c.of = Counter(k.pid, k.life, mode)
  BY <1>2 DEF Element, Contents, Counter, Modes
<1>4. \A o \in CpuThreads :
        /\ Over(o) \in Looks /\ Over(o).at = look[o].at /\ Over(o).pid = look[o].pid
        /\ Over(o).life = look[o].life /\ Over(o).old = look[o].old
        /\ Over(o).utime = look[o].utime /\ Over(o).stime = look[o].stime
        /\ Over(o).overtaken =
             (look[o].overtaken \/ (look[o].at \in {"read", "loaded"} /\ look[o].pid = k.pid))
  BY <1>2 DEF Looks
<1>5. CpuTypeOK'
  <2>1. memory' \in [Elements -> Contents]
    BY <1>1, <1>2, <1>3
  <2>2. look' \in [CpuThreads -> Looks]
    BY <1>1, <1>4
  <2>3. QED
    BY <1>1, <2>1, <2>2 DEF CpuInv, CpuTypeOK
<1>6. \A x \in Elements : memory'[x] = IF x = e THEN c ELSE memory[x]
  BY <1>1, <1>2
<1>7. SampleInv(c)
  <2>1. \A p \in CpuPids, l \in Nat, m \in Modes :
          c.of = Counter(p, l, m) => p = k.pid /\ l = k.life /\ m = mode
    BY <1>3 DEF Counter
  <2>2. c.of # Nobodys
    BY <1>2, <1>3, Tags
  <2>3. k.life <= life[k.pid]
    BY <1>2 DEF LookInv
  <2>4. k.life = life[k.pid] => n <= TimeOf(used[k.pid], mode)
    BY <1>2 DEF LookInv, TimeOf
  <2>5. \A p \in CpuPids : life[p] \in Nat
    BY DEF CpuInv, CpuTypeOK
  <2>6. QED
    BY <1>3, <2>1, <2>2, <2>3, <2>4, <2>5 DEF SampleInv, BoundedBy
<1>8. MemoryInv'
  <2>1. SUFFICES ASSUME NEW x \in Elements PROVE SampleInv(memory[x])'
    BY DEF MemoryInv, Elements, last_utime, last_stime
  <2>2. SampleInv(memory'[x])
    BY <1>6, <1>7 DEF CpuInv, MemoryInv
  <2>3. QED
    BY <1>1, <2>2 DEF SampleInv, BoundedBy, TimeOf
<1>9. ASSUME NEW o \in CpuThreads
      PROVE  (LookInv(look[o]) /\ EarlierInv(look[o]) /\ OldInv(look[o]))'
  <2>1. CASE o = t
    <3>1. look'[o] = after
      BY <1>1, <2>1
    <3>2. QED
      BY <1>1, <3>1 DEF LookInv, EarlierInv, OldInv
  <2>2. CASE o # t
    <3>1. look'[o] = Over(o)
      BY <1>1, <2>2
    <3>2. LookInv(look[o]) /\ EarlierInv(look[o]) /\ OldInv(look[o])
      BY DEF CpuInv
    <3>3. LookInv(look[o])' /\ OldInv(look[o])'
      BY <1>1, <1>4, <3>1, <3>2 DEF LookInv, OldInv
    <3>4. ASSUME look'[o].at \in {"read", "loaded"}, ~look'[o].overtaken
          PROVE  /\ look[o].at \in {"read", "loaded"} /\ ~look[o].overtaken
                 /\ look[o].pid # k.pid /\ look[o].pid \in CpuPids
                 /\ look[o].life \in Nat
      BY <1>2, <1>4, <3>1, <3>2, <3>4 DEF LookInv, Looks
    <3>5. ASSUME NEW x \in Elements, look'[o].at \in {"read", "loaded"},
                 ~look'[o].overtaken
          PROVE  BoundedBy(memory'[x], look[o].pid, look[o].life, look[o])
      <4>1. BoundedBy(memory[x], look[o].pid, look[o].life, look[o])
        BY <3>2, <3>4, <3>5 DEF EarlierInv
      <4>2. BoundedBy(c, look[o].pid, look[o].life, look[o])
        <5>1. \A l, m : c.of # Counter(look[o].pid, l, m)
          BY <1>3, <3>4, <3>5 DEF Counter
        <5>2. QED
          BY <5>1 DEF BoundedBy
      <4>3. QED
        BY <1>6, <4>1, <4>2
    <3>6. EarlierInv(look[o])'
      <4>1. SUFFICES ASSUME look'[o].at \in {"read", "loaded"}, ~look'[o].overtaken
                     PROVE  /\ \A x \in Elements :
                                 BoundedBy(memory'[x], look'[o].pid, look'[o].life, look'[o])
                            /\ look'[o].at = "loaded" =>
                                 BoundedBy(look'[o].old, look'[o].pid, look'[o].life, look'[o])
        BY DEF EarlierInv, BoundedBy, TimeOf, Elements, last_utime, last_stime
      <4>2. look[o].at = "loaded"
              => BoundedBy(look[o].old, look[o].pid, look[o].life, look[o])
        BY <3>2, <3>4, <4>1 DEF EarlierInv
      <4>3. QED
        BY <1>4, <3>1, <3>5, <4>1, <4>2 DEF BoundedBy, TimeOf
    <3>7. QED
      BY <3>3, <3>6
  <2>3. QED
    BY <2>1, <2>2
<1>10. QED
  BY <1>5, <1>8, <1>9 DEF CpuInv

LEMMA StoreUtimeStep ==
    ASSUME CpuInv, NEW t \in CpuThreads, StoreUtime(t)
    PROVE  CpuInv'
<1> DEFINE k == look[t]
           after == [k EXCEPT !.at = "half"]
<1>1. /\ k \in Looks /\ LookInv(k) /\ OldInv(k) /\ k.at = "clear"
      /\ k.pid \in CpuPids
  BY DEF StoreUtime, CpuInv, CpuTypeOK, LookInv
<1>2. /\ last_utime(k.pid) \in Elements /\ "user" \in Modes
      /\ k.utime \in Ticks /\ k.utime = TimeOf(k, "user")
  BY <1>1 DEF Elements, Modes, Looks, TimeOf
<1>4. /\ after \in Looks /\ after.at = "half" /\ after.pid = k.pid
      /\ after.life = k.life /\ after.utime = k.utime /\ after.stime = k.stime
      /\ after.old = k.old
  BY <1>1 DEF Looks
<1>5. LookInv(after) /\ OldInv(after)
  BY <1>1, <1>4 DEF LookInv, OldInv
<1>6. Store(t, last_utime(k.pid), k.utime, "user", after)
  BY DEF StoreUtime
<1>7. QED
  BY <1>1, <1>2, <1>4, <1>5, <1>6, StoreStep

LEMMA NoLookOK == NoLook \in Looks /\ LookInv(NoLook) /\ EarlierInv(NoLook)
                  /\ OldInv(NoLook) /\ NoLook.at = "none"
<1>1. Element(0, Nobodys) \in Contents /\ Element(0, Nobodys).val = 0
  BY CpuAssumption DEF Element, Contents
<1>2. NoLook \in Looks
  BY <1>1, CpuAssumption DEF NoLook, Looks
<1>3. QED
  BY <1>1, <1>2 DEF NoLook, LookInv, EarlierInv, OldInv

LEMMA StoreStimeStep ==
    ASSUME CpuInv, NEW t \in CpuThreads, StoreStime(t)
    PROVE  CpuInv'
<1> DEFINE k == look[t]
<1>1. k \in Looks /\ LookInv(k) /\ k.at = "half" /\ k.pid \in CpuPids
  BY DEF StoreStime, CpuInv, CpuTypeOK, LookInv
<1>2. /\ last_stime(k.pid) \in Elements /\ "kernel" \in Modes
      /\ k.stime \in Ticks /\ k.stime = TimeOf(k, "kernel")
  BY <1>1 DEF Elements, Modes, Looks, TimeOf
<1>3. Store(t, last_stime(k.pid), k.stime, "kernel", NoLook)
  BY DEF StoreStime
<1>4. QED
  BY <1>1, <1>2, <1>3, NoLookOK, StoreStep

\* The daemon starts again, with arrays that hold nothing.
LEMMA SegfaultStep ==
    ASSUME CpuInv, NEW t \in CpuThreads, Segfault(t)
    PROVE  CpuInv'
<1>1. /\ memory' \in FreshMemories /\ UNCHANGED <<life, used>>
      /\ look' = [o \in CpuThreads |-> NoLook]
  BY DEF Segfault
<1>2. CpuTypeOK'
  BY <1>1, FreshInv, NoLookOK DEF CpuInv, CpuTypeOK
<1>3. MemoryInv'
  <2>1. SUFFICES ASSUME NEW e \in Elements PROVE SampleInv(memory[e])'
    BY DEF MemoryInv, Elements, last_utime, last_stime
  <2>2. \A p \in CpuPids : life[p] \in Nat
    BY DEF CpuInv, CpuTypeOK
  <2>3. SampleInv(memory'[e])
    BY <1>1, <2>2, FreshInv DEF SampleInv, BoundedBy
  <2>4. QED
    BY <1>1, <2>3 DEF SampleInv, BoundedBy, TimeOf
<1>4. \A o \in CpuThreads : look'[o].at = "none" /\ look'[o].old.val = 0
  BY <1>1 DEF NoLook, Element
<1>5. \A o \in CpuThreads : (LookInv(look[o]) /\ EarlierInv(look[o]) /\ OldInv(look[o]))'
  BY <1>4 DEF LookInv, EarlierInv, OldInv
<1>6. QED
  BY <1>2, <1>3, <1>5 DEF CpuInv

LEMMA CpuStep == CpuInv /\ [CpuNext]_cpuVars => CpuInv'
<1> SUFFICES ASSUME CpuInv, [CpuNext]_cpuVars PROVE CpuInv'
  OBVIOUS
<1>1. CASE UNCHANGED cpuVars
  <2>1. UNCHANGED <<life, used, memory, look>>
    BY <1>1 DEF cpuVars
  <2>2. QED
    BY <2>1 DEF CpuInv, CpuTypeOK, MemoryInv, SampleInv, LookInv, EarlierInv,
       OldInv, BoundedBy, TimeOf, Elements
<1>2. QED
  BY <1>1, UseCpuStep, ReusePidStep, ReadStatStep, LoadUtimeStep, CondemnStep,
     PassStep, StoreUtimeStep, StoreStimeStep, SegfaultStep
  DEF CpuNext

LEMMA CpuAlways == CpuSpec => []CpuInv
  BY CpuStart, CpuStep, PTL DEF CpuSpec
-----------------------------------------------------------------------------
\* With samples that are not later than its own neither difference of a look
\* wraps.
LEMMA NoBorrow ==
    ASSUME CpuInv, NEW t \in CpuThreads, look[t].at = "loaded",
           ~look[t].overtaken, ~Foreign(look[t])
    PROVE  LET k == look[t]
               s == memory[last_stime(k.pid)]
           IN  /\ {k.utime, k.stime} \subseteq Ticks
               /\ Word \in Nat /\ k.old.val \in Nat /\ s.val \in Nat
               /\ k.old.val <= k.utime /\ s.val <= k.stime
               /\ delta(k) = Plus(k.utime - k.old.val, k.stime - s.val)
<1> DEFINE k == look[t]
           s == memory[last_stime(k.pid)]
<1>1. /\ k \in Looks /\ LookInv(k) /\ EarlierInv(k) /\ OldInv(k)
      /\ k.pid \in CpuPids
  BY DEF CpuInv, CpuTypeOK, LookInv
<1>2. last_stime(k.pid) \in Elements
  BY <1>1 DEF Elements
<1>3. /\ s \in Contents /\ SampleInv(s) /\ BoundedBy(s, k.pid, k.life, k)
      /\ BoundedBy(k.old, k.pid, k.life, k)
  BY <1>1, <1>2 DEF CpuInv, CpuTypeOK, MemoryInv, EarlierInv
<1>4. /\ Word \in Nat /\ k.utime \in 0..(Word - 1) /\ k.stime \in 0..(Word - 1)
      /\ k.old.val \in 0..(Word - 1) /\ s.val \in 0..(Word - 1)
      /\ {k.utime, k.stime} \subseteq Ticks
  BY <1>1, <1>3, CpuAssumption DEF Looks, Contents
<1>5. k.old.val <= k.utime
  BY <1>1, <1>3, <1>4 DEF Foreign, OldInv, BoundedBy, TimeOf, Modes
<1>6. s.val <= k.stime
  BY <1>3, <1>4 DEF Foreign, SampleInv, BoundedBy, TimeOf, Modes
<1>7. delta(k) = Plus(k.utime - k.old.val, k.stime - s.val)
  BY <1>4, <1>5, <1>6 DEF delta, Minus
<1>8. QED
  BY <1>4, <1>5, <1>6, <1>7

\* What is left is their sum, which may exceed an unsigned long.
LEMMA DeltaIsGrowth ==
    ASSUME CpuInv, NEW t \in CpuThreads, look[t].at = "loaded",
           ~look[t].overtaken, ~Foreign(look[t])
    PROVE  /\ delta(look[t]) > 500 => Growth(look[t]) > 500
           /\ (\A u, s \in Ticks : u + s < Word) => delta(look[t]) = Growth(look[t])
<1> DEFINE k == look[t]
           s == memory[last_stime(k.pid)]
<1>1. /\ k.utime \in Ticks /\ k.stime \in Ticks
      /\ Word \in Nat /\ k.old.val \in Nat /\ s.val \in Nat
      /\ k.old.val <= k.utime /\ s.val <= k.stime
      /\ delta(k) = Plus(k.utime - k.old.val, k.stime - s.val)
  BY NoBorrow
<1>2. k.utime \in Nat /\ k.stime \in Nat
  BY <1>1, CpuAssumption
<1>3. delta(k) <= Growth(k) /\ delta(k) \in Int /\ Growth(k) \in Int
  BY <1>1, <1>2 DEF Plus, Growth
<1>4. ASSUME \A u, v \in Ticks : u + v < Word
      PROVE  delta(k) = Growth(k)
  <2>1. k.utime + k.stime < Word
    BY <1>1, <1>4
  <2>2. QED
    BY <1>1, <1>2, <2>1 DEF Plus, Growth
<1>5. QED
  BY <1>3, <1>4

(***************************************************************************)
(* The type invariant.                                                     *)
(***************************************************************************)
THEOREM CpuTypes == CpuSpec => []CpuTypeOK
<1>1. CpuInv => CpuTypeOK
  BY DEF CpuInv
<1>2. QED
  BY <1>1, CpuAlways, PTL

(***************************************************************************)
(* The two causes of false alarms are all there are, for any number of     *)
(* threads and processes and wherever the linker puts the arrays.          *)
(***************************************************************************)
THEOREM FalseAlarms == CpuSpec => FalseAlarmsHaveCause
<1> DEFINE Explained ==
             \A t \in CpuThreads :
               look[t].at = "loaded" /\ look'[t].at = "hot"
                 => look[t].overtaken \/ Foreign(look[t]) \/ Growth(look[t]) > 500
<1>1. CpuInv /\ [CpuNext]_cpuVars => [Explained]_cpuVars
  <2>1. SUFFICES ASSUME CpuInv, CpuNext, NEW t \in CpuThreads,
                        look[t].at = "loaded", look'[t].at = "hot"
                 PROVE  look[t].overtaken \/ Foreign(look[t]) \/ Growth(look[t]) > 500
    OBVIOUS
  <2>2. look \in [CpuThreads -> Looks]
    BY <2>1 DEF CpuInv, CpuTypeOK
  <2>3. Condemn(t)
    <3>1. ~\E p \in CpuPids : \/ \E u, s \in Ticks : UseCpu(p, u, s)
                             \/ ReusePid(p)
      BY <2>1 DEF UseCpu, ReusePid
    <3>2. \A o \in CpuThreads : /\ ~\E p \in CpuPids : ReadStat(o, p)
                               /\ ~LoadUtime(o)
      BY <2>1, <2>2 DEF ReadStat, LoadUtime, NoLook
    <3>3. \A o \in CpuThreads : (Condemn(o) => o = t) /\ ~Pass(o)
      BY <2>1, <2>2 DEF Condemn, Pass, Looks
    <3>4. \A o \in CpuThreads : ~StoreUtime(o) /\ ~StoreStime(o)
      <4>1. ASSUME NEW o \in CpuThreads, NEW e, NEW n, NEW mode,
                   NEW after \in Looks, after.at # "hot",
                   Store(o, e, n, mode, after)
            PROVE  FALSE
        BY <2>1, <2>2, <4>1 DEF Store, Looks
      <4>2. \A o \in CpuThreads :
              LET after == [look[o] EXCEPT !.at = "half"]
              IN  after \in Looks /\ after.at # "hot"
        BY <2>2, NoLookOK DEF Looks
      <4>3. QED
        BY <4>1, <4>2, NoLookOK DEF StoreUtime, StoreStime
    <3>5. \A o \in CpuThreads : ~Segfault(o)
      BY <2>1 DEF Segfault, NoLook
    <3>6. QED
      BY <2>1, <3>1, <3>2, <3>3, <3>4, <3>5 DEF CpuNext
  <2>4. QED
    BY <2>1, <2>3, DeltaIsGrowth DEF Condemn
<1>2. QED
  BY <1>1, CpuAlways, PTL DEF CpuSpec, FalseAlarmsHaveCause
-----------------------------------------------------------------------------
\* A look is done with comparing only by its own Pass.
LEMMA ClearByPass ==
    ASSUME CpuInv, CpuNext, NEW t \in CpuThreads,
           look[t].at \in {"read", "loaded"}, look'[t].at = "clear"
    PROVE  Pass(t)
<1>1. look \in [CpuThreads -> Looks]
  BY DEF CpuInv, CpuTypeOK
<1>2. ~\E p \in CpuPids : \/ \E u, s \in Ticks : UseCpu(p, u, s)
                         \/ ReusePid(p)
  BY DEF UseCpu, ReusePid
<1>3. ASSUME NEW o \in CpuThreads
      PROVE  /\ ~\E p \in CpuPids : ReadStat(o, p)
             /\ ~LoadUtime(o) /\ ~Condemn(o) /\ ~Segfault(o)
  <2>1. ASSUME NEW k, k.at # "clear", look' = [look EXCEPT ![o] = k]
        PROVE  FALSE
    BY <1>1, <2>1
  <2>2. ~\E p \in CpuPids : ReadStat(o, p)
    BY <1>1, <2>1 DEF ReadStat, NoLook
  <2>3. ~LoadUtime(o)
    BY <1>1, <2>1 DEF LoadUtime, Looks
  <2>4. ~Condemn(o)
    BY <1>1, <2>1 DEF Condemn, NoLook
  <2>5. ~Segfault(o)
    BY <1>1 DEF Segfault, NoLook
  <2>6. QED
    BY <2>2, <2>3, <2>4, <2>5
<1>4. \A o \in CpuThreads : ~StoreStime(o) /\ ~StoreUtime(o)
  BY <1>1, NoLookOK DEF StoreStime, StoreUtime, Store, Looks
<1>5. ASSUME NEW o \in CpuThreads, o # t PROVE ~Pass(o)
  BY <1>1, <1>5 DEF Pass, Looks
<1>6. QED
  BY <1>2, <1>3, <1>4, <1>5 DEF CpuNext

(***************************************************************************)
(* A busy process passes only for the causes named, for any number of      *)
(* threads and processes and any placement of the arrays, as long as its   *)
(* two counters stay below 2^64 together.                                  *)
(***************************************************************************)
THEOREM Misses ==
    (\A u, s \in Ticks : u + s < Word) => (CpuSpec => MissesHaveCause)
<1> SUFFICES ASSUME \A u, s \in Ticks : u + s < Word
             PROVE  CpuSpec => MissesHaveCause
  OBVIOUS
<1> DEFINE Explained ==
             \A t \in CpuThreads :
               look[t].at \in {"read", "loaded"} /\ look'[t].at = "clear"
                 => \/ look[t].at = "read"
                       /\ memory[last_utime(look[t].pid)].val = 0
                    \/ look[t].overtaken \/ Foreign(look[t])
                    \/ Growth(look[t]) <= 500
<1>1. CpuInv /\ [CpuNext]_cpuVars => [Explained]_cpuVars
  <2>1. SUFFICES ASSUME CpuInv, CpuNext, NEW t \in CpuThreads,
                        look[t].at \in {"read", "loaded"}, look'[t].at = "clear",
                        ~look[t].overtaken, ~Foreign(look[t]),
                        look[t].at = "loaded"
                 PROVE  Growth(look[t]) <= 500
    BY ClearByPass DEF Pass
  <2>2. delta(look[t]) <= 500
    BY <2>1, ClearByPass DEF Pass
  <2>3. QED
    BY <2>1, <2>2, DeltaIsGrowth
<1>2. QED
  BY <1>1, CpuAlways, PTL DEF CpuSpec, MissesHaveCause
=============================================================================
