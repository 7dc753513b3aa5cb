----------------------------- MODULE CpuPattern -----------------------------
(***************************************************************************)
(* check_cpu_pattern, as the monitoring loop and the netlink thread call   *)
(* it.  What an earlier look found of a process is kept in two static      *)
(* arrays indexed by its id, last_utime and last_stime, which both threads *)
(* read and write without a lock, one element at a time.  Ids are given    *)
(* out again, and an id may exceed the arrays: its element is then what    *)
(* the linker put at that address, be it an element of the other array, or *)
(* no memory at all, which ends the daemon.                                *)
(***************************************************************************)
EXTENDS Integers

CONSTANTS
    CpuThreads,      \* the detection threads
    CpuPids,         \* the processes looked at
    Ticks,           \* bound: the values of a CPU counter, in jiffies
    MaxLives,        \* bound: how often an id is given out again
    Word,            \* 2^64: an unsigned long is computed modulo Word
    Slots,           \* 65536: the elements of an array
    UtimeBase,       \* where the linker put last_utime
    StimeBase,       \* and last_stime, counted in elements
    Junk             \* what the memory beyond the arrays may hold

ASSUME CpuAssumption ==
    /\ CpuPids \subseteq Nat \ {0}
    /\ {Word, Slots, UtimeBase, StimeBase} \subseteq Nat
    /\ MaxLives \in [CpuPids -> Nat]
    /\ Ticks \cup Junk \subseteq 0..(Word - 1) /\ 0 \in Ticks

VARIABLES
    life,      \* how many processes had the id before its present holder
    used,      \* the CPU time of that holder, in user and in kernel mode
    memory,    \* the elements of the arrays
    look       \* where each thread is in check_cpu_pattern

cpuVars == <<life, used, memory, look>>
-----------------------------------------------------------------------------
last_utime(p) == UtimeBase + p
last_stime(p) == StimeBase + p

Elements == {last_utime(p) : p \in CpuPids} \cup {last_stime(p) : p \in CpuPids}

Allocated(e) == \/ e \in UtimeBase .. (UtimeBase + Slots - 1)
                \/ e \in StimeBase .. (StimeBase + Slots - 1)

\* The value of an element, and the counter it was (a history of the model).
Element(n, owner) == [val |-> n, of |-> owner]
Counter(p, l, mode) == [pid |-> p, life |-> l, mode |-> mode]
Nobodys == Counter(0, 0, "zero")
Others  == Counter(0, 0, "junk")

Contents == [val : 0..(Word - 1),
             of : {Nobodys, Others}
                    \cup [pid : CpuPids, life : Nat, mode : {"user", "kernel"}]]

(***************************************************************************)
(* A look reads the counters of pid ("read"), then the old utime           *)
(* ("loaded"), and either returns 1 ("hot") or finds nothing to object     *)
(* ("clear") and stores its utime ("half") and then its stime.  overtaken, *)
(* a history of the model: since the look read its counters, another one   *)
(* has stored some of the same process.                                    *)
(***************************************************************************)
Looks == [at : {"none", "read", "loaded", "clear", "half", "hot"}, pid : CpuPids \cup {0},
          life : Nat, utime : Ticks, stime : Ticks, old : Contents,
          overtaken : BOOLEAN]

NoLook == [at |-> "none", pid |-> 0, life |-> 0, utime |-> 0, stime |-> 0,
           old |-> Element(0, Nobodys), overtaken |-> FALSE]

\* Subtraction and addition of unsigned long.
Minus(a, b) == IF a >= b THEN a - b ELSE a - b + Word
Plus(a, b)  == IF a + b < Word THEN a + b ELSE a + b - Word

\* MUTANT: both differences are taken from last_utime.
delta_Typo(k) == Plus(Minus(k.utime, k.old.val), Minus(k.stime, k.old.val))

delta(k) == Plus(Minus(k.utime, k.old.val),
                 Minus(k.stime, memory[last_stime(k.pid)].val))

\* The arrays of a daemon that starts are zero; what lies beyond is unknown.
Fresh(m) == \A e \in Elements : \/ Allocated(e) /\ m[e] = Element(0, Nobodys)
                                \/ ~Allocated(e) /\ m[e].of = Others
FreshMemories ==
    {m \in [Elements -> {Element(0, Nobodys)} \cup {Element(n, Others) : n \in Junk}] :
       Fresh(m)}

CpuInit ==
    /\ life = [p \in CpuPids |-> 0]
    /\ used = [p \in CpuPids |-> [utime |-> 0, stime |-> 0]]
    /\ memory \in FreshMemories
    /\ look = [t \in CpuThreads |-> NoLook]
-----------------------------------------------------------------------------
\* The process runs.
UseCpu(p, u, s) ==
    /\ used[p].utime <= u /\ used[p].stime <= s
    /\ used' = [used EXCEPT ![p] = [utime |-> u, stime |-> s]]
    /\ UNCHANGED <<life, memory, look>>

\* The process ends, and another one is given its id.
ReusePid(p) ==
    /\ life[p] < MaxLives[p]
    /\ life' = [life EXCEPT ![p] = @ + 1]
    /\ used' = [used EXCEPT ![p] = [utime |-> 0, stime |-> 0]]
    /\ UNCHANGED <<memory, look>>

\* MUTANT: the user time is the sum of both fields.
ReadStat_Sum(t, p) ==
    /\ look[t].at \in {"none", "hot"}
    /\ look' = [look EXCEPT ![t] =
                  [NoLook EXCEPT !.at = "read", !.pid = p, !.life = life[p],
                                 !.utime = used[p].utime + used[p].stime,
                                 !.stime = used[p].stime]]
    /\ UNCHANGED <<life, used, memory>>

\* fscanf finds both counters.  (If it does not, for instance because there is
\* a blank in the name of the process, the function returns 0 at once.)
ReadStat(t, p) ==
    /\ look[t].at \in {"none", "hot"}
    /\ look' = [look EXCEPT ![t] =
                  [NoLook EXCEPT !.at = "read", !.pid = p, !.life = life[p],
                                 !.utime = used[p].utime, !.stime = used[p].stime]]
    /\ UNCHANGED <<life, used, memory>>

\* last_utime[pid] is not 0; its test and its use are taken as one load.
LoadUtime(t) ==
    LET k == look[t]
    IN  /\ k.at = "read" /\ memory[last_utime(k.pid)].val > 0
        /\ look' = [look EXCEPT ![t].at = "loaded",
                                ![t].old = memory[last_utime(k.pid)]]
        /\ UNCHANGED <<life, used, memory>>

Condemn(t) ==
    /\ look[t].at = "loaded" /\ delta(look[t]) > 500
    /\ look' = [look EXCEPT ![t] = [NoLook EXCEPT !.at = "hot"]]
    /\ UNCHANGED <<life, used, memory>>

\* There is no baseline, or the difference to it is small.
Pass(t) ==
    LET k == look[t]
    IN  /\ \/ k.at = "read" /\ memory[last_utime(k.pid)].val = 0
           \/ k.at = "loaded" /\ delta(k) <= 500
        /\ look' = [look EXCEPT ![t] =
                      [k EXCEPT !.at = "clear", !.old = NoLook.old, !.overtaken = FALSE]]
        /\ UNCHANGED <<life, used, memory>>

\* Stores a counter of the look of t; the other looks at the process are overtaken.
Store(t, element, n, mode, after) ==
    LET k == look[t]
    IN  /\ memory' = [memory EXCEPT ![element] = Element(n, Counter(k.pid, k.life, mode))]
        /\ look' = [o \in CpuThreads |->
                      IF o = t THEN after
                      ELSE [look[o] EXCEPT !.overtaken = @ \/ (look[o].at \in {"read", "loaded"} /\ look[o].pid = k.pid)]]
        /\ UNCHANGED <<life, used>>

StoreUtime(t) ==
    LET k == look[t]
    IN  /\ k.at = "clear"
        /\ Store(t, last_utime(k.pid), k.utime, "user", [k EXCEPT !.at = "half"])

StoreStime(t) ==
    LET k == look[t]
    IN  k.at = "half" /\ Store(t, last_stime(k.pid), k.stime, "kernel", NoLook)

\* There is no memory at the element; the unit starts the daemon again.
Segfault(t) ==
    /\ look[t].at = "read" /\ ~Allocated(last_utime(look[t].pid))
    /\ memory' \in FreshMemories
    /\ look' = [o \in CpuThreads |-> NoLook]
    /\ UNCHANGED <<life, used>>

CpuNext ==
    \/ \E p \in CpuPids : \/ \E u, s \in Ticks : UseCpu(p, u, s)
                          \/ ReusePid(p)
    \/ \E t \in CpuThreads : \/ \E p \in CpuPids : ReadStat(t, p)
                             \/ LoadUtime(t) \/ Condemn(t) \/ Pass(t)
                             \/ StoreUtime(t) \/ StoreStime(t) \/ Segfault(t)

CpuSpec == CpuInit /\ [][CpuNext]_cpuVars
-----------------------------------------------------------------------------
CpuTypeOK ==
    /\ life \in [CpuPids -> Nat]
    /\ used \in [CpuPids -> [utime : Ticks, stime : Ticks]]
    /\ memory \in [Elements -> Contents]
    /\ look \in [CpuThreads -> Looks]

\* The baseline that a look compares with holds a counter of another process.
Foreign(k) == LET utime == k.old
                  stime == memory[last_stime(k.pid)]
              IN  \/ utime.of \notin {Nobodys, Counter(k.pid, k.life, "user")}
                  \/ stime.of \notin {Nobodys, Counter(k.pid, k.life, "kernel")}

\* The CPU time between the baseline of a look and the look itself.
Growth(k) == (k.utime - k.old.val) + (k.stime - memory[last_stime(k.pid)].val)

(***************************************************************************)
(* A process is taken for a miner only because it used more than 500       *)
(* jiffies since it was looked at, but for two false alarms: the other     *)
(* thread has stored a later sample between the two steps of this look, so *)
(* that the unsigned difference wraps; or the baseline stems from another  *)
(* process, the one that had the id before or one whose id exceeds the     *)
(* arrays.                                                                 *)
(***************************************************************************)
FalseAlarmsHaveCause ==
    [][\A t \in CpuThreads :
         look[t].at = "loaded" /\ look'[t].at = "hot"
           => look[t].overtaken \/ Foreign(look[t]) \/ Growth(look[t]) > 500]_cpuVars

(***************************************************************************)
(* The reverse: a look lets a process pass that used more than 500 jiffies *)
(* since it was looked at only for the same two causes, or because its     *)
(* last_utime is 0, which reads as if it had never been looked at.         *)
(***************************************************************************)
MissesHaveCause ==
    [][\A t \in CpuThreads :
         look[t].at \in {"read", "loaded"} /\ look'[t].at = "clear"
           => \/ look[t].at = "read" /\ memory[last_utime(look[t].pid)].val = 0
              \/ look[t].overtaken \/ Foreign(look[t])
              \/ Growth(look[t]) <= 500]_cpuVars
=============================================================================
