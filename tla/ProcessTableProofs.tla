------------------------- MODULE ProcessTableProofs -------------------------
(***************************************************************************)
(* Proofs about the scan of /proc, for any process ids and any size of the *)
(* buffer of readdir.                                                      *)
(***************************************************************************)
EXTENDS ProcessTable, FiniteSetTheorems, SequenceTheorems,
        WellFoundedInduction, TLAPS

\* Ids whose entry the walk has dealt with.
Behind(p) == p < entry \/ (p = entry /\ reader # "parsed")

\* What the walk has still to do lies ahead of it.
WalkInv == /\ \A e \in entries : entry < e
           /\ reader = "parsed" => entry \in ScanPids

ListInv ==
    /\ \A i \in DOMAIN process_list : Behind(process_list[i].pid)
    /\ \A i, j \in DOMAIN process_list :
         i # j => process_list[i].pid # process_list[j].pid

\* A process that is due has been listed, is in the buffer, or comes after it.
DueInv ==
    /\ due \subseteq Running
    /\ \A p \in due : Behind(p) => Positions(p) # {}
    /\ \A p \in due : entry < p /\ p \notin entries => \A e \in entries : e < p
    /\ reader = "idle" => \A p \in due : Behind(p)

\* The ids among which LastWith takes the greatest.
Ids(kinds, p) == {q \in ScanPids : q <= p /\ names[q] \in kinds}

Named == {"plain", "paren"}
Plain == {"plain"}

\* The locals hold what the nearest readable entry left in them.
FieldsInv ==
    /\ \A q \in ScanPids : entry < q => names[q] = "absent"
    /\ parsed.comm = LastWith(Named, entry)
    /\ parsed.ppid = LastWith(Plain, entry)
    /\ FieldsOfNearestReadable

TableInv == TableTypeOK /\ WalkInv /\ ListInv /\ DueInv /\ FieldsInv
-----------------------------------------------------------------------------
LEMMA MinIs ==
    ASSUME NEW S \in SUBSET Nat, S # {}
    PROVE  Min(S) \in S /\ \A x \in S : Min(S) <= x
<1> DEFINE Less == OpToRel(<, Nat)
<1>1. IsWellFoundedOn(Less, Nat)
  BY NatLessThanWellFounded, Zenon
<1>2. \A x, y \in Nat : y < x => <<y, x>> \in Less
  BY DEF OpToRel
<1> HIDE DEF Less
<1>3. PICK m \in S : \A x \in S : ~(<<x, m>> \in Less)
  BY <1>1, WFMin
<1>4. ASSUME NEW x \in S PROVE m <= x
  <2>1. m \in Nat /\ x \in Nat
    OBVIOUS
  <2>2. ~(x < m)
    BY <1>2, <1>3, <2>1
  <2>3. QED
    BY <2>1, <2>2
<1>5. QED
  BY <1>4 DEF Min

LEMMA MaxIs ==
    ASSUME NEW S \in SUBSET Nat, NEW m \in S, \A x \in S : x <= m
    PROVE  Max(S) = m
<1>1. \A y \in S : m >= y
  OBVIOUS
<1>2. Max(S) \in S /\ \A x \in S : Max(S) >= x
  BY <1>1 DEF Max
<1>3. Max(S) >= m /\ Max(S) <= m /\ Max(S) \in Nat /\ m \in Nat
  BY <1>2
<1>4. QED
  BY <1>3

\* The next entry of the buffer.
LEMMA FirstEntry ==
    ASSUME TableTypeOK, entries # {}
    PROVE  /\ Min(entries) \in entries /\ Min(entries) \in ScanPids
           /\ Min(entries) \in Nat \ {0}
           /\ \A e \in entries : Min(entries) <= e /\ e \in Nat
<1>1. entries \in SUBSET Nat
  BY ScanAssumption DEF TableTypeOK
<1>2. QED
  BY <1>1, MinIs, ScanAssumption DEF TableTypeOK

LEMMA Numbers ==
    ASSUME TableTypeOK
    PROVE  /\ entry \in Nat /\ ScanPids \subseteq Nat \ {0}
           /\ \A i \in DOMAIN process_list :
                process_list[i] \in Node /\ process_list[i].pid \in Nat
<1>1. entry \in Nat /\ ScanPids \subseteq Nat \ {0}
  BY ScanAssumption DEF TableTypeOK
<1>2. \A i \in DOMAIN process_list : process_list[i] \in Node
  BY DEF TableTypeOK
<1>3. QED
  BY <1>1, <1>2 DEF Node

\* A name and a parent stay those of the nearest entry as long as the lines up
\* to it do.
LEMMA SameIds ==
    ASSUME NEW kinds, NEW p, NEW q, Ids(kinds, p)' = Ids(kinds, q)
    PROVE  LastWith(kinds, p)' = LastWith(kinds, q)
  BY DEF LastWith, Ids

LEMMA SameIdsNow ==
    ASSUME NEW kinds, NEW p, NEW q, Ids(kinds, p) = Ids(kinds, q)
    PROVE  LastWith(kinds, p) = LastWith(kinds, q)
  BY DEF LastWith, Ids
-----------------------------------------------------------------------------
(* What the parts of the invariant read.                                   *)

LEMMA FieldsKept ==
    ASSUME FieldsInv, UNCHANGED <<entry, parsed, process_list, names>>
    PROVE  FieldsInv'
<1>1. \A kinds, p : LastWith(kinds, p)' = LastWith(kinds, p)
  BY SameIds DEF Ids
<1>2. FieldsOfNearestReadable'
  BY <1>1 DEF FieldsInv, FieldsOfNearestReadable, Named, Plain
<1>3. QED
  BY <1>1, <1>2 DEF FieldsInv

LEMMA ListKept ==
    ASSUME ListInv, UNCHANGED process_list,
           \A p \in Nat : Behind(p) => Behind(p)', TableTypeOK
    PROVE  ListInv'
  BY Numbers DEF ListInv

\* The walk goes on to the entry p: p itself is open, what lies between is not
\* due.
LEMMA NextEntry ==
    ASSUME TableInv, NEW p, p = Min(entries), entries # {}, reader = "entries",
           entry' = p, entries' = entries \ {p}
    PROVE  /\ entry < p /\ p \in ScanPids /\ p \in Nat
           /\ WalkInv'
           /\ \A q \in due : q < p => Behind(q)
           /\ \A q \in due : p < q /\ q \notin entries' => \A e \in entries' : e < q
<1>1. /\ p \in entries /\ p \in ScanPids /\ p \in Nat
      /\ \A e \in entries : p <= e /\ e \in Nat
  BY FirstEntry DEF TableInv
<1>2. entry < p /\ entry \in Nat
  BY <1>1, Numbers DEF TableInv, WalkInv
<1>3. WalkInv'
  BY <1>1 DEF WalkInv
<1>4. ASSUME NEW q \in due, q < p PROVE Behind(q)
  <2>1. q \in Nat
    BY Numbers DEF TableInv, TableTypeOK
  <2>2. q \notin entries
    BY <1>1, <1>4, <2>1
  <2>3. ~(entry < q)
    BY <1>1, <1>4, <2>1, <2>2 DEF TableInv, DueInv
  <2>4. QED
    BY <1>2, <2>1, <2>3 DEF Behind
<1>5. ASSUME NEW q \in due, p < q, q \notin entries', NEW e \in entries'
      PROVE  e < q
  <2>1. q \in Nat
    BY Numbers DEF TableInv, TableTypeOK
  <2>2. q \notin entries /\ entry < q
    BY <1>1, <1>2, <1>5, <2>1
  <2>3. QED
    BY <2>2 DEF TableInv, DueInv
<1>6. QED
  BY <1>1, <1>2, <1>3, <1>4, <1>5
-----------------------------------------------------------------------------
LEMMA Start == TableInit => TableInv
<1> SUFFICES ASSUME TableInit PROVE TableInv
  OBVIOUS
<1>1. TableTypeOK
  BY DEF TableInit, TableTypeOK, NothingRead, Garbage
<1>2. \A kinds : LastWith(kinds, 0) = Garbage
  BY ScanAssumption DEF LastWith, TableInit
<1>3. WalkInv /\ ListInv /\ DueInv
  BY DEF TableInit, WalkInv, ListInv, DueInv
<1>4. FieldsInv
  BY <1>2 DEF TableInit, FieldsInv, FieldsOfNearestReadable, NothingRead
<1>5. QED
  BY <1>1, <1>3, <1>4 DEF TableInv

LEMMA Starts ==
    ASSUME TableInv, NEW p \in ScanPids, NEW name \in Names, ProcessStarts(p, name)
    PROVE  TableInv'
<1>1. UNCHANGED <<reader, entries, entry, parsed, process_list, due, names>>
  BY DEF ProcessStarts
<1>2. TableTypeOK'
  BY <1>1 DEF TableInv, TableTypeOK, ProcessStarts
<1>3. WalkInv' /\ ListInv' /\ FieldsInv'
  BY <1>1, ListKept, FieldsKept DEF TableInv, WalkInv, Behind
<1>4. due \subseteq Running'
  BY DEF TableInv, TableTypeOK, DueInv, Running, ProcessStarts, Names
<1>5. DueInv'
  BY <1>1, <1>4 DEF TableInv, DueInv, Behind, Positions
<1>6. QED
  BY <1>2, <1>3, <1>5 DEF TableInv

LEMMA Ends ==
    ASSUME TableInv, NEW p \in ScanPids, ProcessEnds(p)
    PROVE  TableInv'
<1>1. UNCHANGED <<reader, entries, entry, parsed, process_list, names>>
  BY DEF ProcessEnds
<1>2. TableTypeOK'
  BY <1>1 DEF TableInv, TableTypeOK, ProcessEnds
<1>3. WalkInv' /\ ListInv' /\ FieldsInv'
  BY <1>1, ListKept, FieldsKept DEF TableInv, WalkInv, Behind
<1>4. due' \subseteq Running' /\ due' \subseteq due
  BY DEF TableInv, TableTypeOK, DueInv, Running, ProcessEnds
<1>5. DueInv'
  BY <1>1, <1>4 DEF TableInv, DueInv, Behind, Positions
<1>6. QED
  BY <1>2, <1>3, <1>5 DEF TableInv

LEMMA Opens == TableInv /\ OpenProc => TableInv'
<1> SUFFICES ASSUME TableInv, OpenProc PROVE TableInv'
  OBVIOUS
<1>1. TableTypeOK'
  BY DEF TableInv, TableTypeOK, OpenProc, Running, NothingRead, Garbage
<1>2. \A q \in ScanPids : ~(q <= 0)
  BY ScanAssumption
<1>3. \A kinds : LastWith(kinds, 0)' = Garbage
  BY <1>2 DEF LastWith
<1>4. FieldsInv'
  BY <1>3 DEF OpenProc, FieldsInv, FieldsOfNearestReadable, NothingRead
<1>5. WalkInv' /\ ListInv'
  BY DEF OpenProc, WalkInv, ListInv
<1>6. DueInv'
  <2>1. due' \subseteq Running'
    BY DEF OpenProc, Running
  <2>2. \A p \in due' : p \in Nat \ {0}
    BY ScanAssumption DEF OpenProc, Running
  <2>3. \A p \in due' : ~Behind(p)'
    BY <2>2 DEF OpenProc, Behind
  <2>4. QED
    BY <2>1, <2>3 DEF OpenProc, DueInv
<1>7. QED
  BY <1>1, <1>4, <1>5, <1>6 DEF TableInv

\* How many of those ahead come before p.
Before(p) == {q \in Ahead : q < p}

LEMMA BeforeIsFinite ==
    ASSUME TableTypeOK, NEW p \in Nat
    PROVE  IsFiniteSet(Before(p)) /\ Cardinality(Before(p)) \in Nat
<1>1. \A q \in Before(p) : q \in Nat /\ q < p
  BY ScanAssumption DEF Before, Ahead, Running
<1>2. IsFiniteSet(0..p)
  BY FS_Interval
<1>3. IsFiniteSet(Before(p))
  <2>1. \A q \in Before(p) : q \in 0..p
    BY <1>1
  <2>2. Before(p) \in SUBSET (0..p)
    BY <2>1
  <2>3. QED
    BY <1>2, <2>2, FS_Subset
<1>4. QED
  BY <1>3, FS_CardinalityType

\* The buffer takes the first of those ahead.
LEMMA Fills == TableInv /\ FillBuffer => TableInv'
<1> SUFFICES ASSUME TableInv, FillBuffer PROVE TableInv'
  OBVIOUS
<1>1. /\ UNCHANGED <<table, reader, entry, parsed, process_list, due, names>>
      /\ reader = "entries" /\ entries = {}
      /\ entries' = {p \in Ahead : Cardinality(Before(p)) < BufferSize}
  BY DEF FillBuffer, Before
<1>2. entries' \subseteq Ahead /\ Ahead \subseteq ScanPids
  BY <1>1 DEF Ahead, Running
<1>3. TableTypeOK'
  BY <1>1, <1>2 DEF TableInv, TableTypeOK
<1>4. WalkInv'
  BY <1>1, <1>2 DEF TableInv, WalkInv, Ahead
<1>5. ListInv' /\ FieldsInv'
  BY <1>1, ListKept, FieldsKept DEF TableInv, Behind
<1>6. ASSUME NEW p \in due, entry < p, p \notin entries', NEW e \in entries'
      PROVE  e < p
  <2>1. p \in Ahead /\ e \in Ahead /\ p \in Nat /\ e \in Nat
    BY <1>2, <1>6, ScanAssumption DEF TableInv, DueInv, Ahead, Running
  <2>2. SUFFICES ASSUME p <= e PROVE FALSE
    BY <2>1
  <2>3. Before(p) \in SUBSET Before(e)
    <3>1. \A q \in Ahead : q \in Nat
      BY ScanAssumption DEF Ahead, Running
    <3>2. \A q \in Ahead : q < p => q < e
      BY <2>1, <2>2, <3>1
    <3>3. QED
      BY <3>2 DEF Before
  <2>4. Cardinality(Before(p)) <= Cardinality(Before(e))
    BY <2>1, <2>3, BeforeIsFinite, FS_Subset DEF TableInv
  <2>5. /\ Cardinality(Before(p)) \in Nat /\ Cardinality(Before(e)) \in Nat
        /\ Cardinality(Before(e)) < BufferSize
    BY <1>1, <2>1, BeforeIsFinite DEF TableInv
  <2>6. Cardinality(Before(p)) < BufferSize
    BY <2>4, <2>5, ScanAssumption
  <2>7. QED
    BY <1>1, <1>6, <2>1, <2>6
<1>7. DueInv'
  <2>1. due' \subseteq Running'
    BY <1>1 DEF TableInv, DueInv, Running
  <2>2. \A p \in due' : Behind(p)' => Positions(p)' # {}
    BY <1>1 DEF TableInv, DueInv, Behind, Positions
  <2>3. QED
    BY <1>1, <1>6, <2>1, <2>2 DEF DueInv
<1>8. QED
  BY <1>3, <1>4, <1>5, <1>7 DEF TableInv

\* Nothing was read between the entries p and q.
LEMMA SkippedIds ==
    ASSUME TableInv, NEW p \in Nat, entry < p, NEW kinds, "absent" \notin kinds,
           names' = names
    PROVE  LastWith(kinds, p)' = LastWith(kinds, entry)
<1>1. \A q \in ScanPids : names[q] \in kinds => q <= entry
  BY Numbers DEF TableInv, FieldsInv
<1>2. \A q \in ScanPids : q <= entry => q <= p
  BY Numbers DEF TableInv
<1>3. Ids(kinds, p)' = Ids(kinds, entry)
  BY <1>1, <1>2 DEF Ids
<1>4. QED
  BY <1>3, SameIds

LEMMA Skips == TableInv /\ SkipEntry => TableInv'
<1> SUFFICES ASSUME TableInv, SkipEntry PROVE TableInv'
  OBVIOUS
<1>0. PICK p : p = Min(entries)
  OBVIOUS
<1>1. /\ reader = "entries" /\ entries # {} /\ table[p] = "absent"
      /\ entry' = p /\ entries' = entries \ {p}
      /\ UNCHANGED <<table, reader, parsed, process_list, due, names>>
  BY <1>0 DEF SkipEntry
<1>2. /\ entry < p /\ p \in ScanPids /\ p \in Nat
      /\ WalkInv'
      /\ \A q \in due : q < p => Behind(q)
      /\ \A q \in due : p < q /\ q \notin entries' => \A e \in entries' : e < q
  BY <1>0, <1>1, NextEntry
<1>3. TableTypeOK'
  BY <1>1, <1>2 DEF TableInv, TableTypeOK
<1>4. ListInv'
  BY <1>1, <1>2, ListKept, Numbers DEF TableInv, Behind
<1>5. \A kinds : "absent" \notin kinds =>
        LastWith(kinds, p)' = LastWith(kinds, entry)
  BY <1>1, <1>2, SkippedIds
<1>6. \A kinds, q : LastWith(kinds, q)' = LastWith(kinds, q)
  BY <1>1, SameIds DEF Ids
<1>7. FieldsInv'
  <2>1. (parsed.comm = LastWith(Named, entry) /\ parsed.ppid = LastWith(Plain, entry))'
    BY <1>1, <1>5 DEF TableInv, FieldsInv, Named, Plain
  <2>2. \A q \in ScanPids : entry' < q => names'[q] = "absent"
    BY <1>1, <1>2, Numbers DEF TableInv, FieldsInv
  <2>3. FieldsOfNearestReadable'
    BY <1>1, <1>6 DEF TableInv, FieldsInv, FieldsOfNearestReadable, Named, Plain
  <2>4. QED
    BY <2>1, <2>2, <2>3 DEF FieldsInv
<1>8. DueInv'
  <2>1. p \notin due /\ due' \subseteq Running'
    BY <1>1 DEF TableInv, DueInv, Running
  <2>2. \A q \in due' : Behind(q)' => Positions(q)' # {}
    BY <1>1, <1>2, <2>1, Numbers DEF TableInv, TableTypeOK, DueInv, Behind, Positions
  <2>3. QED
    BY <1>1, <1>2, <2>1, <2>2 DEF DueInv
<1>9. QED
  BY <1>2, <1>3, <1>4, <1>7, <1>8 DEF TableInv

LEMMA Fails == TableInv /\ MallocFails => TableInv'
<1> SUFFICES ASSUME TableInv, MallocFails PROVE TableInv'
  OBVIOUS
<1>1. /\ reader = "parsed" /\ reader' = "entries" /\ due' = due \ {entry}
      /\ UNCHANGED <<table, entries, entry, parsed, process_list, names>>
  BY DEF MallocFails
<1>2. TableTypeOK' /\ WalkInv'
  BY <1>1 DEF TableInv, TableTypeOK, WalkInv
<1>3. ListInv' /\ FieldsInv'
  BY <1>1, ListKept, FieldsKept DEF TableInv, Behind
<1>4. DueInv'
  <2>1. due' \subseteq Running'
    BY <1>1 DEF TableInv, DueInv, Running
  <2>2. \A p \in due' : Behind(p)' => Behind(p)
    BY <1>1 DEF Behind
  <2>3. \A p \in due' : Behind(p)' => Positions(p)' # {}
    BY <1>1, <2>2 DEF TableInv, DueInv, Positions
  <2>4. QED
    BY <1>1, <2>1, <2>3 DEF TableInv, DueInv
<1>5. QED
  BY <1>2, <1>3, <1>4 DEF TableInv

LEMMA Finishes == TableInv /\ EndOfProc => TableInv'
<1> SUFFICES ASSUME TableInv, EndOfProc PROVE TableInv'
  OBVIOUS
<1>1. /\ reader = "entries" /\ Ahead = {} /\ reader' = "idle"
      /\ UNCHANGED <<table, entries, entry, parsed, process_list, due, names>>
  BY DEF EndOfProc
<1>2. TableTypeOK' /\ WalkInv'
  BY <1>1 DEF TableInv, TableTypeOK, WalkInv
<1>3. ListInv' /\ FieldsInv'
  BY <1>1, ListKept, FieldsKept DEF TableInv, Behind
<1>4. DueInv'
  <2>1. \A p \in due : p \in Nat /\ ~(entry < p)
    BY <1>1, ScanAssumption DEF TableInv, TableTypeOK, DueInv, Ahead, Running
  <2>2. \A p \in due : Behind(p)
    BY <1>1, <2>1, Numbers DEF TableInv, Behind
  <2>3. QED
    BY <1>1, <2>2 DEF TableInv, DueInv, Behind, Positions, Running
<1>5. QED
  BY <1>2, <1>3, <1>4 DEF TableInv

\* The line of p has been read; those before it are as they were.
LEMMA ReadIds ==
    ASSUME TableInv, NEW p \in ScanPids, entry < p,
           NEW name \in Names, names' = [names EXCEPT ![p] = name],
           NEW kinds, "absent" \notin kinds
    PROVE  /\ name \in kinds => LastWith(kinds, p)' = p
           /\ name \notin kinds => LastWith(kinds, p)' = LastWith(kinds, entry)
           /\ \A q \in Nat : q <= entry => LastWith(kinds, q)' = LastWith(kinds, q)
<1>1. /\ p \in Nat /\ entry \in Nat /\ ScanPids \subseteq Nat
      /\ names'[p] = name
      /\ \A q \in ScanPids : q # p => names'[q] = names[q]
  BY Numbers DEF TableInv, TableTypeOK
<1>2. \A q \in ScanPids : entry < q => names[q] = "absent"
  BY DEF TableInv, FieldsInv
<1>3. ASSUME name \in kinds PROVE LastWith(kinds, p)' = p
  <2>1. p \in Ids(kinds, p)' /\ \A q \in Ids(kinds, p)' : q <= p
    BY <1>1, <1>3 DEF Ids
  <2>2. Ids(kinds, p)' \in SUBSET Nat
    BY <1>1 DEF Ids
  <2>3. Max(Ids(kinds, p)') = p
    BY <2>1, <2>2, MaxIs
  <2>4. LastWith(kinds, p)' = Max(Ids(kinds, p)')
    BY <2>1 DEF LastWith, Ids
  <2>5. QED
    BY <2>3, <2>4
<1>4. ASSUME name \notin kinds PROVE LastWith(kinds, p)' = LastWith(kinds, entry)
  <2>1. ASSUME NEW q \in ScanPids
        PROVE  q <= p /\ names'[q] \in kinds <=> q <= entry /\ names[q] \in kinds
    BY <1>1, <1>2, <1>4
  <2>2. Ids(kinds, p)' = Ids(kinds, entry)
    BY <2>1 DEF Ids
  <2>3. QED
    BY <2>2, SameIds
<1>5. ASSUME NEW q \in Nat, q <= entry
      PROVE  LastWith(kinds, q)' = LastWith(kinds, q)
  <2>1. \A r \in ScanPids : r <= q => r # p
    BY <1>1, <1>5
  <2>2. Ids(kinds, q)' = Ids(kinds, q)
    BY <1>1, <2>1 DEF Ids
  <2>3. QED
    BY <2>2, SameIds
<1>6. QED
  BY <1>3, <1>4, <1>5

LEMMA Reads == TableInv /\ ReadEntry => TableInv'
<1> SUFFICES ASSUME TableInv, ReadEntry PROVE TableInv'
  OBVIOUS
<1>0. PICK p : p = Min(entries)
  OBVIOUS
<1>1. /\ reader = "entries" /\ entries # {} /\ table[p] # "absent"
      /\ entry' = p /\ entries' = entries \ {p} /\ reader' = "parsed"
      /\ parsed' = ScanLine(p, table[p], parsed)
      /\ names' = [names EXCEPT ![p] = table[p]]
      /\ UNCHANGED <<table, process_list, due>>
  BY <1>0 DEF ReadEntry
<1>2. /\ entry < p /\ p \in ScanPids /\ p \in Nat
      /\ WalkInv'
      /\ \A q \in due : q < p => Behind(q)
      /\ \A q \in due : p < q /\ q \notin entries' => \A e \in entries' : e < q
  BY <1>0, <1>1, NextEntry
<1>3. PICK name \in Names : name = table[p]
  BY <1>1, <1>2 DEF TableInv, TableTypeOK
<1>4. TableTypeOK'
  <2>1. parsed' \in [comm : ScanPids \cup {Garbage}, ppid : ScanPids \cup {Garbage}]
    BY <1>1, <1>2 DEF TableInv, TableTypeOK, ScanLine
  <2>2. names' \in [ScanPids -> Names \cup {"absent"}]
    BY <1>1, <1>3 DEF TableInv, TableTypeOK
  <2>3. QED
    BY <1>1, <1>2, <2>1, <2>2 DEF TableInv, TableTypeOK
<1>5. \A q \in Nat : Behind(q) => q <= entry /\ Behind(q)'
  BY <1>1, <1>2, Numbers DEF TableInv, Behind
<1>6. ListInv'
  BY <1>1, <1>5, ListKept DEF TableInv
<1>7. FieldsInv'
  <2>0. names' = [names EXCEPT ![p] = name] /\ "absent" \notin Named /\ "absent" \notin Plain
    BY <1>1, <1>3 DEF Named, Plain
  <2>1. /\ name \in Named => LastWith(Named, p)' = p
        /\ name \notin Named => LastWith(Named, p)' = LastWith(Named, entry)
        /\ \A q \in Nat : q <= entry => LastWith(Named, q)' = LastWith(Named, q)
    BY <1>2, <2>0, ReadIds
  <2>2. /\ name \in Plain => LastWith(Plain, p)' = p
        /\ name \notin Plain => LastWith(Plain, p)' = LastWith(Plain, entry)
        /\ \A q \in Nat : q <= entry => LastWith(Plain, q)' = LastWith(Plain, q)
    BY <1>2, <2>0, ReadIds
  <2>3. (parsed.comm = LastWith(Named, entry))'
    BY <1>1, <1>3, <2>1 DEF TableInv, FieldsInv, ScanLine, Names, Named
  <2>4. (parsed.ppid = LastWith(Plain, entry))'
    BY <1>1, <1>3, <2>2 DEF TableInv, FieldsInv, ScanLine, Names, Plain
  <2>5. \A q \in ScanPids : entry' < q => names'[q] = "absent"
    BY <1>1, <1>2, Numbers DEF TableInv, TableTypeOK, FieldsInv
  <2>6. FieldsOfNearestReadable'
    <3>1. \A i \in DOMAIN process_list :
            process_list[i].pid \in Nat /\ process_list[i].pid <= entry
      BY <1>5, Numbers DEF TableInv, ListInv
    <3>2. QED
      BY <1>1, <2>1, <2>2, <3>1 DEF TableInv, FieldsInv, FieldsOfNearestReadable, Named, Plain
  <2>7. QED
    BY <2>3, <2>4, <2>5, <2>6 DEF FieldsInv
<1>8. DueInv'
  <2>1. due' \subseteq Running'
    BY <1>1 DEF TableInv, DueInv, Running
  <2>2. \A q \in due' : Behind(q)' => Positions(q)' # {}
    BY <1>1, <1>2 DEF TableInv, DueInv, Behind, Positions
  <2>3. QED
    BY <1>1, <1>2, <2>1, <2>2 DEF DueInv
<1>9. QED
  BY <1>2, <1>4, <1>6, <1>7, <1>8 DEF TableInv

LEMMA Adds == TableInv /\ AddNode => TableInv'
<1> SUFFICES ASSUME TableInv, AddNode PROVE TableInv'
  OBVIOUS
<1>1. PICK n : /\ n = [pid |-> entry, comm |-> parsed.comm, ppid |-> parsed.ppid,
                       exe |-> IF table[entry] = "absent" THEN "unknown" ELSE "linked"]
               /\ process_list' = <<n>> \o process_list
  BY DEF AddNode
<1>2. /\ reader = "parsed" /\ reader' = "entries" /\ entry \in ScanPids
      /\ UNCHANGED <<table, entries, entry, parsed, due, names>>
  BY DEF AddNode, TableInv, WalkInv
<1>3. n \in Node
  BY <1>1, <1>2 DEF TableInv, TableTypeOK, Node
<1>4. process_list \in Seq(Node) /\ <<n>> \in Seq(Node)
  BY <1>3 DEF TableInv, TableTypeOK
<1>5. /\ process_list' \in Seq(Node)
      /\ DOMAIN process_list' = 1 .. (1 + Len(process_list))
      /\ process_list'[1] = n
      /\ \A i \in 2 .. (1 + Len(process_list)) :
           /\ process_list'[i] = process_list[i - 1]
           /\ i - 1 \in DOMAIN process_list
      /\ \A i \in DOMAIN process_list :
           /\ process_list'[i + 1] = process_list[i]
           /\ i + 1 \in DOMAIN process_list'
  BY <1>1, <1>4
<1>6. TableTypeOK' /\ WalkInv'
  BY <1>2, <1>5 DEF TableInv, TableTypeOK, WalkInv
<1>7. /\ \A p \in Nat : Behind(p) => Behind(p)'
      /\ \A p \in Nat : Behind(p) => p < entry
  BY <1>2, Numbers DEF TableInv, Behind
<1>8. ListInv'
  <2>1. \A i \in DOMAIN process_list :
          process_list[i].pid \in Nat /\ process_list[i].pid < entry
    BY <1>7, Numbers DEF TableInv, ListInv
  <2>2. \A i \in DOMAIN process_list' :
          i = 1 \/ (i \in 2 .. (1 + Len(process_list)) /\ i - 1 \in DOMAIN process_list)
    BY <1>4, <1>5
  <2>3. (\A i \in DOMAIN process_list : Behind(process_list[i].pid))'
    BY <1>1, <1>2, <1>5, <2>1, <2>2 DEF Behind
  <2>4. ASSUME NEW i \in DOMAIN process_list', NEW j \in DOMAIN process_list', i # j
        PROVE  process_list'[i].pid # process_list'[j].pid
    <3>1. CASE i = 1
      BY <1>1, <1>2, <1>5, <2>1, <2>2, <2>4, <3>1, Numbers DEF TableInv
    <3>2. CASE j = 1
      BY <1>1, <1>2, <1>5, <2>1, <2>2, <2>4, <3>2, Numbers DEF TableInv
    <3>3. CASE i # 1 /\ j # 1
      <4>1. /\ i - 1 \in DOMAIN process_list /\ j - 1 \in DOMAIN process_list
            /\ i - 1 # j - 1
            /\ process_list'[i] = process_list[i - 1]
            /\ process_list'[j] = process_list[j - 1]
        BY <1>4, <1>5, <2>2, <2>4, <3>3
      <4>2. QED
        BY <4>1 DEF TableInv, ListInv
    <3>4. QED
      BY <3>1, <3>2, <3>3
  <2>5. QED
    BY <2>3, <2>4 DEF ListInv
<1>9. FieldsInv'
  <2>1. \A kinds, p : LastWith(kinds, p)' = LastWith(kinds, p)
    BY <1>2, SameIds DEF Ids
  <2>2. ASSUME NEW i \in DOMAIN process_list'
        PROVE  /\ process_list'[i].comm = LastWith({"plain", "paren"}, process_list'[i].pid)
               /\ process_list'[i].ppid = LastWith({"plain"}, process_list'[i].pid)
    <3>1. CASE i = 1
      BY <1>1, <1>5, <3>1 DEF TableInv, FieldsInv, Named, Plain
    <3>2. CASE i # 1
      <4>1. process_list'[i] = process_list[i - 1] /\ i - 1 \in DOMAIN process_list
        BY <1>4, <1>5, <3>2
      <4>2. QED
        BY <4>1 DEF TableInv, FieldsInv, FieldsOfNearestReadable, Named, Plain
    <3>3. QED
      BY <3>1, <3>2
  <2>3. FieldsOfNearestReadable'
    BY <2>1, <2>2 DEF FieldsOfNearestReadable
  <2>4. QED
    BY <1>2, <2>1, <2>3 DEF TableInv, FieldsInv
<1>10. DueInv'
  <2>1. due' \subseteq Running'
    BY <1>2 DEF TableInv, DueInv, Running
  <2>2. ASSUME NEW p \in due, Behind(p)' PROVE Positions(p)' # {}
    <3>1. CASE p = entry
      BY <1>1, <1>5, <3>1 DEF Positions
    <3>2. CASE p # entry
      <4>1. PICK i \in DOMAIN process_list : process_list[i].pid = p
        BY <1>2, <2>2, <3>2 DEF TableInv, DueInv, Behind, Positions
      <4>2. i + 1 \in Positions(p)'
        BY <1>5, <4>1 DEF Positions
      <4>3. QED
        BY <4>2
    <3>3. QED
      BY <3>1, <3>2
  <2>3. QED
    BY <1>2, <2>1, <2>2 DEF TableInv, DueInv
<1>11. QED
  BY <1>6, <1>8, <1>9, <1>10 DEF TableInv
-----------------------------------------------------------------------------
LEMMA TableStep == TableInv /\ [TableNext]_tableVars => TableInv'
<1> SUFFICES ASSUME TableInv, [TableNext]_tableVars PROVE TableInv'
  OBVIOUS
<1>1. CASE UNCHANGED tableVars
  <2>1. UNCHANGED <<table, reader, entries, entry, parsed, process_list, due, names>>
    BY <1>1 DEF tableVars
  <2>2. TableTypeOK' /\ WalkInv' /\ DueInv'
    BY <2>1 DEF TableInv, TableTypeOK, WalkInv, DueInv, Behind, Positions, Running
  <2>3. ListInv' /\ FieldsInv'
    BY <2>1, ListKept, FieldsKept DEF TableInv, Behind
  <2>4. QED
    BY <2>2, <2>3 DEF TableInv
<1>2. QED
  BY <1>1, Starts, Ends, Opens, Fills, Skips, Reads, Fails, Adds, Finishes DEF TableNext

LEMMA TableAlways == TableSpec => []TableInv
  BY Start, TableStep, PTL DEF TableSpec

(***************************************************************************)
(* The walk and its list keep their types, for any process ids.            *)
(***************************************************************************)
THEOREM TableTypes == TableSpec => []TableTypeOK
<1>1. TableInv => TableTypeOK
  BY DEF TableInv
<1>2. QED
  BY <1>1, TableAlways, PTL

(***************************************************************************)
(* A scan lists every process that runs from its start to its end, once,   *)
(* whatever else starts and ends meanwhile and however small the buffer.   *)
(***************************************************************************)
THEOREM StayersListed == TableSpec => []StayersListedOnce
<1>1. TableInv => StayersListedOnce
  BY DEF TableInv, ListInv, DueInv, StayersListedOnce
<1>2. QED
  BY <1>1, TableAlways, PTL

(***************************************************************************)
(* Name and parent of a node are its own or those of the nearest readable  *)
(* entry before it, whichever entries could not be read.                   *)
(***************************************************************************)
THEOREM NearestReadable == TableSpec => []FieldsOfNearestReadable
<1>1. TableInv => FieldsOfNearestReadable
  BY DEF TableInv, FieldsInv
<1>2. QED
  BY <1>1, TableAlways, PTL
=============================================================================
