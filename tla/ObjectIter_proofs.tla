--------------------------- MODULE ObjectIter_proofs ---------------------------
(***************************************************************************)
(* An iteration delivers exactly the objects it has to, for any number of  *)
(* journals, any layout of objects and any interleaving with journald.     *)
(***************************************************************************)
EXTENDS ObjectIter, TLAPS

\* Where journald puts objects: one after another from header_size to end,
\* each as far behind the one before it as that one's size, aligned, says.
Layout ==
    \A j \in Journal :
       /\ end[j] >= header_size
       /\ header_size \in starts[j] \cup {end[j]}
       /\ \A o \in starts[j] :
             /\ header_size <= o /\ o < end[j]
             /\ at[j][o].size # 0 =>
                   /\ o + ALIGN64(at[j][o].size) \in starts[j] \cup {end[j]}
                   /\ \A p \in starts[j] : p > o => p >= o + ALIGN64(at[j][o].size)
             /\ intact[j] => at[j][o].size # 0
       /\ IF starts[j] = {} THEN tail[j] = 0 ELSE tail[j] \in starts[j]
       /\ \A o \in starts[j] : o <= tail[j]

\* The header an iteration goes by was the file's at some time.
Snapshot ==
    \A j \in Journal : it[j].st \in {"reading", "done"} =>
       /\ it[j].tail \in starts[j] \cup {0}
       /\ it[j].tail <= tail[j]

\* How far a pass has come: the objects before *iter_offset were delivered.
Progress ==
    \A j \in Journal :
       /\ it[j].st \in {"idle", "header"} => seen[j] = NotSeen /\ it[j].offset = 0
       /\ it[j].st = "done" => it[j].offset = 0
       /\ it[j].st = "reading" =>
             /\ it[j].offset \in Expected(j)
             /\ \A o \in Offset :
                   seen[j][o] = IF o \in Expected(j) /\ o < it[j].offset THEN 1 ELSE 0

IInv ==
    /\ TypeOK
    /\ Layout
    /\ Snapshot
    /\ ReadsObjects
    /\ Progress
    /\ IterationComplete

\* ALIGN64() rounds up to a multiple of 8, by less than 8.
LEMMA AlignFacts ==
    ASSUME NEW x \in Nat
    PROVE  /\ ALIGN64(x) \in Nat /\ ALIGN64(x) >= x /\ ALIGN64(x) < x + 8
           /\ ALIGN64(x) % 8 = 0
           /\ x > 0 => ALIGN64(x) > 0
BY DEF ALIGN64

\* A multiple of 8 stays one when another is added.
LEMMA AlignedSum ==
    ASSUME NEW x \in Nat, NEW y \in Nat, x % 8 = 0, y % 8 = 0
    PROVE  (x + y) % 8 = 0
OBVIOUS

\* What the proofs need to know of offsets.
LEMMA OffsetFacts ==
    /\ 0 \in Offset /\ header_size \in Offset /\ header_size > 0
    /\ \A o \in Offset : o \in Nat /\ o <= MaxEnd
    /\ \A x \in Offset, s \in Nat :
          x + ALIGN64(s) <= MaxEnd => x + ALIGN64(s) \in Offset
<1>1. 0 \in Offset /\ header_size \in Offset /\ header_size > 0
  BY IterAssumption DEF Offset
<1>2. \A o \in Offset : o \in Nat /\ o <= MaxEnd
  BY DEF Offset
<1>3. ASSUME NEW x \in Offset, NEW s \in Nat, x + ALIGN64(s) <= MaxEnd
      PROVE  x + ALIGN64(s) \in Offset
  <2>1. x \in Nat /\ x % 8 = 0 /\ ALIGN64(s) \in Nat /\ ALIGN64(s) % 8 = 0
    BY AlignFacts DEF Offset
  <2>2. \A y \in Nat : y % 8 = 0 => (x + y) % 8 = 0 /\ x + y \in Nat
    BY <2>1, AlignedSum
  <2> QED
    BY <1>3, <2>1, <2>2, IterAssumption DEF Offset
<1> QED
  BY <1>1, <1>2, <1>3

-----------------------------------------------------------------------------
\* The objects to deliver from journal j by a header with tail object tl.
Deliver(j, tl) ==
    {o \in starts[j] : o <= tl /\ \A p \in starts[j] : p < o => at[j][p].size # 0}

\* journal_iter_next_object() moves to the very next object to deliver, or to
\* 0 when there is none.
LEMMA NextObject ==
    ASSUME TypeOK, Layout, NEW j \in Journal, NEW tl \in starts[j] \cup {0},
           NEW o, NEW object \in Object,
           o = 0 \/ (o \in Deliver(j, tl) /\ object = at[j][o])
    PROVE  LET n == NextOffset(o, object.size, tl)
           IN  /\ n \in Offset
               /\ n # 0 => /\ n \in Deliver(j, tl) /\ n > o
                           /\ \A p \in Deliver(j, tl) : p < n => p <= o
               /\ n = 0 => \A p \in Deliver(j, tl) : p <= o
<1> DEFINE n == NextOffset(o, object.size, tl)
           A == ALIGN64(object.size)
<1> SUFFICES /\ n \in Offset
             /\ n # 0 => /\ n \in Deliver(j, tl) /\ n > o
                         /\ \A p \in Deliver(j, tl) : p < n => p <= o
             /\ n = 0 => \A p \in Deliver(j, tl) : p <= o
  OBVIOUS
<1>1. /\ starts[j] \subseteq Offset /\ tl \in Offset /\ tl \in Nat /\ end[j] \in Nat
      /\ 0 \in Offset /\ header_size \in Nat /\ header_size > 0 /\ header_size \in Offset
      /\ \A x \in starts[j] : x \in Nat
  BY OffsetFacts, IterAssumption DEF TypeOK
<1>2. /\ header_size \in starts[j] \cup {end[j]}
      /\ \A x \in starts[j] : header_size <= x /\ x < end[j]
  BY DEF Layout
<1>3. CASE o = 0
  <2>1. n = IF header_size > tl THEN 0 ELSE header_size
    BY <1>3 DEF NextOffset
  <2> HIDE DEF n
  <2>2. CASE header_size > tl
    BY <1>1, <1>2, <2>1, <2>2 DEF Deliver
  <2>3. CASE header_size <= tl
    <3>1. tl \in starts[j] /\ header_size \in starts[j]
      BY <1>1, <1>2, <2>3
    <3> QED
      BY <1>1, <1>2, <1>3, <2>1, <2>3, <3>1 DEF Deliver
  <2> QED
    BY <1>1, <2>2, <2>3
<1>4. CASE o # 0 /\ object.size = 0
  <2>1. n = 0
    BY <1>1, <1>4 DEF NextOffset
  <2> QED
    BY <1>1, <1>4, <2>1 DEF Deliver
<1>5. CASE o # 0 /\ object.size # 0
  <2>1. o \in starts[j] /\ o <= tl /\ object = at[j][o] /\ o \in Nat
        /\ \A p \in starts[j] : p < o => at[j][p].size # 0
    BY <1>1, <1>5 DEF Deliver
  <2>2. A \in Nat /\ A > 0
    <3>1. object.size \in Nat /\ object.size > 0
      <4>1. object.size \in Size
        BY <1>5 DEF Object
      <4>2. \A x \in Size : x \in Nat /\ x > 0
        BY IterAssumption
      <4> QED
        BY <4>1, <4>2
    <3> QED
      BY <3>1, AlignFacts
  <2>3. /\ o + A \in starts[j] \cup {end[j]}
        /\ \A p \in starts[j] : p > o => p >= o + A
    BY <1>5, <2>1 DEF Layout
  <2>4. n = IF o + A > tl THEN 0 ELSE o + A
    BY <1>5 DEF NextOffset
  <2> HIDE DEF n, A
  <2>5. CASE o + A > tl
    BY <1>1, <2>1, <2>2, <2>3, <2>4, <2>5 DEF Deliver
  <2>6. CASE o + A <= tl
    <3>1. tl \in starts[j]
      BY <1>1, <2>1, <2>2, <2>6
    <3>2. o + A \in starts[j]
      BY <1>1, <1>2, <2>1, <2>2, <2>3, <2>6, <3>1
    <3>3. \A p \in starts[j] : p < o + A => p <= o
      BY <1>1, <2>1, <2>2, <2>3
    <3>4. o + A \in Deliver(j, tl)
      BY <1>1, <1>5, <2>1, <2>6, <3>2, <3>3 DEF Deliver
    <3> QED
      BY <1>1, <2>1, <2>2, <2>4, <2>6, <3>2, <3>3, <3>4 DEF Deliver
  <2> QED
    BY <1>1, <2>1, <2>2, <2>5, <2>6
<1> QED
  BY <1>3, <1>4, <1>5

\* Moving an iteration on keeps the invariant, when what was delivered so far
\* is what lies up to o.
LEMMA ContinueIInv ==
    ASSUME IInv, NEW j \in Journal, NEW tl \in starts[j] \cup {0}, tl <= tail[j],
           NEW o, NEW object \in Object, NEW counts \in [Offset -> 0 .. 2],
           o = 0 \/ (o \in Deliver(j, tl) /\ object = at[j][o]),
           \A x \in Offset : counts[x] = IF x \in Deliver(j, tl) /\ x <= o THEN 1 ELSE 0,
           Continue(j, tl, o, object, counts),
           UNCHANGED <<starts, at, end, tail, intact, err>>
    PROVE  IInv'
<1> DEFINE n == NextOffset(o, object.size, tl)
<1>1. /\ n \in Offset
      /\ n # 0 => /\ n \in Deliver(j, tl) /\ n > o
                  /\ \A p \in Deliver(j, tl) : p < n => p <= o
      /\ n = 0 => \A p \in Deliver(j, tl) : p <= o
  BY NextObject DEF IInv
<1>2. /\ it' = [it EXCEPT ![j] = [st |-> IF n = 0 THEN "done" ELSE "reading",
                                  tail |-> tl, offset |-> n, object |-> object]]
      /\ seen' = [seen EXCEPT ![j] = IF n = 0 THEN Bump(counts, 0) ELSE counts]
  BY DEF Continue
<1> HIDE DEF n
<1>3. /\ it'[j] = [st |-> IF n = 0 THEN "done" ELSE "reading",
                   tail |-> tl, offset |-> n, object |-> object]
      /\ seen'[j] = IF n = 0 THEN Bump(counts, 0) ELSE counts
      /\ \A i \in Journal : i # j => it'[i] = it[i] /\ seen'[i] = seen[i]
  BY <1>2 DEF IInv, TypeOK
<1>4. /\ 0 \in Offset /\ tl \in Offset /\ starts[j] \subseteq Offset
      /\ \A x \in Offset : x \in Nat
      /\ 0 \notin Deliver(j, tl) /\ Deliver(j, tl) \subseteq Offset
      /\ o \in Nat
  <2>1. starts[j] \subseteq Offset /\ \A x \in starts[j] : x >= header_size
    BY DEF IInv, TypeOK, Layout
  <2> QED
    BY <2>1, OffsetFacts DEF Deliver
<1>5. counts[0] = 0
  BY <1>4
<1>6. /\ Bump(counts, 0) \in [Offset -> 0 .. 2]
      /\ \A x \in Offset : Bump(counts, 0)[x] = IF x = 0 THEN 1 ELSE counts[x]
  BY <1>4, <1>5 DEF Bump
<1>7. Expected(j)' = Deliver(j, tl)
  BY <1>3 DEF Expected, Deliver
<1>8. \A i \in Journal : i # j => Expected(i)' = Expected(i)
  BY <1>3 DEF Expected
<1>9. TypeOK'
  <2>1. it'[j] \in [st : {"idle", "header", "reading", "done"},
                    tail : Offset, offset : Offset, object : Object]
    BY <1>1, <1>3, <1>4
  <2>2. seen'[j] \in [Offset -> 0 .. 2]
    BY <1>3, <1>6
  <2> QED
    BY <1>2, <2>1, <2>2 DEF IInv, TypeOK
<1>10. Layout'
  BY DEF IInv, Layout
<1>11. Snapshot'
  BY <1>3 DEF IInv, Snapshot
<1>12. ReadsObjects'
  BY <1>1, <1>3 DEF IInv, ReadsObjects, Deliver
<1>13. Progress'
  <2>1. ASSUME n # 0
        PROVE  \A x \in Offset : seen'[j][x] = IF x \in Deliver(j, tl) /\ x < n THEN 1 ELSE 0
    <3>1. \A x \in Offset : (x \in Deliver(j, tl) /\ x < n) <=> (x \in Deliver(j, tl) /\ x <= o)
      BY <1>1, <1>4, <2>1
    <3> QED
      BY <1>3, <2>1, <3>1
  <2>2. ASSUME NEW i \in Journal, i # j
        PROVE  it'[i] = it[i] /\ seen'[i] = seen[i] /\ Expected(i)' = Expected(i)
    BY <1>3, <1>8, <2>2
  <2> QED
    BY <1>1, <1>3, <1>7, <2>1, <2>2 DEF IInv, Progress
<1>14. IterationComplete'
  <2>1. ASSUME n = 0
        PROVE  seen'[j] = [x \in Offset |-> IF x = 0 \/ x \in Deliver(j, tl) THEN 1 ELSE 0]
    <3>1. \A x \in Offset : x \in Deliver(j, tl) => x <= o
      BY <1>1, <2>1
    <3>2. seen'[j] \in [Offset -> 0 .. 2]
          /\ \A x \in Offset : seen'[j][x] = IF x = 0 THEN 1 ELSE counts[x]
      BY <1>3, <1>6, <2>1
    <3>3. \A x \in Offset : seen'[j][x] = IF x = 0 \/ x \in Deliver(j, tl) THEN 1 ELSE 0
      BY <3>1, <3>2
    <3> QED
      BY <3>2, <3>3
  <2> QED
    BY <1>3, <1>7, <1>8, <2>1 DEF IInv, IterationComplete
<1> QED
  BY <1>9, <1>10, <1>11, <1>12, <1>13, <1>14 DEF IInv

\* The three steps that move an iteration on.
LEMMA IterIInv ==
    ASSUME IInv, NEW j \in Journal,
           got_header(j) \/ got_iter_object_header(j) \/ IterAgain(j)
    PROVE  IInv'
<1>1. /\ it[j].object \in Object /\ it[j].offset \in Offset
      /\ seen[j] \in [Offset -> 0 .. 2] /\ at[j] \in [Offset -> Object]
      /\ starts[j] \subseteq Offset /\ tail[j] \in Nat
      /\ \A x \in starts[j] : x >= header_size /\ x > 0
      /\ \A x \in Offset : x \in Nat
  BY OffsetFacts DEF IInv, TypeOK, Layout
<1>2. /\ NotSeen \in [Offset -> 0 .. 2] /\ \A x \in Offset : NotSeen[x] = 0
  BY DEF NotSeen
<1>3. \A tl : \A x \in Offset : ~ (x \in Deliver(j, tl) /\ x <= 0)
  BY <1>1 DEF Deliver
<1>4. CASE got_header(j)
  <2>1. PICK tl \in starts[j] \cup {0}, object \in Object :
           /\ tl <= tail[j]
           /\ Continue(j, tl, 0, object, NotSeen)
           /\ UNCHANGED <<starts, at, end, tail, intact, err>>
    <3>1. Continue(j, tail[j], 0, it[j].object, NotSeen)
          /\ UNCHANGED <<starts, at, end, tail, intact, err>>
      BY <1>4 DEF got_header, IInv, Progress
    <3>2. tail[j] \in starts[j] \cup {0} /\ tail[j] <= tail[j]
      BY <1>1 DEF IInv, Layout
    <3> QED
      BY <1>1, <3>1, <3>2
  <2>2. \A x \in Offset : NotSeen[x] = IF x \in Deliver(j, tl) /\ x <= 0 THEN 1 ELSE 0
    BY <1>2, <1>3
  <2> QED
    BY <1>2, <2>1, <2>2, ContinueIInv
<1>5. CASE IterAgain(j)
  <2>1. /\ it[j].offset = 0 /\ it[j].tail \in starts[j] \cup {0} /\ it[j].tail <= tail[j]
        /\ Continue(j, it[j].tail, 0, it[j].object, NotSeen)
        /\ UNCHANGED <<starts, at, end, tail, intact, err>>
    BY <1>5 DEF IterAgain, IInv, Progress, Snapshot
  <2>2. \A x \in Offset : NotSeen[x] = IF x \in Deliver(j, it[j].tail) /\ x <= 0 THEN 1 ELSE 0
    BY <1>2, <1>3
  <2> QED
    BY <1>1, <1>2, <2>1, <2>2, ContinueIInv
<1>6. CASE got_iter_object_header(j)
  <2> DEFINE o == it[j].offset
             tl == it[j].tail
             counts == Bump(seen[j], o)
  <2>1. /\ o \in Deliver(j, tl) /\ tl \in starts[j] \cup {0} /\ tl <= tail[j]
        /\ \A x \in Offset : seen[j][x] = IF x \in Deliver(j, tl) /\ x < o THEN 1 ELSE 0
        /\ Continue(j, tl, o, at[j][o], counts)
        /\ UNCHANGED <<starts, at, end, tail, intact, err>>
    <3>1. Deliver(j, tl) = Expected(j)
      BY DEF Deliver, Expected
    <3> QED
      BY <1>6, <3>1 DEF got_iter_object_header, IInv, Progress, Snapshot
  <2>2. /\ counts \in [Offset -> 0 .. 2]
        /\ \A x \in Offset : counts[x] = IF x \in Deliver(j, tl) /\ x <= o THEN 1 ELSE 0
    <3>1. o \in Offset /\ seen[j][o] = 0
      BY <1>1, <2>1
    <3>2. /\ counts \in [Offset -> 0 .. 2]
          /\ \A x \in Offset : counts[x] = IF x = o THEN 1 ELSE seen[j][x]
      BY <1>1, <3>1 DEF Bump
    <3> HIDE DEF counts, o, tl
    <3> QED
      BY <1>1, <2>1, <3>1, <3>2
  <2>3. at[j][o] \in Object
    BY <1>1
  <2> HIDE DEF counts, o, tl
  <2> QED
    BY <2>1, <2>2, <2>3, ContinueIInv
<1> QED
  BY <1>4, <1>5, <1>6

-----------------------------------------------------------------------------
\* The initial state satisfies the invariant.
LEMMA InitIInv == Init => IInv
<1> SUFFICES ASSUME Init PROVE IInv
  OBVIOUS
<1> USE DEF Init
<1>1. Blank \in Object
  BY IterAssumption DEF Blank, Object
<1>2. TypeOK
  <2>1. 0 \in Offset /\ header_size \in Offset
    BY OffsetFacts
  <2>2. at \in [Journal -> [Offset -> Object]] /\ seen \in [Journal -> [Offset -> 0 .. 2]]
    BY <1>1 DEF NotSeen
  <2> QED
    BY <1>1, <2>1, <2>2 DEF TypeOK
<1>3. Layout
  <2>1. header_size >= header_size
    BY IterAssumption
  <2> QED
    BY <2>1 DEF Layout
<1>4. Snapshot /\ ReadsObjects /\ Progress /\ IterationComplete
  BY DEF Snapshot, ReadsObjects, Progress, IterationComplete
<1> QED
  BY <1>2, <1>3, <1>4 DEF IInv

\* Queuing the header's read and failing reads change no data.
LEMMA StartFailIInv ==
    ASSUME IInv, NEW j \in Journal, journal_get_header(j) \/ ReadFails(j)
    PROVE  IInv'
<1>1. /\ UNCHANGED <<starts, at, end, tail, intact, seen>> /\ err' \in BOOLEAN
      /\ \A i \in Journal : /\ it'[i].tail = it[i].tail /\ it'[i].offset = it[i].offset
                            /\ \/ it'[i].st = it[i].st
                               \/ it[i].st = "idle" /\ it'[i].st = "header"
      /\ it' \in [Journal -> [st : {"idle", "header", "reading", "done"},
                              tail : Offset, offset : Offset, object : Object]]
  <2>1. CASE journal_get_header(j)
    BY <2>1 DEF IInv, TypeOK, journal_get_header
  <2>2. CASE ReadFails(j)
    BY <2>2 DEF IInv, TypeOK, ReadFails
  <2> QED
    BY <2>1, <2>2
<1>2. TypeOK' /\ Layout'
  BY <1>1 DEF IInv, TypeOK, Layout
<1>3. Snapshot' /\ ReadsObjects'
  BY <1>1 DEF IInv, Snapshot, ReadsObjects
<1>4. \A i \in Journal : Expected(i)' = Expected(i)
  BY <1>1 DEF Expected
<1>5. Progress' /\ IterationComplete'
  BY <1>1, <1>4 DEF IInv, Progress, IterationComplete
<1> QED
  BY <1>2, <1>3, <1>5 DEF IInv

\* What journald appends lies beyond the tail object of every header loaded.
LEMMA AppendIInv ==
    ASSUME IInv, NEW j \in Journal, NEW t \in Type, NEW s \in Size,
           JournaldAppend(j, [type |-> t, size |-> s])
    PROVE  IInv'
<1> DEFINE e == end[j]
           A == ALIGN64(s)
           object == [type |-> t, size |-> s]
<1>1. s \in Nat /\ s > 0 /\ A \in Nat /\ A > 0 /\ object \in Object /\ object.size = s
  <2>1. s \in Nat /\ s > 0
    BY IterAssumption
  <2> QED
    BY <2>1, AlignFacts DEF Object
<1>2. /\ intact[j] /\ e + A <= MaxEnd
      /\ starts' = [starts EXCEPT ![j] = @ \cup {e}]
      /\ at' = [at EXCEPT ![j] = [@ EXCEPT ![e] = object]]
      /\ tail' = [tail EXCEPT ![j] = e]
      /\ end' = [end EXCEPT ![j] = e + A]
      /\ UNCHANGED <<intact, it, seen, err>>
  BY <1>1 DEF JournaldAppend
<1>3. /\ e \in Offset /\ e \in Nat /\ e + A \in Offset /\ starts[j] \subseteq Offset
      /\ \A x \in Offset : x \in Nat
  BY <1>1, <1>2, OffsetFacts DEF IInv, TypeOK
<1>4. /\ \A x \in starts[j] : x \in Nat /\ x \in Offset /\ x < e
      /\ tail[j] < e /\ tail[j] \in Nat
  BY <1>3, OffsetFacts, IterAssumption DEF IInv, TypeOK, Layout
<1>5. /\ starts'[j] = starts[j] \cup {e} /\ tail'[j] = e /\ end'[j] = e + A
      /\ at'[j][e] = object
      /\ \A x \in Offset : x # e => at'[j][x] = at[j][x]
      /\ \A i \in Journal : i # j => /\ starts'[i] = starts[i] /\ at'[i] = at[i]
                                     /\ tail'[i] = tail[i] /\ end'[i] = end[i]
  BY <1>2, <1>3 DEF IInv, TypeOK
<1>6. TypeOK'
  BY <1>1, <1>2, <1>3 DEF IInv, TypeOK
<1> HIDE DEF A, object, e
<1>7. Layout'
  <2>1. ASSUME NEW i \in Journal, i # j
        PROVE  /\ starts'[i] = starts[i] /\ at'[i] = at[i] /\ intact'[i] = intact[i]
               /\ tail'[i] = tail[i] /\ end'[i] = end[i]
    BY <1>2, <1>5, <2>1
  <2>2. /\ end'[j] >= header_size
        /\ header_size \in starts'[j] \cup {end'[j]}
        /\ tail'[j] \in starts'[j] /\ starts'[j] # {}
        /\ \A x \in starts'[j] : x <= tail'[j]
    <3>1. e >= header_size /\ header_size \in starts[j] \cup {e} /\ header_size \in Nat
      BY IterAssumption DEF IInv, Layout, e
    <3>2. e \in Nat /\ A \in Nat /\ (\A x \in starts[j] : x \in Nat /\ x < e)
          /\ starts'[j] = starts[j] \cup {e} /\ tail'[j] = e /\ end'[j] = e + A
      BY <1>1, <1>3, <1>4, <1>5
    <3> QED
      BY <3>1, <3>2
  <2>3. ASSUME NEW o \in starts'[j]
        PROVE  /\ header_size <= o /\ o < end'[j]
               /\ at'[j][o].size # 0
               /\ o + ALIGN64(at'[j][o].size) \in starts'[j] \cup {end'[j]}
               /\ \A p \in starts'[j] : p > o => p >= o + ALIGN64(at'[j][o].size)
    <3>1. CASE o = e
      <4>1. at'[j][o].size = s /\ ALIGN64(at'[j][o].size) = A
        BY <1>1, <1>5, <3>1 DEF A
      <4>2. e >= header_size
        BY DEF IInv, Layout, e
      <4>3. /\ e \in Nat /\ A \in Nat /\ A > 0 /\ header_size \in Nat
            /\ \A x \in starts[j] : x \in Nat /\ x < e
            /\ starts'[j] = starts[j] \cup {e} /\ end'[j] = e + A
        BY <1>1, <1>3, <1>4, <1>5, IterAssumption
      <4> QED
        BY <1>1, <3>1, <4>1, <4>2, <4>3
    <3>2. CASE o \in starts[j]
      <4> DEFINE B == ALIGN64(at[j][o].size)
      <4>1. at'[j][o] = at[j][o] /\ o \in Nat /\ o < e
        <5>1. o \in Nat /\ o \in Offset /\ o < e /\ e \in Nat
          BY <1>3, <1>4, <3>2
        <5> QED
          BY <1>5, <5>1
      <4>2. /\ header_size <= o /\ at[j][o].size # 0
            /\ o + B \in starts[j] \cup {e}
            /\ \A p \in starts[j] : p > o => p >= o + B
        BY <1>2, <3>2 DEF IInv, Layout, e
      <4>3. ALIGN64(at'[j][o].size) = B
        BY <4>1
      <4> HIDE DEF B
      <4>4. o + B <= e
        <5>1. e \in Nat /\ \A x \in starts[j] : x \in Nat /\ x < e
          BY <1>3, <1>4
        <5> QED
          BY <4>2, <5>1
      <4>5. /\ e \in Nat /\ A \in Nat /\ A > 0
            /\ starts'[j] = starts[j] \cup {e} /\ end'[j] = e + A
        BY <1>1, <1>3, <1>5
      <4> QED
        BY <4>1, <4>2, <4>3, <4>4, <4>5
    <3> QED
      BY <1>5, <3>1, <3>2
  <2> QED
    BY <2>1, <2>2, <2>3 DEF IInv, Layout
<1>8. ASSUME NEW i \in Journal, it[i].st \in {"reading", "done"}
      PROVE  Expected(i)' = Expected(i) /\ it[i].tail \in starts[i] \cup {0} /\ it[i].tail <= tail[i]
  <2>1. it[i].tail \in starts[i] \cup {0} /\ it[i].tail <= tail[i] /\ it[i].tail \in Nat
    BY <1>8, OffsetFacts DEF IInv, Snapshot, TypeOK
  <2>2. CASE i = j
    <3>1. it[i].tail < e
      BY <1>3, <1>4, <2>1, <2>2
    <3>2. ASSUME NEW o \in starts[j], o <= it[i].tail
          PROVE  (\A p \in starts'[j] : p < o => at'[j][p].size # 0)
                    <=> (\A p \in starts[j] : p < o => at[j][p].size # 0)
      <4>1. /\ o < e /\ o \in Nat /\ e \in Nat /\ starts'[j] = starts[j] \cup {e}
            /\ \A x \in starts[j] : at'[j][x] = at[j][x]
        BY <1>3, <1>4, <1>5, <3>2
      <4> QED
        BY <4>1
    <3>3. it' = it /\ \A o \in starts'[j] : o <= it[i].tail <=> o \in starts[j] /\ o <= it[i].tail
      BY <1>2, <1>3, <1>4, <1>5, <2>1, <3>1
    <3> QED
      BY <2>1, <2>2, <3>2, <3>3, <1>5 DEF Expected
  <2>3. CASE i # j
    BY <1>2, <1>5, <2>1, <2>3 DEF Expected
  <2> QED
    BY <2>2, <2>3
<1>9. Snapshot'
  <2>1. ASSUME NEW i \in Journal
        PROVE  starts[i] \subseteq starts'[i] /\ tail[i] <= tail'[i] /\ tail[i] \in Nat /\ tail'[i] \in Nat
    <3>1. CASE i = j
      BY <1>3, <1>4, <1>5, <3>1
    <3>2. CASE i # j
      <4>1. tail[i] \in Nat
        BY OffsetFacts DEF IInv, TypeOK
      <4> QED
        BY <1>5, <3>2, <4>1
    <3> QED
      BY <3>1, <3>2
  <2>2. \A i \in Journal : it[i].tail \in Nat
    BY OffsetFacts DEF IInv, TypeOK
  <2> QED
    BY <1>2, <1>8, <2>1, <2>2 DEF Snapshot
<1>10. ReadsObjects'
  BY <1>2, <1>5 DEF IInv, ReadsObjects
<1>11. Progress' /\ IterationComplete'
  BY <1>2, <1>8 DEF IInv, Progress, IterationComplete
<1> QED
  BY <1>6, <1>7, <1>9, <1>10, <1>11 DEF IInv

\* Objects are lost only in files that are not being iterated yet.
LEMMA LoseIInv ==
    ASSUME IInv, NEW j \in Journal, NEW q \in Offset, Lose(j, q)
    PROVE  IInv'
<1>1. /\ it[j].st = "idle" /\ q \in starts[j]
      /\ at' = [at EXCEPT ![j] = [@ EXCEPT ![q] = Blank]]
      /\ intact' = [intact EXCEPT ![j] = FALSE]
      /\ UNCHANGED <<starts, end, tail, it, seen, err>>
  BY DEF Lose
<1>2. Blank \in Object /\ Blank.size = 0
  BY IterAssumption DEF Blank, Object
<1>3. TypeOK'
  BY <1>1, <1>2 DEF IInv, TypeOK
<1>4. /\ ~ intact'[j]
      /\ \A o \in starts[j] : at'[j][o].size # 0 => at'[j][o] = at[j][o]
      /\ \A i \in Journal : i # j => at'[i] = at[i] /\ intact'[i] = intact[i]
  BY <1>1, <1>2 DEF IInv, TypeOK
<1>5. Layout'
  <2>1. ASSUME NEW o \in starts[j], at'[j][o].size # 0
        PROVE  /\ o + ALIGN64(at'[j][o].size) \in starts[j] \cup {end[j]}
               /\ \A p \in starts[j] : p > o => p >= o + ALIGN64(at'[j][o].size)
    BY <1>4, <2>1 DEF IInv, Layout
  <2> QED
    BY <1>1, <1>4, <2>1 DEF IInv, Layout
<1>6. Snapshot' /\ ReadsObjects'
  BY <1>1 DEF IInv, Snapshot, ReadsObjects
<1>7. \A i \in Journal : i # j => Expected(i)' = Expected(i)
  BY <1>1, <1>4 DEF Expected
<1>8. Progress' /\ IterationComplete'
  BY <1>1, <1>7 DEF IInv, Progress, IterationComplete
<1> QED
  BY <1>3, <1>5, <1>6, <1>8 DEF IInv

\* Every step preserves the invariant.
LEMMA NextIInv == IInv /\ [Next]_vars => IInv'
<1> SUFFICES ASSUME IInv, [Next]_vars PROVE IInv'
  OBVIOUS
<1>1. CASE UNCHANGED vars
  BY <1>1 DEF vars, IInv, TypeOK, Layout, Snapshot, ReadsObjects, Progress, IterationComplete, Expected
<1>2. CASE Next
  BY <1>2, IterIInv, StartFailIInv, AppendIInv, LoseIInv DEF Next, Appends
<1> QED
  BY <1>1, <1>2

\* The invariant that carries all the others.
LEMMA InvariantHolds == Spec => []IInv
BY InitIInv, NextIInv, PTL DEF Spec

-----------------------------------------------------------------------------
\* journal_iter_next_object() reads object headers only where journald put
\* objects that the header it goes by knows of, for every layout of objects.
THEOREM IterationStaysOnObjects == Spec => [](TypeOK /\ ReadsObjects)
<1>1. IInv => TypeOK /\ ReadsObjects
  BY DEF IInv
<1> QED
  BY <1>1, InvariantHolds, PTL

\* An iteration that ends has run its closure exactly once for every object
\* it had to deliver and once for the end, for any number of journals and
\* whatever journald appends meanwhile.
THEOREM IterationIsExact == Spec => []IterationComplete
<1>1. IInv => IterationComplete
  BY DEF IInv
<1> QED
  BY <1>1, InvariantHolds, PTL

-----------------------------------------------------------------------------
\* What the refinement mapping makes of a journal's iteration.
Deliveries(j) == [o \in Offset \ {0} |-> seen[j][o]]

\* Objects lie behind the header.
LEMMA ExpectedFacts ==
    ASSUME IInv, NEW j \in Journal
    PROVE  Expected(j) \subseteq Offset \ {0}
<1>1. starts[j] \subseteq Offset /\ \A o \in starts[j] : o >= header_size
  BY DEF IInv, TypeOK, Layout
<1> QED
  BY <1>1, OffsetFacts DEF Expected

\* A step of the iteration of j is one in the abstract specification when j's
\* status, things to do and deliveries change as one of its actions says.
LEMMA BeginMaps ==
    ASSUME NEW j \in Journal, IterStatus(j) # "iterating",
           IterTodo(j)' \subseteq Offset \ {0},
           IterStatus(j)' = IF IterTodo(j)' = {} THEN "ended" ELSE "iterating",
           Deliveries(j)' = [x \in Offset \ {0} |-> 0],
           \A i \in Journal \ {j} : /\ IterStatus(i)' = IterStatus(i)
                                    /\ IterTodo(i)' = IterTodo(i)
                                    /\ Deliveries(i)' = Deliveries(i)
    PROVE  Its!Next
<1> DEFINE st == [i \in Journal |-> IterStatus(i)]
           todo == [i \in Journal |-> IterTodo(i)]
           delivered == [i \in Journal |-> Deliveries(i)]
<1>1. st' = [st EXCEPT ![j] = IF IterTodo(j)' = {} THEN "ended" ELSE "iterating"]
  OBVIOUS
<1>2. todo' = [todo EXCEPT ![j] = IterTodo(j)']
  OBVIOUS
<1>3. delivered' = [delivered EXCEPT ![j] = [x \in Offset \ {0} |-> 0]]
  OBVIOUS
<1>4. st[j] # "iterating" /\ todo'[j] = IterTodo(j)'
  OBVIOUS
<1>5. Its!Begin(j)
  BY <1>1, <1>2, <1>3, <1>4, Zenon DEF Its!Begin, Its!MovesOn, Deliveries
<1> QED
  BY <1>5 DEF Its!Next

LEMMA DeliverMaps ==
    ASSUME NEW j \in Journal, NEW x \in Offset \ {0}, IterStatus(j) = "iterating",
           x \in IterTodo(j), \A y \in IterTodo(j) : <<y, x>> \notin LiesBefore,
           IterTodo(j)' = IterTodo(j) \ {x},
           IterStatus(j)' = IF IterTodo(j)' = {} THEN "ended" ELSE "iterating",
           Deliveries(j)' = [Deliveries(j) EXCEPT ![x] = 1],
           \A i \in Journal \ {j} : /\ IterStatus(i)' = IterStatus(i)
                                    /\ IterTodo(i)' = IterTodo(i)
                                    /\ Deliveries(i)' = Deliveries(i)
    PROVE  Its!Next
<1> DEFINE st == [i \in Journal |-> IterStatus(i)]
           todo == [i \in Journal |-> IterTodo(i)]
           delivered == [i \in Journal |-> Deliveries(i)]
<1>1. st' = [st EXCEPT ![j] = IF todo[j] \ {x} = {} THEN "ended" ELSE "iterating"]
  OBVIOUS
<1>2. todo' = [todo EXCEPT ![j] = todo[j] \ {x}]
  OBVIOUS
<1>3. delivered' = [delivered EXCEPT ![j] = [delivered[j] EXCEPT ![x] = 1]]
  OBVIOUS
<1>4. st[j] = "iterating" /\ todo[j] = IterTodo(j)
  OBVIOUS
<1>5. Its!Deliver(j, x)
  BY <1>1, <1>2, <1>3, <1>4, Zenon DEF Its!Deliver, Its!MovesOn, Deliveries
<1> QED
  BY <1>4, <1>5 DEF Its!Next

\* The iterations of all journals but j are where they were.
OthersStay(j) ==
    \A i \in Journal \ {j} : /\ IterStatus(i)' = IterStatus(i)
                             /\ IterTodo(i)' = IterTodo(i)
                             /\ Deliveries(i)' = Deliveries(i)

LEMMA ContinueStays ==
    ASSUME IInv, NEW j \in Journal, UNCHANGED <<starts, at>>,
           \A i \in Journal \ {j} : it'[i] = it[i] /\ seen'[i] = seen[i]
    PROVE  OthersStay(j)
<1> SUFFICES ASSUME NEW i \in Journal \ {j}
             PROVE  /\ IterStatus(i)' = IterStatus(i)
                    /\ IterTodo(i)' = IterTodo(i)
                    /\ Deliveries(i)' = Deliveries(i)
  BY DEF OthersStay
<1>1. Expected(i)' = Expected(i) /\ it'[i] = it[i]
  BY DEF Expected
<1>2. IterStatus(i)' = IterStatus(i)
  BY <1>1 DEF IterStatus, IterTodo, Expected
<1>3. IterTodo(i)' = IterTodo(i)
  BY <1>1 DEF IterTodo, Expected
<1>4. Deliveries(i)' = Deliveries(i)
  BY DEF Deliveries
<1> QED
  BY <1>2, <1>3, <1>4

\* An iteration has a status of the abstract specification, and has things to
\* deliver exactly while it is iterating.
Agrees ==
    \A j \in Journal :
       /\ it[j].st \in {"idle", "header", "reading", "done"}
       /\ it[j].st = "reading" => IterStatus(j) = "iterating" /\ IterTodo(j) # {}
       /\ it[j].st = "done" => IterStatus(j) = "ended" /\ IterTodo(j) = {}
       /\ it[j].st \in {"idle", "header"} => IterStatus(j) = "idle" /\ IterTodo(j) = {}
       /\ IterTodo(j) \subseteq Offset \ {0}

LEMMA StatusAgrees == IInv => Agrees
<1> SUFFICES ASSUME IInv, NEW j \in Journal
             PROVE  /\ it[j].st \in {"idle", "header", "reading", "done"}
                    /\ it[j].st = "reading" => IterStatus(j) = "iterating" /\ IterTodo(j) # {}
                    /\ it[j].st = "done" => IterStatus(j) = "ended" /\ IterTodo(j) = {}
                    /\ it[j].st \in {"idle", "header"} =>
                          IterStatus(j) = "idle" /\ IterTodo(j) = {}
                    /\ IterTodo(j) \subseteq Offset \ {0}
  BY DEF Agrees
<1>1. it[j].st \in {"idle", "header", "reading", "done"}
  BY DEF IInv, TypeOK
<1>2. it[j].st = "reading" => it[j].offset \in Expected(j) /\ it[j].offset >= it[j].offset
  BY OffsetFacts DEF IInv, TypeOK, Progress
<1>3. Expected(j) \subseteq Offset \ {0}
  BY ExpectedFacts
<1> QED
  BY <1>1, <1>2, <1>3 DEF IterStatus, IterTodo, Expected

LEMMA StatusAgreesNext == IInv' => Agrees'
BY StatusAgrees, PTL

\* An iteration begins when a header has arrived, or again after its end.
LEMMA BeginsMap ==
    ASSUME IInv, IInv', NEW j \in Journal, got_header(j) \/ IterAgain(j)
    PROVE  Its!Next
<1>1. PICK tl, object :
         /\ Continue(j, tl, 0, object, NotSeen)
         /\ UNCHANGED <<starts, at, end, tail, intact, err>>
         /\ it[j].st \in {"header", "done"}
  BY DEF got_header, IterAgain, IInv, Progress
<1>2. /\ \A i \in Journal \ {j} : it'[i] = it[i] /\ seen'[i] = seen[i]
      /\ it'[j].st \in {"reading", "done"}
      /\ seen'[j] \in {NotSeen, Bump(NotSeen, 0)}
  BY <1>1 DEF Continue, IInv, TypeOK
<1>3. OthersStay(j)
  BY <1>1, <1>2, ContinueStays
<1>4. Deliveries(j)' = [x \in Offset \ {0} |-> 0]
  <2>1. \A x \in Offset \ {0} : NotSeen[x] = 0 /\ Bump(NotSeen, 0)[x] = 0
    BY OffsetFacts DEF NotSeen, Bump
  <2>2. \A x \in Offset \ {0} : seen'[j][x] = 0
    BY <1>2, <2>1
  <2> QED
    BY <2>2 DEF Deliveries
<1>5. IterStatus(j) # "iterating"
  BY <1>1, StatusAgrees DEF Agrees
<1>6. /\ (it'[j].st = "reading" => IterStatus(j)' = "iterating" /\ IterTodo(j)' # {})
      /\ (it'[j].st = "done" => IterStatus(j)' = "ended" /\ IterTodo(j)' = {})
      /\ IterTodo(j)' \subseteq Offset \ {0}
  BY StatusAgreesNext DEF Agrees
<1> QED
  BY <1>2, <1>3, <1>4, <1>5, <1>6, BeginMaps DEF OthersStay

\* An object that arrives is the next one to deliver.
LEMMA DeliversMap ==
    ASSUME IInv, IInv', NEW j \in Journal, got_iter_object_header(j)
    PROVE  Its!Next
<1> DEFINE o == it[j].offset
<1>1. /\ Continue(j, it[j].tail, o, at[j][o], Bump(seen[j], o))
      /\ UNCHANGED <<starts, at, end, tail, intact, err>>
      /\ it[j].st = "reading"
  BY DEF got_iter_object_header
<1>2. /\ \A i \in Journal \ {j} : it'[i] = it[i] /\ seen'[i] = seen[i]
      /\ it'[j].st \in {"reading", "done"} /\ it'[j].tail = it[j].tail
      /\ seen'[j] \in {Bump(seen[j], o), Bump(Bump(seen[j], o), 0)}
  BY <1>1 DEF Continue, IInv, TypeOK
<1>3. OthersStay(j)
  BY <1>1, <1>2, ContinueStays
<1>4. /\ o \in Expected(j) /\ o \in Offset \ {0}
      /\ \A x \in Offset : seen[j][x] = IF x \in Expected(j) /\ x < o THEN 1 ELSE 0
      /\ \A x \in Offset : x \in Nat
      /\ 0 \in Offset /\ Expected(j) \subseteq Offset \ {0}
      /\ seen[j] \in [Offset -> 0 .. 2]
  BY <1>1, ExpectedFacts, OffsetFacts DEF IInv, TypeOK, Progress
<1>5. \A x \in Offset \ {0} : seen'[j][x] = IF x = o THEN 1 ELSE seen[j][x]
  <2>1. seen[j][o] = 0
    BY <1>4
  <2> HIDE DEF o
  <2>2. /\ Bump(seen[j], o) \in [Offset -> 0 .. 2]
        /\ \A x \in Offset : Bump(seen[j], o)[x] = IF x = o THEN 1 ELSE seen[j][x]
    BY <1>4, <2>1 DEF Bump
  <2>3. \A x \in Offset \ {0} : Bump(Bump(seen[j], o), 0)[x] = Bump(seen[j], o)[x]
    BY <1>4, <2>2 DEF Bump
  <2> QED
    BY <1>2, <2>2, <2>3
<1>6. Expected(j)' = Expected(j)
  BY <1>1, <1>2 DEF Expected
<1>7. IterTodo(j) = {x \in Expected(j) : x >= o}
  BY <1>1 DEF IterTodo, Expected
<1>8. IterTodo(j)' = IterTodo(j) \ {o}
  <2>1. CASE it'[j].st = "reading"
    <3>1. /\ it'[j].offset \in Nat
          /\ \A x \in Offset :
                seen'[j][x] = IF x \in Expected(j) /\ x < it'[j].offset THEN 1 ELSE 0
      BY <1>6, <2>1, OffsetFacts DEF IInv, TypeOK, Progress
    <3>2. \A x \in Expected(j) : x >= it'[j].offset <=> x >= o /\ x # o
      BY <1>4, <1>5, <3>1
    <3>3. IterTodo(j)' = {x \in Expected(j) : x >= it'[j].offset}
      BY <1>6, <2>1 DEF IterTodo, Expected
    <3> QED
      BY <1>7, <3>2, <3>3
  <2>2. CASE it'[j].st = "done"
    <3>1. seen'[j] = [x \in Offset |-> IF x = 0 \/ x \in Expected(j)' THEN 1 ELSE 0]
      BY <2>2 DEF IInv, IterationComplete
    <3>2. \A x \in Expected(j) : seen'[j][x] = 1
      BY <1>4, <1>6, <3>1
    <3>3. \A x \in Expected(j) : ~ (x >= o /\ x # o)
      BY <1>4, <1>5, <3>2
    <3>4. IterTodo(j)' = {}
      BY <2>2 DEF IterTodo, Expected
    <3> QED
      BY <1>7, <3>3, <3>4
  <2> QED
    BY <1>2, <2>1, <2>2
<1>9. Deliveries(j)' = [Deliveries(j) EXCEPT ![o] = 1]
  BY <1>4, <1>5 DEF Deliveries
<1>10. o \in IterTodo(j) /\ \A y \in IterTodo(j) : <<y, o>> \notin LiesBefore
  BY <1>4, <1>7 DEF LiesBefore
<1>11. IterStatus(j) = "iterating"
  BY <1>1, StatusAgrees DEF Agrees
<1>12. /\ (it'[j].st = "reading" => IterStatus(j)' = "iterating" /\ IterTodo(j)' # {})
       /\ (it'[j].st = "done" => IterStatus(j)' = "ended" /\ IterTodo(j)' = {})
  BY StatusAgreesNext DEF Agrees
<1>13. IterStatus(j)' = IF IterTodo(j)' = {} THEN "ended" ELSE "iterating"
  BY <1>2, <1>12
<1> HIDE DEF o
<1> QED
  BY <1>3, <1>4, <1>8, <1>9, <1>10, <1>11, <1>13, DeliverMaps DEF OthersStay

\* No iteration has moved.
AllStay ==
    \A i \in Journal : /\ IterStatus(i)' = IterStatus(i)
                       /\ IterTodo(i)' = IterTodo(i)
                       /\ Deliveries(i)' = Deliveries(i)

LEMMA StayStutters == AllStay => UNCHANGED Its!vars
<1> SUFFICES ASSUME AllStay PROVE UNCHANGED Its!vars
  OBVIOUS
<1>1. /\ [j \in Journal |-> IterStatus(j)]' = [j \in Journal |-> IterStatus(j)]
      /\ [j \in Journal |-> IterTodo(j)]' = [j \in Journal |-> IterTodo(j)]
      /\ [j \in Journal |-> Deliveries(j)]' = [j \in Journal |-> Deliveries(j)]
  BY DEF AllStay
<1> QED
  BY <1>1 DEF Its!vars, Deliveries

\* An iteration stays where it is when nothing but its reads goes on, when
\* its file stays as it is, or when it is not yet under way.
LEMMA StandsStill ==
    ASSUME NEW i \in Journal, seen'[i] = seen[i],
           \/ it'[i] = it[i] /\ starts'[i] = starts[i] /\ at'[i] = at[i]
           \/ it[i].st = "idle" /\ it'[i].st \in {"idle", "header"}
           \/ it'[i] = it[i] /\ Expected(i)' = Expected(i)
    PROVE  /\ IterStatus(i)' = IterStatus(i)
           /\ IterTodo(i)' = IterTodo(i)
           /\ Deliveries(i)' = Deliveries(i)
<1>1. IterStatus(i)' = IterStatus(i)
  BY DEF IterStatus, IterTodo, Expected
<1>2. IterTodo(i)' = IterTodo(i)
  BY DEF IterTodo, Expected
<1>3. Deliveries(i)' = Deliveries(i)
  BY DEF Deliveries
<1> QED
  BY <1>1, <1>2, <1>3

\* What journald appends lies behind the tail object every iteration goes by.
LEMMA AppendStays ==
    ASSUME IInv, NEW j \in Journal, NEW object \in Object, JournaldAppend(j, object)
    PROVE  AllStay
<1> SUFFICES ASSUME NEW i \in Journal
             PROVE  /\ IterStatus(i)' = IterStatus(i)
                    /\ IterTodo(i)' = IterTodo(i)
                    /\ Deliveries(i)' = Deliveries(i)
  BY DEF AllStay
<1>1. UNCHANGED <<it, seen>>
  BY DEF JournaldAppend
<1>2. CASE i # j
  <2>1. starts'[i] = starts[i] /\ at'[i] = at[i]
    BY <1>2 DEF JournaldAppend, IInv, TypeOK
  <2> QED
    BY <1>1, <2>1, StandsStill
<1>3. CASE i = j /\ it[j].st \in {"reading", "done"}
  <2> DEFINE e == end[j]
  <2>1. /\ e \in Nat /\ e \in Offset /\ \A o \in starts[j] : o \in Nat /\ o < e
        /\ it[j].tail \in Nat /\ it[j].tail < e
    <3>1. /\ e \in Offset /\ e >= header_size /\ \A o \in starts[j] : o \in Offset /\ o < e
          /\ it[j].tail \in starts[j] \cup {0}
      BY <1>3 DEF IInv, TypeOK, Layout, Snapshot
    <3> QED
      BY <3>1, OffsetFacts
  <2>2. starts'[j] = starts[j] \cup {e}
    BY DEF JournaldAppend, IInv, TypeOK
  <2>3. \A o \in starts[j] : at'[j][o] = at[j][o]
    BY <2>1 DEF JournaldAppend, IInv, TypeOK
  <2> HIDE DEF e
  <2>4. Expected(j)' = {o \in starts'[j] : /\ o <= it[j].tail
                                          /\ \A p \in starts'[j] : p < o => at'[j][p].size # 0}
    BY <1>1 DEF Expected
  <2>5. Expected(j)' = Expected(j)
    BY <2>1, <2>2, <2>3, <2>4 DEF Expected
  <2> QED
    BY <1>1, <1>3, <2>5, StandsStill
<1>4. CASE it[i].st \in {"idle", "header"}
  BY <1>1, <1>4 DEF IterStatus, IterTodo, Expected, Deliveries
<1> QED
  BY <1>2, <1>3, <1>4 DEF IInv, TypeOK

\* Every step of the journals' iterations is one of the abstract
\* specification, or none to be seen there.
LEMMA StepsAreIterationSteps == IInv /\ IInv' /\ [Next]_vars => [Its!Next]_(Its!vars)
<1> SUFFICES ASSUME IInv, IInv', [Next]_vars
             PROVE  Its!Next \/ AllStay
  BY StayStutters
<1>1. CASE \E j \in Journal : got_header(j) \/ IterAgain(j)
  BY <1>1, BeginsMap
<1>2. CASE \E j \in Journal : got_iter_object_header(j)
  BY <1>2, DeliversMap
<1>3. CASE \E j \in Journal : journal_get_header(j)
  <2>1. UNCHANGED <<starts, at, seen>>
    BY <1>3 DEF journal_get_header
  <2>2. \A i \in Journal : \/ it'[i] = it[i]
                           \/ it[i].st = "idle" /\ it'[i].st = "header"
    BY <1>3 DEF journal_get_header, IInv, TypeOK
  <2> QED
    BY <2>1, <2>2, StandsStill DEF AllStay
<1>4. CASE \E j \in Journal, o \in Offset : Lose(j, o)
  <2>1. PICK j \in Journal, o \in Offset : Lose(j, o)
    BY <1>4
  <2>2. UNCHANGED <<starts, it, seen>> /\ it[j].st = "idle"
    BY <2>1 DEF Lose
  <2>3. \A i \in Journal \ {j} : at'[i] = at[i]
    BY <2>1 DEF Lose, IInv, TypeOK
  <2> QED
    BY <2>2, <2>3, StandsStill DEF AllStay
<1>5. CASE Appends
  <2>1. PICK j \in Journal, t \in Type \ {OBJECT_UNUSED}, s \in Size :
                JournaldAppend(j, [type |-> t, size |-> s])
    BY <1>5 DEF Appends
  <2> QED
    BY <2>1, AppendStays DEF Object
<1>6. CASE UNCHANGED vars \/ \E j \in Journal : ReadFails(j)
  <2>1. UNCHANGED <<starts, at, it, seen>>
    BY <1>6 DEF vars, ReadFails
  <2> QED
    BY <2>1, StandsStill DEF AllStay
<1> QED
  BY <1>1, <1>2, <1>3, <1>4, <1>5, <1>6 DEF Next

\* No iteration is under way in the initial states.
LEMMA InitMaps == Init => Its!Init
<1> SUFFICES ASSUME Init PROVE Its!Init
  OBVIOUS
<1>1. \A j \in Journal : it[j].st = "idle" /\ seen[j] = NotSeen
  BY DEF Init
<1>2. \A j \in Journal : IterStatus(j) = "idle" /\ IterTodo(j) = {}
  BY <1>1 DEF IterStatus, IterTodo, Expected
<1>3. \A j \in Journal : Deliveries(j) = [x \in Offset \ {0} |-> 0]
  BY <1>1 DEF Deliveries, NotSeen
<1> QED
  BY <1>2, <1>3 DEF Its!Init, Deliveries

\* journal_get_header() and journal_iter_objects() keep the promises of
\* Iterations to each journal's command: what it will be given is settled when
\* the header arrives, and is given once each and in order, for any number of
\* journals and any interleaving of their callbacks with journald.
THEOREM ImplementsIterations == Spec => RefinesIterations
<1>1. Init => Its!Init
  BY InitMaps
<1>2. IInv /\ IInv' /\ [Next]_vars => [Its!Next]_(Its!vars)
  BY StepsAreIterationSteps
<1>3. Spec => Its!Init /\ [][Its!Next]_(Its!vars)
  BY <1>1, <1>2, InvariantHolds, PTL DEF Spec
<1> QED
  BY <1>3 DEF RefinesIterations, Its!Spec
=============================================================================
