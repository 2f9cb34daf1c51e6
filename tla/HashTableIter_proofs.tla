-------------------------- MODULE HashTableIter_proofs --------------------------
(***************************************************************************)
(* The iteration of a hash table of any size, whatever journald appends to *)
(* the chains meanwhile: the objects that the loaded table leads to are    *)
(* delivered once, bucket by bucket, and no other offset is ever read.     *)
(***************************************************************************)
EXTENDS HashTableIter, SumLemmas

Link == 0 .. MaxObjects

Types ==
    /\ head \in [Bucket -> Link] /\ tail \in [Bucket -> Link]
    /\ next_hash_offset \in [Object -> Link]
    /\ bucket \in [Object -> 0 .. nbuckets]
    /\ table \in [head : [Bucket -> Link], tail : [Bucket -> Link]]
    /\ known \subseteq Object
    /\ st \in {"idle", "loaded", "reading", "done", "failed", "aborted"}
    /\ iter_bucket \in 0 .. nbuckets
    /\ iter_offset \in Link
    /\ seen \in [Object -> 0 .. 2]

\* The objects of bucket b, in the file.
In(b) == {o \in Object : bucket[o] = b}

\* rank numbers the objects of each bucket along its chain in the file, from
\* the head (0) to the tail.
Chained(rank) ==
    /\ \A o \in Object : bucket[o] = nbuckets => next_hash_offset[o] = 0
    /\ \A b \in Bucket :
          /\ head[b] = 0 => In(b) = {}
          /\ head[b] # 0 => /\ head[b] \in In(b) /\ rank[head[b]] = 0
                            /\ tail[b] \in In(b)
          /\ \A o \in In(b) :
                /\ rank[o] <= rank[tail[b]]
                /\ \A p \in In(b) : rank[o] = rank[p] => o = p
                /\ o # tail[b] => /\ next_hash_offset[o] \in In(b)
                                  /\ rank[next_hash_offset[o]] = rank[o] + 1

\* The table as loaded has the heads that the file still has, and the known
\* objects are those up to the tails it had.
TableKnows(rank) ==
    \A b \in Bucket :
       IF table.head[b] = 0
       THEN KnownIn(b) = {}
       ELSE /\ table.head[b] = head[b]
            /\ table.tail[b] \in In(b)
            /\ KnownIn(b) = {o \in In(b) : rank[o] <= rank[table.tail[b]]}

\* How often the closure has run for an object when the iteration is at
\* offset i of bucket b: once for what lies before, from bucket 1 on.
Passed(rank, o, b, i) ==
    /\ o \in known
    /\ bucket[o] >= 1
    /\ \/ bucket[o] < b
       \/ bucket[o] = b /\ rank[o] < rank[i]

Progress(rank) ==
    /\ st = "idle" => known = {}
    /\ st \in {"idle", "loaded"} =>
          iter_bucket = 0 /\ iter_offset = 0 /\ \A o \in Object : seen[o] = 0
    /\ st = "reading" =>
          /\ iter_bucket \in 1 .. nbuckets - 1
          /\ iter_offset \in KnownIn(iter_bucket)
          /\ \A o \in Object :
                seen[o] = IF Passed(rank, o, iter_bucket, iter_offset) THEN 1 ELSE 0
    /\ st = "done" =>
          /\ iter_bucket = nbuckets
          /\ \A o \in Object : seen[o] = IF o \in known /\ bucket[o] >= 1 THEN 1 ELSE 0

IInv ==
    /\ Types
    /\ DeliversKnownOnce
    /\ \A o \in known : bucket[o] # nbuckets
    /\ \E rank \in [Object -> Nat] : Chained(rank) /\ TableKnows(rank) /\ Progress(rank)

-----------------------------------------------------------------------------
\* The least element of a set of naturals.
LEMMA MinFacts ==
    ASSUME NEW S, S \subseteq Nat, S # {}
    PROVE  Min(S) \in S /\ \A y \in S : Min(S) <= y
BY LeastElement DEF Min

LEMMA InitIInv == Init => IInv
<1> SUFFICES ASSUME Init PROVE IInv
  OBVIOUS
<1> DEFINE rank == [o \in Object |-> 0]
<1>1. Types
  BY HashAssumption DEF Init, Types, Bucket, Object, Link
<1>2. \A b \in Bucket : In(b) = {} /\ KnownIn(b) = {} /\ table.head[b] = 0 /\ head[b] = 0
  BY HashAssumption DEF Init, In, KnownIn, Bucket, Object
<1>3. Chained(rank)
  BY <1>2 DEF Chained, Init
<1>4. TableKnows(rank) /\ Progress(rank)
  BY <1>2 DEF TableKnows, Progress, Init
<1>5. rank \in [Object -> Nat]
  OBVIOUS
<1> HIDE DEF rank
<1>6. DeliversKnownOnce /\ \A o \in known : bucket[o] # nbuckets
  BY DEF DeliversKnownOnce, Init
<1> QED
  BY <1>1, <1>3, <1>4, <1>5, <1>6 DEF IInv

\* journald's new object follows the tail of its chain, and is none that the
\* loaded table leads to.
LEMMA LinkIInv ==
    ASSUME IInv, NEW o \in Object, NEW b \in Bucket, JournaldLink(o, b)
    PROVE  IInv'
<1>1. PICK rank \in [Object -> Nat] : Chained(rank) /\ TableKnows(rank) /\ Progress(rank)
  BY DEF IInv
<1> USE DEF Bucket
<1>2. Types
  BY DEF IInv
<1>3. bucket[o] = nbuckets /\ o \notin known
  BY DEF IInv, JournaldLink, InTable
<1>4. /\ In(b)' = In(b) \cup {o} /\ o \notin In(b)
      /\ \A c \in Bucket \ {b} : In(c)' = In(c) /\ o \notin In(c)
      /\ \A c \in Bucket : KnownIn(c)' = KnownIn(c) /\ KnownIn(c) \subseteq In(c)
  BY <1>2, <1>3, HashAssumption DEF JournaldLink, In, KnownIn, Types
<1>5. head[b] # 0 => tail[b] \in In(b)
  BY <1>1 DEF Chained
<1>6. PICK rnk \in [Object -> Nat] :
         /\ rnk[o] = IF head[b] = 0 THEN 0 ELSE rank[tail[b]] + 1
         /\ \A p \in Object \ {o} : rnk[p] = rank[p]
  <2> DEFINE r == [rank EXCEPT ![o] = IF head[b] = 0 THEN 0 ELSE rank[tail[b]] + 1]
  <2>1. r \in [Object -> Nat]
    BY <1>5 DEF In
  <2> QED
    BY <2>1
<1>7. Types'
  <2>1. o \in Link /\ b \in 0 .. nbuckets
    BY HashAssumption DEF Object, Link
  <2>2. /\ head' \in [Bucket -> Link] /\ tail' \in [Bucket -> Link]
        /\ next_hash_offset' \in [Object -> Link] /\ bucket' \in [Object -> 0 .. nbuckets]
    <3>1. /\ tail' = [tail EXCEPT ![b] = o] /\ bucket' = [bucket EXCEPT ![o] = b]
          /\ \/ head' = [head EXCEPT ![b] = o] /\ UNCHANGED next_hash_offset
             \/ /\ UNCHANGED head
                /\ next_hash_offset' = [next_hash_offset EXCEPT ![tail[b]] = o]
      BY DEF JournaldLink
    <3>2. /\ head \in [Bucket -> Link] /\ tail \in [Bucket -> Link]
          /\ next_hash_offset \in [Object -> Link] /\ bucket \in [Object -> 0 .. nbuckets]
      BY <1>2 DEF Types
    <3>3. head' \in [Bucket -> Link] /\ next_hash_offset' \in [Object -> Link]
      BY <2>1, <3>1, <3>2
    <3> QED
      BY <2>1, <3>1, <3>2, <3>3
  <2> QED
    BY <1>2, <2>2 DEF JournaldLink, Types
<1>8. /\ head' \in [Bucket -> Link] /\ tail' = [tail EXCEPT ![b] = o]
      /\ \A c \in Bucket \ {b} : head'[c] = head[c] /\ tail'[c] = tail[c]
      /\ tail'[b] = o
      /\ head'[b] = IF head[b] = 0 THEN o ELSE head[b]
      /\ \A p \in Object : next_hash_offset'[p] =
            IF head[b] # 0 /\ p = tail[b] THEN o ELSE next_hash_offset[p]
  BY <1>2, <1>7 DEF JournaldLink, Types
<1>9. Chained(rnk)'
  <2>1. \A p \in Object : bucket'[p] = nbuckets => next_hash_offset'[p] = 0
    BY <1>1, <1>2, <1>5, <1>8, HashAssumption DEF JournaldLink, Chained, Types, In
  <2>2. ASSUME NEW c \in Bucket \ {b}
        PROVE  /\ head'[c] = 0 => In(c)' = {}
               /\ head'[c] # 0 => head'[c] \in In(c)' /\ rnk[head'[c]] = 0 /\ tail'[c] \in In(c)'
               /\ \A p \in In(c)' :
                     /\ rnk[p] <= rnk[tail'[c]]
                     /\ \A q \in In(c)' : rnk[p] = rnk[q] => p = q
                     /\ p # tail'[c] => /\ next_hash_offset'[p] \in In(c)'
                                        /\ rnk[next_hash_offset'[p]] = rnk[p] + 1
    <3>1. In(c)' = In(c) /\ o \notin In(c) /\ In(c) \subseteq Object
      BY <1>4 DEF In
    <3>2. \A p \in In(c) : rnk[p] = rank[p] /\ next_hash_offset'[p] = next_hash_offset[p]
      BY <1>5, <1>6, <1>8, <3>1 DEF In
    <3>3. /\ head'[c] = head[c] /\ tail'[c] = tail[c]
          /\ head[c] # 0 => head[c] \in In(c) /\ rank[head[c]] = 0 /\ tail[c] \in In(c)
          /\ head[c] = 0 => In(c) = {}
      BY <1>1, <1>8 DEF Chained
    <3>4. \A p \in In(c) :
             /\ rank[p] <= rank[tail[c]]
             /\ \A q \in In(c) : rank[p] = rank[q] => p = q
             /\ p # tail[c] => /\ next_hash_offset[p] \in In(c)
                               /\ rank[next_hash_offset[p]] = rank[p] + 1
      BY <1>1 DEF Chained
    <3> QED
      BY <3>1, <3>2, <3>3, <3>4
  <2>3. /\ head'[b] # 0 /\ head'[b] \in In(b)' /\ rnk[head'[b]] = 0 /\ tail'[b] \in In(b)'
        /\ \A p \in In(b)' :
              /\ rnk[p] <= rnk[tail'[b]]
              /\ \A q \in In(b)' : rnk[p] = rnk[q] => p = q
              /\ p # tail'[b] => /\ next_hash_offset'[p] \in In(b)'
                                 /\ rnk[next_hash_offset'[p]] = rnk[p] + 1
    <3>1. CASE head[b] = 0
      <4>1. In(b)' = {o} /\ head'[b] = o /\ tail'[b] = o /\ rnk[o] = 0
        BY <1>1, <1>4, <1>6, <1>8, <3>1 DEF Chained
      <4> QED
        BY <4>1 DEF Object
    <3>2. CASE head[b] # 0
      <4>1. /\ head'[b] = head[b] /\ tail'[b] = o /\ tail[b] \in In(b)
            /\ rnk[o] = rank[tail[b]] + 1 /\ head[b] \in In(b) /\ rank[head[b]] = 0
            /\ \A p \in In(b) : rnk[p] = rank[p] /\ rank[p] \in Nat
        BY <1>1, <1>4, <1>6, <1>8, <3>2 DEF Chained, In
      <4>2. \A p \in In(b) : rank[p] <= rank[tail[b]]
        BY <1>1 DEF Chained
      <4>3. \A p, q \in In(b) : rank[p] = rank[q] => p = q
        BY <1>1 DEF Chained
      <4>4. \A p \in In(b) : p # tail[b] =>
               /\ next_hash_offset[p] \in In(b)
               /\ rank[next_hash_offset[p]] = rank[p] + 1
        BY <1>1 DEF Chained
      <4>5. \A p \in In(b) : next_hash_offset'[p] =
               IF p = tail[b] THEN o ELSE next_hash_offset[p]
        BY <1>8, <3>2 DEF In
      <4>6. \A p \in In(b) : /\ next_hash_offset'[p] \in In(b)'
                             /\ rnk[next_hash_offset'[p]] = rnk[p] + 1
        BY <1>4, <4>1, <4>4, <4>5
      <4>7. \A p, q \in In(b)' : rnk[p] = rnk[q] => p = q
        BY <1>4, <4>1, <4>2, <4>3
      <4>8. \A p \in In(b)' : rnk[p] <= rnk[o]
        BY <1>4, <4>1, <4>2
      <4> QED
        BY <1>4, <3>2, <4>1, <4>6, <4>7, <4>8
    <3> QED
      BY <3>1, <3>2
  <2> QED
    BY <2>1, <2>2, <2>3 DEF Chained
<1>10. TableKnows(rnk)'
  <2> SUFFICES ASSUME NEW c \in Bucket
               PROVE  IF table.head[c] = 0
                      THEN KnownIn(c) = {}
                      ELSE /\ table.head[c] = head'[c]
                           /\ table.tail[c] \in In(c)'
                           /\ KnownIn(c) = {p \in In(c)' : rnk[p] <= rnk[table.tail[c]]}
    BY <1>4 DEF TableKnows, JournaldLink
  <2>1. CASE table.head[c] = 0
    BY <1>1, <2>1 DEF TableKnows
  <2>2. CASE table.head[c] # 0
    <3>1. /\ table.head[c] = head[c] /\ table.tail[c] \in In(c)
          /\ KnownIn(c) = {p \in In(c) : rank[p] <= rank[table.tail[c]]}
      BY <1>1, <2>2 DEF TableKnows
    <3>2. head'[c] = head[c]
      BY <1>8, <2>2, <3>1
    <3>3. \A p \in In(c) : rnk[p] = rank[p]
      BY <1>4, <1>6 DEF In
    <3>4. c = b => ~ (rnk[o] <= rnk[table.tail[c]])
      <4> SUFFICES ASSUME c = b PROVE ~ (rnk[o] <= rnk[table.tail[c]])
        OBVIOUS
      <4>1. rank[table.tail[b]] <= rank[tail[b]] /\ tail[b] \in In(b)
        BY <1>1, <2>2, <3>1 DEF Chained
      <4> QED
        BY <1>6, <2>2, <3>1, <3>3, <4>1 DEF In
    <3> QED
      BY <1>4, <2>2, <3>1, <3>2, <3>3, <3>4
  <2> QED
    BY <2>1, <2>2
<1>11. Progress(rnk)'
  <2>1. \A p \in known : bucket'[p] = bucket[p] /\ rnk[p] = rank[p]
    BY <1>2, <1>3, <1>6 DEF JournaldLink, Types
  <2>2. UNCHANGED <<known, st, iter_bucket, iter_offset, seen>>
    BY DEF JournaldLink
  <2>3. st = "reading" => iter_offset \in known /\ iter_bucket \in Bucket
    BY <1>1 DEF Progress, KnownIn
  <2>4. st = "reading" => \A p \in Object :
           Passed(rnk, p, iter_bucket, iter_offset)' <=> Passed(rank, p, iter_bucket, iter_offset)
    BY <2>1, <2>2, <2>3 DEF Passed
  <2> QED
    BY <1>1, <1>4, <2>1, <2>2, <2>3, <2>4 DEF Progress
<1>12. DeliversKnownOnce' /\ \A p \in known' : bucket'[p] # nbuckets
  BY <1>2, HashAssumption DEF IInv, DeliversKnownOnce, JournaldLink, Types
<1> QED
  BY <1>6, <1>7, <1>9, <1>10, <1>11, <1>12 DEF IInv

\* The table is loaded: it leads to all that the file's chains lead to.
LEMMA LoadIInv == IInv /\ got_hashtable => IInv'
<1> SUFFICES ASSUME IInv, got_hashtable PROVE IInv'
  OBVIOUS
<1>1. PICK rank \in [Object -> Nat] : Chained(rank) /\ TableKnows(rank) /\ Progress(rank)
  BY DEF IInv
<1>2. /\ table' = [head |-> head, tail |-> tail] /\ known' = InTable
      /\ st = "idle" /\ st' = "loaded"
      /\ UNCHANGED <<head, tail, next_hash_offset, bucket, iter_bucket, iter_offset, seen>>
  BY DEF got_hashtable
<1>3. Types'
  BY <1>2 DEF IInv, Types, InTable
<1>4. Chained(rank)'
  BY <1>1, <1>2 DEF Chained, In
<1>5. \A b \in Bucket : KnownIn(b)' = In(b) /\ In(b)' = In(b)
  BY <1>2, HashAssumption DEF KnownIn, InTable, In, Bucket
<1>6. TableKnows(rank)'
  <2> SUFFICES ASSUME NEW b \in Bucket
               PROVE  IF head[b] = 0
                      THEN In(b) = {}
                      ELSE /\ tail[b] \in In(b)
                           /\ In(b) = {o \in In(b) : rank[o] <= rank[tail[b]]}
    BY <1>2, <1>5 DEF TableKnows
  <2> QED
    BY <1>1 DEF Chained
<1>7. Progress(rank)' /\ DeliversKnownOnce'
  BY <1>1, <1>2 DEF Progress, DeliversKnownOnce
<1>8. \A o \in known' : bucket'[o] # nbuckets
  BY <1>2 DEF InTable
<1> QED
  BY <1>3, <1>4, <1>6, <1>7, <1>8 DEF IInv

-----------------------------------------------------------------------------
\* The objects that the loaded table leads to in buckets 1 to b.
UpTo(b) == {o \in known : bucket[o] \in 1 .. b}

\* Stepping on from bucket b: the next bucket's head is the first object of
\* those not passed, and without a next bucket all were passed.
LEMMA StepBucket ==
    ASSUME Types, NEW rank \in [Object -> Nat], Chained(rank), TableKnows(rank),
           \A o \in known : bucket[o] # nbuckets,
           NEW b \in Bucket, NEW S, S = {c \in Bucket : c > b /\ table.head[c] # 0}
    PROVE  /\ S = {} => UpTo(b) = UpTo(nbuckets)
           /\ S # {} => /\ Min(S) \in 1 .. nbuckets - 1
                        /\ table.head[Min(S)] \in KnownIn(Min(S))
                        /\ \A o \in Object :
                              Passed(rank, o, Min(S), table.head[Min(S)]) <=> o \in UpTo(b)
<1> USE HashAssumption DEF Bucket
<1>1. \A o \in known : bucket[o] \in Bucket /\ o \in KnownIn(bucket[o]) /\ o \in Object
  BY DEF Types, KnownIn
<1>2. \A o \in known : table.head[bucket[o]] # 0
  BY <1>1 DEF TableKnows
<1>3. CASE S = {}
  <2>1. \A o \in known : bucket[o] <= b
    BY <1>1, <1>2, <1>3
  <2> QED
    BY <1>1, <1>3, <2>1 DEF UpTo
<1>4. CASE S # {}
  <2> DEFINE m == Min(S)
  <2>1. m \in S /\ \A c \in S : m <= c
    BY <1>4, MinFacts
  <2> HIDE DEF m
  <2>2. m \in 1 .. nbuckets - 1 /\ m > b /\ table.head[m] # 0
    BY <2>1
  <2>3. /\ table.head[m] = head[m] /\ table.tail[m] \in In(m)
        /\ KnownIn(m) = {o \in In(m) : rank[o] <= rank[table.tail[m]]}
    BY <2>2 DEF TableKnows
  <2>4. head[m] \in In(m) /\ rank[head[m]] = 0
    BY <2>2, <2>3 DEF Chained
  <2>5. head[m] \in KnownIn(m)
    BY <2>3, <2>4 DEF In
  <2>6. ASSUME NEW o \in Object
        PROVE  Passed(rank, o, m, head[m]) <=> o \in UpTo(b)
    <3>1. ~ (rank[o] < rank[head[m]])
      BY <2>4
    <3>2. o \in known => (bucket[o] < m <=> bucket[o] <= b)
      BY <1>1, <1>2, <2>1, <2>2
    <3> QED
      BY <1>1, <3>1, <3>2 DEF Passed, UpTo
  <2> QED
    BY <1>4, <2>2, <2>3, <2>5, <2>6 DEF m
<1> QED
  BY <1>3, <1>4

\* Where an iteration is once it moved on after the objects in D.
MovedOn(rank, D) ==
    \/ /\ st' = "reading"
       /\ iter_bucket' \in 1 .. nbuckets - 1
       /\ iter_offset' \in KnownIn(iter_bucket')
       /\ \A o \in Object : Passed(rank, o, iter_bucket', iter_offset') <=> o \in D
    \/ /\ st' = "done"
       /\ iter_bucket' = nbuckets
       /\ iter_offset' = 0
       /\ D = UpTo(nbuckets)

\* The objects passed when the closure has run for the object at hand.
Visited(rank) == {o \in known : Passed(rank, o, iter_bucket, iter_offset) \/ o = iter_offset}

LEMMA FirstObject ==
    ASSUME Types, NEW rank \in [Object -> Nat], Chained(rank), TableKnows(rank),
           \A o \in known : bucket[o] # nbuckets,
           iter_bucket = 0, iter_offset = 0, IterNext(0)
    PROVE  MovedOn(rank, {})
<1>1. 0 \in Bucket /\ iter_bucket < nbuckets /\ ~ OnChain(0)
  BY HashAssumption DEF Bucket, OnChain
<1>2. BucketsAhead = {c \in Bucket : c > 0 /\ table.head[c] # 0}
  BY DEF BucketsAhead
<1>3. UpTo(0) = {}
  BY DEF UpTo
<1>4. /\ BucketsAhead = {} => UpTo(0) = UpTo(nbuckets)
      /\ BucketsAhead # {} =>
            /\ Min(BucketsAhead) \in 1 .. nbuckets - 1
            /\ table.head[Min(BucketsAhead)] \in KnownIn(Min(BucketsAhead))
            /\ \A o \in Object :
                  Passed(rank, o, Min(BucketsAhead), table.head[Min(BucketsAhead)])
                     <=> o \in UpTo(0)
  BY <1>1, <1>2, StepBucket
<1>5. IF BucketsAhead = {}
      THEN iter_bucket' = nbuckets /\ iter_offset' = 0 /\ st' = "done"
      ELSE /\ iter_bucket' = Min(BucketsAhead)
           /\ iter_offset' = table.head[Min(BucketsAhead)]
           /\ st' = "reading"
  BY <1>1, HashAssumption DEF IterNext
<1> QED
  BY <1>3, <1>4, <1>5 DEF MovedOn

LEMMA NextObject ==
    ASSUME Types, NEW rank \in [Object -> Nat], Chained(rank), TableKnows(rank),
           \A o \in known : bucket[o] # nbuckets,
           iter_bucket \in 1 .. nbuckets - 1, iter_offset \in KnownIn(iter_bucket),
           IterNext(next_hash_offset[iter_offset])
    PROVE  MovedOn(rank, Visited(rank))
<1> DEFINE b == iter_bucket  i == iter_offset  t == table.tail[b]  n == next_hash_offset[i]
<1>1. /\ b \in Bucket /\ b < nbuckets /\ i \in Object /\ i # 0 /\ i \in In(b)
      /\ i \in known /\ bucket[i] = b /\ known \subseteq Object
  BY HashAssumption DEF Bucket, KnownIn, In, Types, Object
<1>2. /\ table.head[b] = head[b] /\ t \in In(b)
      /\ KnownIn(b) = {o \in In(b) : rank[o] <= rank[t]}
  BY <1>1 DEF TableKnows
<1>3. /\ rank[t] <= rank[tail[b]]
      /\ \A o, p \in In(b) : rank[o] = rank[p] => o = p
  BY <1>1, <1>2 DEF Chained
<1>4. /\ i \in Object /\ t \in Object /\ rank[i] \in Nat /\ rank[t] \in Nat
      /\ rank[i] <= rank[t] /\ In(b) \subseteq Object
  BY <1>1, <1>2 DEF In
<1>5. CASE i # t
  <2>1. OnChain(n)
    BY <1>1, <1>5 DEF OnChain
  <2>2. st' = "reading" /\ iter_offset' = n /\ iter_bucket' = b
    BY <1>1, <2>1, HashAssumption DEF IterNext
  <2>3. rank[i] < rank[t]
    BY <1>1, <1>2, <1>3, <1>4, <1>5
  <2>4. tail[b] \in In(b) /\ i # tail[b]
    BY <1>1, <1>3, <1>4, <2>3 DEF Chained
  <2>5. n \in In(b) /\ rank[n] = rank[i] + 1
    BY <1>1, <2>4 DEF Chained
  <2>6. n \in KnownIn(b)
    BY <1>2, <1>4, <2>3, <2>5
  <2>7. ASSUME NEW o \in Object
        PROVE  Passed(rank, o, b, n) <=> o \in Visited(rank)
    <3>1. CASE o \in known /\ bucket[o] = b
      <4>1. o \in In(b) /\ rank[o] \in Nat
        BY <3>1 DEF In
      <4>2. rank[o] < rank[n] <=> (rank[o] < rank[i] \/ o = i)
        BY <1>1, <1>3, <1>4, <2>5, <4>1
      <4> QED
        BY <3>1, <4>2 DEF Passed, Visited
    <3>2. CASE ~ (o \in known /\ bucket[o] = b)
      BY <1>1, <3>2 DEF Passed, Visited
    <3> QED
      BY <3>1, <3>2
  <2> QED
    BY <2>2, <2>6, <2>7 DEF MovedOn
<1>6. CASE i = t
  <2>1. ~ OnChain(n) /\ BucketsAhead = {c \in Bucket : c > b /\ table.head[c] # 0}
    BY <1>1, <1>6 DEF OnChain, BucketsAhead
  <2>2. IF BucketsAhead = {}
        THEN iter_bucket' = nbuckets /\ iter_offset' = 0 /\ st' = "done"
        ELSE /\ iter_bucket' = Min(BucketsAhead)
             /\ iter_offset' = table.head[Min(BucketsAhead)]
             /\ st' = "reading"
    BY <1>1, <2>1, HashAssumption DEF IterNext
  <2>3. /\ BucketsAhead = {} => UpTo(b) = UpTo(nbuckets)
        /\ BucketsAhead # {} =>
              /\ Min(BucketsAhead) \in 1 .. nbuckets - 1
              /\ table.head[Min(BucketsAhead)] \in KnownIn(Min(BucketsAhead))
              /\ \A o \in Object :
                    Passed(rank, o, Min(BucketsAhead), table.head[Min(BucketsAhead)])
                       <=> o \in UpTo(b)
    BY <1>1, <2>1, StepBucket
  <2>4. \A o \in known : o \in UpTo(b) <=> o \in Visited(rank)
    <3> SUFFICES ASSUME NEW o \in known PROVE o \in UpTo(b) <=> o \in Visited(rank)
      OBVIOUS
    <3>1. bucket[o] \in 0 .. nbuckets /\ o \in Object
      BY <1>1 DEF Types
    <3>2. CASE bucket[o] = b
      <4>1. o \in KnownIn(b)
        BY <3>2 DEF KnownIn
      <4>2. o \in In(b) /\ rank[o] <= rank[i] /\ rank[o] \in Nat
        BY <1>2, <1>6, <3>1, <4>1
      <4>3. rank[o] < rank[i] \/ o = i
        BY <1>1, <1>3, <1>4, <4>2
      <4> QED
        BY <1>1, <3>2, <4>3 DEF UpTo, Visited, Passed
    <3>3. CASE bucket[o] # b
      BY <1>1, <3>1, <3>3, HashAssumption DEF UpTo, Visited, Passed
    <3> QED
      BY <3>2, <3>3
  <2>5. UpTo(b) = Visited(rank)
    BY <2>4 DEF UpTo, Visited
  <2> QED
    BY <2>2, <2>3, <2>5 DEF MovedOn
<1> QED
  BY <1>5, <1>6

-----------------------------------------------------------------------------
\* The iteration's steps leave the file and the loaded table alone.
StillTable == UNCHANGED <<head, tail, next_hash_offset, bucket, table, known>>

LEMMA StillFacts ==
    ASSUME StillTable, NEW rank
    PROVE  /\ Chained(rank) => Chained(rank)'
           /\ TableKnows(rank) => TableKnows(rank)'
           /\ \A b : KnownIn(b)' = KnownIn(b)
           /\ \A o, b, i : Passed(rank, o, b, i)' <=> Passed(rank, o, b, i)
BY DEF StillTable, Chained, TableKnows, In, KnownIn, Passed

\* Once moved on after the objects in D, each of which the closure ran for.
LEMMA MovedOnIInv ==
    ASSUME IInv, NEW rank \in [Object -> Nat], Chained(rank), TableKnows(rank),
           StillTable, NEW D, D \subseteq known, MovedOn(rank, D),
           seen' \in [Object -> 0 .. 2],
           \A o \in Object : seen'[o] = IF o \in D THEN 1 ELSE 0
    PROVE  IInv'
<1>1. UNCHANGED <<head, tail, next_hash_offset, bucket, table, known>>
  BY DEF StillTable
<1>2. /\ Chained(rank)' /\ TableKnows(rank)' /\ \A b : KnownIn(b)' = KnownIn(b)
      /\ \A o, b, i : Passed(rank, o, b, i)' <=> Passed(rank, o, b, i)
  BY StillFacts
<1>3. DeliversKnownOnce' /\ \A o \in known' : bucket'[o] # nbuckets
  BY <1>1 DEF IInv, DeliversKnownOnce
<1>4. CASE st' = "reading"
  <2>1. /\ iter_bucket' \in 1 .. nbuckets - 1 /\ iter_offset' \in KnownIn(iter_bucket')
        /\ \A o \in Object : Passed(rank, o, iter_bucket', iter_offset') <=> o \in D
    BY <1>4 DEF MovedOn
  <2>2. Types'
    <3>1. iter_bucket' \in 0 .. nbuckets /\ iter_offset' \in Link
      BY <2>1, HashAssumption DEF IInv, Types, KnownIn, Object, Link
    <3> QED
      BY <1>1, <1>4, <3>1 DEF IInv, Types
  <2>3. \A o \in Object :
           Passed(rank, o, iter_bucket, iter_offset)' <=> Passed(rank, o, iter_bucket', iter_offset')
    BY <1>1 DEF Passed
  <2>4. Progress(rank)'
    BY <1>2, <1>4, <2>1, <2>3 DEF Progress
  <2> QED
    BY <1>2, <1>3, <2>2, <2>4 DEF IInv
<1>5. CASE st' # "reading"
  <2>1. st' = "done" /\ iter_bucket' = nbuckets /\ iter_offset' = 0 /\ D = UpTo(nbuckets)
    BY <1>5 DEF MovedOn
  <2>2. Types'
    BY <1>1, <2>1, HashAssumption DEF IInv, Types, Link
  <2>3. \A o \in Object : o \in D <=> o \in known /\ bucket[o] >= 1
    BY <2>1, HashAssumption DEF IInv, Types, UpTo
  <2>4. Progress(rank)'
    BY <1>1, <2>1, <2>3 DEF Progress
  <2> QED
    BY <1>2, <1>3, <2>2, <2>4 DEF IInv
<1> QED
  BY <1>4, <1>5

LEMMA BeginIInv == IInv /\ journal_hash_table_for_each => IInv'
<1> SUFFICES ASSUME IInv, journal_hash_table_for_each PROVE IInv'
  OBVIOUS
<1>1. PICK rank \in [Object -> Nat] : Chained(rank) /\ TableKnows(rank) /\ Progress(rank)
  BY DEF IInv
<1>2. StillTable /\ IterNext(0) /\ seen' = seen /\ iter_bucket = 0 /\ iter_offset = 0
      /\ \A o \in Object : seen[o] = 0
  BY <1>1 DEF journal_hash_table_for_each, StillTable, Progress
<1>3. MovedOn(rank, {})
  BY <1>1, <1>2, FirstObject DEF IInv
<1> QED
  BY <1>1, <1>2, <1>3, MovedOnIInv DEF IInv, Types

LEMMA ObjectIInv == IInv /\ got_hash_table_iter_object_header => IInv'
<1> SUFFICES ASSUME IInv, got_hash_table_iter_object_header PROVE IInv'
  OBVIOUS
<1>1. PICK rank \in [Object -> Nat] : Chained(rank) /\ TableKnows(rank) /\ Progress(rank)
  BY DEF IInv
<1>2. /\ iter_bucket \in 1 .. nbuckets - 1 /\ iter_offset \in KnownIn(iter_bucket)
      /\ \A o \in Object :
            seen[o] = IF Passed(rank, o, iter_bucket, iter_offset) THEN 1 ELSE 0
  BY <1>1 DEF got_hash_table_iter_object_header, Progress
<1>3. iter_offset \in Object /\ iter_offset \in known /\ iter_offset # 0
  BY <1>2 DEF KnownIn, IInv, Types, Object
<1>4. /\ StillTable /\ IterNext(next_hash_offset[iter_offset])
      /\ seen' = [seen EXCEPT ![iter_offset] = IF @ < 2 THEN @ + 1 ELSE @]
  BY <1>3 DEF got_hash_table_iter_object_header, StillTable
<1>5. MovedOn(rank, Visited(rank))
  BY <1>1, <1>2, <1>4, NextObject DEF IInv
<1>6. ~ Passed(rank, iter_offset, iter_bucket, iter_offset)
  BY <1>2, <1>3, HashAssumption DEF Passed, KnownIn
<1>7. seen' \in [Object -> 0 .. 2] /\ Visited(rank) \subseteq known
  <2>1. seen \in [Object -> 0 .. 2]
    BY DEF IInv, Types
  <2>2. (IF seen[iter_offset] < 2 THEN seen[iter_offset] + 1 ELSE seen[iter_offset]) \in 0 .. 2
    BY <1>3, <2>1
  <2> QED
    BY <1>4, <2>1, <2>2 DEF Visited
<1>8. ASSUME NEW o \in Object
      PROVE  seen'[o] = IF o \in Visited(rank) THEN 1 ELSE 0
  <2>1. o # iter_offset => seen'[o] = seen[o] /\ (o \in Visited(rank) <=> Passed(rank, o, iter_bucket, iter_offset))
    BY <1>4 DEF Visited, IInv, Types, Passed
  <2>2. o = iter_offset => seen[o] = 0 /\ seen'[o] = 1 /\ o \in Visited(rank)
    BY <1>2, <1>3, <1>4, <1>6 DEF Visited, IInv, Types
  <2> QED
    BY <1>2, <2>1, <2>2
<1> QED
  BY <1>1, <1>4, <1>5, <1>7, <1>8, MovedOnIInv

\* A read fails, or the iteration is taken up after its end.
LEMMA OverIInv == IInv /\ (ReadFails \/ IterAgain) => IInv'
<1> SUFFICES ASSUME IInv, ReadFails \/ IterAgain PROVE IInv'
  OBVIOUS
<1>1. PICK rank \in [Object -> Nat] : Chained(rank) /\ TableKnows(rank) /\ Progress(rank)
  BY DEF IInv
<1>2. StillTable /\ Chained(rank)' /\ TableKnows(rank)'
  BY <1>1, StillFacts DEF ReadFails, IterAgain, StillTable
<1>3. CASE ReadFails
  <2>1. Types' /\ Progress(rank)'
    BY <1>3 DEF ReadFails, IInv, Types, Progress
  <2> QED
    BY <1>2, <1>3, <2>1 DEF ReadFails, IInv, DeliversKnownOnce
<1>4. CASE IterAgain
  <2>1. st' = "aborted" /\ UNCHANGED <<iter_bucket, iter_offset, seen>>
    BY <1>1, <1>4, HashAssumption DEF IterAgain, IterNext, Progress
  <2>2. Types' /\ Progress(rank)'
    BY <1>4, <2>1 DEF IterAgain, IInv, Types, Progress
  <2> QED
    BY <1>2, <1>4, <2>1, <2>2 DEF IterAgain, IInv, DeliversKnownOnce
<1> QED
  BY <1>3, <1>4

LEMMA NextIInv == IInv /\ [Next]_vars => IInv'
<1> SUFFICES ASSUME IInv, [Next]_vars PROVE IInv'
  OBVIOUS
<1>1. CASE UNCHANGED vars
  <2>1. PICK rank \in [Object -> Nat] : Chained(rank) /\ TableKnows(rank) /\ Progress(rank)
    BY DEF IInv
  <2>2. StillTable /\ Chained(rank)' /\ TableKnows(rank)'
    BY <1>1, <2>1, StillFacts DEF vars, StillTable
  <2>3. Progress(rank)' /\ Types' /\ DeliversKnownOnce'
    BY <1>1, <2>1 DEF vars, Progress, Passed, KnownIn, IInv, Types, DeliversKnownOnce
  <2> QED
    BY <1>1, <2>2, <2>3 DEF IInv, vars
<1>2. ASSUME NEW o \in Object, NEW b \in Bucket, JournaldLink(o, b) PROVE IInv'
  BY <1>2, LinkIInv
<1> QED
  BY <1>1, <1>2, LoadIInv, BeginIInv, ObjectIInv, OverIInv DEF Next

LEMMA SpecIInv == Spec => []IInv
<1>1. Init => IInv
  BY InitIInv
<1>2. IInv /\ [Next]_vars => IInv'
  BY NextIInv
<1> QED
  BY <1>1, <1>2, PTL DEF Spec

-----------------------------------------------------------------------------
\* journal_hash_table_iter_next_object() follows a chain up to the tail that
\* the loaded table names: however journald extends the chains meanwhile, the
\* closure runs for nothing but what the table led to, and never twice.
THEOREM DeliversOnce == Spec => []DeliversKnownOnce
<1>1. IInv => DeliversKnownOnce
  BY DEF IInv
<1> QED
  BY <1>1, SpecIInv, PTL

\* When journal_hash_table_iter_next_object() has left a bucket, the closure
\* has run for every object of its chain; bucket 0 is the exception.
THEOREM ChainsAreComplete == Spec => []ChainsComplete
<1>1. IInv => ChainsComplete
  <2> SUFFICES ASSUME IInv, NEW b \in 1 .. nbuckets - 1, b < iter_bucket,
                      st \in {"reading", "done"}, NEW o \in KnownIn(b)
               PROVE  seen[o] = 1
    BY DEF ChainsComplete
  <2>1. PICK rank \in [Object -> Nat] : Chained(rank) /\ TableKnows(rank) /\ Progress(rank)
    BY DEF IInv
  <2>2. o \in known /\ o \in Object /\ bucket[o] = b
    BY DEF IInv, Types, KnownIn
  <2>3. CASE st = "reading"
    BY <2>1, <2>2, <2>3 DEF Progress, Passed
  <2>4. CASE st = "done"
    BY <2>1, <2>2, <2>4 DEF Progress
  <2> QED
    BY <2>3, <2>4
<1> QED
  BY <1>1, SpecIInv, PTL

\* got_hash_table_iter_object_header()'s closure takes *iter_offset 0 for the
\* end of the iteration: no object is ever read there.
THEOREM HeaderIsNeverRead == Spec => []NeverReadsHeader
<1>1. IInv => NeverReadsHeader
  <2> SUFFICES ASSUME IInv, st = "reading" PROVE iter_offset # 0
    BY DEF NeverReadsHeader
  <2>1. iter_offset \in KnownIn(iter_bucket)
    BY DEF IInv, Progress
  <2> QED
    BY <2>1 DEF IInv, Types, KnownIn, Object
<1> QED
  BY <1>1, SpecIInv, PTL

-----------------------------------------------------------------------------
\* What the refinement mapping makes of the iteration.
TableStatus ==
    IF st \in {"done", "aborted"} THEN "ended"
    ELSE IF iter_offset # 0 THEN "iterating" ELSE "idle"
TableTodo ==
    IF st \in {"idle", "loaded"} THEN {}
    ELSE {o \in known : bucket[o] >= 1 /\ seen[o] = 0}

\* The iteration has things to deliver exactly while it reads objects.
Agrees ==
    /\ TableTodo \subseteq Object /\ seen \in [Object -> 0 .. 2]
    /\ st \in {"idle", "loaded"} => TableStatus = "idle" /\ seen = [o \in Object |-> 0]
    /\ st = "reading" => TableStatus = "iterating" /\ iter_offset \in TableTodo
    /\ st = "done" => TableStatus = "ended" /\ TableTodo = {} /\ iter_bucket = nbuckets

LEMMA StatusAgrees == IInv => Agrees
<1> SUFFICES ASSUME IInv PROVE Agrees
  OBVIOUS
<1>1. PICK rank \in [Object -> Nat] : Chained(rank) /\ TableKnows(rank) /\ Progress(rank)
  BY DEF IInv
<1>2. TableTodo \subseteq Object /\ seen \in [Object -> 0 .. 2]
  BY DEF IInv, Types, TableTodo
<1>3. CASE st \in {"idle", "loaded"}
  BY <1>1, <1>2, <1>3 DEF Progress, TableStatus, TableTodo, Agrees
<1>4. CASE st = "reading"
  <2>1. /\ iter_bucket \in 1 .. nbuckets - 1 /\ iter_offset \in KnownIn(iter_bucket)
        /\ \A o \in Object :
              seen[o] = IF Passed(rank, o, iter_bucket, iter_offset) THEN 1 ELSE 0
    BY <1>1, <1>4 DEF Progress
  <2>2. /\ iter_offset \in known /\ iter_offset \in Object /\ iter_offset # 0
        /\ bucket[iter_offset] = iter_bucket /\ iter_bucket \in Nat /\ iter_bucket >= 1
        /\ rank[iter_offset] \in Nat
    BY <2>1, HashAssumption DEF KnownIn, IInv, Types, Object
  <2>3. seen[iter_offset] = 0
    BY <2>1, <2>2 DEF Passed
  <2> QED
    BY <1>2, <1>4, <2>2, <2>3 DEF TableStatus, TableTodo, Agrees
<1>5. CASE st = "done"
  BY <1>1, <1>2, <1>5 DEF Progress, TableStatus, TableTodo, Agrees, IInv, Types
<1>6. CASE st \in {"failed", "aborted"}
  BY <1>2, <1>6 DEF Agrees
<1> QED
  BY <1>3, <1>4, <1>5, <1>6 DEF IInv, Types

LEMMA StatusAgreesNext == IInv' => Agrees'
BY StatusAgrees, PTL

\* A step is one of the abstract specification when the status, the things to
\* do and the deliveries change as one of its actions says.
LEMMA BeginMaps ==
    ASSUME TableStatus # "iterating", TableTodo' \subseteq Object,
           TableStatus' = IF TableTodo' = {} THEN "ended" ELSE "iterating",
           seen' = [o \in Object |-> 0]
    PROVE  Its!Next
<1> DEFINE status == [i \in {"table"} |-> TableStatus]
           todo == [i \in {"table"} |-> TableTodo]
           delivered == [i \in {"table"} |-> seen]
<1>1. /\ status' = [status EXCEPT !["table"] = IF todo'["table"] = {} THEN "ended" ELSE "iterating"]
      /\ todo' = [todo EXCEPT !["table"] = todo'["table"]]
      /\ delivered' = [delivered EXCEPT !["table"] = [o \in Object |-> 0]]
      /\ status["table"] # "iterating" /\ todo'["table"] \subseteq Object
  OBVIOUS
<1>2. Its!Begin("table")
  BY <1>1, Zenon DEF Its!Begin, Its!MovesOn, TableStatus, TableTodo
<1> QED
  BY <1>2 DEF Its!Next

LEMMA DeliverMaps ==
    ASSUME NEW x \in TableTodo, TableStatus = "iterating",
           TableTodo' = TableTodo \ {x},
           TableStatus' = IF TableTodo' = {} THEN "ended" ELSE "iterating",
           seen' = [seen EXCEPT ![x] = 1]
    PROVE  Its!Next
<1> DEFINE status == [i \in {"table"} |-> TableStatus]
           todo == [i \in {"table"} |-> TableTodo]
           delivered == [i \in {"table"} |-> seen]
<1>1. /\ status' = [status EXCEPT !["table"] =
                       IF todo["table"] \ {x} = {} THEN "ended" ELSE "iterating"]
      /\ todo' = [todo EXCEPT !["table"] = todo["table"] \ {x}]
      /\ delivered' = [delivered EXCEPT !["table"] = [delivered["table"] EXCEPT ![x] = 1]]
      /\ status["table"] = "iterating" /\ x \in todo["table"]
      /\ \A y \in todo["table"] : <<y, x>> \notin {}
  OBVIOUS
<1>2. Its!Deliver("table", x)
  BY <1>1, Zenon DEF Its!Deliver, Its!MovesOn, TableStatus, TableTodo
<1>3. x \in [i \in {"table"} |-> TableTodo]["table"]
  OBVIOUS
<1> QED
  BY <1>2, <1>3 DEF Its!Next, TableTodo

\* The loop begins once the table is loaded.
LEMMA BeginsMap == IInv /\ IInv' /\ journal_hash_table_for_each => Its!Next
<1> SUFFICES ASSUME IInv, IInv', journal_hash_table_for_each PROVE Its!Next
  OBVIOUS
<1>1. st = "loaded" /\ IterNext(0) /\ seen' = seen
  BY DEF journal_hash_table_for_each
<1>2. Agrees /\ Agrees'
  BY StatusAgrees, StatusAgreesNext
<1>3. TableStatus # "iterating" /\ seen' = [o \in Object |-> 0]
  BY <1>1, <1>2 DEF Agrees
<1>4. st' \in {"reading", "done"}
  <2>1. iter_bucket = 0
    BY <1>1 DEF IInv, Progress
  <2> QED
    BY <1>1, <2>1, HashAssumption DEF IterNext
<1>5. TableTodo' \subseteq Object /\ TableStatus' = IF TableTodo' = {} THEN "ended" ELSE "iterating"
  BY <1>2, <1>4 DEF Agrees
<1> QED
  BY <1>3, <1>5, BeginMaps

\* The object that was read is the one delivered, and no other.
LEMMA DeliversMap == IInv /\ IInv' /\ got_hash_table_iter_object_header => Its!Next
<1> SUFFICES ASSUME IInv, IInv', got_hash_table_iter_object_header PROVE Its!Next
  OBVIOUS
<1>1. Agrees /\ Agrees' /\ st = "reading"
  BY StatusAgrees, StatusAgreesNext DEF got_hash_table_iter_object_header
<1>2. /\ TableStatus = "iterating" /\ iter_offset \in TableTodo /\ iter_offset \in Object
      /\ TableTodo = {o \in known : bucket[o] >= 1 /\ seen[o] = 0}
  BY <1>1 DEF Agrees, TableTodo
<1>3. /\ IterNext(next_hash_offset[iter_offset])
      /\ seen' = [seen EXCEPT ![iter_offset] = IF @ < 2 THEN @ + 1 ELSE @]
      /\ UNCHANGED <<bucket, known>>
  BY <1>2 DEF got_hash_table_iter_object_header, Object
<1>4. seen' = [seen EXCEPT ![iter_offset] = 1] /\ seen \in [Object -> 0 .. 2]
  BY <1>1, <1>2, <1>3 DEF Agrees
<1>5. st' \in {"reading", "done"}
  <2>1. iter_bucket \in 0 .. nbuckets - 1
    BY <1>1, HashAssumption DEF IInv, Progress
  <2> QED
    BY <1>3, <2>1, HashAssumption DEF IterNext
<1>6. TableTodo' = TableTodo \ {iter_offset}
  <2>1. TableTodo' = {o \in known : bucket[o] >= 1 /\ seen'[o] = 0}
    BY <1>3, <1>5 DEF TableTodo
  <2>2. known \subseteq Object
    BY DEF IInv, Types
  <2> QED
    BY <1>2, <1>4, <2>1, <2>2
<1>7. TableStatus' = IF TableTodo' = {} THEN "ended" ELSE "iterating"
  BY <1>1, <1>5 DEF Agrees
<1> QED
  BY <1>2, <1>4, <1>6, <1>7, DeliverMaps

\* What no step of the loop does, the abstract specification does not see.
LEMMA StayStutters ==
    ASSUME TableStatus' = TableStatus, TableTodo' = TableTodo, seen' = seen
    PROVE  UNCHANGED Its!vars
BY DEF Its!vars, TableStatus, TableTodo

\* Only what the table does not know of is linked.
LEMMA LinkStays ==
    ASSUME IInv, NEW o \in Object, NEW b \in Bucket, JournaldLink(o, b)
    PROVE  UNCHANGED Its!vars
<1>1. UNCHANGED <<known, st, iter_offset, seen>>
  BY DEF JournaldLink
<1>2. \A p \in known : bucket'[p] = bucket[p]
  BY DEF JournaldLink, InTable, IInv, Types
<1>3. TableTodo' = TableTodo
  BY <1>1, <1>2 DEF TableTodo
<1> QED
  BY <1>1, <1>3, StayStutters DEF TableStatus

LEMMA StepsAreIterationSteps == IInv /\ IInv' /\ [Next]_vars => [Its!Next]_(Its!vars)
<1> SUFFICES ASSUME IInv, IInv', [Next]_vars
             PROVE  Its!Next \/ UNCHANGED Its!vars
  OBVIOUS
<1>1. CASE \E o \in Object, b \in Bucket : JournaldLink(o, b)
  BY <1>1, LinkStays
<1>2. CASE journal_hash_table_for_each \/ got_hash_table_iter_object_header
  BY <1>2, BeginsMap, DeliversMap
<1>3. CASE got_hashtable
  BY <1>3, StayStutters DEF got_hashtable, TableStatus, TableTodo
<1>4. CASE ReadFails
  <2>1. st' = "failed" /\ UNCHANGED <<bucket, known, iter_offset, seen>> /\ st \in {"idle", "reading"}
    BY <1>4 DEF ReadFails
  <2>2. TableTodo' = TableTodo
    BY <2>1 DEF TableTodo, IInv, Progress
  <2> QED
    BY <2>1, <2>2, StayStutters DEF TableStatus
<1>5. CASE IterAgain
  <2>1. st = "done" /\ iter_bucket = nbuckets
    BY <1>5, StatusAgrees DEF IterAgain, Agrees
  <2>2. st' = "aborted" /\ UNCHANGED <<bucket, known, iter_offset, seen>>
    BY <1>5, <2>1, HashAssumption DEF IterAgain, IterNext
  <2> QED
    BY <2>1, <2>2, StayStutters DEF TableStatus, TableTodo
<1>6. CASE UNCHANGED vars
  BY <1>6, StayStutters DEF vars, TableStatus, TableTodo
<1> QED
  BY <1>1, <1>2, <1>3, <1>4, <1>5, <1>6 DEF Next

LEMMA InitMaps == Init => Its!Init
<1> SUFFICES ASSUME Init PROVE Its!Init
  OBVIOUS
<1>1. TableStatus = "idle" /\ TableTodo = {} /\ seen = [o \in Object |-> 0]
  BY DEF Init, TableStatus, TableTodo
<1> QED
  BY <1>1 DEF Its!Init, TableStatus, TableTodo

\* journal_hash_table_for_each() keeps the promises of Iterations to its
\* command: what the loaded table leads to from bucket 1 on is settled when the
\* loop begins and is delivered once, for a table and chains of any size that
\* journald makes longer meanwhile.
THEOREM TableImplementsIterations == Spec => RefinesIterations
<1>1. Init => Its!Init
  BY InitMaps
<1>2. IInv /\ IInv' /\ [Next]_vars => [Its!Next]_(Its!vars)
  BY StepsAreIterationSteps
<1>3. Spec => Its!Init /\ [][Its!Next]_(Its!vars)
  BY <1>1, <1>2, SpecIInv, PTL DEF Spec
<1> QED
  BY <1>3 DEF RefinesIterations, Its!Spec
=============================================================================
