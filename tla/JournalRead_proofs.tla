-------------------------- MODULE JournalRead_proofs --------------------------
(***************************************************************************)
(* The safety of journal_read() for every number and size of buffers and   *)
(* every size of file.  The first lemmas are about the list of buffers     *)
(* alone: it stays well linked.                                            *)
(***************************************************************************)
EXTENDS JournalRead, SumLemmas, SequenceTheorems, TLAPS

\* What the proofs need to know of the buffers' names.
LEMMA BufIdxFacts ==
    /\ 0 \in BufIdx /\ JOURNAL_BUF_CNT - 1 \in BufIdx
    /\ NULL \notin BufIdx
    /\ BufIdx \subseteq Int
    /\ \A b \in BufIdx : b \in 0 .. JOURNAL_BUF_CNT - 1
BY BufCntAssumption, NullAssumption DEF BufIdx

\* opened_journal() builds a well-linked list.
LEMMA SetupWellLinked == lru_setup \in LruList /\ WellLinked(lru_setup)
<1> DEFINE id == [b \in BufIdx |-> b]
<1>1. id \in [BufIdx -> 0 .. JOURNAL_BUF_CNT - 1]
  BY DEF BufIdx
<1>2. Ranks(lru_setup, id)
  <2>1. id[lru_setup.head] = 0 /\ id[lru_setup.tail] = JOURNAL_BUF_CNT - 1
    BY BufIdxFacts DEF lru_setup
  <2>2. \A b \in BufIdx : IF id[b] = JOURNAL_BUF_CNT - 1
                          THEN lru_setup.next[b] = NULL
                          ELSE lru_setup.next[b] \in BufIdx /\ id[lru_setup.next[b]] = id[b] + 1
    BY BufCntAssumption DEF lru_setup, BufIdx
  <2>3. \A b \in BufIdx : IF id[b] = 0
                          THEN lru_setup.prev[b] = NULL
                          ELSE lru_setup.prev[b] \in BufIdx /\ id[lru_setup.prev[b]] = id[b] - 1
    BY BufCntAssumption DEF lru_setup, BufIdx
  <2> QED
    BY <2>1, <2>2, <2>3 DEF Ranks
<1>3. lru_setup \in LruList
  BY BufCntAssumption, NullAssumption DEF lru_setup, LruList, BufIdx, BufPtr
<1> QED
  BY <1>1, <1>2, <1>3 DEF WellLinked

\* buf_used() makes b the tail, whether or not it was already.
LEMMA UsedIsTail ==
    ASSUME NEW l, NEW b
    PROVE  buf_used(l, b).tail = b
BY DEF buf_used

\* The order after a use of b: b is last, the buffers behind it move up.
RankAfterUse(rank, b) ==
    [c \in BufIdx |-> IF c = b THEN JOURNAL_BUF_CNT - 1
                      ELSE IF rank[c] > rank[b] THEN rank[c] - 1 ELSE rank[c]]

\* buf_used() moves b behind all other buffers and keeps their order and the
\* chain, for every buffer that can be moved: the head, the tail or one between.
LEMMA UsedRanks ==
    ASSUME NEW l \in LruList, NEW b \in BufIdx,
           NEW rank \in [BufIdx -> 0 .. JOURNAL_BUF_CNT - 1], Ranks(l, rank)
    PROVE  /\ buf_used(l, b) \in LruList
           /\ RankAfterUse(rank, b) \in [BufIdx -> 0 .. JOURNAL_BUF_CNT - 1]
           /\ Ranks(buf_used(l, b), RankAfterUse(rank, b))
<1>1. CASE l.tail = b
  <2>1. rank[b] = JOURNAL_BUF_CNT - 1
    BY <1>1 DEF Ranks
  <2>2. RankAfterUse(rank, b) = rank
    BY <2>1, BufCntAssumption DEF RankAfterUse
  <2>3. buf_used(l, b) = l
    BY <1>1 DEF buf_used
  <2> QED
    BY <2>2, <2>3
<1>2. CASE l.tail # b
  <2>1. rank \in [BufIdx -> 0 .. JOURNAL_BUF_CNT - 1] /\ Ranks(l, rank)
    OBVIOUS
  <2> DEFINE p == l.prev[b]
             n == l.next[b]
             t == l.tail
             u == buf_used(l, b)
             r == RankAfterUse(rank, b)
  <2>2. /\ b # t /\ t \in BufIdx
        /\ rank[b] \in 0 .. JOURNAL_BUF_CNT - 2
        /\ n \in BufIdx /\ n # b /\ rank[n] = rank[b] + 1
    <3>1. t \in BufIdx /\ rank[t] = JOURNAL_BUF_CNT - 1
      BY <2>1 DEF Ranks, LruList
    <3>2. rank[b] # JOURNAL_BUF_CNT - 1
      BY <1>2, <2>1, <3>1 DEF Ranks
    <3>3. n \in BufIdx /\ rank[n] = rank[b] + 1
      BY <2>1, <3>2 DEF Ranks
    <3> QED
      BY <1>2, <3>1, <3>2, <3>3, BufCntAssumption
  <2>3. \/ p = NULL /\ rank[b] = 0 /\ l.head = b
        \/ p \in BufIdx /\ p # b /\ p # n /\ p # t /\ rank[p] = rank[b] - 1 /\ rank[b] > 0 /\ l.head # b
    <3>1. l.head \in BufIdx /\ rank[l.head] = 0 /\ rank[t] = JOURNAL_BUF_CNT - 1
      BY <2>1 DEF Ranks, LruList
    <3>2. CASE rank[b] = 0
      BY <2>1, <3>1, <3>2 DEF Ranks
    <3>3. CASE rank[b] # 0
      <4>1. p \in BufIdx /\ rank[p] = rank[b] - 1 /\ rank[b] > 0
        BY <2>1, <3>3 DEF Ranks
      <4> QED
        BY <4>1, <3>1, <2>2, BufCntAssumption
    <3> QED
      BY <3>2, <3>3
  <2>4. r \in [BufIdx -> 0 .. JOURNAL_BUF_CNT - 1]
    BY <2>1, BufCntAssumption, BufIdxFacts DEF RankAfterUse
  <2>5. /\ u.head = IF p = NULL THEN n ELSE l.head
        /\ u.tail = b
        /\ u.prev = [l.prev EXCEPT ![n] = p, ![b] = t]
        /\ u.next = [(IF p = NULL THEN l.next ELSE [l.next EXCEPT ![p] = n])
                        EXCEPT ![b] = NULL, ![t] = b]
    BY <1>2 DEF buf_used
  <2>6. /\ u.prev \in [BufIdx -> BufPtr]
        /\ \A c \in BufIdx : u.prev[c] = IF c = b THEN t ELSE IF c = n THEN p ELSE l.prev[c]
    BY <2>2, <2>3, <2>5 DEF LruList, BufPtr
  <2>7. /\ u.next \in [BufIdx -> BufPtr]
        /\ \A c \in BufIdx : u.next[c] = IF c = t THEN b ELSE IF c = b THEN NULL
                                         ELSE IF c = p THEN n ELSE l.next[c]
    BY <2>2, <2>3, <2>5, BufIdxFacts DEF LruList, BufPtr
  <2>8. u \in LruList
    <3>1. u = [head |-> u.head, tail |-> u.tail, prev |-> u.prev, next |-> u.next]
      BY <1>2 DEF buf_used
    <3>2. u.head \in BufIdx /\ u.tail \in BufIdx
      BY <2>2, <2>3, <2>5 DEF LruList
    <3> HIDE DEF u
    <3> QED
      BY <3>1, <3>2, <2>6, <2>7 DEF LruList
  <2>9. Ranks(u, r)
    <3> HIDE DEF u
    <3>1. r[u.head] = 0 /\ r[u.tail] = JOURNAL_BUF_CNT - 1
      BY <2>1, <2>2, <2>3, <2>5, BufCntAssumption, BufIdxFacts DEF RankAfterUse, Ranks, LruList
    <3>2. \A c, d \in BufIdx : r[c] = r[d] => c = d
      BY <2>1, <2>2, BufCntAssumption, BufIdxFacts DEF RankAfterUse, Ranks
    <3>3. ASSUME NEW c \in BufIdx
          PROVE  IF r[c] = JOURNAL_BUF_CNT - 1 THEN u.next[c] = NULL
                 ELSE u.next[c] \in BufIdx /\ r[u.next[c]] = r[c] + 1
      <4>1. /\ rank[t] = JOURNAL_BUF_CNT - 1 /\ rank[c] \in 0 .. JOURNAL_BUF_CNT - 1
            /\ rank[b] \in 0 .. JOURNAL_BUF_CNT - 2 /\ JOURNAL_BUF_CNT \in Int
            /\ \A d \in BufIdx : r[d] = IF d = b THEN JOURNAL_BUF_CNT - 1
                                        ELSE IF rank[d] > rank[b] THEN rank[d] - 1 ELSE rank[d]
            /\ \A d, e \in BufIdx : rank[d] = rank[e] => d = e
            /\ rank[c] # JOURNAL_BUF_CNT - 1 =>
                  l.next[c] \in BufIdx /\ rank[l.next[c]] = rank[c] + 1
            /\ rank[c] = JOURNAL_BUF_CNT - 1 => l.next[c] = NULL
        BY <2>1, <2>2, BufCntAssumption, BufIdxFacts DEF Ranks, RankAfterUse
      <4> HIDE DEF r
      <4>2. CASE c = b
        BY <4>1, <4>2, <2>2, <2>7
      <4>3. CASE c = t
        <5>1. u.next[c] = b /\ rank[c] = JOURNAL_BUF_CNT - 1 /\ c # b
          BY <4>1, <4>3, <2>2, <2>7
        <5>2. r[c] = JOURNAL_BUF_CNT - 2 /\ r[b] = JOURNAL_BUF_CNT - 1
          <6>1. r[b] = JOURNAL_BUF_CNT - 1
            BY <4>1
          <6>2. r[c] = IF rank[c] > rank[b] THEN rank[c] - 1 ELSE rank[c]
            BY <4>1, <5>1
          <6> QED
            BY <6>1, <6>2, <5>1, <4>1
        <5> QED
          BY <4>1, <5>1, <5>2
      <4>4. CASE c = p /\ c # b /\ c # t
        <5>1. u.next[c] = n /\ rank[c] = rank[b] - 1 /\ n # b /\ n \in BufIdx
              /\ rank[n] = rank[b] + 1
          BY <4>4, <2>2, <2>3, <2>7, BufIdxFacts
        <5>2. /\ r[c] = IF rank[c] > rank[b] THEN rank[c] - 1 ELSE rank[c]
              /\ r[n] = IF rank[n] > rank[b] THEN rank[n] - 1 ELSE rank[n]
          BY <4>1, <4>4, <5>1
        <5>3. r[c] = rank[b] - 1 /\ r[n] = rank[b]
          BY <4>1, <5>1, <5>2
        <5> QED
          BY <4>1, <5>1, <5>3
      <4>5. CASE c # b /\ c # t /\ c # p
        <5>1. u.next[c] = l.next[c] /\ rank[c] # rank[t] /\ rank[c] # rank[b]
          BY <4>1, <4>5, <2>2, <2>7
        <5>2. rank[c] # rank[b] - 1
          BY <2>1, <2>2, <4>1, <4>5, <2>3
        <5>3. /\ l.next[c] \in BufIdx /\ rank[l.next[c]] = rank[c] + 1 /\ l.next[c] # b
          BY <4>1, <5>1, <5>2, <2>2
        <5>4. /\ r[c] = IF rank[c] > rank[b] THEN rank[c] - 1 ELSE rank[c]
              /\ r[l.next[c]] = IF rank[l.next[c]] > rank[b] THEN rank[l.next[c]] - 1
                                ELSE rank[l.next[c]]
          BY <4>1, <4>5, <5>3
        <5>5. r[l.next[c]] = r[c] + 1 /\ r[c] # JOURNAL_BUF_CNT - 1
          <6>1. rank[l.next[c]] \in 0 .. JOURNAL_BUF_CNT - 1
            BY <2>1, <5>3
          <6> QED
            BY <4>1, <5>1, <5>3, <5>4, <6>1
        <5> QED
          BY <5>1, <5>3, <5>5
      <4> QED
        BY <4>2, <4>3, <4>4, <4>5
    <3>4. ASSUME NEW c \in BufIdx
          PROVE  IF r[c] = 0 THEN u.prev[c] = NULL
                 ELSE u.prev[c] \in BufIdx /\ r[u.prev[c]] = r[c] - 1
      <4>1. rank[t] = JOURNAL_BUF_CNT - 1
        BY <2>1 DEF Ranks
      <4>2. CASE c = b
        BY <4>1, <4>2, <2>1, <2>2, <2>6, BufCntAssumption, BufIdxFacts DEF RankAfterUse
      <4>3. CASE c = n
        BY <4>3, <2>1, <2>2, <2>3, <2>6, BufCntAssumption, BufIdxFacts DEF RankAfterUse
      <4>4. CASE c # b /\ c # n
        <5>1. u.prev[c] = l.prev[c] /\ rank[c] # rank[b] + 1 /\ rank[c] # rank[b]
          <6>1. u.prev[c] = l.prev[c]
            BY <4>4, <2>6
          <6>2. rank[c] # rank[n] /\ rank[c] # rank[b]
            BY <4>4, <2>1, <2>2 DEF Ranks
          <6> QED
            BY <6>1, <6>2, <2>2
        <5>2. IF rank[c] = 0 THEN l.prev[c] = NULL
              ELSE l.prev[c] \in BufIdx /\ rank[l.prev[c]] = rank[c] - 1 /\ l.prev[c] # b
          <6>1. IF rank[c] = 0 THEN l.prev[c] = NULL
                ELSE l.prev[c] \in BufIdx /\ rank[l.prev[c]] = rank[c] - 1
            BY <2>1 DEF Ranks
          <6>2. rank[c] \in Int /\ rank[b] \in Int
            BY <2>1
          <6> QED
            BY <5>1, <6>1, <6>2
        <5> QED
          BY <4>4, <5>1, <5>2, <2>1, <2>2, BufCntAssumption, BufIdxFacts DEF RankAfterUse
      <4> QED
        BY <4>2, <4>3, <4>4
    <3> QED
      BY <3>1, <3>2, <3>3, <3>4 DEF Ranks
  <2> QED
    BY <2>4, <2>8, <2>9
<1> QED
  BY <1>1, <1>2

\* So the list stays one doubly linked chain through all buffers.
LEMMA UsedWellLinked ==
    ASSUME NEW l \in LruList, NEW b \in BufIdx, WellLinked(l)
    PROVE  buf_used(l, b) \in LruList /\ WellLinked(buf_used(l, b))
<1>1. PICK rank \in [BufIdx -> 0 .. JOURNAL_BUF_CNT - 1] : Ranks(l, rank)
  BY DEF WellLinked
<1> QED
  BY <1>1, UsedRanks DEF WellLinked

-----------------------------------------------------------------------------
\* Of the first n cells of memory, those before h were written when read.
Written(memory, n, h) ==
    \A k \in DOMAIN memory :
       k < n /\ memory[k].pos > 0 /\ memory[k].pos < h => memory[k].val = 1

\* What the data in memory, loaded by the read rd, says about the file.
GoodLoad(memory) ==
    /\ IsFileData(memory, rd.offset, rd.result)
    /\ rd.result >= 1 /\ limit = 0 =>
          memory[0].val \in 1 .. hw /\ Written(memory, rd.result, memory[0].val)
    /\ limit > 0 => Written(memory, rd.result, limit)

\* A read in flight: its range, the buffer reserved for it, what has arrived.
FlightInv ==
    rd.st \in {"queued", "done"} =>
       /\ rd.length >= 1
       /\ IF limit = 0 THEN rd.offset = 0 /\ rd.length = 1
                       ELSE rd.offset >= 1 /\ rd.offset + rd.length <= limit
       /\ rd.buf = NULL => rd.length > JOURNAL_BUF_SIZE
       /\ rd.buf # NULL => /\ rd.length <= JOURNAL_BUF_SIZE
                           /\ rd.buf = lru.tail
                           /\ ~ buf[rd.buf].valid
       /\ rd.st = "done" =>
             IF rd.buf = NULL
             THEN rd.result <= rd.length /\ GoodLoad(dest)
             ELSE rd.result <= JOURNAL_BUF_SIZE /\ GoodLoad(mem[rd.buf])

\* Nothing valid was loaded before the header, and nothing valid is stale
\* below the limit the header gave.
FreshInv ==
    /\ fsize > 0 => hw > 0
    /\ limit <= hw
    /\ limit = 0 => rd.st # "got"
    /\ \A b \in BufIdx : buf[b].valid =>
          limit > 0 /\ Written(mem[b], buf[b].length, limit)

\* A read that was delivered lay below the limit.
GotInv ==
    rd.st = "got" => /\ rd.length >= 1
                     /\ rd.offset + rd.length <= limit
                     /\ rd.offset = 0 => rd.length = 1

IInv ==
    /\ TypeOK
    /\ LruWellLinked
    /\ BuffersHoldFile
    /\ ReadDelivers
    /\ ReadsWrittenData
    /\ LastReadStaysCached
    /\ FlightInv
    /\ FreshInv
    /\ GotInv

-----------------------------------------------------------------------------
\* A unit of the file is a cell, names its place, and was written if it lies
\* below hw.
LEMMA FileCellFacts ==
    ASSUME TypeOK, NEW p \in 0 .. MaxSize - 1
    PROVE  /\ FileCell(p) \in Cell
           /\ FileCell(p) # NULL
           /\ FileCell(p).pos = p
           /\ p = 0 => FileCell(p).val = hw
           /\ p > 0 /\ p < hw => FileCell(p).val = 1
BY SizesAssumption, NoCellAssumption DEF FileCell, Cell, TypeOK

\* The initial state satisfies the invariant.
LEMMA InitIInv == Init => IInv
<1> SUFFICES ASSUME Init PROVE IInv
  OBVIOUS
<1> USE DEF Init
<1>1. TypeOK
  <2>1. lru \in LruList
    BY SetupWellLinked
  <2>2. rd \in [st : {"idle", "queued", "done", "got"}, offset : 0 .. MaxSize,
                length : 0 .. MaxLen, buf : BufPtr, result : -1 .. MaxLen]
    BY SizesAssumption DEF BufPtr
  <2> QED
    BY <2>1, <2>2, SizesAssumption DEF TypeOK, Cell, Zeroed
<1>2. LruWellLinked
  BY SetupWellLinked DEF LruWellLinked
<1>3. BuffersHoldFile /\ ReadDelivers /\ ReadsWrittenData /\ LastReadStaysCached
  BY DEF BuffersHoldFile, ReadDelivers, ReadsWrittenData, LastReadStaysCached
<1>4. FlightInv /\ GotInv
  BY DEF FlightInv, GotInv
<1>5. FreshInv
  BY SizesAssumption DEF FreshInv
<1> QED
  BY <1>1, <1>2, <1>3, <1>4, <1>5 DEF IInv

\* A hit delivers a valid buffer's data and makes that buffer the tail.
LEMMA ReadHitIInv ==
    ASSUME IInv, NEW o \in 0 .. MaxSize - 1, NEW l \in 1 .. MaxLen, ReadHit(o, l)
    PROVE  IInv'
<1> USE SizesAssumption DEF IInv
<1>1. PICK b \in BufIdx :
         /\ Covers(b, o, l)
         /\ lru' = buf_used(lru, b)
         /\ Dispatch(o, l, [k \in DestOff |->
                IF k < l THEN mem[b][HitIndex(b, o) + k] ELSE NULL])
  BY DEF ReadHit
<1>2. /\ buf' = buf /\ mem' = mem /\ fsize' = fsize /\ hw' = hw /\ err' = err
      /\ l <= JOURNAL_BUF_SIZE
  BY DEF ReadHit
<1>3. /\ buf[b] \in [valid : BOOLEAN, offset : 0 .. MaxSize, length : 0 .. JOURNAL_BUF_SIZE]
      /\ mem[b] \in [BufOff -> Cell]
  BY DEF TypeOK
<1>4. /\ limit > 0 /\ limit \in 0 .. MaxSize /\ Written(mem[b], buf[b].length, limit)
      /\ buf[b].valid /\ o >= buf[b].offset
      /\ o + l <= buf[b].offset + buf[b].length
      /\ IsFileData(mem[b], buf[b].offset, buf[b].length)
  BY <1>1 DEF Covers, FreshInv, TypeOK, BuffersHoldFile
<1>5. o >= 1 /\ o + l <= limit
  BY <1>4 DEF ReadHit, Asks
<1>6. /\ rd' = [st |-> "got", offset |-> o, length |-> l, buf |-> NULL, result |-> 0]
      /\ limit' = limit
      /\ dest' = [k \in DestOff |-> IF k < l THEN mem[b][HitIndex(b, o) + k] ELSE NULL]
  BY <1>1, <1>5 DEF Dispatch
<1>7. ASSUME NEW k \in DestOff, k < l
      PROVE  /\ dest'[k] \in Cell /\ dest'[k] # NULL
             /\ dest'[k].pos = o + k /\ dest'[k].val = 1
  <2> DEFINE i == o - buf[b].offset + k
  <2>1. i \in BufOff /\ i < buf[b].length /\ buf[b].offset + i = o + k
        /\ o + k > 0 /\ o + k < limit
    <3> DEFINE bo == buf[b].offset
               bl == buf[b].length
    <3>1. bo \in Nat /\ bl \in Nat /\ bl <= JOURNAL_BUF_SIZE /\ k \in Nat
      BY <1>3 DEF DestOff
    <3>2. o >= bo /\ o + l <= bo + bl
      BY <1>4
    <3> HIDE DEF bo, bl
    <3>3. o - bo + k \in 0 .. JOURNAL_BUF_SIZE - 1 /\ o - bo + k < bl
          /\ bo + (o - bo + k) = o + k /\ o + k > 0 /\ o + k < limit
      BY <3>1, <3>2, <1>4, <1>5, <1>7
    <3> QED
      BY <3>3 DEF bo, bl, BufOff
  <2>2. dest'[k] = mem[b][i]
    BY <1>6, <1>7 DEF HitIndex
  <2> HIDE DEF i
  <2>3. mem[b][i] \in Cell /\ mem[b][i] # NULL /\ mem[b][i].pos = o + k
    BY <2>1, <1>3, <1>4 DEF IsFileData
  <2>4. mem[b][i].val = 1
    BY <2>1, <2>3, <1>3, <1>4 DEF Written
  <2> QED
    BY <2>2, <2>3, <2>4
<1>8. lru' \in LruList /\ WellLinked(lru') /\ lru'.tail = b
  BY <1>1, UsedWellLinked, UsedIsTail DEF TypeOK, LruWellLinked
<1>9. TypeOK'
  <2>1. dest' \in [DestOff -> Cell]
    BY <1>6, <1>7 DEF Cell
  <2>2. rd' \in [st : {"idle", "queued", "done", "got"}, offset : 0 .. MaxSize,
                length : 0 .. MaxLen, buf : BufPtr, result : -1 .. MaxLen]
    BY <1>6 DEF BufPtr
  <2> QED
    BY <1>2, <1>6, <1>8, <2>1, <2>2 DEF TypeOK
<1>10. LruWellLinked' /\ BuffersHoldFile' /\ FlightInv' /\ GotInv'
  BY <1>2, <1>5, <1>6, <1>8 DEF LruWellLinked, BuffersHoldFile, FlightInv, GotInv, IsFileData
<1>11. ReadDelivers' /\ ReadsWrittenData'
  BY <1>6, <1>7 DEF ReadDelivers, ReadsWrittenData, IsFileData
<1>12. LastReadStaysCached'
  BY <1>2, <1>4, <1>6, <1>8 DEF LastReadStaysCached, Covers
<1>13. FreshInv'
  BY <1>2, <1>4, <1>6 DEF FreshInv, Written
<1> QED
  BY <1>9, <1>10, <1>11, <1>12, <1>13

\* Queuing a read changes nothing that can already be served; the buffer it
\* takes over, if any, must be the tail and invalid by then.
LEMMA QueueReadIInv ==
    ASSUME IInv, NEW o \in 0 .. MaxSize - 1, NEW l \in 1 .. MaxLen, NEW b \in BufPtr,
           Asks(o, l), QueueRead(o, l, b),
           UNCHANGED <<fsize, hw, mem>>,
           TypeOK', LruWellLinked',
           b = NULL => l > JOURNAL_BUF_SIZE,
           b # NULL => l <= JOURNAL_BUF_SIZE /\ b = lru'.tail /\ ~ buf'[b].valid,
           \A c \in BufIdx : buf'[c].valid => buf'[c] = buf[c]
    PROVE  IInv'
<1> USE DEF IInv
<1>1. BuffersHoldFile'
  BY DEF BuffersHoldFile, IsFileData
<1>2. limit' = limit
  BY DEF QueueRead
<1>3. CASE rd' = [st |-> "queued", offset |-> o, length |-> l, buf |-> b, result |-> 0]
  <2>1. ReadDelivers' /\ ReadsWrittenData' /\ LastReadStaysCached' /\ GotInv'
    BY <1>3 DEF ReadDelivers, ReadsWrittenData, LastReadStaysCached, GotInv
  <2>2. FlightInv'
    <3>1. IF limit = 0 THEN o = 0 /\ l = 1 ELSE o >= 1 /\ o + l <= limit
      BY DEF Asks
    <3> QED
      BY <1>2, <1>3, <3>1 DEF FlightInv
  <2>3. FreshInv'
    BY <1>2, <1>3 DEF FreshInv, Written
  <2> QED
    BY <1>1, <2>1, <2>2, <2>3
<1>4. CASE err' = "ENOMEM" /\ UNCHANGED <<rd, dest, limit>>
  <2>1. rd.st \in {"idle", "got"}
    BY DEF Asks
  <2>2. ReadDelivers' /\ ReadsWrittenData' /\ LastReadStaysCached' /\ GotInv'
    BY <1>4 DEF ReadDelivers, ReadsWrittenData, LastReadStaysCached, GotInv, IsFileData
  <2>3. FlightInv'
    BY <1>4, <2>1 DEF FlightInv
  <2>4. FreshInv'
    BY <1>4 DEF FreshInv, Written
  <2> QED
    BY <1>1, <2>2, <2>3, <2>4
<1> QED
  BY <1>3, <1>4 DEF QueueRead

\* What QueueRead() leaves in rd, dest, limit and err is of their types.
LEMMA QueueReadType ==
    ASSUME TypeOK, NEW o \in 0 .. MaxSize - 1, NEW l \in 1 .. MaxLen, NEW b \in BufPtr,
           QueueRead(o, l, b)
    PROVE  /\ rd' \in [st : {"idle", "queued", "done", "got"}, offset : 0 .. MaxSize,
                       length : 0 .. MaxLen, buf : BufPtr, result : -1 .. MaxLen]
           /\ dest' \in [DestOff -> Cell]
           /\ limit' \in 0 .. MaxSize
           /\ err' \in {"none", "ENOMEM", "EIO", "EINVAL"}
BY SizesAssumption DEF QueueRead, TypeOK, Zeroed, Cell

\* A miss invalidates the head, makes it the tail and reserves it.
LEMMA ReadMissIInv ==
    ASSUME IInv, NEW o \in 0 .. MaxSize - 1, NEW l \in 1 .. MaxLen, ReadMiss(o, l)
    PROVE  IInv'
<1> DEFINE v == lru.head
<1>1. /\ v \in BufIdx /\ v \in BufPtr /\ v # NULL
      /\ Asks(o, l) /\ l <= JOURNAL_BUF_SIZE /\ QueueRead(o, l, v)
      /\ lru' = buf_used(lru, v)
      /\ buf' = [buf EXCEPT ![v].valid = FALSE]
      /\ UNCHANGED <<fsize, hw, mem>>
  BY BufIdxFacts DEF IInv, TypeOK, LruList, ReadMiss, Victim, BufPtr
<1>2. lru' \in LruList /\ WellLinked(lru') /\ lru'.tail = v
  BY <1>1, UsedWellLinked, UsedIsTail DEF IInv, TypeOK, LruWellLinked
<1>3. /\ buf' \in [BufIdx -> [valid : BOOLEAN, offset : 0 .. MaxSize,
                              length : 0 .. JOURNAL_BUF_SIZE]]
      /\ ~ buf'[v].valid
      /\ \A c \in BufIdx : buf'[c].valid => buf'[c] = buf[c]
  <2>1. buf \in [BufIdx -> [valid : BOOLEAN, offset : 0 .. MaxSize,
                            length : 0 .. JOURNAL_BUF_SIZE]]
    BY DEF IInv, TypeOK
  <2> HIDE DEF v
  <2> QED
    BY <1>1, <2>1
<1>4. TypeOK'
  BY <1>1, <1>2, <1>3, QueueReadType DEF IInv, TypeOK
<1> HIDE DEF v
<1> QED
  BY <1>1, <1>2, <1>3, <1>4, QueueReadIInv DEF LruWellLinked

\* An unbuffered read leaves the buffers alone.
LEMMA ReadUnbufferedIInv ==
    ASSUME IInv, NEW o \in 0 .. MaxSize - 1, NEW l \in 1 .. MaxLen, ReadUnbuffered(o, l)
    PROVE  IInv'
<1>1. /\ NULL \in BufPtr
      /\ Asks(o, l) /\ l > JOURNAL_BUF_SIZE /\ QueueRead(o, l, NULL)
      /\ UNCHANGED <<fsize, hw, mem, lru, buf>>
  BY DEF ReadUnbuffered, BufPtr
<1>2. TypeOK' /\ LruWellLinked'
  BY <1>1, QueueReadType DEF IInv, TypeOK, LruWellLinked
<1> QED
  BY <1>1, <1>2, QueueReadIInv

-----------------------------------------------------------------------------
\* Units of the file loaded from o on are file data, and say what journald
\* had written by then.
LEMMA LoadedGood ==
    ASSUME IInv, NEW n \in 0 .. MaxLen, NEW memory, NEW m \in Nat, n <= m,
           memory \in [0 .. m - 1 -> Cell], rd.st = "queued",
           n = 0 \/ rd.offset + n <= fsize
    PROVE  LET new == Loaded(memory, rd.offset, n)
           IN  /\ new \in [0 .. m - 1 -> Cell]
               /\ IsFileData(new, rd.offset, n)
               /\ n >= 1 /\ limit = 0 =>
                     new[0].val \in 1 .. hw /\ Written(new, n, new[0].val)
               /\ limit > 0 => Written(new, n, limit)
<1> DEFINE new == Loaded(memory, rd.offset, n)
<1>1. /\ fsize \in 0 .. MaxSize /\ hw \in 0 .. fsize /\ rd.offset \in Nat /\ MaxSize \in Nat
      /\ limit \in Nat /\ limit <= hw /\ (fsize > 0 => hw > 0)
      /\ TypeOK
  BY SizesAssumption DEF IInv, TypeOK, FreshInv
<1>2. limit = 0 => rd.offset = 0
  BY DEF IInv, FlightInv
<1>3. new = [k \in 0 .. m - 1 |-> IF k < n THEN FileCell(rd.offset + k) ELSE memory[k]]
  BY DEF Loaded
<1>4. ASSUME NEW k \in 0 .. m - 1, k < n
      PROVE  /\ new[k] = FileCell(rd.offset + k)
             /\ rd.offset + k \in 0 .. MaxSize - 1
  BY <1>1, <1>3, <1>4
<1>5. ASSUME NEW k \in 0 .. m - 1, k < n
      PROVE  /\ new[k] \in Cell /\ new[k] # NULL /\ new[k].pos = rd.offset + k
             /\ rd.offset + k = 0 => new[k].val = hw
             /\ rd.offset + k > 0 /\ rd.offset + k < hw => new[k].val = 1
  BY <1>1, <1>4, <1>5, FileCellFacts
<1>6. DOMAIN new = 0 .. m - 1
  BY <1>3
<1>7. new \in [0 .. m - 1 -> Cell]
  BY <1>3, <1>5
<1> HIDE DEF new
<1>8. IsFileData(new, rd.offset, n)
  BY <1>5, <1>6 DEF IsFileData
<1>9. ASSUME NEW h \in Nat, h <= hw PROVE Written(new, n, h)
  BY <1>1, <1>5, <1>6, <1>9 DEF Written
<1>10. ASSUME n >= 1, limit = 0 PROVE new[0].val = hw /\ hw >= 1
  BY <1>1, <1>2, <1>5, <1>10
<1> QED
  BY <1>1, <1>7, <1>8, <1>9, <1>10 DEF new

\* What a completed read needs for the invariant: the data is good, and no
\* valid buffer was written to.
LEMMA ArrivedIInv ==
    ASSUME IInv, rd.st = "queued", UNCHANGED <<fsize, hw, lru, buf, limit, err>>,
           NEW r \in -1 .. MaxLen, rd' = [rd EXCEPT !.st = "done", !.result = r],
           mem' \in [BufIdx -> [BufOff -> Cell]], dest' \in [DestOff -> Cell],
           \A b \in BufIdx : buf[b].valid => mem'[b] = mem[b],
           IF rd.buf = NULL THEN r <= rd.length /\ GoodLoad(dest)'
                            ELSE r <= JOURNAL_BUF_SIZE /\ GoodLoad(mem[rd.buf])'
    PROVE  IInv'
<1> USE DEF IInv
<1>1. /\ rd'.st = "done" /\ rd'.result = r /\ rd'.offset = rd.offset
      /\ rd'.length = rd.length /\ rd'.buf = rd.buf
      /\ rd' \in [st : {"idle", "queued", "done", "got"}, offset : 0 .. MaxSize,
                  length : 0 .. MaxLen, buf : BufPtr, result : -1 .. MaxLen]
  BY DEF TypeOK
<1>2. LruWellLinked' /\ ReadDelivers' /\ ReadsWrittenData' /\ LastReadStaysCached' /\ GotInv'
  BY <1>1 DEF LruWellLinked, ReadDelivers, ReadsWrittenData, LastReadStaysCached, GotInv
<1>3. TypeOK'
  BY <1>1 DEF TypeOK
<1>4. BuffersHoldFile' /\ FreshInv'
  BY <1>1 DEF BuffersHoldFile, FreshInv, IsFileData, Written
<1>5. FlightInv'
  BY <1>1 DEF FlightInv
<1> QED
  BY <1>2, <1>3, <1>4, <1>5

\* The kernel writes only to memory that nothing valid describes.
LEMMA KernelReadIInv ==
    ASSUME IInv, KernelRead
    PROVE  IInv'
<1>1. /\ rd.st = "queued" /\ UNCHANGED <<fsize, hw, lru, buf, limit, err>>
  BY DEF KernelRead
<1>2. /\ mem \in [BufIdx -> [BufOff -> Cell]] /\ dest \in [DestOff -> Cell]
      /\ rd.buf \in BufPtr /\ rd.length \in 0 .. MaxLen /\ TypeOK
      /\ rd.buf # NULL => rd.buf \in BufIdx /\ ~ buf[rd.buf].valid
  BY <1>1 DEF IInv, TypeOK, FlightInv, BufPtr
<1>3. CASE rd' = [rd EXCEPT !.st = "done", !.result = -1] /\ UNCHANGED <<mem, dest>>
  <2>1. rd'.result = -1 /\ -1 \in -1 .. MaxLen
    BY <1>2, <1>3, SizesAssumption DEF TypeOK
  <2>2. GoodLoad(dest)'
    BY <1>2, <1>3, <2>1 DEF GoodLoad, IsFileData, Written, DestOff
  <2>3. ASSUME rd.buf # NULL PROVE GoodLoad(mem[rd.buf])'
    <3>1. DOMAIN mem'[rd'.buf] = BufOff
      BY <1>2, <1>3, <2>3 DEF TypeOK
    <3> QED
      BY <2>1, <3>1 DEF GoodLoad, IsFileData, Written, BufOff
  <2>4. -1 <= rd.length /\ -1 <= JOURNAL_BUF_SIZE
    BY <1>2, SizesAssumption
  <2> QED
    BY <1>1, <1>2, <1>3, <2>1, <2>2, <2>3, <2>4, ArrivedIInv
<1>4. ASSUME NEW n \in 0 .. MaxLen,
             n <= IF rd.buf = NULL THEN rd.length ELSE JOURNAL_BUF_SIZE,
             n = 0 \/ rd.offset + n <= fsize,
             rd' = [rd EXCEPT !.st = "done", !.result = n],
             IF rd.buf = NULL
             THEN dest' = Loaded(dest, rd.offset, n) /\ UNCHANGED mem
             ELSE mem' = [mem EXCEPT ![rd.buf] = Loaded(@, rd.offset, n)] /\ UNCHANGED dest
      PROVE  IInv'
  <2>1. /\ rd'.result = n /\ rd'.offset = rd.offset /\ n \in -1 .. MaxLen
        /\ hw' = hw /\ limit' = limit
    BY <1>1, <1>2, <1>4 DEF TypeOK
  <2>2. CASE rd.buf = NULL
    <3>1. dest' \in [DestOff -> Cell] /\ GoodLoad(dest)'
      BY <1>1, <1>2, <1>4, <2>1, <2>2, SizesAssumption, LoadedGood DEF DestOff, GoodLoad
    <3> QED
      BY <1>1, <1>2, <1>4, <2>1, <2>2, <3>1, ArrivedIInv
  <2>3. CASE rd.buf # NULL
    <3> DEFINE b == rd.buf
    <3>1. b \in BufIdx /\ mem[b] \in [BufOff -> Cell]
          /\ mem'[b] = Loaded(mem[b], rd.offset, n) /\ dest' = dest
          /\ \A c \in BufIdx : c # b => mem'[c] = mem[c]
      BY <1>2, <1>4, <2>3
    <3>2. mem'[b] \in [BufOff -> Cell]
          /\ IsFileData(mem'[b], rd.offset, n)
          /\ (n >= 1 /\ limit = 0 =>
                 mem'[b][0].val \in 1 .. hw /\ Written(mem'[b], n, mem'[b][0].val))
          /\ (limit > 0 => Written(mem'[b], n, limit))
      BY <1>1, <1>4, <2>3, <3>1, SizesAssumption, LoadedGood DEF BufOff
    <3>3. GoodLoad(mem[b])'
      <4>1. rd'.buf = rd.buf
        BY <1>2, <1>4 DEF TypeOK
      <4> QED
        BY <2>1, <3>2, <4>1 DEF GoodLoad
    <3>4. mem' \in [BufIdx -> [BufOff -> Cell]]
      BY <1>2, <1>4, <2>3, <3>1, <3>2
    <3> QED
      BY <1>1, <1>2, <1>4, <2>1, <2>3, <3>1, <3>3, <3>4, ArrivedIInv
  <2> QED
    BY <2>2, <2>3
<1> QED
  BY <1>3, <1>4 DEF KernelRead

\* The completion publishes the reserved buffer and delivers its data; what
\* the header said becomes the limit.
LEMMA GotReadIInv ==
    ASSUME IInv, buf_got_read
    PROVE  IInv'
<1> USE SizesAssumption DEF IInv
<1>1. rd.st = "done" /\ err = "none" /\ UNCHANGED <<fsize, hw, lru, mem>>
  BY DEF buf_got_read
<1>2. CASE err' \in {"EIO", "EINVAL"} /\ UNCHANGED <<buf, rd, dest, limit>>
  <2>1. TypeOK' /\ LruWellLinked'
    BY <1>1, <1>2 DEF TypeOK, LruWellLinked
  <2>2. BuffersHoldFile' /\ ReadDelivers' /\ ReadsWrittenData' /\ LastReadStaysCached' /\ GotInv'
    BY <1>1, <1>2 DEF BuffersHoldFile, ReadDelivers, ReadsWrittenData, LastReadStaysCached,
                      GotInv, IsFileData
  <2>3. FlightInv' /\ FreshInv'
    BY <1>1, <1>2 DEF FlightInv, FreshInv, GoodLoad, IsFileData, Written
  <2> QED
    BY <2>1, <2>2, <2>3
<1>3. CASE ~ Failed /\ ~ Short /\ err' = err /\ (IF rd.buf # NULL THEN GotBuffered ELSE GotUnbuffered)
  <2>1. /\ rd.offset \in 0 .. MaxSize /\ rd.length \in 1 .. MaxLen /\ rd.result \in 0 .. MaxLen
        /\ rd.buf \in BufPtr /\ rd.result >= rd.length /\ limit \in 0 .. MaxSize
        /\ hw \in 0 .. MaxSize /\ limit <= hw
        /\ IF limit = 0 THEN rd.offset = 0 /\ rd.length = 1
                        ELSE rd.offset >= 1 /\ rd.offset + rd.length <= limit
    BY <1>1, <1>3 DEF TypeOK, FlightInv, FreshInv, Failed, Short
  \* data: the memory the read went to; mlen: how much of it arrived
  <2>2. ASSUME NEW data, NEW D, DestOff \subseteq Int, D \subseteq Int,
               data \in [D -> Cell], GoodLoad(data), 0 .. rd.length - 1 \subseteq D,
               NEW cells \in [DestOff -> Cell], Dispatch(rd.offset, rd.length, cells),
               \A k \in DestOff : k < rd.length => cells[k] = data[k],
               0 \in DestOff, \A k \in DestOff : k >= 0
        PROVE  /\ rd' = [st |-> "got", offset |-> rd.offset, length |-> rd.length,
                         buf |-> NULL, result |-> 0]
               /\ rd' \in [st : {"idle", "queued", "done", "got"}, offset : 0 .. MaxSize,
                           length : 0 .. MaxLen, buf : BufPtr, result : -1 .. MaxLen]
               /\ dest' = cells
               /\ limit' \in 1 .. hw
               /\ limit # 0 => limit' = limit
               /\ Written(data, rd.result, limit')
               /\ ReadDelivers' /\ ReadsWrittenData' /\ GotInv' /\ FlightInv'
    <3>1. /\ rd' = [st |-> "got", offset |-> rd.offset, length |-> rd.length,
                    buf |-> NULL, result |-> 0]
          /\ dest' = cells
          /\ limit' = IF rd.offset = 0 THEN cells[0].val ELSE limit
      BY <2>2 DEF Dispatch
    <3>2. rd' \in [st : {"idle", "queued", "done", "got"}, offset : 0 .. MaxSize,
                   length : 0 .. MaxLen, buf : BufPtr, result : -1 .. MaxLen]
      BY <2>1, <3>1 DEF BufPtr
    <3>3. limit' \in 1 .. hw /\ (limit # 0 => limit' = limit) /\ Written(data, rd.result, limit')
      <4>1. CASE limit = 0
        <5>1. cells[0] = data[0] /\ rd.offset = 0 /\ rd.result >= 1
          BY <2>1, <2>2, <4>1
        <5> QED
          BY <2>2, <3>1, <4>1, <5>1 DEF GoodLoad
      <4>2. CASE limit # 0
        BY <2>1, <2>2, <3>1, <4>2 DEF GoodLoad
      <4> QED
        BY <4>1, <4>2
    <3>4. ASSUME NEW k \in DestOff, k < rd.length
          PROVE  cells[k] # NULL /\ cells[k].pos = rd.offset + k
      <4>1. cells[k] = data[k] /\ k \in D /\ k < rd.result
        BY <2>1, <2>2, <3>4
      <4> QED
        BY <2>2, <4>1 DEF GoodLoad, IsFileData
    <3>5. ReadDelivers'
      BY <2>2, <3>1, <3>4 DEF ReadDelivers, IsFileData
    <3>6. ReadsWrittenData'
      <4>1. ASSUME NEW k \in DestOff, k < rd.length, rd.offset + k > 0
            PROVE  cells[k].val = 1
        <5>1. limit # 0
          BY <2>1, <2>2, <4>1
        <5>2. cells[k] = data[k] /\ k \in D /\ k < rd.result
              /\ data[k].pos > 0 /\ data[k].pos < limit'
          BY <2>1, <2>2, <3>3, <3>4, <4>1, <5>1
        <5> QED
          BY <2>2, <3>3, <5>2 DEF Written
      <4> QED
        BY <3>1, <4>1 DEF ReadsWrittenData
    <3>7. GotInv'
      BY <2>1, <3>1, <3>3 DEF GotInv
    <3>8. FlightInv'
      BY <3>1 DEF FlightInv
    <3> QED
      BY <3>1, <3>2, <3>3, <3>5, <3>6, <3>7, <3>8
  <2>3. 0 \in DestOff /\ DestOff \subseteq Int /\ (\A k \in DestOff : k >= 0)
        /\ 0 .. rd.length - 1 \subseteq DestOff
    BY <2>1 DEF DestOff
  <2>4. CASE rd.buf = NULL
    <3>1. /\ dest \in [DestOff -> Cell] /\ GoodLoad(dest) /\ buf' = buf
          /\ Dispatch(rd.offset, rd.length, dest)
      BY <1>1, <1>3, <2>4 DEF TypeOK, FlightInv, GotUnbuffered
    <3>2. /\ rd' = [st |-> "got", offset |-> rd.offset, length |-> rd.length,
                    buf |-> NULL, result |-> 0]
          /\ rd' \in [st : {"idle", "queued", "done", "got"}, offset : 0 .. MaxSize,
                      length : 0 .. MaxLen, buf : BufPtr, result : -1 .. MaxLen]
          /\ dest' = dest
          /\ limit' \in 1 .. hw
          /\ limit # 0 => limit' = limit
          /\ ReadDelivers' /\ ReadsWrittenData' /\ GotInv' /\ FlightInv'
      BY <2>2, <2>3, <3>1
    <3>3. rd.length > JOURNAL_BUF_SIZE /\ limit # 0
      BY <1>1, <2>1, <2>4 DEF FlightInv
    <3>4. TypeOK'
      BY <1>1, <1>3, <2>1, <3>1, <3>2 DEF TypeOK
    <3>5. LruWellLinked' /\ BuffersHoldFile' /\ LastReadStaysCached'
      BY <1>1, <2>1, <3>1, <3>2, <3>3 DEF LruWellLinked, BuffersHoldFile, LastReadStaysCached, IsFileData
    <3>6. FreshInv'
      BY <1>1, <2>1, <3>1, <3>2, <3>3 DEF FreshInv, Written
    <3> QED
      BY <3>2, <3>4, <3>5, <3>6
  <2>5. CASE rd.buf # NULL
    <3> DEFINE b == rd.buf
               cells == [k \in DestOff |-> IF k < rd.length THEN mem[b][k] ELSE NULL]
    <3>1. /\ b \in BufIdx /\ mem[b] \in [BufOff -> Cell] /\ GoodLoad(mem[b])
          /\ b = lru.tail /\ rd.length <= JOURNAL_BUF_SIZE /\ rd.result <= JOURNAL_BUF_SIZE
          /\ Dispatch(rd.offset, rd.length, cells)
          /\ buf' = [buf EXCEPT ![b] =
                        [valid |-> TRUE, offset |-> rd.offset, length |-> rd.result]]
      BY <1>1, <1>3, <2>5 DEF TypeOK, FlightInv, GotBuffered, Publish, BufPtr
    <3>2. /\ BufOff \subseteq Int /\ 0 .. rd.length - 1 \subseteq BufOff
      BY <2>1, <3>1 DEF BufOff
    <3>3. cells \in [DestOff -> Cell] /\ \A k \in DestOff : k < rd.length => cells[k] = mem[b][k]
      <4>1. ASSUME NEW k \in DestOff, k < rd.length PROVE k \in BufOff
        BY <2>1, <2>3, <3>2, <4>1
      <4>2. NULL \in Cell
        BY DEF Cell
      <4> QED
        BY <3>1, <4>1, <4>2
    <3> HIDE DEF cells
    <3>4. /\ rd' = [st |-> "got", offset |-> rd.offset, length |-> rd.length,
                    buf |-> NULL, result |-> 0]
          /\ rd' \in [st : {"idle", "queued", "done", "got"}, offset : 0 .. MaxSize,
                      length : 0 .. MaxLen, buf : BufPtr, result : -1 .. MaxLen]
          /\ dest' = cells
          /\ limit' \in 1 .. hw
          /\ limit # 0 => limit' = limit
          /\ Written(mem[b], rd.result, limit')
          /\ ReadDelivers' /\ ReadsWrittenData' /\ GotInv' /\ FlightInv'
      BY <2>2, <2>3, <3>1, <3>2, <3>3
    <3>5. /\ buf' \in [BufIdx -> [valid : BOOLEAN, offset : 0 .. MaxSize,
                                  length : 0 .. JOURNAL_BUF_SIZE]]
          /\ buf'[b] = [valid |-> TRUE, offset |-> rd.offset, length |-> rd.result]
          /\ \A c \in BufIdx : c # b => buf'[c] = buf[c]
      BY <2>1, <3>1 DEF TypeOK
    <3>6. TypeOK'
      BY <1>1, <1>3, <2>1, <3>3, <3>4, <3>5 DEF TypeOK
    <3>7. LruWellLinked'
      BY <1>1 DEF LruWellLinked
    <3>8. BuffersHoldFile'
      <4>1. ASSUME NEW c \in BufIdx, buf'[c].valid
            PROVE  IsFileData(mem[c], buf'[c].offset, buf'[c].length)
        <5>1. CASE c = b
          BY <3>1, <3>5, <5>1 DEF GoodLoad
        <5>2. CASE c # b
          BY <3>5, <4>1, <5>2 DEF BuffersHoldFile
        <5> QED
          BY <5>1, <5>2
      <4> QED
        BY <1>1, <4>1 DEF BuffersHoldFile, IsFileData
    <3>9. LastReadStaysCached'
      BY <1>1, <2>1, <3>1, <3>4, <3>5 DEF LastReadStaysCached, Covers
    <3>10. FreshInv'
      <4>1. ASSUME NEW c \in BufIdx, buf'[c].valid
            PROVE  Written(mem[c], buf'[c].length, limit')
        <5>1. CASE c = b
          BY <3>4, <3>5, <5>1
        <5>2. CASE c # b
          BY <2>1, <3>4, <3>5, <4>1, <5>2 DEF FreshInv
        <5> QED
          BY <5>1, <5>2
      <4> QED
        BY <1>1, <2>1, <3>4, <4>1 DEF FreshInv, Written
    <3> QED
      BY <3>4, <3>6, <3>7, <3>8, <3>9, <3>10
  <2> QED
    BY <2>4, <2>5
<1> QED
  BY <1>2, <1>3 DEF buf_got_read

\* What journald appends is beyond every limit the reader knows.
LEMMA JournaldIInv ==
    ASSUME IInv, JournaldGrow \/ JournaldAppend
    PROVE  IInv'
<1> USE SizesAssumption DEF IInv
<1>1. /\ UNCHANGED <<lru, buf, mem, rd, dest, limit, err>>
      /\ fsize' \in 0 .. MaxSize /\ hw' \in 0 .. fsize' /\ hw' >= hw
      /\ fsize' > 0 => hw' > 0
  BY DEF TypeOK, FreshInv, JournaldGrow, JournaldAppend
<1>2. TypeOK' /\ LruWellLinked'
  BY <1>1 DEF TypeOK, LruWellLinked
<1>3. BuffersHoldFile' /\ ReadDelivers' /\ ReadsWrittenData' /\ LastReadStaysCached' /\ GotInv'
  BY <1>1 DEF BuffersHoldFile, ReadDelivers, ReadsWrittenData, LastReadStaysCached,
              GotInv, IsFileData, Covers
<1>4. hw \in Int /\ hw' \in Int /\ limit \in Int
  BY <1>1 DEF TypeOK
<1>5. FlightInv'
  BY <1>1, <1>4 DEF FlightInv, GoodLoad, IsFileData, Written
<1>6. FreshInv'
  BY <1>1, <1>4 DEF FreshInv, Written
<1> QED
  BY <1>2, <1>3, <1>5, <1>6

\* Every step preserves the invariant.
LEMMA NextIInv == IInv /\ [Next]_vars => IInv'
<1> SUFFICES ASSUME IInv, [Next]_vars PROVE IInv'
  OBVIOUS
<1>1. CASE UNCHANGED vars
  BY <1>1 DEF vars, IInv, TypeOK, LruWellLinked, BuffersHoldFile, ReadDelivers, ReadsWrittenData,
              LastReadStaysCached, FlightInv, FreshInv, GotInv, IsFileData, Written, GoodLoad, Covers
<1>2. CASE Next
  BY <1>2, ReadHitIInv, ReadMissIInv, ReadUnbufferedIInv, KernelReadIInv, GotReadIInv, JournaldIInv
     DEF Next
<1> QED
  BY <1>1, <1>2

\* The invariant that carries all the others.
LEMMA InvariantHolds == Spec => []IInv
BY InitIInv, NextIInv, PTL DEF Spec

-----------------------------------------------------------------------------
\* The state of journal_read() keeps its types: a buffer's length never
\* exceeds the buffer, the list never leaves bufs[].
THEOREM TypeCorrect == Spec => []TypeOK
<1>1. IInv => TypeOK
  BY DEF IInv
<1> QED
  BY <1>1, InvariantHolds, PTL

\* journal_read()'s closure always finds in dest exactly the range asked for,
\* and valid buffers describe what they hold, for any number and size of
\* buffers, however hits, refills, failures and journald's appends interleave.
THEOREM ReadsAreRight == Spec => [](ReadDelivers /\ BuffersHoldFile)
<1>1. IInv => ReadDelivers /\ BuffersHoldFile
  BY DEF IInv
<1> QED
  BY <1>1, InvariantHolds, PTL

\* No closure is handed data that was read before journald wrote it, although
\* buffers are filled past the region the header vouches for.
THEOREM ReadsAreFresh == Spec => []ReadsWrittenData
<1>1. IInv => ReadsWrittenData
  BY DEF IInv
<1> QED
  BY <1>1, InvariantHolds, PTL

\* buf_used() keeps the list one chain, and the buffer of the last read is
\* the last that will be given up.
THEOREM LruIsRight == Spec => [](LruWellLinked /\ LastReadStaysCached)
<1>1. IInv => LruWellLinked /\ LastReadStaysCached
  BY DEF IInv
<1> QED
  BY <1>1, InvariantHolds, PTL

-----------------------------------------------------------------------------
\* A buffer's rank is its place in the order that the forward pointers give.
LEMMA OrderIsRank ==
    ASSUME NEW l \in LruList, NEW rank \in [BufIdx -> 0 .. JOURNAL_BUF_CNT - 1],
           Ranks(l, rank)
    PROVE  /\ LruOrder(l) \in [1 .. JOURNAL_BUF_CNT -> BufIdx]
           /\ \A k \in 1 .. JOURNAL_BUF_CNT : rank[LruOrder(l)[k]] = k - 1
<1> DEFINE At(f, k) == IF k = 1 THEN l.head
                       ELSE IF f[k - 1] = NULL THEN NULL ELSE l.next[f[k - 1]]
           Step(f) == [k \in 1 .. JOURNAL_BUF_CNT |-> At(f, k)]
           Places == {k \in 1 .. JOURNAL_BUF_CNT : ~ \E b \in BufIdx : rank[b] = k - 1}
           by_rank == [k \in 1 .. JOURNAL_BUF_CNT |-> CHOOSE b \in BufIdx : rank[b] = k - 1]
           walk == CHOOSE f : f = Step(f)
<1>1. /\ l.head \in BufIdx /\ rank[l.head] = 0
      /\ \A b \in BufIdx : rank[b] # JOURNAL_BUF_CNT - 1 =>
            l.next[b] \in BufIdx /\ rank[l.next[b]] = rank[b] + 1
      /\ \A b, c \in BufIdx : rank[b] = rank[c] => b = c
  BY DEF Ranks, LruList
<1>2. Places = {}
  <2>1. SUFFICES ASSUME Places # {} PROVE FALSE
    OBVIOUS
  <2>2. PICK k \in Places : \A j \in Places : k <= j
    <3>1. Places \subseteq Nat
      OBVIOUS
    <3> QED
      BY <2>1, <3>1, LeastElement
  <2>3. k # 1
    BY <1>1, <2>2
  <2>4. k - 1 \in 1 .. JOURNAL_BUF_CNT /\ k - 1 \notin Places
    BY <2>2, <2>3, BufCntAssumption
  <2>5. PICK b \in BufIdx : rank[b] = (k - 1) - 1
    BY <2>4
  <2>6. rank[l.next[b]] = k - 1 /\ l.next[b] \in BufIdx
    BY <1>1, <2>2, <2>5, BufCntAssumption
  <2> QED
    BY <2>2, <2>6
<1>3. \A k \in 1 .. JOURNAL_BUF_CNT : by_rank[k] \in BufIdx /\ rank[by_rank[k]] = k - 1
  BY <1>2
<1>4. by_rank = Step(by_rank)
  <2> HIDE DEF by_rank
  <2>1. ASSUME NEW k \in 1 .. JOURNAL_BUF_CNT PROVE by_rank[k] = At(by_rank, k)
    <3>1. CASE k = 1
      BY <1>1, <1>3, <3>1
    <3>2. CASE k # 1
      <4>1. k - 1 \in 1 .. JOURNAL_BUF_CNT
        BY <3>2, BufCntAssumption
      <4>2. by_rank[k - 1] \in BufIdx /\ rank[by_rank[k - 1]] = (k - 1) - 1
        BY <1>3, <4>1
      <4>3. by_rank[k] \in BufIdx /\ rank[by_rank[k]] = k - 1
        BY <1>3
      <4>4. l.next[by_rank[k - 1]] = by_rank[k]
        BY <1>1, <4>2, <4>3, BufCntAssumption
      <4>5. by_rank[k - 1] # NULL
        BY <4>2, BufIdxFacts
      <4> QED
        BY <3>2, <4>4, <4>5
    <3> QED
      BY <3>1, <3>2
  <2>2. by_rank = [k \in 1 .. JOURNAL_BUF_CNT |-> by_rank[k]]
    BY DEF by_rank
  <2> HIDE DEF At
  <2> QED
    BY <2>1, <2>2, Zenon
<1>5. walk = Step(walk)
  <2>1. \E f : f = Step(f)
    BY <1>4, Zenon
  <2> QED
    BY <2>1, Zenon
<1>6. LruOrder(l) = [k \in 1 .. JOURNAL_BUF_CNT |-> walk[k]]
  BY DEF LruOrder
<1> HIDE DEF walk
<1> DEFINE Astray == {k \in 1 .. JOURNAL_BUF_CNT :
                        ~ (walk[k] \in BufIdx /\ rank[walk[k]] = k - 1)}
<1>7. Astray = {}
  <2>1. SUFFICES ASSUME Astray # {} PROVE FALSE
    OBVIOUS
  <2>2. PICK k \in Astray : \A j \in Astray : k <= j
    <3>1. Astray \subseteq Nat
      OBVIOUS
    <3> QED
      BY <2>1, <3>1, LeastElement
  <2>3. \A j \in 1 .. JOURNAL_BUF_CNT :
           walk[j] = IF j = 1 THEN l.head
                     ELSE IF walk[j - 1] = NULL THEN NULL ELSE l.next[walk[j - 1]]
    BY <1>5
  <2>4. k # 1
    BY <1>1, <2>2, <2>3
  <2>5. k - 1 \in 1 .. JOURNAL_BUF_CNT /\ k - 1 \notin Astray
    BY <2>2, <2>4, BufCntAssumption
  <2>6. walk[k - 1] \in BufIdx /\ rank[walk[k - 1]] = (k - 1) - 1
    BY <2>5
  <2>7. walk[k] = l.next[walk[k - 1]]
    BY <2>2, <2>3, <2>4, <2>6, BufIdxFacts
  <2>8. walk[k] \in BufIdx /\ rank[walk[k]] = k - 1
    BY <1>1, <2>2, <2>6, <2>7, BufCntAssumption
  <2> QED
    BY <2>2, <2>8
<1>8. \A k \in 1 .. JOURNAL_BUF_CNT : walk[k] \in BufIdx /\ rank[walk[k]] = k - 1
  BY <1>7
<1> QED
  BY <1>6, <1>8

\* The order with its i-th buffer taken out and put behind all others.
Moved(o, i) ==
    [k \in 1 .. JOURNAL_BUF_CNT |->
       IF k < i THEN o[k] ELSE IF k < JOURNAL_BUF_CNT THEN o[k + 1] ELSE o[i]]

\* That is what buf_used() makes of the order.
LEMMA UsedOrder ==
    ASSUME NEW l \in LruList, WellLinked(l), NEW i \in 1 .. JOURNAL_BUF_CNT
    PROVE  LruOrder(buf_used(l, LruOrder(l)[i])) = Moved(LruOrder(l), i)
<1>1. PICK rank \in [BufIdx -> 0 .. JOURNAL_BUF_CNT - 1] : Ranks(l, rank)
  BY DEF WellLinked
<1> DEFINE o == LruOrder(l)
           b == o[i]
           p == LruOrder(buf_used(l, b))
           r == RankAfterUse(rank, b)
<1>2. /\ o \in [1 .. JOURNAL_BUF_CNT -> BufIdx]
      /\ \A k \in 1 .. JOURNAL_BUF_CNT : rank[o[k]] = k - 1
  BY <1>1, OrderIsRank
<1> HIDE DEF o
<1>3. b \in BufIdx /\ rank[b] = i - 1
  BY <1>2
<1>4. /\ buf_used(l, b) \in LruList
      /\ r \in [BufIdx -> 0 .. JOURNAL_BUF_CNT - 1]
      /\ Ranks(buf_used(l, b), r)
  BY <1>1, <1>3, UsedRanks
<1>5. /\ p \in [1 .. JOURNAL_BUF_CNT -> BufIdx]
      /\ \A k \in 1 .. JOURNAL_BUF_CNT : r[p[k]] = k - 1
  BY <1>4, OrderIsRank
<1>6. \A c, d \in BufIdx : r[c] = r[d] => c = d
  BY <1>4 DEF Ranks
<1>7. \A c \in BufIdx : r[c] = IF c = b THEN JOURNAL_BUF_CNT - 1
                               ELSE IF rank[c] > rank[b] THEN rank[c] - 1 ELSE rank[c]
  BY DEF RankAfterUse
<1> HIDE DEF b, p, r
<1>8. ASSUME NEW k \in 1 .. JOURNAL_BUF_CNT
      PROVE  p[k] = IF k < i THEN o[k] ELSE IF k < JOURNAL_BUF_CNT THEN o[k + 1] ELSE b
  <2>1. CASE k < i
    <3>1. o[k] \in BufIdx /\ rank[o[k]] = k - 1
      BY <1>2
    <3>2. r[o[k]] = k - 1
      BY <1>3, <1>7, <2>1, <3>1
    <3> QED
      BY <1>5, <1>6, <2>1, <3>1, <3>2
  <2>2. CASE k >= i /\ k < JOURNAL_BUF_CNT
    <3>1. k + 1 \in 1 .. JOURNAL_BUF_CNT
      BY <2>2, BufCntAssumption
    <3>2. o[k + 1] \in BufIdx /\ rank[o[k + 1]] = (k + 1) - 1
      BY <1>2, <3>1
    <3>3. r[o[k + 1]] = k - 1
      BY <1>3, <1>7, <2>2, <3>2
    <3> QED
      BY <1>5, <1>6, <2>2, <3>2, <3>3
  <2>3. CASE k = JOURNAL_BUF_CNT
    <3>1. r[b] = k - 1
      BY <1>3, <1>7, <2>3
    <3>2. ~ (k < i) /\ ~ (k < JOURNAL_BUF_CNT)
      BY <2>3, BufCntAssumption
    <3> QED
      BY <1>3, <1>5, <1>6, <3>1, <3>2
  <2> QED
    BY <2>1, <2>2, <2>3, BufCntAssumption
<1>9. p = [k \in 1 .. JOURNAL_BUF_CNT |-> p[k]]
  BY <1>5
<1> QED
  <2>1. p = Moved(o, i)
    BY <1>8, <1>9, Zenon DEF Moved, b
  <2> QED
    BY <2>1 DEF p, b, o

\* And what LruPool's MovedToEnd() makes of it.
LEMMA MovedIsAppended ==
    ASSUME NEW o \in [1 .. JOURNAL_BUF_CNT -> BufIdx], NEW i \in 1 .. JOURNAL_BUF_CNT
    PROVE  /\ Len(o) = JOURNAL_BUF_CNT
           /\ Append(SubSeq(o, 1, i - 1) \o SubSeq(o, i + 1, Len(o)), o[i]) = Moved(o, i)
<1> DEFINE s == SubSeq(o, 1, i - 1)
           t == SubSeq(o, i + 1, JOURNAL_BUF_CNT)
           u == s \o t
           m == Append(u, o[i])
<1>1. o \in Seq(BufIdx) /\ Len(o) = JOURNAL_BUF_CNT
  BY BufCntAssumption
<1>2. /\ s \in Seq(BufIdx) /\ Len(s) = i - 1
      /\ \A k \in 1 .. i - 1 : s[k] = o[k]
  BY <1>1, BufCntAssumption, SubSeqProperties
<1>3. /\ t \in Seq(BufIdx) /\ Len(t) = JOURNAL_BUF_CNT - i
      /\ \A k \in 1 .. JOURNAL_BUF_CNT - i : t[k] = o[i + k]
  BY <1>1, BufCntAssumption, SubSeqProperties
<1> HIDE DEF s, t
<1>4. /\ u \in Seq(BufIdx) /\ Len(u) = JOURNAL_BUF_CNT - 1
      /\ \A k \in 1 .. JOURNAL_BUF_CNT - 1 :
            u[k] = IF k < i THEN o[k] ELSE o[k + 1]
  <2>1. /\ u \in Seq(BufIdx) /\ Len(u) = Len(s) + Len(t)
        /\ \A k \in 1 .. Len(s) + Len(t) :
              u[k] = IF k <= Len(s) THEN s[k] ELSE t[k - Len(s)]
    BY <1>2, <1>3, ConcatProperties DEF u
  <2> HIDE DEF u
  <2>2. Len(s) + Len(t) = JOURNAL_BUF_CNT - 1
    BY <1>2, <1>3, BufCntAssumption
  <2>3. ASSUME NEW k \in 1 .. JOURNAL_BUF_CNT - 1
        PROVE  u[k] = IF k < i THEN o[k] ELSE o[k + 1]
    <3>1. u[k] = IF k <= i - 1 THEN s[k] ELSE t[k - (i - 1)]
      BY <1>2, <2>1, <2>2
    <3>2. CASE k < i
      BY <1>2, <3>1, <3>2, BufCntAssumption
    <3>3. CASE k >= i
      <4>1. k - (i - 1) \in 1 .. JOURNAL_BUF_CNT - i /\ i + (k - (i - 1)) = k + 1
        BY <3>3, BufCntAssumption
      <4> QED
        BY <1>3, <3>1, <3>3, <4>1
    <3>4. k < i \/ k >= i
      OBVIOUS
    <3> QED
      BY <3>2, <3>3, <3>4, Zenon
  <2> QED
    BY <2>1, <2>2, <2>3
<1> HIDE DEF u
<1>5. /\ m \in Seq(BufIdx) /\ Len(m) = JOURNAL_BUF_CNT
      /\ \A k \in 1 .. JOURNAL_BUF_CNT - 1 : m[k] = u[k]
      /\ m[JOURNAL_BUF_CNT] = o[i]
  <2>1. u \in Seq(BufIdx) /\ Len(u) = JOURNAL_BUF_CNT - 1 /\ o[i] \in BufIdx
    BY <1>4
  <2>2. /\ Append(u, o[i]) \in Seq(BufIdx) /\ Len(Append(u, o[i])) = JOURNAL_BUF_CNT
        /\ \A k \in 1 .. JOURNAL_BUF_CNT - 1 : Append(u, o[i])[k] = u[k]
        /\ Append(u, o[i])[JOURNAL_BUF_CNT] = o[i]
    BY <2>1, BufCntAssumption, AppendProperties
  <2> QED
    BY <2>2
<1> HIDE DEF m
<1>6. m = [k \in 1 .. JOURNAL_BUF_CNT |-> m[k]]
  BY <1>5, LenProperties
<1>7. ASSUME NEW k \in 1 .. JOURNAL_BUF_CNT
      PROVE  m[k] = IF k < i THEN o[k] ELSE IF k < JOURNAL_BUF_CNT THEN o[k + 1] ELSE o[i]
  <2>1. CASE k < JOURNAL_BUF_CNT
    <3>1. k \in 1 .. JOURNAL_BUF_CNT - 1
      BY <2>1, BufCntAssumption
    <3>2. m[k] = IF k < i THEN o[k] ELSE o[k + 1]
      BY <1>4, <1>5, <3>1
    <3> QED
      BY <2>1, <3>2
  <2>2. CASE k = JOURNAL_BUF_CNT
    BY <1>5, <2>2, BufCntAssumption
  <2> QED
    BY <2>1, <2>2, BufCntAssumption
<1>8. m = Moved(o, i)
  BY <1>6, <1>7, Zenon DEF Moved
<1> QED
  BY <1>1, <1>8 DEF m, u, s, t

\* Using the i-th buffer moves it to the end of the pool, whose first buffer
\* is the head of the list and whose last one is the tail.
LEMMA UseMovesToEnd ==
    ASSUME TypeOK, LruWellLinked
    PROVE  /\ DOMAIN LruOrder(lru) = 1 .. JOURNAL_BUF_CNT
           /\ 1 \in 1 .. JOURNAL_BUF_CNT
           /\ \A i \in 1 .. JOURNAL_BUF_CNT :
                 LruOrder(buf_used(lru, LruOrder(lru)[i])) = Pool!MovedToEnd(i)
           /\ LruOrder(lru)[1] = lru.head
           /\ LruOrder(lru)[Len(LruOrder(lru))] = lru.tail
           /\ \A b \in BufIdx : \E i \in 1 .. JOURNAL_BUF_CNT : LruOrder(lru)[i] = b
<1>1. lru \in LruList /\ WellLinked(lru)
  BY DEF TypeOK, LruWellLinked
<1>2. PICK rank \in [BufIdx -> 0 .. JOURNAL_BUF_CNT - 1] : Ranks(lru, rank)
  BY <1>1 DEF WellLinked
<1> DEFINE o == LruOrder(lru)
<1>3. /\ o \in [1 .. JOURNAL_BUF_CNT -> BufIdx]
      /\ \A k \in 1 .. JOURNAL_BUF_CNT : rank[o[k]] = k - 1
  BY <1>1, <1>2, OrderIsRank
<1>4. \A i \in 1 .. JOURNAL_BUF_CNT :
         LruOrder(buf_used(lru, LruOrder(lru)[i])) = Moved(o, i)
  BY <1>1, UsedOrder
<1> HIDE DEF o
<1>5. \A i \in 1 .. JOURNAL_BUF_CNT :
         Append(SubSeq(o, 1, i - 1) \o SubSeq(o, i + 1, Len(o)), o[i]) = Moved(o, i)
  BY <1>3, MovedIsAppended
<1>6. \A i \in 1 .. JOURNAL_BUF_CNT :
         LruOrder(buf_used(lru, LruOrder(lru)[i])) = Pool!MovedToEnd(i)
  BY <1>4, <1>5, Zenon DEF Pool!MovedToEnd, o
<1>7. /\ lru.head \in BufIdx /\ rank[lru.head] = 0
      /\ lru.tail \in BufIdx /\ rank[lru.tail] = JOURNAL_BUF_CNT - 1
      /\ \A b, c \in BufIdx : rank[b] = rank[c] => b = c
  BY <1>1, <1>2 DEF Ranks, LruList
<1>8. /\ 1 \in 1 .. JOURNAL_BUF_CNT /\ JOURNAL_BUF_CNT \in 1 .. JOURNAL_BUF_CNT
      /\ Len(o) = JOURNAL_BUF_CNT
  BY <1>3, BufCntAssumption
<1>9. o[1] = lru.head /\ o[Len(o)] = lru.tail
  BY <1>3, <1>7, <1>8
<1>10. ASSUME NEW b \in BufIdx PROVE \E i \in 1 .. JOURNAL_BUF_CNT : o[i] = b
  <2>1. rank[b] + 1 \in 1 .. JOURNAL_BUF_CNT /\ (rank[b] + 1) - 1 = rank[b]
    BY <1>2, BufCntAssumption
  <2>2. o[rank[b] + 1] = b
    BY <1>3, <1>7, <2>1
  <2> QED
    BY <2>1, <2>2
<1>11. DOMAIN o = 1 .. JOURNAL_BUF_CNT
  BY <1>3
<1> QED
  BY <1>6, <1>8, <1>9, <1>10, <1>11, Zenon DEF o

\* Every step of journal_read(), the kernel or journald is a step of the pool
\* or none: a hit uses, a miss gives up, a completed buffered read fills.
LEMMA StepsArePoolSteps ==
    ASSUME IInv, [Next]_vars
    PROVE  [Pool!Next]_(Pool!vars)
<1> DEFINE order == LruOrder(lru)
           held == {b \in BufIdx : buf[b].valid}
<1>1. TypeOK /\ LruWellLinked /\ FlightInv
  BY DEF IInv
<1>2. /\ DOMAIN order = 1 .. JOURNAL_BUF_CNT
      /\ 1 \in 1 .. JOURNAL_BUF_CNT
      /\ \A i \in 1 .. JOURNAL_BUF_CNT :
            LruOrder(buf_used(lru, order[i])) = Pool!MovedToEnd(i)
      /\ order[1] = lru.head
      /\ order[Len(order)] = lru.tail
      /\ \A b \in BufIdx : \E i \in 1 .. JOURNAL_BUF_CNT : order[i] = b
  BY <1>1, UseMovesToEnd
<1>3. /\ buf \in [BufIdx -> [valid : BOOLEAN, offset : 0 .. MaxSize,
                              length : 0 .. JOURNAL_BUF_SIZE]]
      /\ lru.head \in BufIdx
      /\ rd.buf \in BufPtr
  BY <1>1 DEF TypeOK, LruList
<1>4. ASSUME UNCHANGED <<lru, buf>> PROVE UNCHANGED Pool!vars
  BY <1>4 DEF Pool!vars
<1>5. ASSUME NEW o \in 0 .. MaxSize - 1, NEW l \in 1 .. MaxLen, ReadHit(o, l)
      PROVE  Pool!Next
  <2>1. PICK b \in BufIdx : Covers(b, o, l) /\ lru' = buf_used(lru, b)
    BY <1>5 DEF ReadHit
  <2>2. buf' = buf
    BY <1>5 DEF ReadHit
  <2>3. PICK i \in 1 .. JOURNAL_BUF_CNT : order[i] = b
    BY <1>2, <2>1
  <2>4. order' = Pool!MovedToEnd(i)
    BY <1>2, <2>1, <2>3
  <2>5. order[i] \in held /\ held' = held
    BY <2>1, <2>2, <2>3 DEF Covers
  <2> QED
    BY <1>2, <2>3, <2>4, <2>5, Zenon DEF Pool!Next, Pool!Use
<1>6. ASSUME NEW o \in 0 .. MaxSize - 1, NEW l \in 1 .. MaxLen, ReadMiss(o, l)
      PROVE  Pool!Next
  <2>1. /\ lru' = buf_used(lru, lru.head)
        /\ buf' = [buf EXCEPT ![lru.head].valid = FALSE]
    BY <1>6 DEF ReadMiss, Victim
  <2>2. order' = Pool!MovedToEnd(1)
    BY <1>2, <2>1
  <2>3. held' = held \ {lru.head}
    BY <1>3, <2>1
  <2> QED
    BY <1>2, <2>2, <2>3, Zenon DEF Pool!Next, Pool!GiveUp
<1>7. ASSUME buf_got_read PROVE Pool!Next \/ UNCHANGED Pool!vars
  <2>1. rd.st = "done" /\ lru' = lru
    BY <1>7 DEF buf_got_read
  <2>2. CASE buf' = buf
    BY <1>4, <2>1, <2>2
  <2>3. CASE buf' # buf
    <3>1. rd.buf # NULL /\ Publish
      BY <1>7, <2>3 DEF buf_got_read, GotUnbuffered, GotBuffered
    <3>2. /\ rd.buf \in BufIdx /\ rd.buf = lru.tail /\ ~ buf[rd.buf].valid
      BY <1>1, <1>3, <2>1, <3>1 DEF FlightInv, BufPtr
    <3>3. held' = held \cup {rd.buf}
      BY <1>3, <3>1, <3>2 DEF Publish
    <3>4. order' = order
      BY <2>1
    <3>5. order[Len(order)] = rd.buf /\ rd.buf \notin held
      BY <1>2, <3>2
    <3> QED
      BY <3>3, <3>4, <3>5, Zenon DEF Pool!Next, Pool!Fill
  <2> QED
    BY <2>2, <2>3
<1>8. CASE UNCHANGED vars
  BY <1>4, <1>8 DEF vars
<1>9. CASE KernelRead \/ JournaldGrow \/ JournaldAppend
  <2>1. UNCHANGED <<lru, buf>>
    BY <1>9, Zenon DEF KernelRead, JournaldGrow, JournaldAppend
  <2> QED
    BY <1>4, <2>1
<1>10. ASSUME NEW o \in 0 .. MaxSize - 1, NEW l \in 1 .. MaxLen, ReadUnbuffered(o, l)
       PROVE  UNCHANGED Pool!vars
  BY <1>4, <1>10 DEF ReadUnbuffered
<1> QED
  BY <1>5, <1>6, <1>7, <1>8, <1>9, <1>10 DEF Next

\* journal_read()'s list, valid bits and asynchronous refills together are a
\* least-recently-used pool: only the buffer unused the longest is given up,
\* and only the buffer given up last is filled.
THEOREM ImplementsLruPool == Spec => RefinesLruPool
<1>1. Init => Pool!Init
  BY DEF Init, Pool!Init
<1>2. IInv /\ [Next]_vars => [Pool!Next]_(Pool!vars)
  BY StepsArePoolSteps
<1> QED
  BY <1>1, <1>2, InvariantHolds, PTL DEF Spec, RefinesLruPool, Pool!Spec
=============================================================================
