------------------------------ MODULE Text_proofs ------------------------------
(***************************************************************************)
(* What jio makes of texts and numbers is what it should come to, for all  *)
(* numbers of bytes, totals and texts, at the code's widths and any others *)
(* that are like them.                                                     *)
(***************************************************************************)
EXTENDS Text, SumLemmas, SequenceTheorems

\* What a percentage should be.
Exact(part, total) == (100 * part) \div total

LEMMA PercentFacts ==
    ASSUME NEW total \in Nat, total >= 100, NEW part \in 0 .. total
    PROVE  /\ Percent(part, total) \in Nat
           /\ Exact(part, total) <= Percent(part, total)
           /\ total % 100 = 0 => Percent(part, total) = Exact(part, total)
           /\ total >= 10000 => /\ Percent(part, total) <= Exact(part, total) + 1
                                /\ Percent(part, total) <= 100
<1> DEFINE q == total \div 100
           r == part \div q
           e == Exact(part, total)
<1>1. /\ q \in Nat \ {0} /\ 100 * q <= total /\ total < 100 * q + 100
      /\ total % 100 = 0 => total = 100 * q
      /\ total >= 10000 => q >= 100
      /\ part \in Nat /\ part <= total /\ 100 * part \in Nat /\ total \in Nat \ {0}
  OBVIOUS
<1>2. Percent(part, total) = r
  BY DEF Percent
<1> HIDE DEF q
<1>3. r \in Nat /\ e \in Nat
  BY <1>1, DivFacts DEF Exact
<1>4. \A n \in Nat : part < n * q <=> r < n
  BY <1>1, BeyondDiv
<1>5. \A n \in Nat : 100 * part < n * total <=> e < n
  BY <1>1, BeyondDiv DEF Exact
<1> HIDE DEF r, e
<1>6. e <= r
  <2>1. part < (r + 1) * q
    BY <1>3, <1>4
  <2>2. (100 * q) * (r + 1) <= total * (r + 1)
    BY <1>1, <1>3, ProductGrows
  <2>3. (100 * q) * (r + 1) = 100 * ((r + 1) * q) /\ (r + 1) * q \in Nat
        /\ total * (r + 1) = (r + 1) * total /\ (r + 1) * total \in Nat
    BY <1>1, <1>3
  <2>4. 100 * part < (r + 1) * total
    BY <1>1, <2>1, <2>2, <2>3
  <2> QED
    BY <1>3, <1>5, <2>4
<1>7. ASSUME total % 100 = 0 PROVE r = e
  <2>1. ~ (part < r * q)
    BY <1>3, <1>4
  <2>2. r * total = 100 * (r * q) /\ r * q \in Nat
    BY <1>1, <1>3, <1>7
  <2>3. ~ (100 * part < r * total)
    BY <1>1, <2>1, <2>2
  <2> QED
    BY <1>3, <1>5, <1>6, <2>3
<1>8. ASSUME total >= 10000 PROVE r <= e + 1 /\ r <= 100
  <2>1. r <= 100
    <3>1. part < 101 * q
      BY <1>1, <1>8
    <3> QED
      BY <1>3, <1>4, <3>1
  <2>2. 100 * part < (e + 1) * total
    BY <1>3, <1>5
  <2>3. total * (e + 1) <= (100 * q + 99) * (e + 1)
    BY <1>1, <1>3, ProductGrows
  <2>4. /\ total * (e + 1) = (e + 1) * total /\ (e + 1) * total \in Nat
        /\ (100 * q + 99) * (e + 1) = 100 * (e * q) + 100 * q + 99 * e + 99
        /\ (e + 2) * q = e * q + 2 * q /\ e * q \in Nat
    BY <1>1, <1>3
  <2>5. part < (e + 2) * q
    BY <1>1, <1>3, <1>6, <1>8, <2>1, <2>2, <2>3, <2>4
  <2> QED
    BY <1>3, <1>4, <2>1, <2>5
<1> QED
  BY <1>2, <1>3, <1>6, <1>7, <1>8 DEF e

\* A call of a percentage, before and after.
PercentDone ==
    /\ op = "percent" => in \in {<<p, t>> : p \in Nat, t \in Nat} /\ in[1] <= in[2]
    /\ op = "percent" => st \in {"called", "done"}
    /\ op = "percent" /\ st = "done" => ret = Percent(in[1], in[2])

\* The percentages that report tail-waste prints are what PercentClose says.
THEOREM PercentIsClose == Spec => []PercentClose
<1>1. Init => PercentDone
  BY TextAssumption DEF Init, PercentDone
<1>2. PercentDone /\ [Next]_vars => PercentDone'
  BY DEF PercentDone, Next, vars, humane_bytes, percent, have_bootid, dehyphen,
         dehyphen_end, strdup
<1>3. PercentDone => PercentClose
  <2> SUFFICES ASSUME PercentDone, op = "percent", st = "done", in[2] >= 100
               PROVE  /\ Exact(in[1], in[2]) <= ret
                      /\ in[2] % 100 = 0 => ret = Exact(in[1], in[2])
                      /\ in[2] >= 10000 => ret <= Exact(in[1], in[2]) + 1 /\ ret <= 100
    BY DEF PercentClose, Exact
  <2>1. in[2] \in Nat /\ in[1] \in 0 .. in[2] /\ ret = Percent(in[1], in[2])
    BY DEF PercentDone
  <2> QED
    BY <2>1, PercentFacts
<1> QED
  BY <1>1, <1>2, <1>3, PTL DEF Spec

-----------------------------------------------------------------------------
\* How the number of characters that are kept grows.
LEMMA KeptType ==
    ASSUME NEW n \in Nat
    PROVE  IsFiniteSet({k \in 1 .. n : in[k] # HYPHEN}) /\ Kept(n) \in Nat /\ Kept(n) <= n
<1> DEFINE K == {k \in 1 .. n : in[k] # HYPHEN}
<1>1. IsFiniteSet(1 .. n) /\ Cardinality(1 .. n) = n
  BY FS_Interval
<1>2. IsFiniteSet(K) /\ Cardinality(K) <= Cardinality(1 .. n)
  BY <1>1, FS_Subset
<1>3. Cardinality(K) \in Nat
  BY <1>2, FS_CardinalityType
<1> QED
  BY <1>1, <1>2, <1>3 DEF Kept

LEMMA KeptStep ==
    ASSUME NEW n \in Nat \ {0}
    PROVE  Kept(n) = Kept(n - 1) + IF in[n] # HYPHEN THEN 1 ELSE 0
<1> DEFINE K(m) == {k \in 1 .. m : in[k] # HYPHEN}
<1>1. n - 1 \in Nat
  OBVIOUS
<1>2. n \notin K(n - 1) /\ IsFiniteSet(K(n - 1)) /\ Kept(n - 1) \in Nat
  BY <1>1, KeptType
<1>3. K(n) = IF in[n] # HYPHEN THEN K(n - 1) \cup {n} ELSE K(n - 1)
  BY <1>1
<1>4. Cardinality(K(n - 1) \cup {n}) = Cardinality(K(n - 1)) + 1
  BY <1>2, FS_AddElement
<1> QED
  BY <1>2, <1>3, <1>4 DEF Kept

LEMMA KeptFacts ==
    /\ Kept(0) = 0
    /\ \A n \in Nat : Kept(n) \in Nat /\ Kept(n) <= n
    /\ \A n \in Nat : 1 <= n /\ in[n] # HYPHEN => 1 <= Kept(n)
    /\ \A m, n \in Nat : m <= n => Kept(m) <= Kept(n)
<1>1. \A n \in Nat : Kept(n) \in Nat /\ Kept(n) <= n
  BY KeptType
<1>2. Kept(0) = 0
  <2>1. Kept(0) \in Nat /\ Kept(0) <= 0
    BY <1>1
  <2> QED
    BY <2>1
<1>3. ASSUME NEW n \in Nat, 1 <= n, in[n] # HYPHEN PROVE 1 <= Kept(n)
  <2>1. n \in Nat \ {0} /\ n - 1 \in Nat
    BY <1>3
  <2>2. Kept(n - 1) \in Nat /\ Kept(n) = Kept(n - 1) + 1
    BY <1>1, <1>3, <2>1, KeptStep
  <2> QED
    BY <2>2
<1>4. ASSUME NEW m \in Nat, NEW n \in Nat, m <= n PROVE Kept(m) <= Kept(n)
  <2>1. {k \in 1 .. m : in[k] # HYPHEN} \subseteq {k \in 1 .. n : in[k] # HYPHEN}
    BY <1>4
  <2> QED
    BY <2>1, KeptType, FS_Subset DEF Kept
<1> QED
  BY <1>1, <1>2, <1>3, <1>4

\* A function on 1 .. n is a sequence of n.
LEMMA SeqFacts ==
    ASSUME NEW S, NEW n \in Nat, NEW f \in [1 .. n -> S]
    PROVE  f \in Seq(S) /\ Len(f) = n
OBVIOUS

\* What is read of the boot id's file.
TextRead == in \in Seq(Char) /\ Len(in) \in Nat \ {0}

LEMMA TextsAreRead == ASSUME in \in Texts PROVE TextRead
<1>1. PICK n \in 1 .. MaxText : in \in [1 .. n -> Char]
  BY DEF Texts
<1>2. n \in Nat \ {0}
  BY <1>1, TextAssumption
<1>3. in \in Seq(Char) /\ Len(in) = n
  BY <1>1, <1>2, SeqFacts
<1> QED
  BY <1>2, <1>3 DEF TextRead

\* The buffer, as long as what was read, and its characters from from on still
\* those that were read, up to the NUL in the last one's place.
Unread(from) ==
    /\ buf \in Seq(Char \cup {NUL}) /\ Len(buf) = Len(in)
    /\ \A k \in Nat : from <= k /\ k < Len(in) => buf[k] = in[k]

\* The characters to keep among the first n stand where they belong, and
\* nothing before dest ends the text.
Compacted(n) ==
    /\ dest = Kept(n) + 1
    /\ \A k \in Nat : 1 <= k /\ k <= n /\ in[k] # HYPHEN => buf[Kept(k)] = in[k]
    /\ \A k \in Nat : 1 <= k /\ k < dest => buf[k] \in Char

\* dehyphen()'s loop: dest is never ahead of str, so nothing is written over
\* that is still to be read.
BootIdInv ==
    op = "bootid" =>
       /\ TextRead
       /\ st \in {"called", "dehyphen", "dehyphened", "done", "ENOMEM"}
       /\ st = "called" => buf = in
       /\ st = "dehyphen" => /\ str \in 1 .. Len(in)
                             /\ Unread(str) /\ buf[Len(in)] = NUL
                             /\ Compacted(str - 1)
       /\ st = "dehyphened" => /\ Unread(Len(in))
                               /\ dest \in 1 .. Len(in) /\ buf[dest] = NUL
                               /\ Compacted(Len(in) - 1)
       /\ st = "done" => BootIdBare

LEMMA InitBootId == Init => BootIdInv
BY TextsAreRead DEF Init, BootIdInv

\* The last byte becomes the NUL.
LEMMA HaveBootId == ASSUME BootIdInv, have_bootid PROVE BootIdInv'
<1>1. TextRead /\ TextRead' /\ buf = in /\ op = "bootid"
  BY DEF have_bootid, BootIdInv, TextRead
<1>2. /\ buf' = [in EXCEPT ![Len(in)] = NUL] /\ str' = 1 /\ dest' = 1 /\ st' = "dehyphen"
      /\ in' = in
  BY <1>1 DEF have_bootid
<1>3. in \in Seq(Char \cup {NUL}) /\ Len(in) \in 1 .. Len(in)
  <2>1. in \in Seq(Char \cup {NUL})
    BY <1>1, SeqMonotonic DEF TextRead
  <2> QED
    BY <1>1, <2>1 DEF TextRead
<1>4. /\ buf' \in Seq(Char \cup {NUL}) /\ Len(buf') = Len(in)
      /\ \A k \in 1 .. Len(in) : buf'[k] = IF k = Len(in) THEN NUL ELSE in[k]
  <2>1. NUL \in Char \cup {NUL}
    OBVIOUS
  <2>2. /\ [in EXCEPT ![Len(in)] = NUL] \in Seq(Char \cup {NUL})
        /\ Len([in EXCEPT ![Len(in)] = NUL]) = Len(in)
        /\ \A k \in 1 .. Len(in) :
              [in EXCEPT ![Len(in)] = NUL][k] = IF k = Len(in) THEN NUL ELSE in[k]
    BY <1>3, <2>1, ExceptSeq
  <2> QED
    BY <1>2, <2>2, Zenon
<1>5. Kept(0) = 0 /\ Kept(0)' = Kept(0)
  BY <1>2, KeptFacts DEF Kept
<1>6. Unread(1)' /\ buf'[Len(in)] = NUL
  <2>1. ASSUME NEW k \in Nat, 1 <= k, k < Len(in) PROVE buf'[k] = in[k]
    <3>1. k \in 1 .. Len(in) /\ k # Len(in)
      BY <1>1, <2>1 DEF TextRead
    <3> QED
      BY <1>4, <3>1
  <2>2. buf'[Len(in)] = NUL
    BY <1>3, <1>4
  <2>3. Len(in)' = Len(in) /\ \A k : in'[k] = in[k]
    BY <1>2
  <2> QED
    BY <1>4, <2>1, <2>2, <2>3, Zenon DEF Unread
<1>7. Compacted(0)'
  BY <1>2, <1>5 DEF Compacted
<1>8. 1 \in 1 .. Len(in)
  BY <1>1 DEF TextRead
<1>9. Unread(str)' /\ Compacted(str - 1)'
  BY <1>2, <1>6, <1>7
<1> QED
  BY <1>1, <1>2, <1>6, <1>8, <1>9 DEF BootIdInv

\* A turn of the loop over a text of n characters that has come to the s-th of
\* them, K telling how many are kept up to each.
LEMMA TurnFacts ==
    ASSUME NEW n \in Nat, NEW s \in Nat, 1 <= s, s < n, NEW K \in [Nat -> Nat],
           NEW text, NEW old, NEW d \in Nat,
           K[s] = K[s - 1] + IF text[s] # HYPHEN THEN 1 ELSE 0,
           \A k \in Nat : K[k] <= k,
           \A k \in Nat : 1 <= k /\ text[k] # HYPHEN => 1 <= K[k],
           \A k, m \in Nat : k <= m => K[k] <= K[m],
           d = K[s - 1] + 1,
           \A k \in Nat : 1 <= k /\ k < s /\ text[k] # HYPHEN => old[K[k]] = text[k],
           \A k \in Nat : 1 <= k /\ k < d => old[k] \in Char
    PROVE  /\ 1 <= d /\ d <= s
           /\ text[s] = HYPHEN =>
                 /\ K[s] = d - 1
                 /\ \A k \in Nat : 1 <= k /\ k <= s /\ text[k] # HYPHEN => old[K[k]] = text[k]
           /\ \A new :
                 text[s] # HYPHEN /\ text[s] \in Char
                 /\ (\A k \in Nat : 1 <= k /\ k <= n =>
                        new[k] = IF k = d THEN text[s] ELSE old[k]) =>
                 /\ K[s] = d
                 /\ \A k \in Nat : 1 <= k /\ k <= s /\ text[k] # HYPHEN => new[K[k]] = text[k]
                 /\ \A k \in Nat : 1 <= k /\ k <= d => new[k] \in Char
<1>1. s - 1 \in Nat /\ K[s - 1] <= s - 1 /\ 1 <= d /\ d <= s
  OBVIOUS
<1>2. \A k \in Nat : 1 <= k /\ k < s => K[k] < d
  <2>1. \A k \in Nat : 1 <= k /\ k < s => k <= s - 1
    OBVIOUS
  <2> QED
    BY <1>1, <2>1
<1>4. ASSUME text[s] = HYPHEN
      PROVE  /\ K[s] = d - 1
             /\ \A k \in Nat : 1 <= k /\ k <= s /\ text[k] # HYPHEN => old[K[k]] = text[k]
  <2>1. K[s] = d - 1
    BY <1>1, <1>4
  <2>2. ASSUME NEW k \in Nat, 1 <= k, k <= s, text[k] # HYPHEN PROVE old[K[k]] = text[k]
    <3>1. k # s
      BY <1>4, <2>2
    <3>2. k < s
      BY <2>2, <3>1
    <3> QED
      BY <2>2, <3>2
  <2> QED
    BY <2>1, <2>2
<1>5. ASSUME NEW new, text[s] # HYPHEN, text[s] \in Char,
             \A k \in Nat : 1 <= k /\ k <= n => new[k] = IF k = d THEN text[s] ELSE old[k]
      PROVE  /\ K[s] = d
             /\ \A k \in Nat : 1 <= k /\ k <= s /\ text[k] # HYPHEN => new[K[k]] = text[k]
             /\ \A k \in Nat : 1 <= k /\ k <= d => new[k] \in Char
  <2>1. K[s] = d
    BY <1>1, <1>5
  <2>2. ASSUME NEW k \in Nat, 1 <= k, k <= s, text[k] # HYPHEN PROVE new[K[k]] = text[k]
    <3>1. CASE k = s
      BY <1>1, <1>5, <2>1, <3>1
    <3>2. CASE k < s
      <4>1. K[k] \in Nat /\ 1 <= K[k] /\ K[k] <= n /\ K[k] # d
        BY <1>1, <1>2, <2>2, <3>2
      <4>2. new[K[k]] = old[K[k]]
        BY <1>5, <4>1
      <4> QED
        BY <2>2, <3>2, <4>2
    <3> QED
      BY <2>2, <3>1, <3>2
  <2>3. ASSUME NEW k \in Nat, 1 <= k, k <= d PROVE new[k] \in Char
    <3>1. new[k] = IF k = d THEN text[s] ELSE old[k]
      BY <1>1, <1>5, <2>3
    <3>2. k # d => old[k] \in Char
      BY <2>3
    <3> QED
      BY <1>5, <3>1, <3>2
  <2> QED
    BY <2>1, <2>2, <2>3
<1> QED
  BY <1>1, <1>4, <1>5

\* One turn of the loop.
LEMMA Dehyphen == ASSUME BootIdInv, dehyphen, op = "bootid" PROVE BootIdInv'
<1>1. /\ TextRead /\ str \in 1 .. Len(in) /\ Unread(str) /\ buf[Len(in)] = NUL
      /\ Compacted(str - 1)
      /\ buf[str] # NUL /\ str' = str + 1 /\ UNCHANGED <<op, in, st, ret>> /\ st = "dehyphen"
  BY DEF dehyphen, BootIdInv
<1>2. PICK n \in Nat, s \in Nat : n = Len(in) /\ s = str
  BY <1>1 DEF TextRead
<1>3. 1 <= s /\ s < n
  <2>1. 1 <= s /\ s <= n /\ s # n
    BY <1>1, <1>2
  <2> QED
    BY <2>1
<1>4. buf[s] = in[s]
  BY <1>1, <1>2, <1>3 DEF Unread
<1>5. in[s] \in Char
  <2>1. s \in 1 .. Len(in)
    BY <1>1, <1>2
  <2> QED
    BY <1>1, <2>1, ElementOfSeq DEF TextRead
<1>6. PICK K \in [Nat -> Nat] :
         /\ \A k \in Nat : K[k] = Kept(k) /\ Kept(k)' = Kept(k)
         /\ \A k \in Nat : K[k] <= k
         /\ \A k \in Nat : 1 <= k /\ in[k] # HYPHEN => 1 <= K[k]
         /\ \A k, m \in Nat : k <= m => K[k] <= K[m]
  <2> DEFINE K == [k \in Nat |-> Kept(k)]
  <2>1. K \in [Nat -> Nat]
    BY KeptFacts
  <2>2. \A k \in Nat : Kept(k)' = Kept(k)
    BY <1>1 DEF Kept
  <2>3. \A k \in Nat : K[k] = Kept(k)
    OBVIOUS
  <2> HIDE DEF K
  <2> QED
    BY <2>1, <2>2, <2>3, KeptFacts
<1>7. K[s] = K[s - 1] + IF in[s] # HYPHEN THEN 1 ELSE 0
  <2>1. s \in Nat \ {0} /\ s - 1 \in Nat
    BY <1>3
  <2>2. K[s] = Kept(s) /\ K[s - 1] = Kept(s - 1)
    BY <1>6, <2>1
  <2> QED
    BY <2>1, <2>2, KeptStep
<1>8. /\ dest = K[s - 1] + 1 /\ dest \in Nat
      /\ \A k \in Nat : 1 <= k /\ k < s /\ in[k] # HYPHEN => buf[K[k]] = in[k]
      /\ \A k \in Nat : 1 <= k /\ k < dest => buf[k] \in Char
  <2>1. s - 1 \in Nat /\ K[s - 1] = Kept(s - 1)
    BY <1>3, <1>6
  <2>2. dest = K[s - 1] + 1 /\ dest \in Nat
    <3>1. dest = Kept(s - 1) + 1
      BY <1>1, <1>2, Zenon DEF Compacted
    <3>2. K[s - 1] \in Nat
      BY <1>6, <2>1
    <3> QED
      BY <2>1, <3>1, <3>2
  <2>3. \A k \in Nat : k < s => k <= s - 1
    OBVIOUS
  <2>4. ASSUME NEW k \in Nat, 1 <= k, k < s, in[k] # HYPHEN PROVE buf[K[k]] = in[k]
    <3>1. K[k] = Kept(k) /\ k <= s - 1
      BY <1>6, <2>3, <2>4
    <3>2. buf[Kept(k)] = in[k]
      BY <1>1, <1>2, <2>4, <3>1 DEF Compacted
    <3> QED
      BY <3>1, <3>2
  <2>5. \A k \in Nat : 1 <= k /\ k < dest => buf[k] \in Char
    BY <1>1 DEF Compacted
  <2> QED
    BY <2>2, <2>4, <2>5
<1> DEFINE KeptIn(b) ==
             \A k \in Nat : 1 <= k /\ k <= s /\ in[k] # HYPHEN => b[K[k]] = in[k]
<1>10. /\ 1 <= dest /\ dest <= s
       /\ in[s] = HYPHEN => K[s] = dest - 1 /\ KeptIn(buf)
       /\ in[s] # HYPHEN
          /\ (\A k \in Nat : 1 <= k /\ k <= n =>
                 buf'[k] = IF k = dest THEN in[s] ELSE buf[k]) =>
          /\ K[s] = dest /\ KeptIn(buf')
          /\ \A k \in Nat : 1 <= k /\ k <= dest => buf'[k] \in Char
  BY <1>3, <1>5, <1>6, <1>7, <1>8, TurnFacts
<1>12. ASSUME buf' \in Seq(Char \cup {NUL}), Len(buf') = n, buf'[n] = NUL,
              \A k \in Nat : s < k /\ k < n => buf'[k] = in[k],
              dest' = K[s] + 1, KeptIn(buf'),
              \A k \in Nat : 1 <= k /\ k < dest' => buf'[k] \in Char
       PROVE  BootIdInv'
  <2>1. Unread(s + 1)'
    <3>1. \A k \in Nat : s + 1 <= k => s < k
      OBVIOUS
    <3> QED
      BY <1>1, <1>2, <1>12, <3>1 DEF Unread
  <2>2. Compacted(s)'
    <3>1. K[s] = Kept(s)' /\ in' = in
      BY <1>1, <1>6
    <3>2. ASSUME NEW k \in Nat, 1 <= k, k <= s, in[k] # HYPHEN PROVE buf'[Kept(k)'] = in[k]
      <4>1. K[k] = Kept(k)'
        BY <1>6
      <4> QED
        BY <1>12, <3>2, <4>1
    <3> QED
      BY <1>12, <3>1, <3>2 DEF Compacted
  <2>3. str' - 1 = s /\ str' = s + 1 /\ str' \in 1 .. Len(in)
    BY <1>1, <1>2, <1>3
  <2>4. Unread(str)' /\ Compacted(str - 1)'
    BY <2>1, <2>2, <2>3
  <2> QED
    BY <1>1, <1>2, <1>12, <2>3, <2>4 DEF BootIdInv, TextRead
<1>13. buf \in Seq(Char \cup {NUL}) /\ Len(buf) = n /\ buf[n] = NUL
  BY <1>1, <1>2, Zenon DEF Unread
<1>14. \A k \in Nat : s < k /\ k < n => buf[k] = in[k]
  <2>1. \A k \in Nat : s <= k /\ k < n => buf[k] = in[k]
    BY <1>1, <1>2, Zenon DEF Unread
  <2> QED
    BY <2>1
<1>11. dest \in Nat /\ 1 <= dest /\ dest <= s
  BY <1>8, <1>10
<1>9. dest = K[s - 1] + 1
  BY <1>8
<1> HIDE DEF KeptIn
<1>15. CASE in[s] = HYPHEN
  <2>1. buf' = buf /\ dest' = dest
    BY <1>2, <1>4, <1>15 DEF dehyphen
  <2>2. K[s] = dest - 1 /\ KeptIn(buf)
    BY <1>10, <1>15
  <2>3. dest' = K[s] + 1
    BY <1>11, <2>1, <2>2
  <2>4. KeptIn(buf')
    BY <2>1, <2>2
  <2>5. \A k \in Nat : 1 <= k /\ k < dest' => buf'[k] \in Char
    BY <1>8, <2>1
  <2>6. /\ buf' \in Seq(Char \cup {NUL}) /\ Len(buf') = n /\ buf'[n] = NUL
        /\ \A k \in Nat : s < k /\ k < n => buf'[k] = in[k]
    BY <1>13, <1>14, <2>1
  <2> QED
    BY <1>12, <2>3, <2>4, <2>5, <2>6
<1>16. CASE in[s] # HYPHEN
  <2>1. buf' = [buf EXCEPT ![dest] = in[s]] /\ dest' = dest + 1
    BY <1>2, <1>4, <1>16 DEF dehyphen
  <2>2. /\ buf' \in Seq(Char \cup {NUL}) /\ Len(buf') = n
        /\ \A k \in 1 .. n : buf'[k] = IF k = dest THEN in[s] ELSE buf[k]
    <3>1. in[s] \in Char \cup {NUL}
      BY <1>5
    <3>2. dest \in 1 .. n
      BY <1>3, <1>11
    <3>3. dest \in 1 .. Len(buf)
      BY <1>13, <3>2
    <3>4. /\ [buf EXCEPT ![dest] = in[s]] \in Seq(Char \cup {NUL})
          /\ Len([buf EXCEPT ![dest] = in[s]]) = Len(buf)
          /\ \A k \in 1 .. Len(buf) :
                [buf EXCEPT ![dest] = in[s]][k] = IF k = dest THEN in[s] ELSE buf[k]
      BY <1>13, <3>1, <3>3, ExceptSeq
    <3> QED
      BY <1>13, <2>1, <3>4, Zenon
  <2>3. \A k \in Nat : 1 <= k /\ k <= n => buf'[k] = IF k = dest THEN in[s] ELSE buf[k]
    BY <2>2
  <2>4. /\ K[s] = dest /\ KeptIn(buf')
        /\ \A k \in Nat : 1 <= k /\ k <= dest => buf'[k] \in Char
    BY <1>10, <1>16, <2>3
  <2>5. ASSUME NEW k \in Nat, s < k, k < n PROVE buf'[k] = in[k]
    <3>1. 1 <= k /\ k <= n /\ k # dest
      BY <1>3, <1>11, <2>5
    <3>2. buf'[k] = buf[k]
      BY <2>3, <3>1
    <3> QED
      BY <1>14, <2>5, <3>2
  <2>6. buf'[n] = NUL
    <3>1. 1 <= n /\ n # dest
      BY <1>3, <1>11
    <3>2. buf'[n] = buf[n]
      BY <2>3, <3>1
    <3> QED
      BY <1>13, <3>2
  <2>7. dest' = K[s] + 1 /\ dest' = dest + 1
    BY <2>1, <2>4
  <2>8. \A k \in Nat : 1 <= k /\ k < dest' => buf'[k] \in Char
    <3>1. \A k \in Nat : k < dest' => k <= dest
      BY <1>11, <2>7
    <3> QED
      BY <2>4, <3>1
  <2> QED
    BY <1>12, <2>2, <2>4, <2>5, <2>6, <2>7, <2>8
<1> QED
  BY <1>15, <1>16

\* The end of the loop.
LEMMA DehyphenEnd == ASSUME BootIdInv, dehyphen_end, op = "bootid" PROVE BootIdInv'
<1>1. /\ TextRead /\ str \in 1 .. Len(in) /\ Unread(str) /\ Compacted(str - 1)
      /\ buf[str] = NUL /\ UNCHANGED <<op, in, str, dest, ret>>
      /\ buf' = [buf EXCEPT ![dest] = NUL] /\ st' = "dehyphened"
  BY DEF dehyphen_end, BootIdInv
<1>2. PICK n \in Nat, d \in Nat :
         n = Len(in) /\ d = Kept(n - 1) + 1 /\ 1 <= n /\ 1 <= d /\ d <= n
  <2>1. Len(in) \in Nat /\ 1 <= Len(in) /\ Len(in) - 1 \in Nat
    BY <1>1 DEF TextRead
  <2>2. Kept(Len(in) - 1) \in Nat /\ Kept(Len(in) - 1) <= Len(in) - 1
    BY <2>1, KeptFacts
  <2> QED
    BY <2>1, <2>2
<1>3. 1 <= n /\ d \in 1 .. n
  <2>1. 1 <= n /\ 1 <= d /\ d <= n
    BY <1>2, Zenon
  <2> QED
    BY <2>1
<1>4. str = n
  <2> SUFFICES ASSUME str # n PROVE FALSE
    OBVIOUS
  <2>1. str \in Nat /\ str < n /\ str <= str
    BY <1>1, <1>2
  <2>2. buf[str] = in[str]
    BY <1>1, <1>2, <2>1, Zenon DEF Unread
  <2>3. in[str] \in Char
    BY <1>1, ElementOfSeq DEF TextRead
  <2> QED
    BY <1>1, <2>2, <2>3, TextAssumption
<1>5. dest = d /\ Compacted(n - 1)
  BY <1>1, <1>2, <1>4, Zenon DEF Compacted
<1>6. /\ buf' \in Seq(Char \cup {NUL}) /\ Len(buf') = n
      /\ \A k \in 1 .. n : buf'[k] = IF k = d THEN NUL ELSE buf[k]
  <2>1. buf \in Seq(Char \cup {NUL}) /\ Len(buf) = n /\ NUL \in Char \cup {NUL}
    BY <1>1, <1>2, Zenon DEF Unread
  <2>3. d \in 1 .. Len(buf)
    BY <1>3, <2>1
  <2>4. /\ [buf EXCEPT ![d] = NUL] \in Seq(Char \cup {NUL})
        /\ Len([buf EXCEPT ![d] = NUL]) = Len(buf)
        /\ \A k \in 1 .. Len(buf) :
              [buf EXCEPT ![d] = NUL][k] = IF k = d THEN NUL ELSE buf[k]
    BY <2>1, <2>3, ExceptSeq
  <2>5. buf' = [buf EXCEPT ![d] = NUL]
    BY <1>1, <1>5
  <2> QED
    BY <2>1, <2>4, <2>5, Zenon
<1>7. buf'[d] = NUL /\ \A k \in Nat : 1 <= k /\ k < d => buf'[k] = buf[k]
  <2>1. d \in 1 .. n /\ \A k \in Nat : 1 <= k /\ k < d => k \in 1 .. n /\ k # d
    BY <1>3
  <2> QED
    BY <1>6, <2>1
<1>8. Unread(n)'
  <2>1. \A k \in Nat : ~ (n <= k /\ k < n)
    OBVIOUS
  <2>2. Len(in)' = n
    BY <1>1, <1>2
  <2> QED
    BY <1>6, <2>1, <2>2 DEF Unread
<1>9. ASSUME NEW k \in Nat, 1 <= k, k <= n - 1, in[k] # HYPHEN PROVE buf'[Kept(k)] = in[k]
  <2>1. buf[Kept(k)] = in[k]
    BY <1>5, <1>9, Zenon DEF Compacted
  <2>2. n - 1 \in Nat /\ Kept(k) \in Nat /\ 1 <= Kept(k) /\ Kept(n - 1) \in Nat
    BY <1>2, <1>9, KeptFacts
  <2>3. Kept(k) <= Kept(n - 1)
    BY <1>9, <2>2, KeptFacts
  <2>4. Kept(k) < d
    BY <1>2, <2>2, <2>3
  <2> QED
    BY <1>7, <2>1, <2>2, <2>4
<1>10. Compacted(n - 1)'
  <2>1. dest' = d /\ in' = in /\ \A k : Kept(k)' = Kept(k)
    BY <1>1, <1>5 DEF Kept
  <2>2. d = Kept(n - 1) + 1
    BY <1>2
  <2>3. \A k \in Nat : 1 <= k /\ k < d => buf[k] \in Char
    BY <1>5, Zenon DEF Compacted
  <2>4. \A k \in Nat : 1 <= k /\ k < d => buf'[k] \in Char
    BY <1>7, <2>3
  <2>5. \A k \in Nat : 1 <= k /\ k <= n - 1 /\ in'[k] # HYPHEN => buf'[Kept(k)'] = in'[k]
    BY <1>9, <2>1
  <2> QED
    BY <2>1, <2>2, <2>4, <2>5, Zenon DEF Compacted
<1>11. Len(in)' = n /\ dest' \in 1 .. n /\ buf'[dest'] = NUL
  <2>1. dest' = d /\ in' = in
    BY <1>1, <1>5
  <2>2. Len(in) = n
    BY <1>2
  <2> QED
    BY <1>3, <1>7, <2>1, <2>2
<1> QED
  BY <1>1, <1>8, <1>10, <1>11 DEF BootIdInv, TextRead

\* What is copied ends at dest.
LEMMA CStringFacts ==
    ASSUME NEW text, NEW S, text \in Seq(S), NEW d \in Nat, 1 <= d, d <= Len(text),
           text[d] = NUL, \A k \in Nat : 1 <= k /\ k < d => text[k] # NUL
    PROVE  Len(CString(text)) = d - 1
           /\ \A k \in Nat : 1 <= k /\ k < d => CString(text)[k] = text[k]
<1> DEFINE I == {i \in 1 .. Len(text) : text[i] = NUL}
<1>1. Len(text) \in Nat
  BY LenProperties
<1>2. d \in I /\ \A i \in I : i \in Nat /\ d <= i
  BY <1>1
<1> HIDE DEF I
<1>3. Min(I) = d
  <2>1. \A x \in I : (\A y \in I : x <= y) => x = d
    BY <1>2
  <2> QED
    BY <1>2, <2>1 DEF Min
<1>4. SelectInSeq(text, LAMBDA c : c = NUL) = d
  BY <1>2, <1>3 DEF SelectInSeq, I
<1>5. CString(text) = SubSeq(text, 1, d - 1)
  BY <1>4 DEF CString
<1> QED
  BY <1>1, <1>5, SubSeqProperties

\* The copy.
LEMMA Strdup == ASSUME BootIdInv, strdup, op = "bootid" PROVE BootIdInv'
<1>1. /\ TextRead /\ Unread(Len(in)) /\ dest \in 1 .. Len(in) /\ buf[dest] = NUL
      /\ Compacted(Len(in) - 1) /\ UNCHANGED <<op, in, buf, str, dest>>
      /\ st' \in {"done", "ENOMEM"} /\ st' = "done" => ret' = CString(buf)
  BY DEF strdup, BootIdInv
<1>2. TextRead'
  BY <1>1 DEF TextRead
<1>3. ASSUME st' = "done" PROVE BootIdBare'
  <2>1. PICK n \in Nat, d \in Nat :
           n = Len(in) /\ d = Kept(n - 1) + 1 /\ d = dest /\ 1 <= n /\ 1 <= d /\ d <= n
    <3>1. Len(in) \in Nat /\ dest \in Nat /\ 1 <= Len(in) /\ 1 <= dest /\ dest <= Len(in)
      BY <1>1 DEF TextRead
    <3>2. dest = Kept(Len(in) - 1) + 1
      BY <1>1, Zenon DEF Compacted
    <3> QED
      BY <3>1, <3>2, Zenon
  <2>2. 1 <= n /\ 1 <= d /\ d <= n /\ n - 1 \in Nat
    <3>1. 1 <= n /\ 1 <= d /\ d <= n
      BY <2>1, Zenon
    <3> QED
      BY <3>1
  <2>3. buf \in Seq(Char \cup {NUL}) /\ Len(buf) = n /\ buf[d] = NUL
    BY <1>1, <2>1, Zenon DEF Unread
  <2>4. \A k \in Nat : 1 <= k /\ k < d => buf[k] # NUL
    <3>1. \A k \in Nat : 1 <= k /\ k < d => buf[k] \in Char
      BY <1>1, <2>1, Zenon DEF Compacted
    <3> QED
      BY <3>1, TextAssumption
  <2>5. d <= Len(buf)
    BY <2>2, <2>3
  <2>6. /\ Len(CString(buf)) = d - 1
        /\ \A k \in Nat : 1 <= k /\ k < d => CString(buf)[k] = buf[k]
    BY <2>2, <2>3, <2>4, <2>5, CStringFacts
  <2>7. ret' = CString(buf) /\ in' = in /\ \A k : Kept(k)' = Kept(k)
    BY <1>1, <1>3 DEF Kept
  <2>8. Len(ret') = Kept(n - 1)
    <3>1. d = Kept(n - 1) + 1 /\ Kept(n - 1) \in Nat
      BY <2>1, <2>2, KeptFacts
    <3> QED
      BY <2>6, <2>7, <3>1
  <2>9. ASSUME NEW k \in 1 .. n - 1, in[k] # HYPHEN PROVE ret'[Kept(k)] = in[k]
    <3>1. k \in Nat /\ 1 <= k /\ k <= n - 1
      BY <2>2
    <3>2. buf[Kept(k)] = in[k]
      BY <1>1, <2>1, <2>9, <3>1, Zenon DEF Compacted
    <3>3. Kept(k) \in Nat /\ 1 <= Kept(k) /\ Kept(n - 1) \in Nat
      BY <2>2, <2>9, <3>1, KeptFacts
    <3>4. Kept(k) <= Kept(n - 1)
      BY <2>2, <3>1, KeptFacts
    <3>5. d = Kept(n - 1) + 1
      BY <2>1, Zenon
    <3>6. Kept(k) < d
      BY <3>3, <3>4, <3>5
    <3> QED
      BY <2>6, <2>7, <3>2, <3>3, <3>6
  <2>10. Len(in) = n
    BY <2>1, Zenon
  <2> QED
    BY <2>7, <2>8, <2>9, <2>10 DEF BootIdBare
<1>4. st' \in {"done", "ENOMEM"} /\ op' = op
  BY DEF strdup
<1> QED
  <2>1. /\ st' # "called" /\ st' # "dehyphen" /\ st' # "dehyphened"
        /\ st' \in {"called", "dehyphen", "dehyphened", "done", "ENOMEM"}
    BY <1>4
  <2> QED
    BY <1>2, <1>3, <2>1, Zenon DEF BootIdInv

\* What the buffer and its pointers are left as.
LEMMA BootIdStays ==
    ASSUME BootIdInv,
           \/ UNCHANGED <<op, in, buf, str, dest, st, ret>>
           \/ op # "bootid" /\ op' = op
    PROVE  BootIdInv'
<1>1. CASE UNCHANGED <<op, in, buf, str, dest, st, ret>>
  <2>1. \A k : Kept(k)' = Kept(k)
    BY <1>1 DEF Kept
  <2> QED
    BY <1>1, <2>1 DEF BootIdInv, TextRead, Unread, Compacted, BootIdBare
<1>2. CASE op # "bootid" /\ op' = op
  BY <1>2 DEF BootIdInv
<1> QED
  BY <1>1, <1>2

\* The boot id is what was read of its file without the hyphens and the last
\* byte, although bootid.c removes them in place.
THEOREM BootIdIsBare == Spec => []BootIdBare
<1>1. Init => BootIdInv
  BY InitBootId
<1>2. BootIdInv /\ [Next]_vars => BootIdInv'
  <2> SUFFICES ASSUME BootIdInv, [Next]_vars PROVE BootIdInv'
    OBVIOUS
  <2>1. CASE op = "bootid"
    <3>1. \/ have_bootid \/ dehyphen \/ dehyphen_end \/ strdup
          \/ UNCHANGED <<op, in, buf, str, dest, st, ret>>
      BY <2>1 DEF Next, vars, humane_bytes, percent
    <3> QED
      BY <2>1, <3>1, HaveBootId, Dehyphen, DehyphenEnd, Strdup, BootIdStays
  <2>2. CASE op # "bootid"
    <3>1. op' = op
      BY DEF Next, vars, humane_bytes, percent, have_bootid, dehyphen, dehyphen_end, strdup
    <3> QED
      BY <2>2, <3>1, BootIdStays
  <2> QED
    BY <2>1, <2>2
<1>3. BootIdInv => BootIdBare
  BY DEF BootIdInv, BootIdBare
<1> QED
  BY <1>1, <1>2, <1>3, PTL DEF Spec

-----------------------------------------------------------------------------
\* Rounding is off by no more than a half.
LEMMA NearestFacts ==
    ASSUME NEW a \in Nat, NEW b \in Nat \ {0}
    PROVE  /\ Nearest(a, b) \in Nat
           /\ 2 * (Nearest(a, b) * b) <= 2 * a + b
           /\ 2 * a <= 2 * (Nearest(a, b) * b) + b
           /\ \A c \in Nat : a < c * b => Nearest(a, b) <= c
<1> DEFINE q == a \div b
           m == a % b
           v == Nearest(a, b)
<1>1. q \in Nat /\ m = a - q * b /\ q * b <= a /\ a < q * b + b
  BY DivFacts
<1>2. \A c \in Nat : a < c * b => q < c
  BY BeyondDiv
<1>3. \/ v = q /\ 2 * m <= b
      \/ v = q + 1 /\ 2 * m >= b
  <2>1. q \in Nat /\ q * b \in Nat
    BY <1>1
  <2>2. m \in Nat
    BY <1>1, <2>1
  <2>3. v = IF 2 * m > b \/ (2 * m = b /\ q % 2 = 1) THEN q + 1 ELSE q
    BY DEF Nearest
  <2> HIDE DEF q, m, v
  <2> QED
    BY <2>2, <2>3
<1> HIDE DEF q, m, v
<1>4. q * b \in Nat /\ (q + 1) * b = q * b + b
  BY <1>1
<1>5. v \in Nat
  BY <1>1, <1>3
<1>6. \/ v * b = q * b /\ 2 * m <= b
      \/ v * b = q * b + b /\ 2 * m >= b
  BY <1>3, <1>4
<1>7. 2 * (v * b) <= 2 * a + b /\ 2 * a <= 2 * (v * b) + b
  BY <1>1, <1>4, <1>6
<1>8. \A c \in Nat : a < c * b => v <= c
  BY <1>1, <1>2, <1>3
<1> QED
  BY <1>5, <1>7, <1>8 DEF v

LEMMA NearestOne == ASSUME NEW a \in Nat PROVE Nearest(a, 1) = a
<1>1. a \div 1 = a /\ a % 1 = 0
  OBVIOUS
<1> QED
  BY <1>1 DEF Nearest

\* Distances between doubles: 1, or less than the number by the precision.
LEMMA UlpFacts ==
    ASSUME NEW n \in Nat
    PROVE  \E ulp \in Nat \ {0} :
              /\ Double(n) = ulp * Nearest(n, ulp)
              /\ ulp = 1 \/ (ulp * 2^Precision <= 2 * n /\ ~ (n < 2^Precision))
<1> DEFINE K == {k \in 0 .. Width : 2^(k + Precision) <= 2 * n}
           ulps == {2^k : k \in K} \cup {1}
<1>1. Width \in Nat /\ Precision \in Nat
  BY TextAssumption
<1>2. ASSUME NEW k \in K
      PROVE  /\ k \in Nat /\ 2^k \in Nat \ {0}
             /\ 2^k = 1 \/ (2^k * 2^Precision <= 2 * n /\ ~ (n < 2^Precision))
  <2>1. k \in Nat /\ k + Precision \in Nat /\ 2^(k + Precision) <= 2 * n
    BY <1>1
  <2> HIDE DEF K
  <2>2. 2^k \in Nat \ {0} /\ 2^Precision \in Nat /\ 2^0 = 1
    BY <1>1, <2>1, PowerOrder, PowerFacts
  <2>3. 2^(k + Precision) = 2^k * 2^Precision
    BY <1>1, <2>1, PowerAdds
  <2>4. CASE n < 2^Precision
    <3>1. 2^(Precision + 1) = 2^Precision + 2^Precision
      BY <1>1, PowerDoubles
    <3>2. 2^(k + Precision) < 2^(Precision + 1)
      BY <2>1, <2>2, <2>4, <3>1
    <3>3. ~ (Precision + 1 <= k + Precision)
      <4>1. Precision + 1 \in Nat
        BY <1>1
      <4>2. 2^(Precision + 1) \in Nat /\ 2^(k + Precision) \in Nat
        BY <2>1, <4>1, PowerOrder
      <4> QED
        BY <2>1, <3>2, <4>1, <4>2, PowerOrder
    <3>4. k = 0
      BY <1>1, <2>1, <3>3
    <3> QED
      BY <2>1, <2>2, <3>4
  <2> QED
    BY <2>1, <2>2, <2>3, <2>4
<1>3. \E u \in ulps : \A v \in ulps : v <= u
  <2>1. CASE K = {}
    BY <2>1
  <2>2. CASE K # {}
    <3> DEFINE Up == {Width - k : k \in K}
    <3>1. \A k \in K : k \in Nat /\ k <= Width
      BY <1>1
    <3> HIDE DEF K
    <3>2. Up \subseteq Nat /\ Up # {}
      BY <1>1, <2>2, <3>1
    <3>3. PICK x \in Up : \A y \in Up : x <= y
      BY <3>2, LeastElement
    <3>4. PICK k \in K : x = Width - k
      OBVIOUS
    <3>5. ASSUME NEW i \in K PROVE i <= k
      <4>1. Width - i \in Up
        OBVIOUS
      <4>2. x <= Width - i
        BY <3>3, <4>1
      <4> QED
        BY <1>1, <3>1, <3>4, <4>2
    <3>6. ASSUME NEW i \in K PROVE 2^i <= 2^k
      BY <1>2, <3>5, <3>6, PowerOrder
    <3>7. 1 <= 2^k
      BY <1>2
    <3> QED
      BY <3>6, <3>7
  <2> QED
    BY <2>1, <2>2
<1>4. PICK ulp \in ulps : Double(n) = ulp * Nearest(n, ulp)
  BY <1>3 DEF Double
<1> QED
  BY <1>2, <1>4

\* A double is close to the integer, and is it if the precision suffices.
LEMMA DoubleFacts ==
    ASSUME NEW n \in Nat
    PROVE  \E d \in Nat :
              /\ Double(n) \in Nat
              /\ Double(n) = n + d \/ n = Double(n) + d
              /\ d * 2^Precision <= n
              /\ n < 2^Precision => d = 0
              /\ d <= n
<1>1. PICK ulp \in Nat \ {0} :
         /\ Double(n) = ulp * Nearest(n, ulp)
         /\ ulp = 1 \/ (ulp * 2^Precision <= 2 * n /\ ~ (n < 2^Precision))
  BY UlpFacts
<1>2. PICK p \in Nat \ {0} : p = 2^Precision
  BY PowerOrder, TextAssumption
<1>3. CASE ulp = 1
  <2>1. Double(n) = n
    BY <1>1, <1>3, NearestOne
  <2>2. 0 * p = 0
    OBVIOUS
  <2> QED
    BY <1>2, <2>1, <2>2
<1>4. CASE ulp # 1
  <2>1. PICK v \in Nat : v = Nearest(n, ulp) /\ 2 * (v * ulp) <= 2 * n + ulp
                                             /\ 2 * n <= 2 * (v * ulp) + ulp
    BY NearestFacts
  <2>2. PICK z \in Nat : z = Double(n) /\ z = v * ulp
    BY <1>1, <2>1
  <2>3. PICK d \in Nat : (z = n + d \/ n = z + d) /\ 2 * d <= ulp
    <3>1. 2 * z <= 2 * n + ulp /\ 2 * n <= 2 * z + ulp
      BY <2>1, <2>2
    <3>2. CASE z >= n
      <4>1. z - n \in Nat /\ z = n + (z - n) /\ 2 * (z - n) <= ulp
        BY <3>1, <3>2
      <4> QED
        BY <4>1
    <3>3. CASE z < n
      <4>1. n - z \in Nat /\ n = z + (n - z) /\ 2 * (n - z) <= ulp
        BY <3>1, <3>3
      <4> QED
        BY <4>1
    <3> QED
      BY <3>2, <3>3
  <2>4. (2 * d) * p <= ulp * p /\ (2 * d) * p = 2 * (d * p) /\ d * p \in Nat
    BY <2>3, ProductGrows
  <2>5. ulp * p <= 2 * n /\ ~ (n < p)
    BY <1>1, <1>2, <1>4
  <2>6. d * p <= n
    BY <2>4, <2>5
  <2>7. d <= d * p
    BY MultipleDiv
  <2>8. d <= n
    BY <2>4, <2>6, <2>7
  <2> QED
    BY <1>2, <2>2, <2>3, <2>5, <2>6, <2>8
<1> QED
  BY <1>3, <1>4

\* The units grow by the same factor.
LEMMA UnitFacts ==
    /\ Unit(0) = 1
    /\ \A k \in Nat : Unit(k) \in Nat \ {0} /\ Unit(k + 1) = Unit(k) * Unit(1)
    /\ \A k, m \in Nat : k <= m => Unit(k) <= Unit(m)
    /\ Unit(1) = 2^KiloBits
    /\ \A k \in Nat : Width < k \/ Units <= k => 2^(Width + 1) <= Unit(k)
<1>1. KiloBits \in Nat \ {0} /\ Width \in Nat /\ Units \in Nat /\ Width < KiloBits * Units
  BY TextAssumption
<1>2. \A k \in Nat : KiloBits * k \in Nat
  BY <1>1
<1>3. Unit(0) = 1
  <2>1. KiloBits * 0 = 0
    BY <1>1
  <2>2. 2^0 = 1
    BY PowerFacts
  <2> QED
    BY <2>1, <2>2 DEF Unit
<1>4. Unit(1) = 2^KiloBits
  <2>1. KiloBits * 1 = KiloBits
    BY <1>1
  <2> QED
    BY <2>1 DEF Unit
<1>5. ASSUME NEW k \in Nat
      PROVE  Unit(k) \in Nat \ {0} /\ Unit(k + 1) = Unit(k) * Unit(1)
  <2>1. Unit(k) \in Nat \ {0}
    BY <1>2, PowerOrder DEF Unit
  <2>2. KiloBits * (k + 1) = KiloBits * k + KiloBits
    BY <1>1
  <2>3. 2^(KiloBits * k + KiloBits) = 2^(KiloBits * k) * 2^KiloBits
    BY <1>1, <1>2, PowerAdds
  <2> QED
    BY <1>4, <2>1, <2>2, <2>3 DEF Unit
<1>6. ASSUME NEW k \in Nat, NEW m \in Nat, k <= m PROVE Unit(k) <= Unit(m)
  <2>1. KiloBits * k <= KiloBits * m
    <3>1. k * KiloBits <= m * KiloBits
      BY <1>1, <1>6, ProductGrows
    <3> QED
      BY <1>1, <3>1
  <2> QED
    BY <1>2, <2>1, PowerOrder DEF Unit
<1>7. ASSUME NEW k \in Nat, Width < k \/ Units <= k PROVE 2^(Width + 1) <= Unit(k)
  <2>1. CASE Width < k
    <3>1. k <= k * KiloBits /\ k * KiloBits = KiloBits * k
      BY <1>1, MultipleDiv
    <3>2. Width + 1 \in Nat /\ Width + 1 <= KiloBits * k
      BY <1>1, <1>2, <2>1, <3>1
    <3> QED
      BY <1>2, <3>2, PowerOrder DEF Unit
  <2>2. CASE Units <= k
    <3>1. Units * KiloBits <= k * KiloBits
      BY <1>1, <2>2, ProductGrows
    <3>2. Units * KiloBits = KiloBits * Units /\ k * KiloBits = KiloBits * k
      BY <1>1
    <3>3. Width + 1 \in Nat /\ Width + 1 <= KiloBits * k
      BY <1>1, <1>2, <3>1, <3>2
    <3> QED
      BY <1>2, <3>3, PowerOrder DEF Unit
  <2> QED
    BY <1>7, <2>1, <2>2
<1> QED
  BY <1>3, <1>4, <1>5, <1>6, <1>7

\* The unit that is found is the largest one there is one of.
LEMMA OrderFacts ==
    ASSUME NEW z \in Nat, z < 2^(Width + 1)
    PROVE  /\ Order(z) \in Nat /\ Order(z) < Units
           /\ z < Unit(Order(z) + 1)
           /\ Unit(Order(z)) <= z \/ Order(z) = 0
<1>1. PICK U \in [Nat -> Nat \ {0}] :
         /\ \A k \in Nat : U[k] = Unit(k)
         /\ \A k, m \in Nat : k <= m => U[k] <= U[m]
  <2> DEFINE U == [k \in Nat |-> Unit(k)]
  <2>1. \A k \in Nat : Unit(k) \in Nat \ {0}
    BY UnitFacts, Zenon
  <2>2. U \in [Nat -> Nat \ {0}]
    BY <2>1
  <2>3. \A k \in Nat : U[k] = Unit(k)
    OBVIOUS
  <2> HIDE DEF U
  <2>4. \A k, m \in Nat : k <= m => Unit(k) <= Unit(m)
    BY UnitFacts, Zenon
  <2>5. \A k, m \in Nat : k <= m => U[k] <= U[m]
    BY <2>3, <2>4
  <2> QED
    BY <2>2, <2>3, <2>5, Zenon
<1>2. Width \in Nat /\ 2^(Width + 1) \in Nat
  <2>1. Width \in Nat /\ Width + 1 \in Nat
    BY TextAssumption
  <2> QED
    BY <2>1, PowerOrder
<1>3. \A k \in Nat : Width < k \/ Units <= k => z < U[k]
  <2>1. ASSUME NEW k \in Nat, Width < k \/ Units <= k PROVE z < U[k]
    <3>1. 2^(Width + 1) <= Unit(k)
      BY <2>1, UnitFacts, Zenon
    <3>2. Unit(k) = U[k] /\ U[k] \in Nat
      BY <1>1
    <3> QED
      BY <1>2, <3>1, <3>2
  <2> QED
    BY <2>1
<1> DEFINE Above == {k \in Nat : z < U[k + 1]}
<1>4. Width \in Above
  BY <1>2, <1>3
<1>5. PICK m \in Above : \A k \in Above : m <= k
  BY <1>4, LeastElement
<1>6. m \in Nat /\ m <= Width /\ z < U[m + 1] /\ \A k \in Nat : k < m => ~ (z < U[k + 1])
  BY <1>2, <1>4, <1>5
<1> HIDE DEF Above
<1>7. ASSUME NEW k \in Nat, 1 <= k, k <= m PROVE U[k] <= z
  <2>1. k - 1 \in Nat /\ k - 1 < m /\ (k - 1) + 1 = k
    BY <1>6, <1>7
  <2>2. ~ (z < U[(k - 1) + 1])
    BY <1>6, <2>1, Zenon
  <2> QED
    BY <2>1, <2>2
<1>8. ASSUME NEW k \in Nat, m < k PROVE z < U[k]
  <2>1. m + 1 \in Nat /\ m + 1 <= k
    BY <1>6, <1>8
  <2>2. U[m + 1] <= U[k]
    BY <1>1, <2>1
  <2> QED
    BY <1>6, <2>1, <2>2
<1>9. Order(z) = m
  <2>1. ASSUME NEW k \in 1 .. Width PROVE Unit(k) <= z <=> k \in 1 .. m
    <3>1. k \in Nat /\ 1 <= k /\ Unit(k) = U[k] /\ U[k] \in Nat
      BY <1>1, <1>2
    <3>2. k <= m => U[k] <= z
      BY <1>7, <3>1
    <3>3. ~ (k <= m) => z < U[k]
      BY <1>6, <1>8, <3>1
    <3> QED
      BY <1>6, <3>1, <3>2, <3>3
  <2>2. 1 .. m \subseteq 1 .. Width
    BY <1>2, <1>6
  <2>3. {k \in 1 .. Width : Unit(k) <= z} = 1 .. m
    BY <2>1, <2>2, Zenon
  <2>4. Cardinality(1 .. m) = m
    BY <1>6, FS_Interval
  <2> QED
    BY <2>3, <2>4 DEF Order
<1>10. m < Units
  <2> SUFFICES ASSUME Units <= m PROVE FALSE
    BY <1>6, TextAssumption
  <2>1. z < U[m]
    BY <1>3, <1>6
  <2>2. 1 <= m
    <3>1. Units # 0
      <4>1. Width < KiloBits * Units /\ KiloBits * 0 = 0
        BY TextAssumption
      <4> QED
        BY <1>2, <4>1
    <3> QED
      BY <1>6, <3>1, TextAssumption
  <2>3. U[m] <= z
    BY <1>6, <1>7, <2>2
  <2> QED
    BY <1>6, <2>1, <2>3
<1>11. z < U[m + 1] /\ (U[m] <= z \/ m = 0)
  BY <1>6, <1>7
<1>12. U[m] = Unit(m) /\ U[m + 1] = Unit(m + 1)
  <2>1. m + 1 \in Nat
    BY <1>6
  <2> QED
    BY <1>1, <1>6, <2>1, Zenon
<1> QED
  BY <1>6, <1>9, <1>10, <1>11, <1>12, Zenon

\* What humane_bytes() comes to.
LEMMA HumaneFacts ==
    ASSUME NEW n \in Nat, n < 2^Width,
           NEW z \in Nat, z = Double(n), NEW m \in Nat, m = Order(z),
           NEW h, h = Nearest(100 * z, Unit(m))
    PROVE  /\ m < Units
           /\ -Unit(m) < h * Unit(m) - 100 * n /\ h * Unit(m) - 100 * n < Unit(m)
           /\ h <= 100 * Unit(1)
           /\ n < 2^Precision => n < Unit(m + 1) /\ (Unit(m) <= n \/ m = 0)
<1>1. PICK p \in Nat \ {0}, u \in Nat \ {0}, f \in Nat \ {0} :
         p = 2^Precision /\ u = Unit(m) /\ f = Unit(1)
  <2>1. Unit(m) \in Nat \ {0} /\ Unit(1) \in Nat \ {0}
    BY UnitFacts, Zenon
  <2>2. 2^Precision \in Nat \ {0}
    BY PowerOrder, TextAssumption
  <2> QED
    BY <2>1, <2>2, Zenon
<1>2. PICK d \in Nat :
         /\ z = n + d \/ n = z + d
         /\ d * p <= n
         /\ n < p => d = 0
         /\ d <= n
  BY <1>1, DoubleFacts
<1>3. z < 2^(Width + 1)
  <2>1. Width \in Nat
    BY TextAssumption
  <2>2. 2^(Width + 1) = 2^Width + 2^Width /\ 2^Width \in Nat
    BY <2>1, PowerDoubles
  <2>3. z <= 2 * n
    BY <1>2
  <2> QED
    BY <2>2, <2>3
<1>4. m < Units /\ z < Unit(m + 1) /\ (u <= z \/ m = 0)
  BY <1>1, <1>3, OrderFacts
<1>5. z < u * f /\ u * f \in Nat
  <2>1. Unit(m + 1) = Unit(m) * Unit(1)
    BY UnitFacts, Zenon
  <2> QED
    BY <1>1, <1>4, <2>1
<1>6. 400 * f <= p
  <2>1. Unit(1) = 2^KiloBits
    BY UnitFacts, Zenon
  <2> QED
    BY <1>1, <2>1, TextAssumption
<1>7. /\ h \in Nat
      /\ 2 * (h * u) <= 2 * (100 * z) + u /\ 2 * (100 * z) <= 2 * (h * u) + u
      /\ \A c \in Nat : 100 * z < c * u => h <= c
  <2>1. 100 * z \in Nat
    OBVIOUS
  <2>2. /\ Nearest(100 * z, u) \in Nat
        /\ 2 * (Nearest(100 * z, u) * u) <= 2 * (100 * z) + u
        /\ 2 * (100 * z) <= 2 * (Nearest(100 * z, u) * u) + u
        /\ \A c \in Nat : 100 * z < c * u => Nearest(100 * z, u) <= c
    BY <2>1, NearestFacts, Zenon
  <2>3. h = Nearest(100 * z, u)
    BY <1>1, Zenon
  <2> QED
    BY <2>2, <2>3, Zenon
<1>8. h <= 100 * f
  <2>1. (100 * f) * u = 100 * (u * f) /\ 100 * f \in Nat
    OBVIOUS
  <2>2. 100 * z < (100 * f) * u
    BY <1>5, <2>1
  <2> QED
    BY <1>7, <2>1, <2>2
<1>9. 200 * d < u
  <2>1. CASE n < p
    BY <1>2, <2>1
  <2>2. CASE ~ (n < p)
    <3>1. n <= 2 * z
      <4>1. 2 <= p
        BY <1>6
      <4>2. 2 * d <= p * d /\ p * d = d * p
        BY <4>1, ProductGrows
      <4> QED
        BY <1>2, <4>2
    <3>2. d * (400 * f) <= d * p
      <4>1. (400 * f) * d <= p * d
        BY <1>6, ProductGrows
      <4>2. d * (400 * f) = (400 * f) * d /\ d * p = p * d
        OBVIOUS
      <4> QED
        BY <4>1, <4>2
    <3>3. d * p <= n /\ d * p \in Nat
      BY <1>2
    <3>4. d * (400 * f) = 2 * ((200 * d) * f) /\ (200 * d) * f \in Nat
      OBVIOUS
    <3>5. (200 * d) * f < u * f
      BY <1>5, <3>1, <3>2, <3>3, <3>4
    <3>6. u <= 200 * d => u * f <= (200 * d) * f
      BY ProductGrows
    <3> QED
      BY <3>4, <3>5, <3>6, <1>5
  <2> QED
    BY <2>1, <2>2
<1>10. -u < h * u - 100 * n /\ h * u - 100 * n < u
  <2>1. h * u \in Nat
    BY <1>7
  <2> QED
    BY <1>2, <1>7, <1>9, <2>1
<1>11. n < p => z = n
  BY <1>2
<1> QED
  BY <1>1, <1>4, <1>8, <1>10, <1>11

\* A call of humane_bytes(), before and after.
HumaneDone ==
    /\ op = "humane" => in \in Nat /\ in < 2^Width
    /\ op = "humane" => st \in {"called", "done"}
    /\ op = "humane" /\ st = "done" =>
          ret = [order |-> Order(Double(in)),
                 hundredths |-> Nearest(100 * Double(in), Unit(Order(Double(in))))]

\* What report usage prints of numbers of bytes is what HumaneTells says.
THEOREM HumaneIsTold == Spec => []HumaneTells
<1>1. Init => HumaneDone
  <2> SUFFICES ASSUME op = "humane", in \in 0 .. 2^Width - 1, st = "called" PROVE HumaneDone
    BY DEF Init, HumaneDone
  <2>1. 2^Width \in Nat
    BY PowerOrder, TextAssumption
  <2> QED
    BY <2>1 DEF HumaneDone
<1>2. HumaneDone /\ [Next]_vars => HumaneDone'
  BY DEF HumaneDone, Next, vars, humane_bytes, percent, have_bootid, dehyphen,
         dehyphen_end, strdup
<1>3. HumaneDone => HumaneTells
  <2> SUFFICES ASSUME HumaneDone, op = "humane", st = "done" PROVE HumaneTells
    BY DEF HumaneTells
  <2>1. in \in Nat /\ in < 2^Width
    BY DEF HumaneDone
  <2>2. PICK z \in Nat : z = Double(in) /\ z < 2^(Width + 1)
    <3>1. PICK z \in Nat : z = Double(in) /\ z <= 2 * in
      <4>1. Double(in) \in Nat /\ Double(in) <= 2 * in
        BY <2>1, DoubleFacts
      <4> QED
        BY <4>1
    <3>2. 2^(Width + 1) = 2^Width + 2^Width /\ 2^Width \in Nat
      BY PowerDoubles, TextAssumption
    <3> QED
      BY <2>1, <3>1, <3>2
  <2>3. PICK m \in Nat : m = Order(z)
    BY <2>2, OrderFacts
  <2>4. PICK h : h = Nearest(100 * z, Unit(m))
    OBVIOUS
  <2>5. ret.order = m /\ ret.hundredths = h
    BY <2>2, <2>3, <2>4 DEF HumaneDone
  <2>6. /\ m < Units
        /\ -Unit(m) < h * Unit(m) - 100 * in /\ h * Unit(m) - 100 * in < Unit(m)
        /\ h <= 100 * Unit(1)
        /\ in < 2^Precision => in < Unit(m + 1) /\ (Unit(m) <= in \/ m = 0)
    BY <2>1, <2>2, <2>3, <2>4, HumaneFacts
  <2> QED
    BY <2>5, <2>6, Zenon DEF HumaneTells
<1> QED
  BY <1>1, <1>2, <1>3, PTL DEF Spec

=============================================================================
