---------------------------- MODULE TailWaste_proofs ----------------------------
(***************************************************************************)
(* The tail waste of any finite set of journals, whatever journald does to *)
(* them between the reads: what is reported of a journal with objects is   *)
(* space that none of them takes, no object is ever cut off, and the       *)
(* report's total is the sum of what it found, as far as UINT goes.        *)
(***************************************************************************)
EXTENDS TailWaste, SumLemmas

\* The last object ends where journald writes on; there is one once the
\* journal is archived.
Files ==
    \A j \in Journal :
       /\ tail[j] # 0 => /\ tail[j] < end[j]
                         /\ tail[j] + ALIGN64(size[j][tail[j]]) = end[j]
       /\ state[j] = "archived" => tail[j] # 0

\* The header that a chain has loaded names an object that is still there,
\* and the last one for good if it says that the journal is archived.
Chains ==
    \A j \in Journal :
       /\ ch[j].tail # 0 => /\ ch[j].tail < end[j]
                            /\ ch[j].tail + ALIGN64(size[j][ch[j].tail]) <= end[j]
       /\ ch[j].state = "archived" => state[j] = "archived" /\ ch[j].tail = tail[j]

IInv ==
    /\ TypeOK
    /\ Files
    /\ Chains
    /\ KeepsObjects
    /\ WasteFits
    /\ ArchivedWasteExact
    /\ TotalsAreSums

-----------------------------------------------------------------------------
\* Remainders.
LEMMA ModRange ==
    ASSUME NEW x \in Int, NEW N \in Nat \ {0}
    PROVE  x % N \in 0 .. N - 1 /\ (x \in 0 .. N - 1 => x % N = x)
<1>1. x % N \in 0 .. N - 1
  OBVIOUS
<1>2. x \in 0 .. N - 1 => x % N = x
  OBVIOUS
<1> QED
  BY <1>1, <1>2

LEMMA ModQuotient ==
    ASSUME NEW x \in Int, NEW N \in Nat \ {0}
    PROVE  \E q \in Int : x = (N * q) + (x % N)
<1>1. x = (N * (x \div N)) + (x % N) /\ x \div N \in Int
  OBVIOUS
<1> QED
  BY <1>1

LEMMA ModUnique ==
    ASSUME NEW q \in Int, NEW N \in Nat \ {0}, NEW r \in 0 .. N - 1
    PROVE  ((N * q) + r) % N = r
OBVIOUS

\* A sum may be taken modulo N at any time.
LEMMA ModPlus ==
    ASSUME NEW x \in Int, NEW y \in Int, NEW N \in Nat \ {0}
    PROVE  ((x % N) + y) % N = (x + y) % N
<1> DEFINE r == x % N
           t == (r + y) % N
<1>1. PICK q \in Int : x = (N * q) + r
  BY ModQuotient
<1>2. r \in Int /\ r + y \in Int
  BY ModRange
<1> HIDE DEF r
<1>3. PICK p \in Int : r + y = (N * p) + t
  BY <1>2, ModQuotient
<1>4. t \in 0 .. N - 1
  BY <1>2, ModRange
<1> HIDE DEF t
<1>5. x + y = (N * (q + p)) + t
  <2>1. N * (q + p) = (N * q) + (N * p) /\ N * q \in Int /\ N * p \in Int
    OBVIOUS
  <2> QED
    BY <1>1, <1>2, <1>3, <1>4, <2>1
<1>6. (x + y) % N = t
  <2>1. q + p \in Int
    OBVIOUS
  <2>2. ((N * (q + p)) + t) % N = t
    BY <1>4, <2>1, ModUnique
  <2> QED
    BY <1>5, <2>2
<1> QED
  BY <1>6 DEF r, t

\* ALIGN64() rounds up.
LEMMA AlignFacts ==
    ASSUME NEW x \in Nat
    PROVE  ALIGN64(x) \in Nat /\ ALIGN64(x) >= x
BY DEF ALIGN64

\* What the proofs need to know of the constants.
LEMMA UIntFacts ==
    /\ UINT \in Nat \ {0} /\ MaxEnd \in 0 .. UINT - 1
    /\ \A a, b \in Int : /\ Plus(a, b) \in 0 .. UINT - 1 /\ Minus(a, b) \in 0 .. UINT - 1
                         /\ a + b \in 0 .. UINT - 1 => Plus(a, b) = a + b
                         /\ a - b \in 0 .. UINT - 1 => Minus(a, b) = a - b
    /\ \A o \in Offset : o \in Nat /\ o <= MaxEnd
    /\ \A s \in Size \cup {0, HeaderWord} : s \in Nat
<1>1. UINT \in Nat \ {0} /\ MaxEnd \in 0 .. UINT - 1
  BY WasteAssumption
<1>2. ASSUME NEW a \in Int, NEW b \in Int
      PROVE  /\ Plus(a, b) \in 0 .. UINT - 1 /\ Minus(a, b) \in 0 .. UINT - 1
             /\ a + b \in 0 .. UINT - 1 => Plus(a, b) = a + b
             /\ a - b \in 0 .. UINT - 1 => Minus(a, b) = a - b
  <2>1. a + b \in Int /\ a - b \in Int
    OBVIOUS
  <2> QED
    BY <1>1, <2>1, ModRange DEF Plus, Minus
<1>3. \A o \in Offset : o \in Nat /\ o <= MaxEnd
  BY WasteAssumption DEF Offset
<1>4. \A s \in Size \cup {0, HeaderWord} : s \in Nat
  BY WasteAssumption
<1> QED
  BY <1>1, <1>2, <1>3, <1>4

\* What the closure of a journal works out: with objects, the space from the
\* end of the object that the header named to the end of the file.
LEMMA EndFacts ==
    ASSUME TypeOK, Files, Chains, KeepsObjects, NEW j \in Journal
    PROVE  /\ EndOfTail(j) \in 0 .. UINT - 1 /\ WasteNow(j) \in 0 .. UINT - 1
           /\ fsize[j] \in Offset /\ end[j] \in Offset
           /\ ch[j].tail # 0 => /\ EndOfTail(j) <= end[j]
                                /\ WasteNow(j) = fsize[j] - EndOfTail(j)
           /\ ch[j].state = "archived" => ch[j].tail # 0 /\ EndOfTail(j) = end[j]
<1> DEFINE t == ch[j].tail  a == ALIGN64(size[j][t])
<1>0. UINT \in Nat /\ MaxEnd \in Nat /\ MaxEnd < UINT
  BY WasteAssumption
<1>1. /\ t \in Nat /\ t <= MaxEnd /\ fsize[j] \in Offset /\ end[j] \in Offset /\ t \in Offset
      /\ fsize[j] \in Nat /\ fsize[j] <= MaxEnd /\ end[j] \in Nat /\ end[j] <= fsize[j]
  BY UIntFacts DEF TypeOK, KeepsObjects
<1>2. a \in Nat
  <2>1. size[j][t] \in Size \cup {0, HeaderWord}
    BY <1>1 DEF TypeOK
  <2>2. size[j][t] \in Nat
    BY <2>1, UIntFacts
  <2> QED
    BY <2>2, AlignFacts
<1>3. EndOfTail(j) = Plus(t, a % UINT)
  BY DEF EndOfTail
<1>4. t # 0 => t < end[j] /\ t + a <= end[j]
  BY DEF Chains
<1>5. ch[j].state = "archived" => t # 0 /\ t + a = end[j]
  BY DEF Chains, Files
<1> HIDE DEF t, a
<1>6. a % UINT \in 0 .. UINT - 1 /\ (a \in 0 .. UINT - 1 => a % UINT = a)
  <2>1. UINT \in Nat \ {0} /\ a \in Int
    BY <1>0, <1>2
  <2>2. \A x \in Int : x % UINT \in 0 .. UINT - 1 /\ (x \in 0 .. UINT - 1 => x % UINT = x)
    BY <2>1, ModRange
  <2> QED
    BY <2>1, <2>2
<1>7. a % UINT \in Int /\ t \in Int
  BY <1>0, <1>1, <1>6
<1>8. EndOfTail(j) \in 0 .. UINT - 1
  BY <1>3, <1>7, UIntFacts
<1>9. EndOfTail(j) \in Int /\ fsize[j] \in Int
  BY <1>0, <1>1, <1>8
<1>10. WasteNow(j) \in 0 .. UINT - 1
  BY <1>9, UIntFacts DEF WasteNow
<1>11. ASSUME t # 0 PROVE EndOfTail(j) = t + a /\ WasteNow(j) = fsize[j] - EndOfTail(j)
  <2>1. a \in 0 .. UINT - 1 /\ t + a \in 0 .. UINT - 1
    BY <1>0, <1>1, <1>2, <1>4, <1>11
  <2>2. EndOfTail(j) = t + a
    BY <1>3, <1>6, <1>7, <2>1, UIntFacts
  <2>3. fsize[j] - EndOfTail(j) \in 0 .. UINT - 1
    BY <1>0, <1>1, <1>4, <1>11, <2>1, <2>2
  <2> QED
    BY <1>9, <2>2, <2>3, UIntFacts DEF WasteNow
<1> QED
  BY <1>1, <1>4, <1>5, <1>8, <1>10, <1>11 DEF t

LEMMA FiniteFacts ==
    /\ IsFiniteSet(State)
    /\ \A D \in SUBSET Journal : IsFiniteSet(D)
<1>1. IsFiniteSet({"offline"} \cup {"online"})
  BY FS_Singleton, FS_AddElement
<1>2. IsFiniteSet(({"offline"} \cup {"online"}) \cup {"archived"})
  BY <1>1, FS_AddElement
<1>3. State = ({"offline"} \cup {"online"}) \cup {"archived"}
  BY DEF State
<1> QED
  BY <1>2, <1>3, WasteAssumption, FS_Subset

-----------------------------------------------------------------------------
LEMMA InitIInv == Init => IInv
<1> SUFFICES ASSUME Init PROVE IInv
  OBVIOUS
<1>1. TypeOK
  <2>1. header_size \in Offset /\ 0 \in Offset /\ 0 \in 0 .. UINT - 1
    BY WasteAssumption, UIntFacts DEF Offset
  <2>2. /\ end \in [Journal -> Offset] /\ fsize \in [Journal -> Offset]
        /\ tail \in [Journal -> Offset]
        /\ size \in [Journal -> [Offset -> Size \cup {0, HeaderWord}]]
    BY <2>1 DEF Init
  <2>3. /\ shown \in [Journal -> [sz : Offset, waste : 0 .. UINT - 1]]
        /\ ch \in [Journal -> [st : {"idle", "header", "tail_object", "done"},
                               tail : Offset, state : State]]
        /\ waste.bytes \in [State -> 0 .. UINT - 1] /\ waste.total \in 0 .. UINT - 1
    BY <2>1 DEF Init, Nothing, State
  <2> QED
    BY <2>2, <2>3 DEF Init, TypeOK, State
<1>2. Files /\ Chains /\ KeepsObjects
  BY WasteAssumption DEF Init, Files, Chains, KeepsObjects
<1>3. Done = {}
  BY DEF Init, Done
<1>4. WasteFits /\ ArchivedWasteExact
  BY <1>3 DEF WasteFits, ArchivedWasteExact
<1>5. TotalsAreSums
  <2>1. SumFunctionOnSet([j \in Journal |-> shown[j].waste], {}) = 0
    BY FS_EmptySet, SumType
  <2>2. SumFunctionOnSet(waste.bytes, State) = 0
    <3>1. \A s \in State : waste.bytes[s] = 0
      BY DEF Init
    <3> QED
      BY <3>1, FiniteFacts, SumType
  <2>3. 0 % UINT = 0 /\ waste.total = 0
    <3>1. UINT \in Nat \ {0} /\ 0 \in 0 .. UINT - 1
      BY UIntFacts
    <3> QED
      BY <3>1, ModRange DEF Init
  <2> QED
    BY <1>3, <2>1, <2>2, <2>3 DEF TotalsAreSums
<1> QED
  BY <1>1, <1>2, <1>4, <1>5 DEF IInv

\* A step that no chain ends with leaves what was found alone.
LEMMA StillShown ==
    ASSUME UNCHANGED <<cmd, shown, waste>>, Done' = Done
    PROVE  TotalsAreSums => TotalsAreSums'
BY DEF TotalsAreSums

\* The chain of j begins, loads the header, or fails.
LEMMA ChainIInv ==
    ASSUME IInv, NEW j \in Journal,
           \/ per_journal_tail_waste(j) \/ journal_get_object_header(j) \/ ChainFails(j)
    PROVE  IInv'
<1>1. /\ UNCHANGED <<cmd, state, tail, size, end, fsize, shown, waste>>
      /\ ch' \in [Journal -> [st : {"idle", "header", "tail_object", "done"},
                              tail : Offset, state : State]]
      /\ err' \in BOOLEAN
      /\ \A i \in Journal : (ch[i].st = "done" <=> ch'[i].st = "done")
      /\ \A i \in Journal : \/ ch'[i].tail = ch[i].tail /\ ch'[i].state = ch[i].state
                            \/ /\ ch'[i].tail = tail[i] /\ ch'[i].state = state[i]
                               /\ ch[i].st # "done"
  <2>1. TypeOK
    BY DEF IInv
  <2>2. CASE per_journal_tail_waste(j)
    BY <2>1, <2>2 DEF TypeOK, per_journal_tail_waste
  <2>3. CASE journal_get_object_header(j)
    <3>1. tail[j] \in Offset /\ state[j] \in State
      BY <2>1 DEF TypeOK
    <3> QED
      BY <2>1, <2>3, <3>1 DEF TypeOK, journal_get_object_header
  <2>4. CASE ChainFails(j)
    BY <2>1, <2>4 DEF TypeOK, ChainFails
  <2> QED
    BY <2>2, <2>3, <2>4
<1>2. Done' = Done
  BY <1>1 DEF Done
<1>3. TypeOK' /\ Files' /\ KeepsObjects'
  BY <1>1 DEF IInv, TypeOK, Files, KeepsObjects
<1>4. Chains'
  <2> SUFFICES ASSUME NEW i \in Journal
               PROVE  /\ ch'[i].tail # 0 =>
                            /\ ch'[i].tail < end[i]
                            /\ ch'[i].tail + ALIGN64(size[i][ch'[i].tail]) <= end[i]
                      /\ ch'[i].state = "archived" =>
                            state[i] = "archived" /\ ch'[i].tail = tail[i]
    BY <1>1 DEF Chains
  <2>1. CASE ch'[i].tail = ch[i].tail /\ ch'[i].state = ch[i].state
    BY <2>1 DEF IInv, Chains
  <2>2. CASE ch'[i].tail = tail[i] /\ ch'[i].state = state[i]
    <3>1. end[i] \in Nat
      BY UIntFacts DEF IInv, TypeOK
    <3> QED
      BY <2>2, <3>1 DEF IInv, Files
  <2> QED
    BY <1>1, <2>1, <2>2
<1>5. WasteFits' /\ ArchivedWasteExact'
  BY <1>1, <1>2 DEF IInv, WasteFits, ArchivedWasteExact, Done
<1> QED
  BY <1>1, <1>2, <1>3, <1>4, <1>5, StillShown DEF IInv

-----------------------------------------------------------------------------
\* The chain of j ends, its closure having run, and no file is left shorter
\* than its objects take.
LEMMA ShownIInv ==
    ASSUME IInv, NEW j \in Journal, got_object_header(j),
           fsize' \in [Journal -> Offset], KeepsObjects', TotalsAreSums',
           waste'.bytes \in [State -> 0 .. UINT - 1], waste'.total \in 0 .. UINT - 1
    PROVE  IInv'
<1>1. /\ UNCHANGED <<cmd, state, tail, size, end, err>>
      /\ ch' = [ch EXCEPT ![j].st = "done"]
      /\ shown' = [shown EXCEPT ![j] = [sz |-> fsize[j], waste |-> WasteNow(j)]]
  BY DEF got_object_header
<1>2. TypeOK /\ Files /\ Chains /\ KeepsObjects
  BY DEF IInv
<1>3. /\ EndOfTail(j) \in 0 .. UINT - 1 /\ WasteNow(j) \in 0 .. UINT - 1
      /\ fsize[j] \in Offset /\ end[j] \in Offset
      /\ ch[j].tail # 0 => EndOfTail(j) <= end[j] /\ WasteNow(j) = fsize[j] - EndOfTail(j)
      /\ ch[j].state = "archived" => ch[j].tail # 0 /\ EndOfTail(j) = end[j]
  BY <1>2, EndFacts
<1>4. /\ ch' \in [Journal -> [st : {"idle", "header", "tail_object", "done"},
                              tail : Offset, state : State]]
      /\ \A i \in Journal : ch'[i].tail = ch[i].tail /\ ch'[i].state = ch[i].state
      /\ \A i \in Journal : i # j => ch'[i] = ch[i]
  <2>1. ch \in [Journal -> [st : {"idle", "header", "tail_object", "done"},
                            tail : Offset, state : State]]
    BY <1>2 DEF TypeOK
  <2> QED
    BY <1>1, <2>1
<1>5. TypeOK'
  <2>1. [sz |-> fsize[j], waste |-> WasteNow(j)] \in [sz : Offset, waste : 0 .. UINT - 1]
    BY <1>3
  <2>2. shown' \in [Journal -> [sz : Offset, waste : 0 .. UINT - 1]]
    BY <1>1, <1>2, <2>1 DEF TypeOK
  <2> QED
    BY <1>1, <1>2, <1>4, <2>2 DEF TypeOK
<1>6. Files' /\ Chains'
  BY <1>1, <1>2, <1>4 DEF Files, Chains
<1>7. /\ \A i \in Journal : i # j => shown'[i] = shown[i] /\ (i \in Done' <=> i \in Done)
      /\ shown'[j].sz = fsize[j] /\ shown'[j].waste = WasteNow(j)
  BY <1>1, <1>2, <1>4 DEF TypeOK, Done
<1>8. fsize[j] \in Nat /\ UINT \in Nat /\ end[j] \in Nat /\ end[j] <= fsize[j]
  BY <1>2, <1>3, UIntFacts DEF KeepsObjects
<1>9. WasteFits'
  <2> SUFFICES ASSUME NEW i \in Done', ch[i].tail # 0
               PROVE  /\ shown'[i].waste <= shown'[i].sz
                      /\ shown'[i].sz - shown'[i].waste <= end[i]
    BY <1>1, <1>4 DEF WasteFits, Done
  <2>1. CASE i = j
    <3>1. /\ WasteNow(j) = fsize[j] - EndOfTail(j) /\ EndOfTail(j) \in Nat
          /\ EndOfTail(j) <= end[j]
      BY <1>3, <1>8, <2>1
    <3> QED
      BY <1>7, <1>8, <2>1, <3>1
  <2>2. CASE i # j
    BY <1>7, <2>2 DEF IInv, WasteFits, Done
  <2> QED
    BY <2>1, <2>2
<1>10. ArchivedWasteExact'
  <2> SUFFICES ASSUME NEW i \in Done', ch[i].state = "archived"
               PROVE  shown'[i].sz - shown'[i].waste = end[i]
    BY <1>1, <1>4 DEF ArchivedWasteExact, Done
  <2>1. CASE i = j
    <3>1. /\ WasteNow(j) = fsize[j] - EndOfTail(j) /\ EndOfTail(j) = end[j]
      BY <1>3, <2>1
    <3> QED
      BY <1>7, <1>8, <2>1, <3>1
  <2>2. CASE i # j
    BY <1>7, <2>2 DEF IInv, ArchivedWasteExact, Done
  <2> QED
    BY <2>1, <2>2
<1> QED
  BY <1>5, <1>6, <1>9, <1>10 DEF IInv

\* The report adds what it found for j to its sums.
LEMMA PrintIInv ==
    ASSUME IInv, NEW j \in Journal, print_tail_waste(j)
    PROVE  IInv'
<1> DEFINE w == WasteNow(j)
           s == ch[j].state
           f == [i \in Journal |-> shown[i].waste]
           g == [i \in Journal |-> shown'[i].waste]
<1>1. /\ got_object_header(j) /\ cmd = "report" /\ cmd' = cmd
      /\ UNCHANGED <<fsize, end>>
      /\ waste'.bytes = [waste.bytes EXCEPT ![s] = Plus(@, w)]
      /\ waste'.total = Plus(waste.total, w)
      /\ shown' = [shown EXCEPT ![j] = [sz |-> fsize[j], waste |-> w]]
  BY DEF print_tail_waste, got_object_header, Summed
<1>2. TypeOK
  BY DEF IInv
<1>3. w \in 0 .. UINT - 1 /\ s \in State /\ UINT \in Nat \ {0}
  BY <1>2, EndFacts, UIntFacts DEF IInv, TypeOK
<1>4. /\ waste.total \in 0 .. UINT - 1 /\ waste.bytes \in [State -> 0 .. UINT - 1]
      /\ waste.total = SumFunctionOnSet(f, Done) % UINT
      /\ waste.total = SumFunctionOnSet(waste.bytes, State) % UINT
  BY <1>1, <1>2 DEF TypeOK, IInv, TotalsAreSums
<1> HIDE DEF w, s
<1>5. /\ waste'.bytes \in [State -> 0 .. UINT - 1] /\ waste'.total \in 0 .. UINT - 1
      /\ waste'.bytes[s] = Plus(waste.bytes[s], w)
      /\ \A r \in State \ {s} : waste'.bytes[r] = waste.bytes[r]
  <2>1. /\ Plus(waste.total, w) \in 0 .. UINT - 1
        /\ Plus(waste.bytes[s], w) \in 0 .. UINT - 1
    <3>1. waste.total \in Int /\ w \in Int /\ waste.bytes[s] \in Int
      BY <1>3, <1>4
    <3> QED
      BY <3>1, UIntFacts
  <2> QED
    BY <1>1, <1>3, <1>4, <2>1
<1>6. Done' = Done \cup {j} /\ j \notin Done /\ Done \in SUBSET Journal
  BY <1>1, <1>2 DEF got_object_header, Done, TypeOK
<1>7. /\ \A i \in Journal : f[i] \in Int /\ g[i] \in Int /\ (i # j => g[i] = f[i])
      /\ g[j] = w
  <2>1. \A i \in Journal : shown[i].waste \in 0 .. UINT - 1
    BY <1>2 DEF TypeOK
  <2>2. \A i \in Journal : shown'[i].waste = IF i = j THEN w ELSE shown[i].waste
    BY <1>1, <1>2 DEF TypeOK
  <2> QED
    BY <1>3, <2>1, <2>2
<1> HIDE DEF f
<1>8. SumFunctionOnSet(g, Done') = SumFunctionOnSet(f, Done) + w
      /\ SumFunctionOnSet(f, Done) \in Int
  <2> HIDE DEF g
  <2>1. IsFiniteSet(Done) /\ (\A i \in Done : f[i] \in Int /\ g[i] \in Int /\ f[i] = g[i])
    BY <1>6, <1>7, FiniteFacts
  <2>2. SumFunctionOnSet(g, Done \cup {j}) = SumFunctionOnSet(g, Done) + g[j]
    BY <1>6, <1>7, <2>1, SumInsert
  <2>3. SumFunctionOnSet(f, Done) = SumFunctionOnSet(g, Done)
        /\ SumFunctionOnSet(f, Done) \in Int
    BY <2>1, SumCompare, SumType
  <2> QED
    BY <1>6, <1>7, <2>2, <2>3
<1>9. waste'.total = SumFunctionOnSet(g, Done') % UINT
  <2>1. (SumFunctionOnSet(f, Done) + w) % UINT = ((SumFunctionOnSet(f, Done) % UINT) + w) % UINT
    <3>1. SumFunctionOnSet(f, Done) \in Int /\ w \in Int
      BY <1>3, <1>8
    <3> QED
      BY <1>3, <3>1, ModPlus
  <2> QED
    BY <1>1, <1>4, <1>8, <2>1, Zenon DEF Plus
<1>10. waste'.total = SumFunctionOnSet(waste'.bytes, State) % UINT
  <2> DEFINE b == waste.bytes[s]
             B == SumFunctionOnSet(waste.bytes, State)
             C == SumFunctionOnSet(waste'.bytes, State)
  <2>1. b \in 0 .. UINT - 1
    BY <1>3, <1>4
  <2>2. B \in Int /\ C = B + ((b + w) % UINT) - b
    <3>1. \A r \in State : waste.bytes[r] \in Int /\ waste'.bytes[r] \in Int
      BY <1>3, <1>4, <1>5
    <3>2. C = B + waste'.bytes[s] - waste.bytes[s]
      BY <1>3, <1>5, <3>1, FiniteFacts, SumUpdate
    <3> QED
      BY <1>5, <3>1, <3>2, FiniteFacts, SumType DEF Plus
  <2>3. waste'.total = ((B % UINT) + w) % UINT
    BY <1>1, <1>4 DEF Plus
  <2> HIDE DEF b, B, C
  <2>4. b \in Int /\ w \in Int /\ b + w \in Int /\ B - b \in Int /\ B + w \in Int
        /\ (b + w) % UINT \in Int
    <3>1. b \in Int /\ w \in Int /\ UINT \in Nat \ {0}
      BY <1>3, <2>1
    <3>2. (b + w) % UINT \in 0 .. UINT - 1
      BY <3>1, ModRange
    <3> QED
      BY <2>2, <3>1, <3>2
  <2>5. (((b + w) % UINT) + (B - b)) % UINT = ((b + w) + (B - b)) % UINT
    BY <1>3, <2>4, ModPlus
  <2>6. ((B % UINT) + w) % UINT = (B + w) % UINT
    BY <1>3, <2>2, <2>4, ModPlus
  <2>7. /\ ((b + w) % UINT) + (B - b) = C
        /\ (b + w) + (B - b) = B + w
    BY <2>2, <2>4
  <2> QED
    BY <2>3, <2>5, <2>6, <2>7 DEF C
<1>11. TotalsAreSums'
  BY <1>1, <1>9, <1>10 DEF TotalsAreSums
<1>12. KeepsObjects' /\ fsize' \in [Journal -> Offset]
  BY <1>1, <1>2 DEF IInv, KeepsObjects, TypeOK
<1> QED
  BY <1>1, <1>5, <1>11, <1>12, ShownIInv

\* A file is cut at the end of its last object, if at all.
LEMMA ReclaimIInv ==
    ASSUME IInv, NEW j \in Journal, reclaim_tail_waste(j)
    PROVE  IInv'
<1>1. /\ got_object_header(j) /\ cmd = "reclaim" /\ cmd' = cmd /\ UNCHANGED <<waste, end>>
      /\ \/ UNCHANGED fsize
         \/ MayTruncate(j) /\ Truncate(j)
  BY DEF reclaim_tail_waste, got_object_header
<1>2. TypeOK /\ TotalsAreSums'
  BY <1>1 DEF IInv, TotalsAreSums
<1>3. KeepsObjects' /\ fsize' \in [Journal -> Offset]
  <2>1. CASE UNCHANGED fsize
    BY <1>1, <1>2, <2>1 DEF IInv, KeepsObjects, TypeOK
  <2>2. CASE MayTruncate(j) /\ Truncate(j)
    <3>1. EndOfTail(j) = end[j] /\ end[j] \in Offset /\ end[j] \in Nat
      BY <2>2, EndFacts, UIntFacts DEF IInv, MayTruncate
    <3>2. fsize' = [fsize EXCEPT ![j] = end[j]]
      BY <2>2, <3>1 DEF Truncate
    <3> QED
      BY <1>1, <1>2, <3>1, <3>2 DEF IInv, KeepsObjects, TypeOK
  <2> QED
    BY <1>1, <2>1, <2>2
<1> QED
  BY <1>1, <1>2, <1>3, ShownIInv DEF TypeOK

-----------------------------------------------------------------------------
\* journald grows the file, syncs the journal or archives it.
LEMMA StateIInv ==
    ASSUME IInv, NEW j \in Journal,
           JournaldGrow(j) \/ \E s \in State : JournaldSetState(j, s)
    PROVE  IInv'
<1>1. TypeOK /\ UNCHANGED <<cmd, tail, size, end, ch, shown, waste, err>>
      /\ fsize[j] \in Nat /\ end[j] \in Nat /\ fsize[j] <= MaxEnd
  BY UIntFacts DEF IInv, TypeOK, JournaldGrow, JournaldSetState
<1>2. Done' = Done
  BY <1>1 DEF Done
<1>3. WasteFits' /\ ArchivedWasteExact'
  BY <1>1, <1>2 DEF IInv, WasteFits, ArchivedWasteExact
<1>4. CASE JournaldGrow(j)
  <2>1. fsize' = [fsize EXCEPT ![j] = fsize[j] + 8] /\ fsize[j] + 8 \in Offset /\ state' = state
    BY <1>1, <1>4, WasteAssumption DEF JournaldGrow, Offset
  <2>2. TypeOK' /\ Files' /\ Chains' /\ KeepsObjects'
    BY <1>1, <2>1 DEF IInv, TypeOK, Files, Chains, KeepsObjects
  <2> QED
    BY <1>1, <1>2, <1>3, <2>2, StillShown DEF IInv
<1>5. ASSUME NEW s \in State, JournaldSetState(j, s) PROVE IInv'
  <2>1. /\ state' = [state EXCEPT ![j] = s] /\ fsize' = fsize /\ state[j] # "archived"
        /\ s = "archived" => tail[j] # 0
    BY <1>5 DEF JournaldSetState
  <2>2. TypeOK' /\ Files' /\ Chains' /\ KeepsObjects'
    BY <1>1, <2>1 DEF IInv, TypeOK, Files, Chains, KeepsObjects
  <2> QED
    BY <1>1, <1>2, <1>3, <2>2, StillShown DEF IInv
<1> QED
  BY <1>4, <1>5

\* journald appends an object: no header that was loaded before names it, and
\* the journal is not archived.
LEMMA AppendIInv ==
    ASSUME IInv, NEW j \in Journal, NEW s \in Size, JournaldAppend(j, s)
    PROVE  IInv'
<1> DEFINE e == end[j]  n == end[j] + ALIGN64(s)
<1>1. /\ state[j] = "online" /\ n <= fsize[j]
      /\ size' = [size EXCEPT ![j] = [size[j] EXCEPT ![e] = s]]
      /\ tail' = [tail EXCEPT ![j] = e]
      /\ end' = [end EXCEPT ![j] = n]
      /\ UNCHANGED <<cmd, state, fsize, ch, shown, waste, err>>
  BY DEF JournaldAppend
<1>2. TypeOK /\ fsize[j] \in Nat /\ e \in Nat /\ fsize[j] <= MaxEnd /\ e \in Offset
  BY UIntFacts DEF IInv, TypeOK
<1>3. ALIGN64(s) \in Nat /\ ALIGN64(s) >= s /\ s \in Nat \ {0} /\ n \in Nat /\ n > e
  BY <1>2, AlignFacts, WasteAssumption
<1>4. n \in Offset
  BY <1>1, <1>2, <1>3, WasteAssumption DEF Offset
<1> HIDE DEF e, n
<1>5. /\ size'[j][e] = s /\ tail'[j] = e /\ end'[j] = n
      /\ \A o \in Offset : o # e => size'[j][o] = size[j][o]
      /\ \A i \in Journal \ {j} :
            size'[i] = size[i] /\ tail'[i] = tail[i] /\ end'[i] = end[i]
      /\ end[j] = e
  BY <1>1, <1>2 DEF TypeOK, e
<1>6. TypeOK'
  <2>1. [size[j] EXCEPT ![e] = s] \in [Offset -> Size \cup {0, HeaderWord}]
    BY <1>2 DEF TypeOK
  <2>2. size' \in [Journal -> [Offset -> Size \cup {0, HeaderWord}]]
    BY <1>1, <1>2, <2>1 DEF TypeOK
  <2>3. tail' \in [Journal -> Offset] /\ end' \in [Journal -> Offset]
    BY <1>1, <1>2, <1>4 DEF TypeOK
  <2> QED
    BY <1>1, <1>2, <2>2, <2>3 DEF TypeOK
<1>7. Files'
  <2>1. e + ALIGN64(s) = n
    BY DEF e, n
  <2> QED
    BY <1>1, <1>3, <1>5, <2>1 DEF IInv, Files
<1>8. KeepsObjects'
  BY <1>1, <1>5 DEF IInv, KeepsObjects
<1>9. Chains'
  <2> SUFFICES ASSUME NEW i \in Journal
               PROVE  /\ ch[i].tail # 0 =>
                            /\ ch[i].tail < end'[i]
                            /\ ch[i].tail + ALIGN64(size'[i][ch[i].tail]) <= end'[i]
                      /\ ch[i].state = "archived" =>
                            state[i] = "archived" /\ ch[i].tail = tail'[i]
    BY <1>1 DEF Chains
  <2>1. /\ ch[i].tail # 0 => /\ ch[i].tail < end[i]
                             /\ ch[i].tail + ALIGN64(size[i][ch[i].tail]) <= end[i]
        /\ ch[i].state = "archived" => state[i] = "archived" /\ ch[i].tail = tail[i]
    BY DEF IInv, Chains
  <2>2. CASE i = j
    <3>1. /\ ch[j].tail \in Offset /\ ch[j].tail \in Nat /\ ch[j].state # "archived"
      BY <1>1, <1>2, <2>1, <2>2, UIntFacts DEF TypeOK
    <3>2. ASSUME ch[j].tail # 0
          PROVE  /\ ch[j].tail < n
                 /\ ch[j].tail + ALIGN64(size'[j][ch[j].tail]) <= n
      <4>1. ch[j].tail < e /\ ch[j].tail + ALIGN64(size[j][ch[j].tail]) <= e
        BY <1>5, <2>1, <2>2, <3>2
      <4>2. size'[j][ch[j].tail] = size[j][ch[j].tail]
        BY <1>2, <1>5, <3>1, <4>1
      <4>3. ALIGN64(size[j][ch[j].tail]) \in Nat
        <5>1. size[j][ch[j].tail] \in Size \cup {0, HeaderWord}
          BY <1>2, <3>1 DEF TypeOK
        <5>2. size[j][ch[j].tail] \in Nat
          BY <5>1, UIntFacts
        <5> QED
          BY <5>2, AlignFacts
      <4> QED
        BY <1>2, <1>3, <3>1, <4>1, <4>2, <4>3
    <3> QED
      BY <1>5, <2>2, <3>1, <3>2
  <2>3. CASE i # j
    BY <1>5, <2>1, <2>3
  <2> QED
    BY <2>2, <2>3
<1>10. Done' = Done
  BY <1>1 DEF Done
<1>11. WasteFits'
  <2> SUFFICES ASSUME NEW i \in Done, ch[i].tail # 0
               PROVE  shown[i].waste <= shown[i].sz /\ shown[i].sz - shown[i].waste <= end'[i]
    BY <1>1, <1>10 DEF WasteFits
  <2>1. shown[i].waste <= shown[i].sz /\ shown[i].sz - shown[i].waste <= end[i]
    BY DEF IInv, WasteFits
  <2>2. shown[i].waste \in Int /\ shown[i].sz \in Int
    <3>1. /\ shown[i].waste \in 0 .. UINT - 1 /\ shown[i].sz \in Offset
      BY <1>2 DEF TypeOK, Done
    <3>2. UINT \in Nat /\ \A o \in Offset : o \in Int
      BY WasteAssumption DEF Offset
    <3> QED
      BY <3>1, <3>2
  <2>3. i \in Journal /\ end[i] \in Int /\ end'[i] \in Int /\ end[i] <= end'[i]
    <3>1. i \in Journal /\ end[i] \in Offset
      BY <1>2 DEF TypeOK, Done
    <3>2. \A o \in Offset : o \in Int
      BY WasteAssumption DEF Offset
    <3>3. end[i] \in Int
      BY <3>1, <3>2
    <3>4. CASE i = j
      BY <1>2, <1>3, <1>5, <3>1, <3>3, <3>4
    <3>5. CASE i # j
      BY <1>5, <3>1, <3>3, <3>5
    <3> QED
      BY <3>4, <3>5
  <2> QED
    BY <2>1, <2>2, <2>3
<1>12. ArchivedWasteExact'
  <2>1. \A i \in Done : ch[i].state = "archived" => i # j /\ i \in Journal
    BY <1>1 DEF IInv, Chains, Done
  <2> QED
    BY <1>1, <1>5, <1>10, <2>1 DEF IInv, ArchivedWasteExact
<1> QED
  BY <1>1, <1>6, <1>7, <1>8, <1>9, <1>10, <1>11, <1>12, StillShown DEF IInv

LEMMA NextIInv == IInv /\ [Next]_vars => IInv'
<1> SUFFICES ASSUME IInv, [Next]_vars PROVE IInv'
  OBVIOUS
<1>1. CASE UNCHANGED vars
  <2>1. Done' = Done /\ UNCHANGED <<cmd, state, tail, size, end, fsize, ch, shown, waste, err>>
    BY <1>1 DEF vars, Done
  <2>2. TypeOK' /\ Files' /\ Chains' /\ KeepsObjects'
    BY <2>1 DEF IInv, TypeOK, Files, Chains, KeepsObjects
  <2>3. WasteFits' /\ ArchivedWasteExact'
    BY <2>1 DEF IInv, WasteFits, ArchivedWasteExact
  <2> QED
    BY <2>1, <2>2, <2>3, StillShown DEF IInv
<1>2. ASSUME NEW j \in Journal,
             \/ per_journal_tail_waste(j) \/ journal_get_object_header(j) \/ ChainFails(j)
      PROVE  IInv'
  BY <1>2, ChainIInv
<1>3. ASSUME NEW j \in Journal, JournaldGrow(j) \/ \E s \in State : JournaldSetState(j, s)
      PROVE  IInv'
  BY <1>3, StateIInv
<1>4. ASSUME NEW j \in Journal, NEW s \in Size, JournaldAppend(j, s) PROVE IInv'
  BY <1>4, AppendIInv
<1> QED
  BY <1>1, <1>2, <1>3, <1>4, PrintIInv, ReclaimIInv DEF Next

LEMMA SpecIInv == Spec => []IInv
<1>1. Init => IInv
  BY InitIInv
<1>2. IInv /\ [Next]_vars => IInv'
  BY NextIInv
<1> QED
  BY <1>1, <1>2, PTL DEF Spec

-----------------------------------------------------------------------------
\* Whatever journald does between the reads of got_header(), of
\* got_object_header() and fstat(): sz - tail of print_tail_waste() never
\* wraps around for a journal with objects, misses none of the space behind
\* them, and is exact once journald is through with the journal.
THEOREM WasteIsFree == Spec => [](TypeOK /\ WasteFits /\ ArchivedWasteExact)
<1>1. IInv => TypeOK /\ WasteFits /\ ArchivedWasteExact
  BY DEF IInv
<1> QED
  BY <1>1, SpecIInv, PTL

\* ftruncate() of reclaim_tail_waste() cuts no object off, not even one that
\* was appended since the header was read.
THEOREM TruncateIsSafe == Spec => []KeepsObjects
<1>1. IInv => KeepsObjects
  BY DEF IInv
<1> QED
  BY <1>1, SpecIInv, PTL

\* print_tail_waste() runs for the journals in any order, and adds to unsigned
\* sums: the total is the sum of what was found for them, and of the sums by
\* state, modulo UINT.
THEOREM TotalsAreRight == Spec => []TotalsAreSums
<1>1. IInv => TotalsAreSums
  BY DEF IInv
<1> QED
  BY <1>1, SpecIInv, PTL
=============================================================================
