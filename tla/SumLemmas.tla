------------------------------- MODULE SumLemmas -------------------------------
(***************************************************************************)
(* Sums over finite sets, as SumFunctionOnSet() of the community module    *)
(* Functions defines them: by taking the elements away one after another,  *)
(* in an order that is not known.  Each lemma about all finite sets takes  *)
(* a counterexample of the least cardinality.  And powers of two: 2^n is   *)
(* the number of subsets of a set of n.  And how many multiples of a       *)
(* number lie in an interval.                                              *)
(***************************************************************************)
EXTENDS Integers, Functions, FiniteSets, FiniteSetTheorems, FunctionTheorems,
        WellFoundedInduction, TLAPS

\* The element that the sum takes away first.
First(s) == CHOOSE x \in s : TRUE

\* The recursive function that the sum of f over subsets of S is defined by,
\* on the subsets D.
IsIter(iter, f, D) ==
    iter = [s \in D |-> IF s = {} THEN 0 ELSE f[First(s)] + iter[s \ {First(s)}]]

Iter(f, S) == CHOOSE iter : IsIter(iter, f, SUBSET S)

\* A set of naturals has a least element.
LEMMA LeastElement ==
    ASSUME NEW S, S \subseteq Nat, S # {}
    PROVE  \E x \in S : \A y \in S : x <= y
<1>1. IsWellFoundedOn(OpToRel(<, Nat), Nat)
  BY NatLessThanWellFounded
<1>2. PICK x \in S : \A y \in S : <<y, x>> \notin OpToRel(<, Nat)
  BY <1>1, WFMin
<1>3. ASSUME NEW y \in S PROVE x <= y
  <2>1. <<y, x>> \in Nat \X Nat /\ <<y, x>>[1] = y /\ <<y, x>>[2] = x
    OBVIOUS
  <2>2. ~ (y < x)
    BY <1>2, <2>1, Zenon DEF OpToRel
  <2> QED
    BY <2>2
<1> QED
  BY <1>3

\* Without the first element a finite set is smaller.
LEMMA FirstFacts ==
    ASSUME NEW S, IsFiniteSet(S), S # {}
    PROVE  /\ First(S) \in S
           /\ IsFiniteSet(S \ {First(S)})
           /\ Cardinality(S) \in Nat \ {0}
           /\ Cardinality(S \ {First(S)}) = Cardinality(S) - 1
<1>1. First(S) \in S
  BY DEF First
<1>2. Cardinality(S) \in Nat /\ Cardinality(S) # 0
  BY FS_CardinalityType, FS_EmptySet
<1> QED
  BY <1>1, <1>2, FS_RemoveElement

LEMMA SumIter ==
    ASSUME NEW f, NEW S
    PROVE  SumFunctionOnSet(f, S) = Iter(f, S)[S]
BY DEF SumFunctionOnSet, FoldFunctionOnSet, MapThenFoldSet, Iter, IsIter, First

\* The recursive definition defines a function.
LEMMA IterExists ==
    ASSUME NEW f, NEW S, IsFiniteSet(S)
    PROVE  IsIter(Iter(f, S), f, SUBSET S)
<1> DEFINE Sub(n) == {s \in SUBSET S : Cardinality(s) <= n}
           Defined(n) == \E g : IsIter(g, f, Sub(n))
           Bad == {n \in Nat : ~ Defined(n)}
<1>1. \A s \in SUBSET S : IsFiniteSet(s) /\ Cardinality(s) \in Nat /\ Cardinality(s) <= Cardinality(S)
  BY FS_Subset, FS_CardinalityType
<1>2. Defined(0)
  <2>1. Sub(0) = {{}}
    BY <1>1, FS_EmptySet
  <2>2. IsIter([s \in {{}} |-> 0], f, {{}})
    BY DEF IsIter
  <2> QED
    BY <2>1, <2>2
<1>3. ASSUME NEW n \in Nat, Defined(n) PROVE Defined(n + 1)
  <2>1. PICK g : IsIter(g, f, Sub(n))
    BY <1>3
  <2> DEFINE h == [s \in Sub(n + 1) |->
                      IF s = {} THEN 0 ELSE f[First(s)] + g[s \ {First(s)}]]
  <2>2. ASSUME NEW s \in Sub(n + 1), s # {}
        PROVE  s \ {First(s)} \in Sub(n) /\ s \ {First(s)} \in Sub(n + 1)
    <3>1. s \in SUBSET S /\ IsFiniteSet(s) /\ Cardinality(s) <= n + 1
      BY <1>1
    <3>2. Cardinality(s \ {First(s)}) <= n /\ Cardinality(s) \in Nat
          /\ Cardinality(s \ {First(s)}) = Cardinality(s) - 1
      BY <2>2, <3>1, FirstFacts
    <3> QED
      BY <3>1, <3>2
  <2>3. ASSUME NEW s \in Sub(n) PROVE h[s] = g[s]
    <3>1. s \in Sub(n + 1)
      BY <1>1
    <3> QED
      BY <2>1, <3>1 DEF IsIter
  <2>4. \A s \in Sub(n + 1) : s # {} => h[s \ {First(s)}] = g[s \ {First(s)}]
    BY <2>2, <2>3
  <2> HIDE DEF Sub
  <2>5. h = [s \in Sub(n + 1) |-> IF s = {} THEN 0 ELSE f[First(s)] + h[s \ {First(s)}]]
    BY <2>4
  <2> HIDE DEF h
  <2> QED
    BY <2>5 DEF IsIter
<1>4. Bad = {}
  <2> SUFFICES ASSUME Bad # {} PROVE FALSE
    OBVIOUS
  <2>1. PICK n \in Bad : \A m \in Bad : n <= m
    BY LeastElement
  <2>2. n \in Nat /\ ~ Defined(n)
    BY <2>1
  <2> HIDE DEF Defined
  <2>3. n # 0
    BY <1>2, <2>2
  <2>4. n - 1 \in Nat /\ n - 1 \notin Bad
    BY <2>1, <2>2, <2>3
  <2>5. Defined(n - 1)
    BY <2>4
  <2>6. Defined((n - 1) + 1)
    BY <1>3, <2>4, <2>5
  <2>7. (n - 1) + 1 = n
    BY <2>2
  <2> QED
    BY <2>2, <2>6, <2>7
<1>5. Cardinality(S) \in Nat
  BY FS_CardinalityType
<1>6. Defined(Cardinality(S))
  BY <1>4, <1>5
<1>7. Sub(Cardinality(S)) = SUBSET S
  BY <1>1
<1> QED
  BY <1>6, <1>7 DEF Iter

-----------------------------------------------------------------------------
\* Induction over the subsets of a finite set S: a set P of them that has
\* each subset whose proper subsets it has is all of them.
LEMMA SubsetInduction ==
    ASSUME NEW S, IsFiniteSet(S), NEW P,
           \A T \in SUBSET S : (\A U \in SUBSET T : U # T => U \in P) => T \in P
    PROVE  \A T \in SUBSET S : T \in P
<1> SUFFICES ASSUME NEW R \in SUBSET S, R \notin P PROVE FALSE
  OBVIOUS
<1> DEFINE Bad == {n \in Nat : \E T \in SUBSET S : T \notin P /\ Cardinality(T) = n}
<1>1. \A T \in SUBSET S : IsFiniteSet(T) /\ Cardinality(T) \in Nat
  BY FS_Subset, FS_CardinalityType
<1>2. PICK n \in Bad : \A m \in Bad : n <= m
  <2>1. Cardinality(R) \in Bad
    BY <1>1
  <2> QED
    BY <2>1, LeastElement
<1>3. PICK T \in SUBSET S : T \notin P /\ Cardinality(T) = n
  BY <1>2
<1>4. ASSUME NEW U \in SUBSET T, U # T PROVE U \in P
  <2>1. IsFiniteSet(T) /\ U \in SUBSET S /\ Cardinality(T) \in Nat /\ Cardinality(U) \in Nat
    BY <1>1
  <2>2. Cardinality(U) <= Cardinality(T) /\ Cardinality(U) # Cardinality(T)
    BY <1>4, <2>1, FS_Subset
  <2> QED
    BY <1>2, <1>3, <2>1, <2>2
<1> QED
  BY <1>3, <1>4

\* The same, as sums are defined.
LEMMA FirstInduction ==
    ASSUME NEW S, IsFiniteSet(S), NEW P, {} \in P,
           \A T \in SUBSET S : T # {} /\ T \ {First(T)} \in P => T \in P
    PROVE  \A T \in SUBSET S : T \in P
<1>1. ASSUME NEW T \in SUBSET S, \A U \in SUBSET T : U # T => U \in P PROVE T \in P
  <2>1. CASE T # {}
    <3>1. First(T) \in T
      BY <2>1 DEF First
    <3>2. T \ {First(T)} \in P
      BY <1>1, <3>1
    <3> QED
      BY <2>1, <3>2
  <2> QED
    BY <2>1
<1> QED
  BY <1>1, SubsetInduction

-----------------------------------------------------------------------------
\* Within a larger set the sum of a set is the same.
LEMMA IterWithin ==
    ASSUME NEW f, NEW S, IsFiniteSet(S), NEW T \in SUBSET S
    PROVE  Iter(f, S)[T] = Iter(f, T)[T]
<1> DEFINE P == {U \in SUBSET T : Iter(f, S)[U] = Iter(f, T)[U]}
<1>1. IsFiniteSet(T) /\ IsIter(Iter(f, S), f, SUBSET S) /\ IsIter(Iter(f, T), f, SUBSET T)
  BY FS_Subset, IterExists
<1>2. \A U \in SUBSET T :
         /\ Iter(f, S)[U] = IF U = {} THEN 0 ELSE f[First(U)] + Iter(f, S)[U \ {First(U)}]
         /\ Iter(f, T)[U] = IF U = {} THEN 0 ELSE f[First(U)] + Iter(f, T)[U \ {First(U)}]
  BY <1>1 DEF IsIter
<1>3. {} \in P
  BY <1>2
<1>4. \A U \in SUBSET T : U # {} /\ U \ {First(U)} \in P => U \in P
  BY <1>2
<1> HIDE DEF P
<1>5. T \in P
  BY <1>1, <1>3, <1>4, FirstInduction
<1> QED
  BY <1>5 DEF P

\* A sum is 0, or its first element's value and the sum of the others.
LEMMA SumUnfold ==
    ASSUME NEW f, NEW S, IsFiniteSet(S)
    PROVE  SumFunctionOnSet(f, S) =
              IF S = {} THEN 0 ELSE f[First(S)] + SumFunctionOnSet(f, S \ {First(S)})
<1>1. IsIter(Iter(f, S), f, SUBSET S)
  BY IterExists
<1>2. Iter(f, S)[S] = IF S = {} THEN 0 ELSE f[First(S)] + Iter(f, S)[S \ {First(S)}]
  BY <1>1 DEF IsIter
<1>3. Iter(f, S)[S \ {First(S)}] = Iter(f, S \ {First(S)})[S \ {First(S)}]
  BY IterWithin
<1> QED
  BY <1>2, <1>3, SumIter

\* Sums of integers, naturals and zeroes are such.
LEMMA SumType ==
    ASSUME NEW f, NEW S, IsFiniteSet(S)
    PROVE  /\ (\A x \in S : f[x] \in Int) => SumFunctionOnSet(f, S) \in Int
           /\ (\A x \in S : f[x] \in Nat) => SumFunctionOnSet(f, S) \in Nat
           /\ (\A x \in S : f[x] = 0) => SumFunctionOnSet(f, S) = 0
<1> DEFINE Sum(T) == SumFunctionOnSet(f, T)
           P == {T \in SUBSET S : /\ (\A x \in T : f[x] \in Int) => Sum(T) \in Int
                                  /\ (\A x \in T : f[x] \in Nat) => Sum(T) \in Nat
                                  /\ (\A x \in T : f[x] = 0) => Sum(T) = 0}
<1>1. \A T \in SUBSET S : Sum(T) = IF T = {} THEN 0 ELSE f[First(T)] + Sum(T \ {First(T)})
  BY FS_Subset, SumUnfold
<1>2. \A T \in SUBSET S : T # {} => First(T) \in T
  BY DEF First
<1> HIDE DEF Sum
<1>3. {} \in P
  <2>1. Sum({}) = 0
    BY <1>1
  <2> QED
    BY <2>1
<1>4. \A T \in SUBSET S : T # {} /\ T \ {First(T)} \in P => T \in P
  <2> SUFFICES ASSUME NEW T \in SUBSET S, T # {}, T \ {First(T)} \in P PROVE T \in P
    OBVIOUS
  <2>1. First(T) \in T /\ Sum(T) = f[First(T)] + Sum(T \ {First(T)})
    BY <1>1, <1>2
  <2> QED
    BY <2>1
<1> HIDE DEF P
<1>5. S \in P
  BY <1>3, <1>4, FirstInduction
<1> QED
  BY <1>5 DEF P, Sum

\* Equal functions have equal sums, and a smaller function the smaller one.
LEMMA SumCompare ==
    ASSUME NEW f, NEW g, NEW S, IsFiniteSet(S), \A x \in S : f[x] \in Int /\ g[x] \in Int
    PROVE  /\ (\A x \in S : f[x] <= g[x]) =>
                 SumFunctionOnSet(f, S) <= SumFunctionOnSet(g, S)
           /\ (\A x \in S : f[x] = g[x]) => SumFunctionOnSet(f, S) = SumFunctionOnSet(g, S)
<1> DEFINE F(T) == SumFunctionOnSet(f, T)
           G(T) == SumFunctionOnSet(g, T)
           P == {T \in SUBSET S : /\ (\A x \in T : f[x] <= g[x]) => F(T) <= G(T)
                                  /\ (\A x \in T : f[x] = g[x]) => F(T) = G(T)}
<1>1. \A T \in SUBSET S :
         /\ F(T) = IF T = {} THEN 0 ELSE f[First(T)] + F(T \ {First(T)})
         /\ G(T) = IF T = {} THEN 0 ELSE g[First(T)] + G(T \ {First(T)})
         /\ F(T) \in Int /\ G(T) \in Int
  BY FS_Subset, SumUnfold, SumType
<1>2. \A T \in SUBSET S : T # {} => First(T) \in T
  BY DEF First
<1> HIDE DEF F, G
<1>3. {} \in P
  BY <1>1
<1>4. \A T \in SUBSET S : T # {} /\ T \ {First(T)} \in P => T \in P
  <2> SUFFICES ASSUME NEW T \in SUBSET S, T # {}, T \ {First(T)} \in P PROVE T \in P
    OBVIOUS
  <2>1. /\ First(T) \in T /\ T \ {First(T)} \in SUBSET S
        /\ F(T) = f[First(T)] + F(T \ {First(T)})
        /\ G(T) = g[First(T)] + G(T \ {First(T)})
        /\ f[First(T)] \in Int /\ g[First(T)] \in Int
        /\ F(T \ {First(T)}) \in Int /\ G(T \ {First(T)}) \in Int
    BY <1>1, <1>2
  <2> QED
    BY <2>1
<1> HIDE DEF P
<1>5. S \in P
  BY <1>3, <1>4, FirstInduction
<1> QED
  BY <1>5 DEF P, F, G

\* Any element may be taken away first.
LEMMA SumRemove ==
    ASSUME NEW f, NEW S, IsFiniteSet(S), \A x \in S : f[x] \in Int, NEW e \in S
    PROVE  SumFunctionOnSet(f, S) = f[e] + SumFunctionOnSet(f, S \ {e})
<1> DEFINE Sum(T) == SumFunctionOnSet(f, T)
           P == {T \in SUBSET S : \A x \in T : Sum(T) = f[x] + Sum(T \ {x})}
<1>1. \A T \in SUBSET S : /\ T # {} => Sum(T) = f[First(T)] + Sum(T \ {First(T)})
                          /\ Sum(T) \in Int
  BY FS_Subset, SumUnfold, SumType
<1>2. \A T \in SUBSET S : T # {} => First(T) \in T
  BY DEF First
<1> HIDE DEF Sum
<1>3. ASSUME NEW T \in SUBSET S, \A U \in SUBSET T : U # T => U \in P PROVE T \in P
  <2> SUFFICES ASSUME NEW x \in T, x # First(T) PROVE Sum(T) = f[x] + Sum(T \ {x})
    BY <1>1
  <2> DEFINE y == First(T)
  <2>1. y \in T /\ Sum(T) = f[y] + Sum(T \ {y})
    BY <1>1, <1>2
  <2>2. Sum(T \ {y}) = f[x] + Sum((T \ {y}) \ {x})
    BY <1>3, <2>1
  <2>3. Sum(T \ {x}) = f[y] + Sum((T \ {x}) \ {y})
    BY <1>3, <2>1
  <2>4. (T \ {y}) \ {x} = (T \ {x}) \ {y}
    OBVIOUS
  <2>5. f[x] \in Int /\ f[y] \in Int /\ Sum((T \ {y}) \ {x}) \in Int
    BY <1>1, <2>1
  <2> HIDE DEF y
  <2>6. PICK r \in Int : Sum(T \ {y}) = f[x] + r /\ Sum(T \ {x}) = f[y] + r
    BY <2>2, <2>3, <2>4, <2>5, Zenon
  <2> QED
    BY <2>1, <2>5, <2>6
<1> HIDE DEF P
<1>4. S \in P
  BY <1>3, SubsetInduction
<1> QED
  BY <1>4 DEF P, Sum

\* An element more.
LEMMA SumInsert ==
    ASSUME NEW f, NEW S, IsFiniteSet(S), NEW e, e \notin S, \A x \in S \cup {e} : f[x] \in Int
    PROVE  SumFunctionOnSet(f, S \cup {e}) = SumFunctionOnSet(f, S) + f[e]
<1>1. IsFiniteSet(S \cup {e}) /\ (S \cup {e}) \ {e} = S
  BY FS_AddElement
<1>2. SumFunctionOnSet(f, S \cup {e}) = f[e] + SumFunctionOnSet(f, S)
  BY <1>1, SumRemove
<1> QED
  BY <1>2, SumType

\* A function that differs at one element.
LEMMA SumUpdate ==
    ASSUME NEW f, NEW g, NEW S, IsFiniteSet(S), NEW e \in S,
           \A x \in S : f[x] \in Int /\ g[x] \in Int,
           \A x \in S \ {e} : f[x] = g[x]
    PROVE  SumFunctionOnSet(g, S) = SumFunctionOnSet(f, S) + g[e] - f[e]
<1>1. /\ SumFunctionOnSet(f, S) = f[e] + SumFunctionOnSet(f, S \ {e})
      /\ SumFunctionOnSet(g, S) = g[e] + SumFunctionOnSet(g, S \ {e})
  BY SumRemove
<1>2. IsFiniteSet(S \ {e})
  BY FS_RemoveElement
<1>3. SumFunctionOnSet(f, S \ {e}) = SumFunctionOnSet(g, S \ {e})
  BY <1>2, SumCompare
<1>4. SumFunctionOnSet(f, S \ {e}) \in Int
  BY <1>2, SumType
<1> QED
  BY <1>1, <1>3, <1>4

-----------------------------------------------------------------------------
\* The subsets of 1 .. n + 1 are those of 1 .. n, each with and without n + 1.
LEMMA PowerDoubles ==
    ASSUME NEW n \in Nat
    PROVE  2^n \in Nat /\ 2^(n + 1) = 2^n + 2^n
<1> DEFINE S == SUBSET (1 .. n)
           With == {s \cup {n + 1} : s \in S}
           f == [s \in S |-> s \cup {n + 1}]
<1>1. IsFiniteSet(S) /\ Cardinality(S) = 2^n
  <2>1. IsFiniteSet(1 .. n) /\ Cardinality(1 .. n) = n
    BY FS_Interval
  <2> QED
    BY <2>1, FS_SUBSET
<1>2. Cardinality(SUBSET (1 .. n + 1)) = 2^(n + 1)
  <2>1. IsFiniteSet(1 .. n + 1) /\ Cardinality(1 .. n + 1) = n + 1
    BY FS_Interval
  <2> QED
    BY <2>1, FS_SUBSET
<1>3. f \in Bijection(S, With)
  <2>1. f \in Surjection(S, With)
    BY Fun_IsSurj
  <2>2. f \in Injection(S, With)
    <3>1. ASSUME NEW a \in S, NEW b \in S, f[a] = f[b] PROVE a = b
      <4>1. n + 1 \notin a /\ n + 1 \notin b
        OBVIOUS
      <4>2. a \cup {n + 1} = b \cup {n + 1}
        BY <3>1
      <4> QED
        BY <4>1, <4>2
    <3> QED
      BY <2>1, <3>1, Fun_IsInj DEF Surjection
  <2> QED
    BY <2>1, <2>2 DEF Bijection
<1>4. IsFiniteSet(With) /\ Cardinality(With) = 2^n
  <2>1. ExistsBijection(S, With)
    BY <1>3 DEF ExistsBijection
  <2> QED
    BY <1>1, <2>1, FS_Bijection
<1>5. SUBSET (1 .. n + 1) = S \cup With /\ S \cap With = {}
  <2>1. ASSUME NEW s \in SUBSET (1 .. n + 1) PROVE s \in S \cup With
    <3>1. CASE n + 1 \in s
      <4>1. s \ {n + 1} \in S
        OBVIOUS
      <4>2. s = (s \ {n + 1}) \cup {n + 1}
        BY <3>1
      <4> QED
        BY <4>1, <4>2
    <3>2. CASE n + 1 \notin s
      <4>1. \A x \in s : x \in 1 .. n
        BY <3>2
      <4> QED
        BY <4>1
    <3> QED
      BY <3>1, <3>2
  <2>2. ASSUME NEW s \in S PROVE s \in SUBSET (1 .. n + 1) /\ n + 1 \notin s
    OBVIOUS
  <2>3. n + 1 \in 1 .. n + 1
    OBVIOUS
  <2>4. ASSUME NEW s \in With PROVE s \in SUBSET (1 .. n + 1) /\ n + 1 \in s
    <3>1. PICK r \in S : s = r \cup {n + 1}
      OBVIOUS
    <3> QED
      BY <2>2, <2>3, <3>1
  <2> QED
    BY <2>1, <2>2, <2>4
<1> HIDE DEF S, With
<1>6. Cardinality(S \cup With) = Cardinality(S) + Cardinality(With) - Cardinality(S \cap With)
  BY <1>1, <1>4, FS_Union
<1>7. Cardinality(S \cap With) = 0 /\ Cardinality(S) \in Nat
  BY <1>1, <1>5, FS_EmptySet, FS_CardinalityType
<1>8. 2^(n + 1) = Cardinality(S \cup With)
  BY <1>2, <1>5
<1>9. PICK p, q : p = 2^n /\ q = 2^(n + 1)
  OBVIOUS
<1>10. p \in Nat /\ q = p + p
  BY <1>1, <1>4, <1>6, <1>7, <1>8, <1>9
<1> QED
  BY <1>9, <1>10

\* The powers of two, as a function.
LEMMA PowerFacts ==
    \E P \in [Nat -> Nat \ {0}] :
       /\ \A k \in Nat : P[k] = 2^k /\ P[k + 1] = P[k] + P[k]
       /\ P[0] = 1
       /\ \A k, m \in Nat : k <= m => P[k] <= P[m]
<1>1. PICK P : P = [k \in Nat |-> 2^k]
  OBVIOUS
<1>2. P[0] = 1
  BY <1>1
<1>3. \A k \in Nat : P[k] = 2^k /\ P[k] \in Nat /\ P[k + 1] = P[k] + P[k]
  <2>1. ASSUME NEW k \in Nat PROVE P[k] = 2^k /\ P[k + 1] = 2^(k + 1)
    <3>1. k + 1 \in Nat
      OBVIOUS
    <3> QED
      BY <1>1, <3>1, Zenon
  <2> QED
    BY <2>1, PowerDoubles
<1>4. \A k \in Nat : P[k] # 0
  <2> DEFINE Bad == {k \in Nat : P[k] = 0}
  <2>1. SUFFICES ASSUME Bad # {} PROVE FALSE
    OBVIOUS
  <2>2. PICK k \in Bad : \A m \in Bad : k <= m
    BY <2>1, LeastElement
  <2>3. k # 0
    BY <1>2, <2>2
  <2>4. k - 1 \in Nat /\ P[k] = P[k - 1] + P[k - 1]
    <3>1. k - 1 \in Nat /\ (k - 1) + 1 = k
      BY <2>2, <2>3
    <3> QED
      BY <1>3, <3>1
  <2>5. P[k - 1] = 0
    BY <1>3, <2>2, <2>4
  <2>6. k - 1 \in Bad
    BY <2>4, <2>5
  <2> QED
    BY <2>2, <2>6
<1>5. ASSUME NEW k \in Nat, NEW m \in Nat, k <= m PROVE P[k] <= P[m]
  <2> DEFINE Bad == {i \in Nat : i >= k /\ P[k] > P[i]}
  <2>1. SUFFICES ASSUME Bad # {} PROVE FALSE
    <3>1. m \notin Bad => P[k] <= P[m]
      BY <1>3, <1>5
    <3> QED
      BY <3>1
  <2>2. PICK i \in Bad : \A q \in Bad : i <= q
    BY <2>1, LeastElement
  <2>3. i # k /\ i - 1 \in Nat /\ (i - 1) + 1 = i
    BY <1>3, <2>2
  <2>4. P[i - 1] \in Nat /\ P[i] = P[i - 1] + P[i - 1] /\ P[k] \in Nat
    BY <1>3, <2>3
  <2>5. i - 1 \in Bad
    BY <2>2, <2>3, <2>4
  <2> QED
    BY <2>2, <2>5
<1>6. P \in [Nat -> Nat \ {0}]
  BY <1>1, <1>3, <1>4
<1> QED
  BY <1>2, <1>3, <1>5, <1>6

\* Powers multiply.
LEMMA PowerAdds ==
    ASSUME NEW a \in Nat, NEW b \in Nat
    PROVE  2^(a + b) = 2^a * 2^b
<1>1. PICK P \in [Nat -> Nat \ {0}] :
         /\ \A k \in Nat : P[k] = 2^k /\ P[k + 1] = P[k] + P[k]
         /\ P[0] = 1
  BY PowerFacts
<1>2. \A k \in Nat : P[k + 1] = P[k] + P[k]
  BY <1>1
<1> DEFINE Bad == {m \in Nat : P[a + m] # P[a] * P[m]}
<1>3. SUFFICES ASSUME Bad # {} PROVE FALSE
  <2>1. P[a + b] = P[a] * P[b]
    BY <1>3
  <2>2. a + b \in Nat
    OBVIOUS
  <2>3. P[a + b] = 2^(a + b) /\ P[a] = 2^a /\ P[b] = 2^b
    BY <1>1, <2>2, Zenon
  <2> QED
    BY <2>1, <2>3, Zenon
<1>4. PICK m \in Bad : \A n \in Bad : m <= n
  BY <1>3, LeastElement
<1>5. m # 0
  <2>1. P[a + 0] = P[a] * P[0]
    BY <1>1
  <2> QED
    BY <1>4, <2>1
<1>6. PICK k \in Nat : m = k + 1
  BY <1>4, <1>5
<1>7. P[a + k] = P[a] * P[k]
  BY <1>4, <1>6
<1>8. P[(a + k) + 1] = P[a + k] + P[a + k] /\ P[k + 1] = P[k] + P[k]
  <2>1. a + k \in Nat
    OBVIOUS
  <2> QED
    BY <1>2, <2>1, Zenon
<1>9. P[a + k] + P[a + k] = P[a] * (P[k] + P[k])
  BY <1>7
<1>10. P[a + m] = P[a] * P[m]
  BY <1>6, <1>8, <1>9
<1> QED
  BY <1>4, <1>10

\* A power is no greater than another exactly if its exponent is.
LEMMA PowerOrder ==
    ASSUME NEW a \in Nat, NEW b \in Nat
    PROVE  2^a \in Nat \ {0} /\ (2^a <= 2^b <=> a <= b)
<1>1. PICK P \in [Nat -> Nat \ {0}] :
         /\ \A k \in Nat : P[k] = 2^k /\ P[k + 1] = P[k] + P[k]
         /\ \A k, m \in Nat : k <= m => P[k] <= P[m]
  BY PowerFacts
<1>2. a <= b => P[a] <= P[b]
  BY <1>1
<1>3. ASSUME b < a PROVE P[b] < P[a]
  <2>1. b + 1 \in Nat /\ b + 1 <= a
    BY <1>3
  <2>2. P[b + 1] <= P[a] /\ P[b + 1] = P[b] + P[b]
    BY <1>1, <2>1
  <2> QED
    BY <2>2
<1>4. 2^a = P[a] /\ 2^b = P[b]
  BY <1>1, Zenon
<1>5. P[a] \in Nat \ {0} /\ (P[a] <= P[b] <=> a <= b)
  BY <1>2, <1>3
<1> QED
  BY <1>4, <1>5, Zenon

\* Every positive number below 2^m lies between two powers of two.
LEMMA HighestBit ==
    ASSUME NEW m \in Nat, NEW n \in Nat \ {0}, n < 2^m
    PROVE  \E k \in 0 .. m - 1 :
              /\ 2^k <= n /\ n < 2^(k + 1)
              /\ \A c \in Nat : 2^c <= n /\ n < 2^(c + 1) => c = k
<1>1. PICK P \in [Nat -> Nat \ {0}] :
         /\ \A k \in Nat : P[k] = 2^k /\ P[k + 1] = P[k] + P[k]
         /\ P[0] = 1
         /\ \A k, q \in Nat : k <= q => P[k] <= P[q]
  BY PowerFacts
<1>2. \A k \in Nat : 2^k = P[k] /\ 2^(k + 1) = P[k + 1]
  <2>1. ASSUME NEW k \in Nat PROVE 2^k = P[k] /\ 2^(k + 1) = P[k + 1]
    <3>1. k + 1 \in Nat
      OBVIOUS
    <3> QED
      BY <1>1, <3>1, Zenon
  <2> QED
    BY <2>1
<1> DEFINE Above == {k \in Nat : n < P[k]}
<1>3. m \in Above
  BY <1>2
<1>4. PICK b \in Above : \A q \in Above : b <= q
  BY <1>3, LeastElement
<1>5. b # 0 /\ b - 1 \in Nat /\ (b - 1) + 1 = b /\ b <= m /\ b \in Nat
  <2>1. b \in Nat /\ n < P[b] /\ b <= m
    BY <1>3, <1>4
  <2>2. b # 0
    <3>1. ~ (n < P[0])
      BY <1>1
    <3> QED
      BY <2>1, <3>1
  <2> QED
    BY <2>1, <2>2
<1>6. P[b - 1] <= n /\ n < P[b]
  BY <1>1, <1>4, <1>5
<1>7. ASSUME NEW c \in Nat, P[c] <= n, n < P[c + 1] PROVE c = b - 1
  <2>1. ~ (c < b - 1)
    <3>1. c < b - 1 => c + 1 <= b - 1
      BY <1>5
    <3>2. c < b - 1 => P[c + 1] <= P[b - 1]
      BY <1>1, <1>5, <3>1
    <3> QED
      BY <1>1, <1>5, <1>6, <1>7, <3>2
  <2>2. ~ (b - 1 < c)
    <3>1. b - 1 < c => P[b] <= P[c]
      BY <1>1, <1>5
    <3> QED
      BY <1>1, <1>5, <1>6, <1>7, <3>1
  <2> QED
    BY <1>5, <2>1, <2>2
<1>8. b - 1 \in 0 .. m - 1 /\ P[b - 1] <= n /\ n < P[(b - 1) + 1]
  BY <1>5, <1>6
<1> HIDE DEF Above
<1>9. PICK k \in 0 .. m - 1 : k = b - 1
  BY <1>8
<1>10. 2^k <= n /\ n < 2^(k + 1)
  <2>1. k \in Nat /\ P[k] <= n /\ n < P[k + 1]
    BY <1>8, <1>9
  <2>2. 2^k = P[k] /\ 2^(k + 1) = P[k + 1]
    BY <1>2, <2>1, Zenon
  <2> QED
    BY <2>1, <2>2, Zenon
<1>11. \A c \in Nat : 2^c <= n /\ n < 2^(c + 1) => c = k
  BY <1>2, <1>7, <1>9, Zenon
<1> QED
  BY <1>10, <1>11, Zenon

-----------------------------------------------------------------------------
\* A product grows with its factor.
LEMMA ProductGrows ==
    ASSUME NEW p \in Nat, NEW a \in Nat, NEW b \in Nat, a <= b
    PROVE  a * p <= b * p
<1>1. PICK d \in Nat : b = a + d
  OBVIOUS
<1>2. b * p = a * p + d * p /\ d * p >= 0 /\ a * p \in Int /\ d * p \in Int
  BY <1>1
<1> QED
  BY <1>2

\* What the quotient and the remainder are.
LEMMA DivFacts ==
    ASSUME NEW p \in Nat \ {0}, NEW x \in Nat
    PROVE  /\ x \div p \in Nat
           /\ (x \div p) * p <= x
           /\ x < (x \div p) * p + p
           /\ x % p = x - (x \div p) * p
OBVIOUS

\* The multiples of p beyond x are those of the numbers beyond x \div p.
LEMMA BeyondDiv ==
    ASSUME NEW p \in Nat \ {0}, NEW x \in Nat, NEW n \in Nat
    PROVE  x < n * p <=> x \div p < n
<1> DEFINE q == x \div p
<1>1. /\ q \in Nat /\ q * p <= x /\ x < q * p + p
      /\ q * p \in Nat /\ n * p \in Nat /\ (q + 1) * p \in Nat
  BY DivFacts
<1> HIDE DEF q
<1>2. CASE n <= q
  BY <1>1, <1>2, ProductGrows
<1>3. CASE n >= q + 1
  <2>1. (q + 1) * p <= n * p
    BY <1>1, <1>3, ProductGrows
  <2>2. (q + 1) * p = q * p + p
    BY <1>1
  <2> QED
    BY <1>1, <1>3, <2>1, <2>2
<1>4. n <= q \/ n >= q + 1
  BY <1>1
<1>5. x < n * p <=> q < n
  BY <1>1, <1>2, <1>3, <1>4
<1> QED
  BY <1>5 DEF q

\* The quotient is the only number whose multiple is at most p - 1 below x.
LEMMA DivIs ==
    ASSUME NEW p \in Nat \ {0}, NEW x \in Nat, NEW q \in Nat, q * p <= x, x < q * p + p
    PROVE  x \div p = q
<1>1. x < (q + 1) * p /\ (q + 1) * p = q * p + p
  OBVIOUS
<1>2. x \div p < q + 1
  <2>1. q + 1 \in Nat
    OBVIOUS
  <2> QED
    BY <1>1, <2>1, BeyondDiv
<1>3. ~ (x < q * p)
  OBVIOUS
<1>4. ~ (x \div p < q)
  BY <1>3, BeyondDiv
<1>5. x \div p \in Nat
  BY DivFacts
<1> QED
  BY <1>2, <1>4, <1>5

\* The quotient of a multiple.
LEMMA MultipleDiv ==
    ASSUME NEW p \in Nat \ {0}, NEW n \in Nat
    PROVE  (n * p) \div p = n /\ n * p \in Nat /\ n <= n * p
<1>1. n * p \in Nat /\ n * p < n * p + p /\ n * p <= n * p
  OBVIOUS
<1>2. n * 1 = n /\ n * p = n * 1 + n * (p - 1) /\ n * (p - 1) >= 0
  OBVIOUS
<1>3. (n * p) \div p = n
  BY <1>1, DivIs
<1> QED
  BY <1>1, <1>2, <1>3

\* What a remainder of 0 says.
LEMMA PageStart ==
    ASSUME NEW p \in Nat \ {0}, NEW o \in Nat, NEW m \in Nat, o <= m
    PROVE  o % p = 0 <=> \E n \in 0 .. m : n * p = o
<1> DEFINE q == o \div p
<1>1. q \in Nat /\ o % p = o - q * p
  BY DivFacts
<1> HIDE DEF q
<1>2. q <= q * p /\ q * p \in Nat
  BY <1>1, MultipleDiv
<1>3. ASSUME o % p = 0 PROVE q * p = o /\ q \in 0 .. m
  BY <1>1, <1>2, <1>3
<1>4. ASSUME NEW n \in 0 .. m, n * p = o PROVE o % p = 0
  <2>1. q = n
    BY <1>4, MultipleDiv DEF q
  <2> QED
    BY <1>1, <1>4, <2>1
<1> QED
  BY <1>3, <1>4

\* The number of multiples of p inside the s units from o on, from the
\* multiples that o and the end are rounded down and up to.
LEMMA BoundariesInside ==
    ASSUME NEW p \in Nat \ {0}, NEW o \in Nat \ {0}, NEW s \in Nat, NEW m \in Nat,
           o + s <= m
    PROVE  LET d == ((o + s + p - 1) \div p - o \div p) * p
           IN  (IF d > p THEN d \div p - 1 ELSE 0)
               = Cardinality({n \in 0 .. m : o < n * p /\ n * p < o + s})
<1> DEFINE y == o + s
           a == o \div p
           l == (y - 1) \div p
           b == (y + p - 1) \div p
           d == (b - a) * p
           inside == {n \in 0 .. m : o < n * p /\ n * p < y}
<1>1. y \in Nat \ {0} /\ y - 1 \in Nat /\ o <= y /\ y <= m
  OBVIOUS
<1> HIDE DEF y
<1>2. /\ l \in Nat /\ l * p <= y - 1 /\ y - 1 < l * p + p /\ l * p \in Nat
      /\ l <= l * p
  BY <1>1, DivFacts, MultipleDiv
<1>3. b = l + 1
  <2>1. (l + 1) * p = l * p + p /\ l + 1 \in Nat /\ y + p - 1 \in Nat
    BY <1>1, <1>2
  <2>2. (l + 1) * p <= y + p - 1 /\ y + p - 1 < (l + 1) * p + p
    BY <1>1, <1>2, <2>1
  <2> HIDE DEF l
  <2> QED
    BY <2>1, <2>2, DivIs
<1>4. /\ a \in Nat /\ \A n \in Nat : o < n * p <=> a < n
  BY DivFacts, BeyondDiv
<1>5. \A n \in Nat : n * p \in Nat /\ (n * p < y <=> n <= l)
  <2> SUFFICES ASSUME NEW n \in Nat PROVE n * p \in Nat /\ (n * p < y <=> n <= l)
    OBVIOUS
  <2>1. y - 1 < n * p <=> l < n
    BY <1>1, BeyondDiv
  <2>2. n * p \in Nat
    OBVIOUS
  <2> HIDE DEF l
  <2> QED
    BY <1>1, <1>2, <2>1, <2>2
<1>6. a <= l + 1
  <2>1. ~ (o < a * p)
    BY <1>4
  <2>2. a * p <= o /\ a * p \in Nat
    BY <1>4, <2>1
  <2>3. a * p < y + 1
    BY <1>1, <2>2
  <2>4. CASE a = 0
    BY <1>2, <2>4
  <2>5. CASE a # 0
    <3>1. a - 1 \in Nat /\ (a - 1) * p = a * p - p
      BY <1>4, <2>5
    <3>2. (a - 1) * p < y
      BY <1>1, <2>2, <2>3, <3>1
    <3>3. a - 1 <= l
      BY <1>5, <3>1, <3>2
    <3> HIDE DEF a, l
    <3> QED
      BY <1>2, <1>4, <3>3
  <2> QED
    BY <2>4, <2>5
<1> HIDE DEF a, l, b
<1>7. inside = (a + 1) .. l
  <2>1. \A n \in 0 .. m : n \in Nat /\ (n \in inside <=> a < n /\ n <= l)
    BY <1>4, <1>5
  <2>2. \A n \in (a + 1) .. l : n \in 0 .. m /\ a < n /\ n <= l
    BY <1>1, <1>2, <1>4
  <2>3. \A n \in 0 .. m : a < n /\ n <= l => n \in (a + 1) .. l
    BY <1>2, <1>4
  <2>4. inside \subseteq 0 .. m
    OBVIOUS
  <2> HIDE DEF inside
  <2> QED
    BY <2>1, <2>2, <2>3, <2>4
<1>8. Cardinality(inside) = IF a + 1 <= l THEN l - a ELSE 0
  <2>1. a + 1 \in Int /\ l \in Int /\ l - (a + 1) + 1 = l - a
    BY <1>2, <1>4
  <2> HIDE DEF inside
  <2> QED
    BY <1>7, <2>1, FS_Interval
<1>9. b - a \in Nat /\ d \in Nat /\ d \div p = b - a
  <2>1. b - a \in Nat
    BY <1>2, <1>3, <1>4, <1>6
  <2> QED
    BY <2>1, MultipleDiv
<1>10. d > p <=> b - a > 1
  <2>1. CASE b - a <= 1
    <3>1. d <= 1 * p
      BY <1>9, <2>1, ProductGrows
    <3> HIDE DEF d
    <3> QED
      BY <1>9, <2>1, <3>1
  <2>2. CASE b - a >= 2
    <3>1. 2 * p <= d
      BY <1>9, <2>2, ProductGrows
    <3> HIDE DEF d
    <3> QED
      BY <1>9, <2>2, <3>1
  <2>3. b - a <= 1 \/ b - a >= 2
    BY <1>9
  <2> QED
    BY <2>1, <2>2, <2>3
<1> HIDE DEF d, inside
<1>11. (IF d > p THEN d \div p - 1 ELSE 0) = Cardinality(inside)
  BY <1>2, <1>3, <1>4, <1>8, <1>9, <1>10
<1> QED
  BY <1>11 DEF d, inside, a, b, y
=============================================================================
