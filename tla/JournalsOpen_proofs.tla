-------------------------- MODULE JournalsOpen_proofs --------------------------
(***************************************************************************)
(* Opening journals, for any names and whatever comes and goes in the      *)
(* directory: the program does nothing with a journal that journals[] has  *)
(* no room for, and the command is handed a journal only when every open   *)
(* has completed, under the index its file was registered with.            *)
(***************************************************************************)
EXTENDS JournalsOpen, FiniteSetTheorems, TLAPS

\* Until the directory is listed there are no journals.
Unlisted ==
    st \in {"machid_open", "machid_read", "var_open", "dir_open", "listing"} =>
       name = None /\ fd = None /\ DOMAIN visited = {}

\* Every open is either pending or counted, and journals[]->fd tells which as
\* long as none has failed the run; a descriptor is of the journal's own file.
OpensCounted ==
    /\ DOMAIN fd = Index => n_opened + Cardinality(pending) = n_journals
    /\ \A i \in DOMAIN fd : fd[i] \in {NoFd, Denied, name[i]}
    /\ st = "opening" => /\ DOMAIN visited = {}
                         /\ DOMAIN fd = Index
                         /\ \A i \in Index : fd[i] = NoFd => i \in pending

\* What holds once the command has been handed journals.
Handed ==
    DOMAIN visited # {} =>
       /\ st \in {"visited", "failed"}
       /\ pending = {}
       /\ DOMAIN visited = Index /\ DOMAIN fd = Index
       /\ registered = fd
       /\ idx = [i \in Index |-> i]
       /\ \A i \in Index : fd[i] # NoFd /\ (visited[i] > 0 => fd[i] # Denied)

IInv ==
    /\ TypeOK
    /\ OverrunIsFatal
    /\ Unlisted
    /\ OpensCounted
    /\ Handed

-----------------------------------------------------------------------------
LEMMA NameFacts == IsFiniteSet(Name) /\ Cardinality(Name) \in Nat
BY OpenAssumption, FS_CardinalityType

\* The directory holds finitely many files, of which those listed are counted.
LEMMA ListedFacts ==
    ASSUME dir \subseteq Name
    PROVE  /\ Listed \subseteq Name \ DotFile
           /\ IsFiniteSet(Name) /\ Cardinality(Name) \in Nat
           /\ IsFiniteSet(Listed)
           /\ Cardinality(Listed) \in 0 .. Cardinality(Name)
           /\ Listed = {} <=> Cardinality(Listed) = 0
<1>1. Listed \in SUBSET Name /\ Listed \subseteq Name \ DotFile
  BY OpenAssumption DEF Listed
<1>2. IsFiniteSet(Listed) /\ Cardinality(Listed) <= Cardinality(Name)
  BY <1>1, OpenAssumption, FS_Subset
<1>3. Cardinality(Listed) \in Nat /\ Cardinality(Name) \in Nat
  BY <1>2, OpenAssumption, FS_CardinalityType
<1> QED
  BY <1>1, <1>2, <1>3, FS_EmptySet, OpenAssumption

\* There are as many journals as indices, and no more pending ones.
LEMMA CountFacts ==
    ASSUME TypeOK
    PROVE  /\ IsFiniteSet(Index) /\ n_journals \in 0 .. Cardinality(Name)
           /\ IsFiniteSet(pending) /\ Cardinality(pending) \in 0 .. n_journals
<1>1. Cardinality(Name) \in Nat
  BY OpenAssumption, FS_CardinalityType
<1>2. /\ IsFiniteSet(Indices)
      /\ Cardinality(Indices) = Cardinality(Name)
  <2>1. /\ IsFiniteSet(0 .. Cardinality(Name) - 1)
        /\ Cardinality(0 .. Cardinality(Name) - 1) =
              IF 0 > Cardinality(Name) - 1 THEN 0 ELSE Cardinality(Name) - 1 - 0 + 1
    BY <1>1, FS_Interval
  <2> QED
    BY <1>1, <2>1 DEF Indices
<1>3. IsFiniteSet(Index) /\ Cardinality(Index) <= Cardinality(Name)
  BY <1>2, FS_Subset DEF TypeOK
<1>4. IsFiniteSet(pending) /\ Cardinality(pending) <= Cardinality(Index)
  BY <1>3, FS_Subset DEF TypeOK
<1>5. Cardinality(Index) \in Nat /\ Cardinality(pending) \in Nat
  BY <1>3, <1>4, FS_CardinalityType
<1> QED
  BY <1>1, <1>3, <1>4, <1>5 DEF n_journals, Index

LEMMA InitIInv == Init => IInv
<1> SUFFICES ASSUME Init PROVE IInv
  OBVIOUS
<1>1. DOMAIN None = {} /\ Cardinality({}) = 0 /\ Cardinality(Name) \in Nat
  BY OpenAssumption, FS_EmptySet, FS_CardinalityType DEF None
<1>2. TypeOK
  BY <1>1 DEF Init, TypeOK, Index, None
<1> QED
  BY <1>1, <1>2 DEF Init, IInv, OverrunIsFatal, Unlisted, OpensCounted, Handed,
                    Index, n_journals

\* The callbacks before the directory.
LEMMA StepIInv ==
    ASSUME IInv, NEW from, NEW to, Step(from, to),
           <<from, to>> \in {<<"machid_open", "machid_read">>, <<"machid_read", "var_open">>,
                             <<"var_open", "dir_open">>}
    PROVE  IInv'
<1>1. from \in {"machid_open", "machid_read", "var_open"}
      /\ to \in {"machid_read", "var_open", "dir_open"}
  OBVIOUS
<1>2. name = None /\ DOMAIN visited = {} /\ DOMAIN name = {}
  BY <1>1 DEF IInv, Unlisted, Step, None
<1> QED
  BY <1>1, <1>2 DEF Step, IInv, TypeOK, OverrunIsFatal, Unlisted, OpensCounted, Handed,
                    Index, n_journals

\* The first pass over the directory.
LEMMA CountIInv == IInv /\ get_journals_count => IInv'
<1> SUFFICES ASSUME IInv, get_journals_count PROVE IInv'
  OBVIOUS
<1>1. name = None /\ DOMAIN visited = {} /\ DOMAIN name = {} /\ Cardinality({}) = 0
  BY FS_EmptySet DEF IInv, Unlisted, get_journals_count, None
<1>2. n_allocated' \in 0 .. Cardinality(Name)
  BY ListedFacts DEF get_journals_count, IInv, TypeOK
<1>3. st' \in {"failed", "no_journals", "listing"}
  BY DEF get_journals_count
<1>4. UNCHANGED <<dir, name, fd, pending, n_opened, registered, idx, visited>>
  BY DEF get_journals_count
<1>5. OverrunIsFatal'
  BY <1>1, <1>2, <1>4 DEF OverrunIsFatal, n_journals
<1>6. TypeOK'
  BY <1>2, <1>3, <1>4 DEF IInv, TypeOK, Index
<1>7. Unlisted' /\ Handed'
  BY <1>1, <1>3, <1>4 DEF IInv, Unlisted, Handed, Index, get_journals_count
<1>8. OpensCounted'
  BY <1>3, <1>4 DEF IInv, OpensCounted, Index, n_journals
<1> QED
  BY <1>5, <1>6, <1>7, <1>8 DEF IInv

\* The entries stored are the first ones, with one too many at most.
LEMMA StoredFacts ==
    ASSUME NEW n \in Nat, NEW S, NEW order \in [0 .. n - 1 -> S], n_allocated \in Nat
    PROVE  /\ Stored(order) \subseteq 0 .. n - 1
           /\ Cardinality(Stored(order)) \in Nat
           /\ Cardinality(Stored(order)) > n_allocated =>
                 Cardinality(Stored(order)) = n_allocated + 1
<1> DEFINE m == IF n > n_allocated THEN n_allocated + 1 ELSE n
<1>1. Stored(order) = 0 .. m - 1
  BY DEF Stored, Outnumbered
<1>2. m \in Nat /\ m <= n_allocated + 1 /\ m <= n
  OBVIOUS
<1> HIDE DEF m
<1>3. Cardinality(0 .. m - 1) = m
  BY <1>2, FS_Interval
<1> QED
  BY <1>1, <1>2, <1>3

\* The second pass: as many journals as entries are stored, none opened.
LEMMA ListIInv == IInv /\ get_journals_list => IInv'
<1> SUFFICES ASSUME IInv, get_journals_list PROVE IInv'
  OBVIOUS
<1>1. /\ name = None /\ DOMAIN visited = {} /\ DOMAIN name = {} /\ Cardinality({}) = 0
      /\ pending = {} /\ n_opened = 0
  <2>1. /\ name = None /\ DOMAIN visited = {} /\ DOMAIN name = {} /\ Cardinality({}) = 0
        /\ DOMAIN fd = {}
    BY FS_EmptySet DEF IInv, Unlisted, get_journals_list, None
  <2>2. pending = {}
    BY <2>1 DEF IInv, TypeOK, Index
  <2> QED
    BY <2>1, <2>2, NameFacts DEF IInv, OpensCounted, n_journals, TypeOK
<1>2. UNCHANGED <<dir, n_allocated, n_opened, registered, idx, visited>>
  BY DEF get_journals_list
<1>3. CASE UNCHANGED <<name, fd, pending>> /\ st' = "failed"
  BY <1>1, <1>2, <1>3 DEF IInv, TypeOK, OverrunIsFatal, Unlisted, OpensCounted, Handed,
                          Index, n_journals
<1>4. ASSUME NEW order \in Orders, name' = [i \in Stored(order) |-> order[i]],
             LET n == Cardinality(Stored(order))
             IN  IF Outnumbered(n)
                 THEN st' = "aborted" /\ UNCHANGED <<fd, pending>>
                 ELSE \/ st' = "failed" /\ UNCHANGED <<fd, pending>>
                      \/ /\ st' = IF n = 0 THEN "no_journals" ELSE "opening"
                         /\ fd' = [i \in Stored(order) |-> NoFd]
                         /\ pending' = Stored(order)
      PROVE  IInv'
  <2> DEFINE n == Cardinality(Stored(order))
  <2>1. /\ Cardinality(Listed) \in 0 .. Cardinality(Name)
        /\ Cardinality(Listed) \in Nat /\ Cardinality(Name) \in Nat
        /\ Listed \subseteq Name \ DotFile
    BY ListedFacts, NameFacts DEF IInv, TypeOK
  <2>2. n_allocated' = n_allocated /\ n_allocated \in Nat
    BY <1>2, <2>1 DEF IInv, TypeOK
  <2>3. order \in [0 .. Cardinality(Listed) - 1 -> Listed]
    BY DEF Orders
  <2>4. /\ Stored(order) \subseteq 0 .. Cardinality(Listed) - 1
        /\ n \in Nat /\ (n > n_allocated => n = n_allocated + 1)
    BY <2>1, <2>2, <2>3, StoredFacts
  <2>5. Index' = Stored(order) /\ n_journals' = n
    BY <1>4 DEF Index, n_journals
  <2>6. OverrunIsFatal'
    <3>1. n > n_allocated => st' = "aborted"
      BY <1>4 DEF Outnumbered
    <3> HIDE DEF n
    <3> QED
      BY <2>2, <2>4, <2>5, <3>1 DEF OverrunIsFatal
  <2>7. \/ st' \in {"aborted", "failed"} /\ UNCHANGED <<fd, pending>>
        \/ /\ st' \in {"no_journals", "opening"}
           /\ fd' = [i \in Stored(order) |-> NoFd] /\ pending' = Stored(order)
    BY <1>4
  <2>8. DOMAIN fd = {} /\ fd = None
    BY DEF IInv, Unlisted, get_journals_list, None
  <2>9. TypeOK'
    <3>1. Index' \subseteq Indices
      BY <2>1, <2>4, <2>5 DEF Indices
    <3>2. name' \in [Index' -> Name \ DotFile]
      BY <1>4, <2>1, <2>3, <2>4, <2>5
    <3>3. DOMAIN idx' \in {{}, Index'} /\ DOMAIN visited' \in {{}, Index'}
      BY <1>1, <1>2 DEF IInv, TypeOK, Index
    <3>4. /\ DOMAIN fd' \in {{}, Index'} /\ pending' \subseteq Index'
          /\ fd' \in [DOMAIN fd' -> Name \cup {NoFd, Denied}]
      BY <1>1, <2>5, <2>7, <2>8 DEF IInv, TypeOK
    <3> QED
      BY <1>2, <2>7, <3>1, <3>2, <3>3, <3>4 DEF IInv, TypeOK, Indices
  <2>10. OpensCounted'
    <3>1. DOMAIN fd' = Index' => n_opened' + Cardinality(pending') = n_journals'
      <4>1. CASE UNCHANGED <<fd, pending>>
        <5>1. SUFFICES ASSUME Stored(order) = {} PROVE n_opened + Cardinality(pending) = n
          BY <1>2, <2>5, <2>8, <4>1
        <5> QED
          BY <1>1, <5>1
      <4>2. CASE pending' = Stored(order)
        BY <1>1, <1>2, <2>4, <2>5, <4>2
      <4> QED
        BY <2>7, <4>1, <4>2
    <3>2. \A i \in DOMAIN fd' : fd'[i] = NoFd
      BY <2>7, <2>8
    <3>3. st' = "opening" => DOMAIN fd' = Index' /\ pending' = Index'
      BY <2>5, <2>7
    <3> QED
      BY <1>1, <1>2, <3>1, <3>2, <3>3 DEF OpensCounted
  <2>11. Unlisted' /\ Handed'
    BY <1>1, <1>2, <2>7 DEF Unlisted, Handed
  <2> QED
    BY <2>6, <2>9, <2>10, <2>11 DEF IInv
<1> QED
  BY <1>3, <1>4 DEF get_journals_list

\* An open that completes: counted, and no longer pending.
LEMMA OpenedCounts ==
    ASSUME IInv, NEW i \in Index, opened_journal(i)
    PROVE  /\ n_opened' = n_opened + 1 /\ pending' = pending \ {i}
           /\ n_opened' + Cardinality(pending') = n_journals
           /\ n_opened' \in 0 .. Cardinality(Name)
           /\ n_opened' = n_journals => pending' = {}
           /\ n_opened' = n_journals => \A k \in Index : k # i => fd[k] # NoFd
<1>1. n_opened' = n_opened + 1 /\ pending' = pending \ {i} /\ i \in pending /\ st = "opening"
  BY DEF opened_journal, CountOpened
<1>2. /\ IsFiniteSet(pending) /\ Cardinality(pending) \in 0 .. n_journals
      /\ n_journals \in 0 .. Cardinality(Name)
  BY CountFacts DEF IInv
<1>3. IsFiniteSet(pending') /\ Cardinality(pending') = Cardinality(pending) - 1
  BY <1>1, <1>2, FS_RemoveElement
<1>4. Cardinality(pending') \in Nat
  BY <1>3, FS_CardinalityType
<1>5. n_opened \in Int /\ n_opened + Cardinality(pending) = n_journals
      /\ Cardinality(Name) \in Int /\ n_opened >= 0
  BY <1>1, NameFacts DEF IInv, TypeOK, OpensCounted
<1>6. n_opened' + Cardinality(pending') = n_journals /\ n_opened' \in 0 .. Cardinality(Name)
  BY <1>1, <1>2, <1>3, <1>4, <1>5
<1>7. n_opened' = n_journals => pending' = {}
  BY <1>1, <1>2, <1>3, <1>4, <1>5, <1>6, FS_EmptySet
<1>8. n_opened' = n_journals => \A k \in Index : k # i => fd[k] # NoFd
  BY <1>1, <1>7 DEF IInv, OpensCounted
<1> QED
  BY <1>1, <1>6, <1>7, <1>8

\* An open that completes, in whatever order: when it is the last, no journal
\* is without its descriptor, and the command is handed those that have one.
LEMMA OpenedIInv ==
    ASSUME IInv, NEW i \in Index, opened_journal(i)
    PROVE  IInv'
<1>1. /\ st = "opening" /\ i \in pending /\ pending' = pending \ {i}
      /\ UNCHANGED <<dir, n_allocated, name>>
      /\ Index' = Index /\ n_journals' = n_journals
  BY DEF opened_journal, Index, n_journals
<1>2. /\ n_opened' = n_opened + 1 /\ pending' = pending \ {i}
      /\ n_opened' + Cardinality(pending') = n_journals
      /\ n_opened' \in 0 .. Cardinality(Name)
      /\ n_opened' = n_journals => pending' = {}
      /\ n_opened' = n_journals => \A k \in Index : k # i => fd[k] # NoFd
  BY OpenedCounts
<1>3. DOMAIN visited = {} /\ DOMAIN fd = Index
  BY <1>1 DEF IInv, OpensCounted
<1>4. OverrunIsFatal' /\ name' \in [Index' -> Name \ DotFile] /\ Index' \subseteq Indices
      /\ dir' \subseteq Name /\ n_allocated' \in 0 .. Cardinality(Name)
      /\ pending' \subseteq Index' /\ n_opened' \in 0 .. Cardinality(Name)
      /\ \A k \in Index : name'[k] = name[k] /\ name[k] \in Name
  BY <1>1, <1>2 DEF IInv, OverrunIsFatal, TypeOK
<1>5. CASE UNCHANGED <<fd, registered, idx, visited>> /\ st' = "failed"
  <2>1. TypeOK'
    BY <1>1, <1>4, <1>5 DEF IInv, TypeOK, Indices
  <2>2. OpensCounted'
    BY <1>1, <1>2, <1>5 DEF IInv, OpensCounted
  <2> QED
    BY <1>3, <1>4, <1>5, <2>1, <2>2 DEF IInv, Unlisted, Handed
<1>6. ASSUME NEW f \in {name[i], Denied}, CountOpened(i, f)
      PROVE  IInv'
  <2> DEFINE fds == [fd EXCEPT ![i] = f]
  <2>1. /\ fd' = fds
        /\ fds \in [Index -> Name \cup {NoFd, Denied}]
        /\ \A k \in Index : fds[k] = IF k = i THEN f ELSE fd[k]
        /\ f # NoFd
    BY <1>3, <1>4, <1>6, OpenAssumption DEF CountOpened, IInv, TypeOK
  <2>2. \A k \in Index : fd'[k] \in {NoFd, Denied, name'[k]}
    BY <1>3, <1>4, <2>1 DEF IInv, OpensCounted
  <2>3. CASE UNCHANGED <<st, registered, idx, visited>>
    <3>1. TypeOK'
      BY <1>1, <1>4, <2>1, <2>3 DEF IInv, TypeOK, Indices
    <3>2. OpensCounted'
      BY <1>1, <1>2, <1>3, <2>1, <2>2, <2>3 DEF IInv, OpensCounted
    <3> QED
      BY <1>1, <1>3, <1>4, <2>3, <3>1, <3>2 DEF IInv, Unlisted, Handed
  <2>4. CASE st' = "failed" /\ UNCHANGED <<registered, idx, visited>>
    <3>1. TypeOK'
      BY <1>1, <1>4, <2>1, <2>4 DEF IInv, TypeOK, Indices
    <3>2. OpensCounted'
      BY <1>1, <1>2, <2>1, <2>2, <2>4 DEF OpensCounted
    <3> QED
      BY <1>3, <1>4, <2>4, <3>1, <3>2 DEF IInv, Unlisted, Handed
  <2>5. CASE AllOpened(n_opened + 1, fds) /\ RegisterAndVisit(fds)
    <3>1. pending' = {} /\ \A k \in Index : fd'[k] # NoFd
      BY <1>2, <2>1, <2>5 DEF AllOpened
    <3>2. registered' = fds /\ idx' = [k \in Index |-> k]
      BY <2>5 DEF RegisterAndVisit, Fds
    <3>3. /\ st' \in {"visited", "failed"}
          /\ DOMAIN visited' = Index
          /\ \A k \in Index : visited'[k] > 0 => fds[k] # Denied
      <4> USE DEF Opened
      <4>1. CASE /\ st' = "visited"
                 /\ visited' = [k \in Index |-> IF k \in Opened(fds) THEN 1 ELSE 0]
        BY <4>1
      <4>2. CASE /\ st' = "failed"
                 /\ \E last \in Opened(fds) :
                       visited' = [k \in Index |-> IF k \in Opened(fds) /\ k <= last
                                                   THEN 1 ELSE 0]
        BY <4>2
      <4> QED
        BY <2>5, <4>1, <4>2 DEF RegisterAndVisit, journals_for_each
    <3>4. TypeOK'
      BY <1>1, <1>4, <2>1, <3>2, <3>3 DEF IInv, TypeOK, Indices
    <3>5. OpensCounted'
      BY <1>1, <1>2, <2>1, <2>2, <3>3 DEF OpensCounted
    <3>6. Handed' /\ Unlisted'
      BY <1>1, <2>1, <3>1, <3>2, <3>3 DEF Handed, Unlisted
    <3> QED
      BY <1>4, <3>4, <3>5, <3>6 DEF IInv
  <2> QED
    BY <1>6, <2>3, <2>4, <2>5 DEF CountOpened
<1> QED
  BY <1>5, <1>6 DEF opened_journal

\* Files come and go; what was listed and opened stays as it is.
LEMMA RotateIInv == IInv /\ Rotate => IInv'
BY DEF Rotate, IInv, TypeOK, OverrunIsFatal, Unlisted, OpensCounted, Handed,
       Index, n_journals, Indices

LEMMA NextIInv == IInv /\ [Next]_vars => IInv'
<1> SUFFICES ASSUME IInv, [Next]_vars PROVE IInv'
  OBVIOUS
<1>1. CASE open_done \/ read_done \/ var_opened
  BY <1>1, StepIInv DEF open_done, read_done, have_machid, var_opened
<1>2. CASE get_journals_count
  BY <1>2, CountIInv
<1>3. CASE get_journals_list
  BY <1>3, ListIInv
<1>4. CASE \E i \in Index : opened_journal(i)
  BY <1>4, OpenedIInv
<1>5. CASE Rotate
  BY <1>5, RotateIInv
<1>6. CASE UNCHANGED vars
  BY <1>6 DEF vars, IInv, TypeOK, OverrunIsFatal, Unlisted, OpensCounted, Handed,
              Index, n_journals, Indices
<1> QED
  BY <1>1, <1>2, <1>3, <1>4, <1>5, <1>6 DEF Next, Callback

LEMMA SpecIInv == Spec => []IInv
<1>1. IInv /\ [Next]_vars => IInv'
  BY NextIInv
<1> QED
  BY InitIInv, <1>1, PTL DEF Spec

-----------------------------------------------------------------------------
\* Whatever files appear between the two passes of get_journals(), the entry
\* that is stored beyond the allocation is the only one, and the assertion
\* stops the program before any journal is opened.
THEOREM OverrunStops == Spec => [](OverrunIsFatal /\ TypeOK)
<1>1. IInv => OverrunIsFatal /\ TypeOK
  BY DEF IInv
<1> QED
  BY <1>1, SpecIInv, PTL

\* The opens complete in any order, refused or not, and the command is handed
\* no journal before the last has.
THEOREM VisitsComeLast == Spec => []VisitsAfterAllOpened
<1>1. IInv => VisitsAfterAllOpened
  BY DEF IInv, VisitsAfterAllOpened, Handed
<1> QED
  BY <1>1, SpecIInv, PTL

\* The index a journal's reads address the file by is that of its own file.
THEOREM ReadsOwnFile == Spec => []IdxNamesOwnFile
<1>1. ASSUME IInv PROVE IdxNamesOwnFile
  <2> SUFFICES ASSUME NEW i \in DOMAIN visited, visited[i] > 0
               PROVE  idx[i] \in DOMAIN registered /\ registered[idx[i]] = name[i]
    BY DEF IdxNamesOwnFile
  <2>1. /\ DOMAIN visited = Index /\ registered = fd /\ idx = [k \in Index |-> k]
        /\ fd[i] # NoFd /\ fd[i] # Denied /\ DOMAIN fd = Index
    BY <1>1 DEF IInv, Handed
  <2>2. fd[i] = name[i]
    BY <1>1, <2>1 DEF IInv, OpensCounted, TypeOK
  <2> QED
    BY <2>1, <2>2
<1> QED
  BY <1>1, SpecIInv, PTL
=============================================================================
