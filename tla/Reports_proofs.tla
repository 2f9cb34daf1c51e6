---------------------------- MODULE Reports_proofs ----------------------------
(***************************************************************************)
(* What the commands report is right for any journals, any interleaving of *)
(* their callbacks and the workers, and whatever journald appends.         *)
(*                                                                         *)
(* First what is common to them: the iterations under them keep their      *)
(* promises, the worker's object stays in its buffer, which has room for   *)
(* it, and jio exits with success only when every journal was gone through *)
(* to its end.                                                             *)
(*                                                                         *)
(* Then the reports.  Each closure has accounted for exactly the objects   *)
(* that its iteration has passed: what is counted for a journal is the     *)
(* cardinality of, or a sum over, those objects, in every state and not    *)
(* only at the end.                                                        *)
(***************************************************************************)
EXTENDS Jio, ObjectIter_proofs, SumLemmas, FiniteSetTheorems, SequenceTheorems

\* The state of the verifying closures.
Closure == [ph : {"iter", "object", "worker", "verified"}, cap : Nat, dcap : Nat,
            holds : Nat, n : [Type -> Int], bytes : [Type -> Int]]

\* A closure that is busy with an object belongs to "verify", and its
\* iteration stays on that object, which is in the buffer or fits into it.
Busy ==
    \A j \in Journal : vf[j].ph # "iter" =>
       /\ cmd = "verify"
       /\ it[j].st = "reading"
       /\ vf[j].cap >= at[j][it[j].offset].size
       /\ vf[j].ph # "object" => vf[j].holds = it[j].offset

\* As long as none has failed, a journal's chain of callbacks has one operation
\* outstanding until the journal is through, and none then.
Chained ==
    /\ queued \in [Journal -> Int]
    /\ cmd = "none" => \A j \in Journal : it[j].st = "idle"
    /\ cmd # "none" /\ ~ err =>
          \A j \in Journal : queued[j] = IF it[j].st = "done" THEN 0 ELSE 1

\* Success after a command was not come by before the end of every journal.
Finished ==
    status = "success" /\ cmd # "none" => \A j \in Journal : it[j].st = "done"

JInv ==
    /\ IInv
    /\ vf \in [Journal -> Closure]
    /\ Busy
    /\ Chained
    /\ Finished

-----------------------------------------------------------------------------
\* A callback that fails without having read changes nothing the iteration
\* invariant is about.
LEMMA FailIInv ==
    ASSUME IInv, err' = TRUE, UNCHANGED <<starts, at, end, tail, intact, it, seen>>
    PROVE  IInv'
<1>1. TypeOK' /\ Layout' /\ Snapshot' /\ ReadsObjects'
  BY DEF IInv, TypeOK, Layout, Snapshot, ReadsObjects
<1>2. \A j \in Journal : Expected(j)' = Expected(j)
  BY DEF Expected
<1>3. Progress' /\ IterationComplete'
  BY <1>2 DEF IInv, Progress, IterationComplete
<1> QED
  BY <1>1, <1>3 DEF IInv

\* Nothing happens to the iterations and the files.
LEMMA StutterIInv == ASSUME IInv, UNCHANGED vars PROVE IInv'
<1>1. [Next]_vars
  OBVIOUS
<1> QED
  BY <1>1, NextIInv

\* A step of the iteration of j leaves the other iterations and all files
\* alone.
Moves(j) ==
    /\ UNCHANGED <<starts, at, end, tail, intact>>
    /\ \A i \in Journal : i # j => it'[i] = it[i]

\* What queuing the header, moving on and failing have in common.
LEMMA IterMoves ==
    ASSUME IInv, NEW j \in Journal,
           \/ journal_get_header(j) \/ ReadFails(j)
           \/ got_header(j) \/ got_iter_object_header(j)
    PROVE  IInv' /\ Moves(j)
<1>1. CASE journal_get_header(j) \/ ReadFails(j)
  BY <1>1, StartFailIInv DEF journal_get_header, ReadFails, Moves, IInv, TypeOK
<1>2. CASE got_header(j)
  <2>1. IInv'
    BY <1>2, IterIInv
  <2> QED
    BY <1>2, <2>1 DEF got_header, Continue, Moves, IInv, TypeOK
<1>3. CASE got_iter_object_header(j)
  <2>1. IInv'
    BY <1>3, IterIInv
  <2> QED
    BY <1>3, <2>1 DEF got_iter_object_header, Continue, Moves, IInv, TypeOK
<1> QED
  BY <1>1, <1>2, <1>3

\* What a callback of j does to the iteration, whichever command runs.
LEMMA CallbackMoves ==
    ASSUME IInv, NEW j \in Journal, Callback(j)
    PROVE  IInv' /\ Moves(j)
<1>1. CASE UNCHANGED vars
  BY <1>1, StutterIInv DEF vars, Moves
<1>2. CASE err' = TRUE /\ UNCHANGED <<starts, at, end, tail, intact, it, seen>>
  BY <1>2, FailIInv DEF Moves
<1>3. CASE \/ journal_get_header(j) \/ ReadFails(j)
           \/ got_header(j) \/ got_iter_object_header(j)
  BY <1>3, IterMoves
<1>4. CASE UsageCallback(j)
  BY <1>2, <1>3, <1>4 DEF UsageCallback, per_journal, FstatFails, UsageGotHeader, UsageGotObject
<1>5. CASE LayoutCallback(j)
  BY <1>2, <1>3, <1>5 DEF LayoutCallback, layout_journal, LayoutGotHeader, LayoutGotObject,
                          LayoutFails
<1>6. CASE ArraysCallback(j)
  BY <1>1, <1>3, <1>6 DEF ArraysCallback, ArraysGotHeader, arrays_object, ArraysGotPayload
<1>7. CASE VerifyCallback(j)
  BY <1>1, <1>3, <1>7 DEF VerifyCallback, VerifyGotHeader, verify_object, per_hashed_object,
                          WorkerVerifies, WorkerDone, VerifyFails, Resume, Handoff
<1> QED
  BY <1>4, <1>5, <1>6, <1>7 DEF Callback

\* journald's appending and losing objects moves no iteration, and leaves
\* the object that an iteration is on as it is.
LEMMA EnvironmentKeeps ==
    ASSUME IInv, Environment
    PROVE  /\ IInv' /\ it' = it
           /\ \A j \in Journal : it[j].st = "reading" =>
                 at'[j][it[j].offset] = at[j][it[j].offset]
<1>1. CASE Appends
  <2>1. PICK i \in Journal, t \in Type, s \in Size :
           JournaldAppend(i, [type |-> t, size |-> s])
    BY <1>1 DEF Appends
  <2>2. IInv'
    BY <2>1, AppendIInv
  <2>3. it' = it /\ at' = [at EXCEPT ![i] = [@ EXCEPT ![end[i]] = [type |-> t, size |-> s]]]
    BY <2>1 DEF JournaldAppend
  <2>4. ASSUME NEW j \in Journal, it[j].st = "reading"
        PROVE  it[j].offset # end[j] /\ it[j].offset \in Offset
    <3>1. it[j].offset \in starts[j] /\ it[j].offset \in Offset /\ end[j] \in Offset
      BY <2>4 DEF IInv, ReadsObjects, TypeOK
    <3>2. it[j].offset < end[j]
      BY <3>1 DEF IInv, Layout
    <3> QED
      BY <3>1, <3>2, OffsetFacts
  <2> QED
    BY <2>2, <2>3, <2>4 DEF IInv, TypeOK
<1>2. CASE \E j \in Journal, o \in Offset : Lose(j, o)
  <2>1. PICK i \in Journal, o \in Offset : Lose(i, o)
    BY <1>2
  <2>2. IInv'
    BY <2>1, LoseIInv
  <2>3. it' = it /\ it[i].st = "idle" /\ at' = [at EXCEPT ![i] = [@ EXCEPT ![o] = Blank]]
    BY <2>1 DEF Lose
  <2> QED
    BY <2>2, <2>3 DEF IInv, TypeOK
<1> QED
  BY <1>1, <1>2 DEF Environment

-----------------------------------------------------------------------------
\* What is at an offset has a type and a size.
LEMMA ObjectTypes ==
    ASSUME TypeOK, NEW j \in Journal, NEW o \in Offset
    PROVE  at[j][o].size \in Nat /\ at[j][o].type \in Type
<1>1. at[j][o] \in [type : Type, size : Size \cup {0}]
  BY DEF TypeOK, Object
<1>2. \A s \in Size \cup {0} : s \in Nat
  BY IterAssumption
<1> QED
  BY <1>1, <1>2

\* A closure that frees its buffers is as busy as before.
LEMMA FreedType ==
    ASSUME NEW v \in Closure
    PROVE  Freed(v) \in Closure /\ Freed(v).ph = v.ph
BY DEF Freed, Closure

\* The buffer that an object is loaded into has room for it.
LEMMA LoadingType ==
    ASSUME NEW v \in Closure, NEW size \in Nat
    PROVE  /\ Loading(v, size) \in Closure /\ Loading(v, size).ph = "object"
           /\ Loading(v, size).cap >= size
<1>1. v.cap \in Nat /\ Grown(v.cap, size) \in Nat /\ Grown(v.cap, size) >= size
  BY DEF Closure, Grown
<1> QED
  BY <1>1 DEF Loading, Closure

\* The offset of the payload in a hashed object of type t, otherwise than by
\* hashed_payload_size().
PayloadOf(t) == IF t = OBJECT_FIELD THEN FieldPayload ELSE DataPayload

LEMMA PayloadFacts ==
    /\ \A t : PayloadOf(t) \in Nat
    /\ \A object : hashed_payload_size(object) = object.size - PayloadOf(object.type)
    /\ \A object : object.size \in Nat => hashed_payload_size(object) \in Int
<1>1. \A t : PayloadOf(t) \in Nat
  BY VerifyAssumption DEF PayloadOf
<1>2. \A object : hashed_payload_size(object) = object.size - PayloadOf(object.type)
  BY DEF hashed_payload_size, PayloadOf
<1> QED
  BY <1>1, <1>2

\* Buffers have sizes after they have grown, and statistics stay integers.
LEMMA ClosureTypes ==
    ASSUME TypeOK, NEW j \in Journal, NEW v \in Closure, NEW size \in Nat,
           v.holds \in Offset
    PROVE  /\ verify_hashed_object(j, v, size) \in Closure
           /\ verify_hashed_object(j, v, size).holds = v.holds
           /\ verify_hashed_object(j, v, size).cap = v.cap
<1>1. at[j][v.holds].size \in Nat /\ at[j][v.holds].type \in Type
  BY ObjectTypes
<1>2. decompress(v, size) \in Closure /\ decompress(v, size).holds = v.holds
      /\ decompress(v, size).cap = v.cap
  BY DEF decompress, Grown, Closure
<1> DEFINE d == decompress(v, size)
           object == at[j][v.holds]
           n == [d.n EXCEPT ![object.type] = d.n[object.type] + 1]
           bytes == [d.bytes EXCEPT ![object.type] =
                        d.bytes[object.type] + hashed_payload_size(object)]
<1>3. n \in [Type -> Int] /\ bytes \in [Type -> Int]
  <2>1. d.n \in [Type -> Int] /\ d.bytes \in [Type -> Int] /\ hashed_payload_size(object) \in Int
    BY <1>1, <1>2, PayloadFacts DEF Closure
  <2> HIDE DEF d
  <2> QED
    BY <1>1, <2>1
<1>4. verify_hashed_object(j, v, size) = [[d EXCEPT !.n = n] EXCEPT !.bytes = bytes]
  BY <1>2 DEF verify_hashed_object, Closure
<1> HIDE DEF d, n, bytes
<1> QED
  BY <1>2, <1>3, <1>4 DEF Closure, d

\* When the closure of j resumes its iteration, it is not busy any more.
LEMMA ResumeBusy ==
    ASSUME JInv, cmd' = cmd, NEW j \in Journal, Moves(j),
           NEW w \in Closure, w.ph = "iter", vf' = [vf EXCEPT ![j] = w]
    PROVE  vf' \in [Journal -> Closure] /\ Busy'
BY DEF JInv, Busy, Moves

\* While the closure of j is busy, all others stay as they were.
LEMMA StayBusy ==
    ASSUME JInv, cmd = "verify", cmd' = cmd, NEW j \in Journal, UNCHANGED vars,
           NEW w \in Closure, vf' = [vf EXCEPT ![j] = w],
           it[j].st = "reading", w.cap >= at[j][it[j].offset].size,
           w.ph # "object" => w.holds = it[j].offset
    PROVE  vf' \in [Journal -> Closure] /\ Busy'
BY DEF JInv, Busy, vars

\* The steps of the verifying closures.
LEMMA VerifyBusy ==
    ASSUME JInv, cmd = "verify", cmd' = cmd, NEW j \in Journal, VerifyCallback(j),
           Moves(j)
    PROVE  vf' \in [Journal -> Closure] /\ Busy'
<1>1. /\ vf[j] \in Closure /\ vf \in [Journal -> Closure] /\ TypeOK
      /\ it[j].offset \in Offset /\ it[j].offset \in Nat
      /\ at[j][it[j].offset].size \in Nat
  <2>1. TypeOK /\ it[j].offset \in Offset /\ vf \in [Journal -> Closure]
    BY DEF JInv, IInv, TypeOK
  <2> QED
    BY <2>1, OffsetFacts, ObjectTypes
<1>2. \A size \in Inflated \cup {0} : size \in Nat
  BY VerifyAssumption
<1>3. ASSUME NEW w \in Closure, w.ph = "iter", Resume(j, w)
      PROVE  vf' \in [Journal -> Closure] /\ Busy'
  <2>1. Freed(w) \in Closure /\ Freed(w).ph = "iter"
    BY <1>3, FreedType
  <2>2. PICK u \in {w, Freed(w)} : vf' = [vf EXCEPT ![j] = u]
    BY <1>3 DEF Resume
  <2> QED
    BY <1>3, <2>1, <2>2, ResumeBusy
<1>4. CASE journal_get_header(j) /\ UNCHANGED vf
  <2>1. it[j].st = "idle"
    BY <1>4 DEF journal_get_header
  <2>2. vf[j].ph = "iter" /\ vf' = [vf EXCEPT ![j] = vf[j]]
    BY <1>1, <1>4, <2>1 DEF JInv, Busy
  <2> QED
    BY <1>1, <2>2, ResumeBusy
<1>5. CASE VerifyGotHeader(j)
  <2>1. it[j].st = "header"
    BY <1>5 DEF VerifyGotHeader, got_header
  <2>2. vf[j].ph = "iter"
    BY <2>1 DEF JInv, Busy
  <2>3. Freed(vf[j]) \in Closure /\ Freed(vf[j]).ph = "iter"
    BY <1>1, <2>2, FreedType
  <2>4. PICK u \in {vf[j], Freed(vf[j])} : vf' = [vf EXCEPT ![j] = u]
    BY <1>5 DEF VerifyGotHeader
  <2> QED
    BY <1>1, <2>2, <2>3, <2>4, ResumeBusy
<1>6. CASE verify_object(j)
  <2>1. it[j].st = "reading" /\ vf[j].ph = "iter"
    BY <1>6 DEF verify_object
  <2> DEFINE object == at[j][it[j].offset]
  <2>2. CASE IsHashed(object.type)
    <3> DEFINE w == Loading(vf[j], object.size)
    <3>1. w \in Closure /\ w.ph = "object" /\ w.cap >= object.size
      BY <1>1, LoadingType
    <3>2. UNCHANGED vars /\ vf' = [vf EXCEPT ![j] = w]
      BY <1>6, <2>2 DEF verify_object
    <3> HIDE DEF w
    <3> QED
      BY <2>1, <3>1, <3>2, StayBusy
  <2>3. CASE ~ IsHashed(object.type)
    <3>1. Resume(j, vf[j])
      BY <1>6, <2>3 DEF verify_object
    <3> QED
      BY <1>1, <1>3, <2>1, <3>1
  <2> QED
    BY <2>2, <2>3
<1>7. CASE per_hashed_object(j)
  <2> DEFINE loaded == [vf[j] EXCEPT !.holds = it[j].offset]
  <2>1. /\ vf[j].ph = "object" /\ it[j].st = "reading"
        /\ vf[j].cap >= at[j][it[j].offset].size
    BY <1>7 DEF per_hashed_object, JInv, Busy
  <2>2. /\ loaded \in Closure /\ loaded.holds = it[j].offset /\ loaded.cap = vf[j].cap
        /\ [loaded EXCEPT !.ph = "worker"] \in Closure
        /\ [loaded EXCEPT !.ph = "worker"].holds = it[j].offset
        /\ [loaded EXCEPT !.ph = "worker"].cap = vf[j].cap
    BY <1>1 DEF Closure
  <2>3. \/ \E size \in Inflated \cup {0} :
              Resume(j, [verify_hashed_object(j, loaded, size) EXCEPT !.ph = "iter"])
        \/ Handoff(j, loaded)
    BY <1>7 DEF per_hashed_object
  <2> HIDE DEF loaded
  <2>4. ASSUME NEW size \in Inflated \cup {0},
               Resume(j, [verify_hashed_object(j, loaded, size) EXCEPT !.ph = "iter"])
        PROVE  vf' \in [Journal -> Closure] /\ Busy'
    <3>1. verify_hashed_object(j, loaded, size) \in Closure
      BY <1>1, <1>2, <2>2, ClosureTypes
    <3>2. /\ [verify_hashed_object(j, loaded, size) EXCEPT !.ph = "iter"] \in Closure
          /\ [verify_hashed_object(j, loaded, size) EXCEPT !.ph = "iter"].ph = "iter"
      BY <3>1 DEF Closure
    <3> QED
      BY <1>3, <2>4, <3>2
  <2>5. CASE Handoff(j, loaded)
    <3>1. vf' = [vf EXCEPT ![j] = [loaded EXCEPT !.ph = "worker"]] /\ UNCHANGED vars
      BY <2>5 DEF Handoff
    <3> QED
      BY <2>1, <2>2, <3>1, StayBusy
  <2> QED
    BY <2>3, <2>4, <2>5
<1>8. CASE WorkerVerifies(j)
  <2>1. PICK size \in Inflated \cup {0} :
           vf' = [vf EXCEPT ![j] = [verify_hashed_object(j, vf[j], size) EXCEPT !.ph = "verified"]]
    BY <1>8 DEF WorkerVerifies
  <2>2. /\ it[j].st = "reading" /\ vf[j].cap >= at[j][it[j].offset].size
        /\ vf[j].holds = it[j].offset
    BY <1>8 DEF WorkerVerifies, JInv, Busy
  <2> DEFINE v == verify_hashed_object(j, vf[j], size)
  <2>3. v \in Closure /\ v.holds = it[j].offset /\ v.cap = vf[j].cap
    BY <1>1, <1>2, <2>2, ClosureTypes
  <2> HIDE DEF v
  <2>4. /\ [v EXCEPT !.ph = "verified"] \in Closure
        /\ [v EXCEPT !.ph = "verified"].holds = it[j].offset
        /\ [v EXCEPT !.ph = "verified"].cap = vf[j].cap
    BY <2>3 DEF Closure
  <2>5. UNCHANGED vars
    BY <1>8 DEF WorkerVerifies
  <2> QED
    BY <2>1, <2>2, <2>4, <2>5, StayBusy DEF v
<1>9. CASE WorkerDone(j)
  <2>1. Resume(j, [vf[j] EXCEPT !.ph = "iter"])
    BY <1>9 DEF WorkerDone
  <2>2. /\ [vf[j] EXCEPT !.ph = "iter"] \in Closure
        /\ [vf[j] EXCEPT !.ph = "iter"].ph = "iter"
    BY <1>1, <2>1 DEF Closure
  <2> QED
    BY <1>3, <2>1, <2>2
<1>10. CASE VerifyFails(j)
  BY <1>10 DEF VerifyFails, ReadFails, JInv, Busy
<1> QED
  BY <1>4, <1>5, <1>6, <1>7, <1>8, <1>9, <1>10 DEF VerifyCallback

-----------------------------------------------------------------------------
\* What a callback of j does to its chain: it fails the run, or an operation
\* of j has completed and the next is queued unless the journal is through, or
\* it is the worker and its job is not done with.
Chains(j) ==
    \/ err' = TRUE /\ queued' \in [Journal -> Int]
    \/ /\ it[j].st # "done" /\ err' = err
       /\ queued' = [queued EXCEPT ![j] = queued[j] - 1 + (IF it'[j].st = "done" THEN 0 ELSE 1)]
    \/ UNCHANGED <<it, err, queued>>

\* The ways in which the callbacks of all commands go on.
LEMMA GoesOn ==
    ASSUME TypeOK, queued \in [Journal -> Int], NEW j \in Journal,
           \/ journal_get_header(j) /\ Dispatch(j, 1)
           \/ (got_header(j) \/ got_iter_object_header(j)) /\ Dispatch(j, NextRead(j))
           \/ err' = TRUE /\ Dispatch(j, 0)
           \/ UNCHANGED vars /\ it[j].st = "reading" /\ Dispatch(j, 1)
           \/ UNCHANGED vars /\ UNCHANGED queued
    PROVE  Chains(j)
<1>1. CASE journal_get_header(j) /\ Dispatch(j, 1)
  BY <1>1 DEF journal_get_header, Dispatch, Chains, TypeOK
<1>2. CASE (got_header(j) \/ got_iter_object_header(j)) /\ Dispatch(j, NextRead(j))
  <2>1. it'[j].st \in {"reading", "done"} /\ it[j].st # "done" /\ err' = err
    BY <1>2 DEF got_header, got_iter_object_header, Continue, TypeOK
  <2>2. NextRead(j) = IF it'[j].st = "done" THEN 0 ELSE 1
    BY <2>1 DEF NextRead
  <2> QED
    BY <1>2, <2>1, <2>2 DEF Dispatch, Chains
<1>3. CASE err' = TRUE /\ Dispatch(j, 0)
  <2>1. queued' = [queued EXCEPT ![j] = queued[j] - 1 + 0] /\ queued[j] \in Int
    BY <1>3 DEF Dispatch
  <2>2. queued' \in [Journal -> Int]
    BY <2>1
  <2> QED
    BY <1>3, <2>2 DEF Chains
<1>4. CASE UNCHANGED vars /\ it[j].st = "reading" /\ Dispatch(j, 1)
  BY <1>4 DEF vars, Dispatch, Chains
<1>5. CASE UNCHANGED vars /\ UNCHANGED queued
  BY <1>5 DEF vars, Chains
<1> QED
  BY <1>1, <1>2, <1>3, <1>4, <1>5

\* No callback of any command drops its chain.
LEMMA CallbackChains ==
    ASSUME JInv, NEW j \in Journal, Callback(j)
    PROVE  Chains(j)
<1>1. TypeOK /\ queued \in [Journal -> Int]
  BY DEF JInv, IInv, Chained
<1>2. CASE UsageCallback(j)
  BY <1>1, <1>2, GoesOn DEF UsageCallback, per_journal, FstatFails, UsageGotHeader,
                            UsageGotObject, ReadFails
<1>3. CASE LayoutCallback(j)
  BY <1>1, <1>3, GoesOn DEF LayoutCallback, layout_journal, LayoutGotHeader,
                            LayoutGotObject, LayoutFails
<1>4. CASE ArraysCallback(j)
  BY <1>1, <1>4, GoesOn DEF ArraysCallback, ArraysGotHeader, arrays_object,
                            ArraysGotPayload, ReadFails
<1>5. CASE cmd = "verify" /\ VerifyCallback(j)
  <2>1. vf[j].ph = "object" => it[j].st = "reading"
    BY DEF JInv, Busy
  <2>2. \A v : Resume(j, v) => Chains(j)
    BY <1>1, GoesOn DEF Resume
  <2>3. \A v : it[j].st = "reading" /\ Handoff(j, v) => Chains(j)
    BY <1>1, GoesOn DEF Handoff
  <2>4. CASE verify_object(j) \/ per_hashed_object(j) \/ WorkerDone(j)
    BY <1>1, <2>1, <2>2, <2>3, <2>4, GoesOn DEF verify_object, per_hashed_object, WorkerDone
  <2>5. CASE WorkerVerifies(j) \/ VerifyFails(j) \/ VerifyGotHeader(j)
    BY <1>1, <2>5, GoesOn DEF WorkerVerifies, VerifyFails, ReadFails, VerifyGotHeader
  <2>6. CASE journal_get_header(j) /\ Dispatch(j, 1)
    BY <1>1, <2>6, GoesOn
  <2> QED
    BY <1>5, <2>4, <2>5, <2>6 DEF VerifyCallback
<1> QED
  BY <1>2, <1>3, <1>4, <1>5 DEF Callback

\* The chains of the others are as they were.
LEMMA ChainsKeep ==
    ASSUME Chained, cmd' = cmd, cmd # "none", NEW j \in Journal, Moves(j), Chains(j)
    PROVE  Chained'
<1>1. CASE err' = TRUE /\ queued' \in [Journal -> Int]
  BY <1>1 DEF Chained
<1>2. CASE UNCHANGED <<it, err, queued>>
  BY <1>2 DEF Chained
<1>3. CASE /\ it[j].st # "done" /\ err' = err
           /\ queued' = [queued EXCEPT ![j] =
                            queued[j] - 1 + (IF it'[j].st = "done" THEN 0 ELSE 1)]
  <2>1. queued \in [Journal -> Int] /\ queued' \in [Journal -> Int]
    BY <1>3 DEF Chained
  <2>2. ASSUME ~ err, NEW i \in Journal
        PROVE  queued'[i] = IF it'[i].st = "done" THEN 0 ELSE 1
    <3>1. queued[i] = IF it[i].st = "done" THEN 0 ELSE 1
      BY <2>2 DEF Chained
    <3>2. CASE i = j
      BY <1>3, <2>1, <3>1, <3>2
    <3>3. CASE i # j
      BY <1>3, <2>1, <3>1, <3>3 DEF Moves
    <3> QED
      BY <3>2, <3>3
  <2> QED
    BY <1>3, <2>1, <2>2 DEF Chained
<1> QED
  BY <1>1, <1>2, <1>3 DEF Chains

\* A callback of any command keeps the invariant: those of other commands
\* find no closure busy.
LEMMA CallbackJInv ==
    ASSUME JInv, NEW j \in Journal, Callback(j)
    PROVE  JInv'
<1>1. IInv' /\ Moves(j) /\ Chains(j)
  BY CallbackMoves, CallbackChains DEF JInv
<1>2. status' = "running" /\ cmd' = cmd
  BY DEF Callback
<1>3. Finished' /\ Chained'
  <2>1. cmd # "none"
    BY DEF Callback
  <2> QED
    BY <1>1, <1>2, <2>1, ChainsKeep DEF Finished, JInv
<1>4. vf' \in [Journal -> Closure] /\ Busy'
  <2>1. CASE cmd = "verify"
    <3>1. VerifyCallback(j)
      BY <2>1 DEF Callback
    <3> QED
      BY <1>1, <1>2, <2>1, <3>1, VerifyBusy
  <2>2. CASE cmd # "verify"
    <3>1. vf' = vf
      BY <2>2 DEF Callback
    <3> QED
      BY <1>2, <2>2, <3>1 DEF JInv, Busy
  <2> QED
    BY <2>1, <2>2
<1> QED
  BY <1>1, <1>3, <1>4 DEF JInv

\* The initial state satisfies the invariant.
LEMMA InitJInv == JioInit => JInv
<1> SUFFICES ASSUME JioInit PROVE JInv
  OBVIOUS
<1>1. IInv
  BY InitIInv DEF JioInit
<1>2. vf \in [Journal -> Closure] /\ \A j \in Journal : vf[j].ph = "iter"
  BY DEF JioInit, VerifyInit, Closure
<1> QED
  BY <1>1, <1>2 DEF JioInit, JInv, Busy, Chained, RingInit, Init, Finished

\* Every step preserves it.
LEMMA NextJInv == JInv /\ [JioNext]_allVars => JInv'
<1> SUFFICES ASSUME JInv, [JioNext]_allVars PROVE JInv'
  OBVIOUS
<1>1. CASE UNCHANGED allVars
  <2>1. UNCHANGED <<vars, queued>> /\ vf' = vf /\ cmd' = cmd /\ status' = status
    BY <1>1 DEF allVars
  <2> QED
    BY <2>1, StutterIInv DEF JInv, vars, Busy, Chained, Finished
<1>2. CASE main
  <2>1. /\ cmd = "none" /\ UNCHANGED vars /\ vf' = vf
        /\ status' = "running" \/ cmd' = "none"
        /\ queued' = [j \in Journal |-> 1] \/ (queued' = queued /\ cmd' = "none")
    BY <1>2 DEF main
  <2>2. \A j \in Journal : vf[j].ph = "iter" /\ it[j].st = "idle"
    BY <2>1 DEF JInv, Busy, Chained
  <2>3. Chained'
    BY <2>1, <2>2 DEF JInv, vars, Chained
  <2> QED
    BY <2>1, <2>2, <2>3, StutterIInv DEF JInv, vars, Busy, Finished
<1>3. CASE main_returns
  <2>1. /\ UNCHANGED vars /\ vf' = vf /\ cmd' = cmd /\ queued' = queued /\ cmd # "none"
        /\ status' = "success" => ~ err /\ NothingOutstanding
    BY <1>3 DEF main_returns
  <2>2. status' = "success" => \A j \in Journal : it[j].st = "done"
    BY <2>1 DEF JInv, Chained, NothingOutstanding
  <2> QED
    BY <2>1, <2>2, StutterIInv DEF JInv, vars, Busy, Chained, Finished
<1>4. CASE \E j \in Journal : Callback(j)
  BY <1>4, CallbackJInv
<1>5. CASE Environment
  <2>1. vf' = vf /\ cmd' = cmd /\ status' = "running" /\ queued' = queued /\ err' = err
    BY <1>5 DEF Environment, Appends, JournaldAppend, Lose
  <2>2. /\ IInv' /\ it' = it
        /\ \A j \in Journal : it[j].st = "reading" =>
              at'[j][it[j].offset] = at[j][it[j].offset]
    BY <1>5, EnvironmentKeeps DEF JInv
  <2> QED
    BY <2>1, <2>2 DEF JInv, Busy, Chained, Finished
<1> QED
  BY <1>1, <1>2, <1>3, <1>4, <1>5 DEF JioNext

\* The invariant holds of every behavior of jio.
LEMMA JioInvariant == JioSpec => []JInv
BY InitJInv, NextJInv, PTL DEF JioSpec

-----------------------------------------------------------------------------
\* While per_object() of verify-hashed-objects.c waits for an object or for the
\* worker, the object fits into the buffer it is loaded into, and the iteration
\* and the buffer stay on it.
THEOREM WorkerKeepsObject == JioSpec => [](WorkerOwnsObject /\ LoadsFit)
<1>1. JInv => WorkerOwnsObject /\ LoadsFit
  BY DEF JInv, Busy, WorkerOwnsObject, LoadsFit
<1> QED
  BY <1>1, JioInvariant, PTL

\* main() of jio.c does not exit with success after a command unless the
\* closure ran for the end of every journal.
THEOREM SuccessMeansComplete == JioSpec => []SuccessIsComplete
<1>1. JInv => SuccessIsComplete
  <2> SUFFICES ASSUME JInv, status = "success", cmd # "none", NEW j \in Journal
               PROVE  it[j].st = "done" /\ seen[j][0] = 1
    BY DEF SuccessIsComplete
  <2>1. it[j].st = "done"
    BY DEF JInv, Finished
  <2> QED
    BY <2>1, OffsetFacts DEF JInv, IInv, IterationComplete
<1> QED
  BY <1>1, JioInvariant, PTL

\* Every step of jio is one of the journals' iterations, or leaves them and
\* what they iterate as they are.
LEMMA JioSteps ==
    ASSUME [JioNext]_allVars
    PROVE  [Next]_vars \/ UNCHANGED <<starts, at, it, seen>>
<1>1. ASSUME NEW j \in Journal, Callback(j)
      PROVE  [Next]_vars \/ UNCHANGED <<starts, at, it, seen>>
  <2>1. CASE UNCHANGED <<starts, at, it, seen>>
    BY <2>1
  <2>2. CASE \/ journal_get_header(j) \/ ReadFails(j)
             \/ got_header(j) \/ got_iter_object_header(j)
    BY <2>2 DEF Next
  <2>3. CASE UsageCallback(j)
    BY <2>1, <2>2, <2>3 DEF UsageCallback, per_journal, FstatFails, UsageGotHeader,
                            UsageGotObject
  <2>4. CASE LayoutCallback(j)
    BY <2>1, <2>2, <2>4 DEF LayoutCallback, layout_journal, LayoutGotHeader,
                            LayoutGotObject, LayoutFails
  <2>5. CASE ArraysCallback(j)
    BY <2>1, <2>2, <2>5 DEF ArraysCallback, ArraysGotHeader, arrays_object,
                            ArraysGotPayload, vars
  <2>6. CASE VerifyCallback(j)
    BY <2>1, <2>2, <2>6 DEF VerifyCallback, VerifyGotHeader, verify_object,
                            per_hashed_object, WorkerVerifies, WorkerDone, VerifyFails,
                            Resume, Handoff, vars
  <2> QED
    BY <1>1, <2>3, <2>4, <2>5, <2>6 DEF Callback
<1>2. CASE Environment
  BY <1>2 DEF Environment, Next
<1>3. CASE main \/ main_returns \/ UNCHANGED allVars
  BY <1>3 DEF main, main_returns, allVars, vars
<1> QED
  BY <1>1, <1>2, <1>3 DEF JioNext

\* Whichever command runs, its closures and the worker threads only decide
\* when an iteration moves on: what it delivers, and in which order, is as
\* Iterations promises for each journal.
THEOREM JioImplementsIterations == JioSpec => RefinesIterations
<1>1. JInv => IInv
  BY DEF JInv
<1>2. JioInit => Its!Init
  BY InitMaps DEF JioInit
<1>3. IInv /\ IInv' /\ [JioNext]_allVars => [Its!Next]_(Its!vars)
  <2> SUFFICES ASSUME IInv, IInv', [JioNext]_allVars
               PROVE  [Its!Next]_(Its!vars)
    OBVIOUS
  <2>1. CASE [Next]_vars
    BY <2>1, StepsAreIterationSteps
  <2>2. CASE UNCHANGED <<starts, at, it, seen>>
    <3>1. AllStay
      BY <2>2, StandsStill DEF AllStay
    <3> QED
      BY <3>1, StayStutters
  <2> QED
    BY <2>1, <2>2, JioSteps
<1>4. JioSpec => Its!Init /\ [][Its!Next]_(Its!vars)
  BY <1>1, <1>2, <1>3, JioInvariant, PTL DEF JioSpec
<1> QED
  BY <1>4 DEF RefinesIterations, Its!Spec

-----------------------------------------------------------------------------
\* The objects that the closure of j has run for.
Passed(j) == {o \in Offset : o # 0 /\ seen[j][o] = 1}

\* The objects passed are objects to be delivered, those before *iter_offset
\* and in the end all of them.
LEMMA PassedFacts ==
    ASSUME IInv, NEW j \in Journal
    PROVE  /\ Passed(j) \subseteq Offset /\ IsFiniteSet(Passed(j))
           /\ it[j].st \in {"idle", "header"} => Passed(j) = {}
           /\ it[j].st = "reading" => /\ it[j].offset \in Expected(j)
                                      /\ Passed(j) = {o \in Expected(j) : o < it[j].offset}
           /\ it[j].st = "done" => Passed(j) = Expected(j)
<1>1. IsFiniteSet(Passed(j)) /\ Passed(j) \subseteq Offset
  <2>1. IsFiniteSet(0 .. MaxEnd)
    BY FS_Interval, IterAssumption
  <2> QED
    BY <2>1, FS_Subset DEF Passed, Offset
<1>2. Expected(j) \subseteq Offset /\ 0 \notin Expected(j)
  BY OffsetFacts DEF IInv, TypeOK, Layout, Expected
<1>3. it[j].st \in {"idle", "header"} => Passed(j) = {}
  BY <1>1 DEF IInv, Progress, NotSeen, Passed
<1>4. it[j].st = "reading" => /\ it[j].offset \in Expected(j)
                              /\ Passed(j) = {o \in Expected(j) : o < it[j].offset}
  BY <1>1, <1>2 DEF IInv, Progress, Passed
<1>5. it[j].st = "done" => Passed(j) = Expected(j)
  <2> SUFFICES ASSUME it[j].st = "done" PROVE Passed(j) = Expected(j)
    OBVIOUS
  <2>1. \A o \in Offset : seen[j][o] = IF o = 0 \/ o \in Expected(j) THEN 1 ELSE 0
    BY DEF IInv, IterationComplete
  <2> QED
    BY <1>2, <2>1 DEF Passed
<1> QED
  BY <1>1, <1>3, <1>4, <1>5

\* The same holds of the next state.
AllPassed == \A j \in Journal : it[j].st = "done" => Passed(j) = Expected(j)

LEMMA PassedAll == (IInv => AllPassed) /\ (IInv' => AllPassed')
<1>1. IInv => AllPassed
  BY PassedFacts DEF AllPassed
<1> QED
  BY <1>1, PTL

\* When the header has arrived, nothing has been passed yet.
LEMMA HeaderPasses ==
    ASSUME IInv, NEW j \in Journal, got_header(j)
    PROVE  /\ it[j].st = "header" /\ it'[j].st \in {"reading", "done"}
           /\ Passed(j) = {} /\ Passed(j)' = {}
           /\ \A i \in Journal : i # j => Passed(i)' = Passed(i)
           /\ UNCHANGED <<starts, at>>
<1>1. /\ it[j].st = "header" /\ UNCHANGED <<starts, at>>
      /\ it'[j].st \in {"reading", "done"}
      /\ \/ seen' = [seen EXCEPT ![j] = seen[j]]
         \/ seen' = [seen EXCEPT ![j] = Bump(seen[j], 0)]
  BY DEF got_header, Continue, IInv, TypeOK
<1>2. /\ seen \in [Journal -> [Offset -> 0 .. 2]] /\ 0 \in Offset
      /\ Bump(seen[j], 0) \in [Offset -> 0 .. 2]
      /\ \A o \in Offset : o # 0 => Bump(seen[j], 0)[o] = seen[j][o]
  BY OffsetFacts DEF IInv, TypeOK, Bump
<1>3. \A i \in Journal : Passed(i)' = Passed(i)
  BY <1>1, <1>2 DEF Passed
<1>4. Passed(j) = {}
  BY <1>1, PassedFacts
<1> QED
  BY <1>1, <1>3, <1>4

\* When an object has arrived, it is the one that is passed next, behind all
\* that were passed before.
LEMMA ObjectPasses ==
    ASSUME IInv, NEW j \in Journal, got_iter_object_header(j)
    PROVE  /\ it[j].st = "reading" /\ it'[j].st \in {"reading", "done"}
           /\ it[j].offset \in Offset /\ it[j].offset \notin Passed(j)
           /\ it'[j].object = at[j][it[j].offset]
           /\ Passed(j)' = Passed(j) \cup {it[j].offset}
           /\ \A p \in Passed(j) : p < it[j].offset
           /\ \A i \in Journal : i # j => Passed(i)' = Passed(i)
           /\ UNCHANGED <<starts, at>>
<1> DEFINE o == it[j].offset
<1>1. /\ it[j].st = "reading" /\ UNCHANGED <<starts, at>>
      /\ it'[j].st \in {"reading", "done"} /\ it'[j].object = at[j][o]
      /\ \/ seen' = [seen EXCEPT ![j] = Bump(seen[j], o)]
         \/ seen' = [seen EXCEPT ![j] = Bump(Bump(seen[j], o), 0)]
  BY DEF got_iter_object_header, Continue, IInv, TypeOK
<1>2. /\ o \in Offset /\ o # 0 /\ o \notin Passed(j) /\ seen[j][o] = 0
      /\ \A p \in Passed(j) : p < o
  <2>1. o \in Expected(j) /\ Passed(j) = {p \in Expected(j) : p < o}
    BY <1>1, PassedFacts
  <2>2. \A p \in Expected(j) : p \in Offset /\ p # 0
    BY OffsetFacts DEF IInv, TypeOK, Layout, Expected
  <2>3. seen[j][o] = IF o \in Expected(j) /\ o < o THEN 1 ELSE 0
    BY <1>1, <2>1, <2>2 DEF IInv, Progress
  <2>4. ~ (o < o)
    BY <2>1, <2>2, OffsetFacts
  <2> QED
    BY <2>1, <2>2, <2>3, <2>4
<1>3. /\ seen \in [Journal -> [Offset -> 0 .. 2]] /\ 0 \in Offset
      /\ Bump(seen[j], o) \in [Offset -> 0 .. 2]
      /\ Bump(Bump(seen[j], o), 0) \in [Offset -> 0 .. 2]
      /\ \A p \in Offset : p # 0 =>
            /\ Bump(seen[j], o)[p] = IF p = o THEN 1 ELSE seen[j][p]
            /\ Bump(Bump(seen[j], o), 0)[p] = IF p = o THEN 1 ELSE seen[j][p]
  <2>1. seen \in [Journal -> [Offset -> 0 .. 2]] /\ 0 \in Offset
    BY OffsetFacts DEF IInv, TypeOK
  <2>2. \A counts \in [Offset -> 0 .. 2], p \in Offset :
           /\ Bump(counts, p) \in [Offset -> 0 .. 2]
           /\ \A q \in Offset : Bump(counts, p)[q] =
                 IF q = p /\ counts[q] < 2 THEN counts[q] + 1 ELSE counts[q]
    BY DEF Bump
  <2> HIDE DEF o
  <2>3. /\ Bump(seen[j], o) \in [Offset -> 0 .. 2]
        /\ \A p \in Offset : Bump(seen[j], o)[p] = IF p = o THEN 1 ELSE seen[j][p]
    BY <1>2, <2>1, <2>2
  <2>4. /\ Bump(Bump(seen[j], o), 0) \in [Offset -> 0 .. 2]
        /\ \A p \in Offset : p # 0 => Bump(Bump(seen[j], o), 0)[p] = Bump(seen[j], o)[p]
    <3>1. \A p \in Offset \ {0} : Bump(Bump(seen[j], o), 0)[p] = Bump(seen[j], o)[p]
      BY <2>1, <2>2, <2>3
    <3> QED
      BY <2>1, <2>2, <2>3, <3>1
  <2> QED
    BY <2>1, <2>3, <2>4
<1> HIDE DEF o
<1>4. Passed(j)' = Passed(j) \cup {o}
  BY <1>1, <1>2, <1>3 DEF Passed
<1>5. \A i \in Journal : i # j => Passed(i)' = Passed(i)
  BY <1>1, <1>3 DEF Passed
<1> QED
  BY <1>1, <1>2, <1>4, <1>5 DEF o

\* Whoever does not move an iteration does not change what it has passed, nor
\* the objects that it has.
LEMMA OthersPass ==
    ASSUME IInv, NEW j \in Journal, seen' = seen, at' = at
    PROVE  Passed(j)' = Passed(j) /\ \A o \in Passed(j) : at'[j][o] = at[j][o]
BY DEF Passed

\* journald and the machine do neither.
LEMMA EnvironmentPasses ==
    ASSUME IInv, Environment, NEW j \in Journal
    PROVE  /\ Passed(j)' = Passed(j) /\ it' = it
           /\ \A o \in Passed(j) : at'[j][o] = at[j][o]
<1>1. Passed(j) \subseteq starts[j] /\ (it[j].st = "idle" => Passed(j) = {})
  BY PassedFacts DEF Expected, IInv, TypeOK
<1>2. CASE Appends
  <2>1. PICK i \in Journal, t \in Type, s \in Size :
           JournaldAppend(i, [type |-> t, size |-> s])
    BY <1>2 DEF Appends
  <2>2. it' = it /\ seen' = seen
        /\ at' = [at EXCEPT ![i] = [@ EXCEPT ![end[i]] = [type |-> t, size |-> s]]]
    BY <2>1 DEF JournaldAppend
  <2>3. \A o \in Passed(j) : o \in Offset /\ o # end[j]
    <3>1. ASSUME NEW o \in Passed(j) PROVE o < end[j] /\ o \in Nat
      BY <1>1, PassedFacts, OffsetFacts DEF IInv, Layout
    <3> QED
      BY <3>1, PassedFacts
  <2> QED
    BY <2>2, <2>3 DEF IInv, TypeOK, Passed
<1>3. CASE \E i \in Journal, o \in Offset : Lose(i, o)
  <2>1. PICK i \in Journal, o \in Offset : Lose(i, o)
    BY <1>3
  <2>2. it' = it /\ seen' = seen /\ it[i].st = "idle"
        /\ at' = [at EXCEPT ![i] = [@ EXCEPT ![o] = Blank]]
    BY <2>1 DEF Lose
  <2> QED
    BY <1>1, <2>2 DEF IInv, TypeOK, Passed
<1> QED
  BY <1>2, <1>3 DEF Environment

-----------------------------------------------------------------------------
\* The objects of a set to which the type t belongs.
OfType(j, objects, t) == {o \in objects : at[j][o].type = t}

Sizes(j) == [o \in Offset |-> at[j][o].size]

Usage == [count : [Type -> Int], use : [Type -> Int], use_total : Int]

\* What the end of a journal adds to its usage.
Again(j, t) == it[j].st = "done" /\ LastObject(j).type = t

\* The usage of a journal is that of the objects passed.
UsageOf(j, t) ==
    /\ usage[j].count[t] = Cardinality(OfType(j, Passed(j), t))
                           + (IF Again(j, t) THEN 1 ELSE 0)
    /\ usage[j].use[t] = SumFunctionOnSet(Sizes(j), OfType(j, Passed(j), t))
                         + (IF Again(j, t) THEN LastObject(j).size ELSE 0)

UsageInv ==
    /\ usage \in [Journal -> Usage] /\ total \in Usage
    /\ TotalIsSum
    /\ cmd \in {"none", "usage"} =>
          \A j \in Journal : it[j].st \in {"idle", "header"} => it[j].object = Blank
    /\ cmd = "none" => \A j \in Journal : it[j].st = "idle" /\ usage[j] = NoUsage
    /\ cmd = "usage" => \A j \in Journal, t \in Type : UsageOf(j, t)

\* A set of objects of one type is finite and has a size in bytes.
LEMMA OfTypeFacts ==
    ASSUME IInv, NEW j \in Journal, NEW t, NEW S \in SUBSET Offset, IsFiniteSet(S)
    PROVE  /\ IsFiniteSet(OfType(j, S, t)) /\ Cardinality(OfType(j, S, t)) \in Nat
           /\ \A o \in Offset : Sizes(j)[o] = at[j][o].size /\ Sizes(j)[o] \in Nat
           /\ SumFunctionOnSet(Sizes(j), OfType(j, S, t)) \in Nat
<1>1. IsFiniteSet(OfType(j, S, t)) /\ OfType(j, S, t) \subseteq Offset
  BY FS_Subset DEF OfType
<1>2. \A o \in Offset : Sizes(j)[o] = at[j][o].size /\ Sizes(j)[o] \in Nat
  BY ObjectTypes DEF Sizes, IInv
<1> QED
  BY <1>1, <1>2, FS_CardinalityType, SumType

\* One more object is one more of its type, and so many more bytes.
LEMMA OfTypeGrows ==
    ASSUME IInv, NEW j \in Journal, NEW t, NEW S \in SUBSET Offset, IsFiniteSet(S),
           NEW o \in Offset, o \notin S
    PROVE  /\ Cardinality(OfType(j, S \cup {o}, t)) =
                 Cardinality(OfType(j, S, t)) + (IF at[j][o].type = t THEN 1 ELSE 0)
           /\ SumFunctionOnSet(Sizes(j), OfType(j, S \cup {o}, t)) =
                 SumFunctionOnSet(Sizes(j), OfType(j, S, t))
                 + (IF at[j][o].type = t THEN at[j][o].size ELSE 0)
<1>1. /\ IsFiniteSet(OfType(j, S, t)) /\ Cardinality(OfType(j, S, t)) \in Nat
      /\ SumFunctionOnSet(Sizes(j), OfType(j, S, t)) \in Nat
      /\ \A p \in Offset : Sizes(j)[p] = at[j][p].size /\ Sizes(j)[p] \in Int
  BY OfTypeFacts
<1>2. CASE at[j][o].type = t
  <2>1. OfType(j, S \cup {o}, t) = OfType(j, S, t) \cup {o} /\ o \notin OfType(j, S, t)
        /\ OfType(j, S, t) \subseteq Offset
    BY <1>2 DEF OfType
  <2>2. Cardinality(OfType(j, S, t) \cup {o}) = Cardinality(OfType(j, S, t)) + 1
    BY <1>1, <2>1, FS_AddElement
  <2>3. SumFunctionOnSet(Sizes(j), OfType(j, S, t) \cup {o}) =
           SumFunctionOnSet(Sizes(j), OfType(j, S, t)) + Sizes(j)[o]
    BY <1>1, <2>1, SumInsert
  <2> QED
    BY <1>1, <1>2, <2>1, <2>2, <2>3
<1>3. CASE at[j][o].type # t
  <2>1. OfType(j, S \cup {o}, t) = OfType(j, S, t)
    BY <1>3 DEF OfType
  <2> QED
    BY <1>1, <1>3, <2>1
<1> QED
  BY <1>2, <1>3

\* What happens to other objects does not matter.
LEMMA OfTypeStays ==
    ASSUME IInv, IInv', NEW j \in Journal, NEW t, NEW S \in SUBSET Offset, IsFiniteSet(S),
           \A o \in S : at'[j][o] = at[j][o]
    PROVE  /\ OfType(j, S, t)' = OfType(j, S, t)
           /\ SumFunctionOnSet(Sizes(j)', OfType(j, S, t)') =
                 SumFunctionOnSet(Sizes(j), OfType(j, S, t))
<1>1. OfType(j, S, t)' = OfType(j, S, t)
  BY DEF OfType
<1>2. PICK R : R = OfType(j, S, t)
  OBVIOUS
<1>3. IsFiniteSet(R) /\ R \subseteq S
  BY <1>2, OfTypeFacts DEF OfType
<1>4. PICK f, g : f = Sizes(j) /\ g = Sizes(j)'
  OBVIOUS
<1>5. \A o \in S : f[o] \in Int /\ g[o] \in Int /\ f[o] = g[o]
  <2>1. \A o \in Offset : f[o] = at[j][o].size /\ f[o] \in Int
    BY <1>4, ObjectTypes DEF Sizes, IInv
  <2>2. \A o \in Offset : g[o] = at'[j][o].size
    BY <1>4 DEF Sizes
  <2> QED
    BY <2>1, <2>2
<1>6. SumFunctionOnSet(f, R) = SumFunctionOnSet(g, R)
  BY <1>3, <1>5, SumCompare
<1> QED
  BY <1>1, <1>2, <1>4, <1>6

-----------------------------------------------------------------------------
\* Counting n objects with the same header.
LEMMA CountedFacts ==
    ASSUME NEW u \in Usage, NEW object, NEW n,
           object.type \in Type, object.size \in Nat, n \in {0, 1, 2}
    PROVE  /\ Counted(u, object, n) \in Usage
           /\ \A t \in Type :
                 /\ Counted(u, object, n).count[t] =
                       u.count[t] + (IF t = object.type THEN n ELSE 0)
                 /\ Counted(u, object, n).use[t] =
                       u.use[t] + (IF t = object.type THEN n * object.size ELSE 0)
           /\ Counted(u, object, n).use_total = u.use_total + n * object.size
<1> DEFINE count == [u.count EXCEPT ![object.type] = u.count[object.type] + n]
           use == [u.use EXCEPT ![object.type] = u.use[object.type] + n * object.size]
<1>1. /\ u.count \in [Type -> Int] /\ u.use \in [Type -> Int] /\ u.use_total \in Int
      /\ n * object.size \in Int
  BY DEF Usage
<1>2. PICK m \in Int : m = n * object.size
  BY <1>1
<1>3. /\ count \in [Type -> Int] /\ use \in [Type -> Int]
      /\ \A t \in Type :
            /\ count[t] = u.count[t] + (IF t = object.type THEN n ELSE 0)
            /\ use[t] = u.use[t] + (IF t = object.type THEN n * object.size ELSE 0)
  BY <1>1, <1>2
<1>4. Counted(u, object, n) =
         [count |-> count, use |-> use, use_total |-> u.use_total + n * object.size]
  BY DEF Counted
<1>5. u.use_total + n * object.size \in Int
  BY <1>1
<1> HIDE DEF count, use
<1> QED
  BY <1>3, <1>4, <1>5 DEF Usage

\* What is counted for a journal is counted for all.
LEMMA TotalGrows ==
    ASSUME usage \in [Journal -> Usage], total \in Usage, TotalIsSum, NEW j \in Journal,
           NEW object, NEW n, object.type \in Type, object.size \in Nat, n \in {0, 1, 2},
           per_data_object(j, object, n)
    PROVE  usage' \in [Journal -> Usage] /\ total' \in Usage /\ TotalIsSum'
<1>1. /\ usage' = [usage EXCEPT ![j] = Counted(usage[j], object, n)]
      /\ total' = Counted(total, object, n)
  BY DEF per_data_object
<1>2. usage[j] \in Usage
  OBVIOUS
<1>3. usage' \in [Journal -> Usage] /\ total' \in Usage
  BY <1>1, <1>2, CountedFacts
<1>4. ASSUME NEW t \in Type
      PROVE  /\ total'.count[t] = SumFunction([i \in Journal |-> usage'[i].count[t]])
             /\ total'.use[t] = SumFunction([i \in Journal |-> usage'[i].use[t]])
  <2> DEFINE m == IF t = object.type THEN n ELSE 0
             s == IF t = object.type THEN n * object.size ELSE 0
             f == [i \in Journal |-> usage[i].count[t]]
             g == [i \in Journal |-> usage'[i].count[t]]
             h == [i \in Journal |-> usage[i].use[t]]
             k == [i \in Journal |-> usage'[i].use[t]]
  <2>1. /\ total.count[t] = SumFunctionOnSet(f, Journal)
        /\ total.use[t] = SumFunctionOnSet(h, Journal)
    BY DEF TotalIsSum, SumFunction
  <2>2. /\ total'.count[t] = total.count[t] + m
        /\ total'.use[t] = total.use[t] + s
        /\ usage'[j].count[t] = usage[j].count[t] + m
        /\ usage'[j].use[t] = usage[j].use[t] + s
    BY <1>1, <1>2, CountedFacts
  <2>3. \A i \in Journal :
           /\ f[i] \in Int /\ g[i] \in Int /\ h[i] \in Int /\ k[i] \in Int
           /\ i # j => f[i] = g[i] /\ h[i] = k[i]
    BY <1>1, <1>3 DEF Usage
  <2>4. /\ f[j] = usage[j].count[t] /\ g[j] = usage'[j].count[t]
        /\ h[j] = usage[j].use[t] /\ k[j] = usage'[j].use[t]
    OBVIOUS
  <2>5. m \in Int /\ s \in Int
    OBVIOUS
  <2> HIDE DEF f, g, h, k, m, s
  <2>6. IsFiniteSet(Journal)
    BY IterAssumption
  <2>7. /\ SumFunctionOnSet(g, Journal) = SumFunctionOnSet(f, Journal) + g[j] - f[j]
        /\ SumFunctionOnSet(k, Journal) = SumFunctionOnSet(h, Journal) + k[j] - h[j]
    BY <2>3, <2>6, SumUpdate
  <2>8. /\ SumFunctionOnSet(f, Journal) \in Int
        /\ SumFunctionOnSet(h, Journal) \in Int
    BY <2>3, <2>6, SumType
  <2>9. /\ total'.count[t] = SumFunctionOnSet(g, Journal)
        /\ total'.use[t] = SumFunctionOnSet(k, Journal)
    BY <2>1, <2>2, <2>3, <2>4, <2>5, <2>7, <2>8
  <2> QED
    BY <2>9 DEF SumFunction, g, k
<1>5. PICK s \in Int : s = n * object.size
  OBVIOUS
<1>6. /\ total'.use_total = total.use_total + s
      /\ usage'[j].use_total = usage[j].use_total + s
      /\ total.use_total \in Int /\ usage[j].use_total \in Int
  <2>1. /\ Counted(total, object, n).use_total = total.use_total + s
        /\ Counted(usage[j], object, n).use_total = usage[j].use_total + s
    BY <1>2, <1>5, CountedFacts
  <2> QED
    BY <1>1, <1>2, <2>1 DEF Usage
<1>7. total'.use_total = SumFunction([i \in Journal |-> usage'[i].use_total])
  <2> DEFINE f == [i \in Journal |-> usage[i].use_total]
             g == [i \in Journal |-> usage'[i].use_total]
  <2>1. total.use_total = SumFunctionOnSet(f, Journal)
    <3>1. total.use_total = SumFunction(f)
      BY DEF TotalIsSum
    <3>2. DOMAIN f = Journal
      OBVIOUS
    <3> QED
      BY <3>1, <3>2, Zenon DEF SumFunction
  <2>2. \A i \in Journal :
           /\ f[i] \in Int /\ g[i] \in Int
           /\ i # j => f[i] = g[i]
    <3>1. \A u \in Usage : u.use_total \in Int
      BY DEF Usage
    <3>2. \A i \in Journal : i # j => usage'[i] = usage[i]
      BY <1>1
    <3> QED
      BY <1>3, <3>1, <3>2
  <2>3. f[j] = usage[j].use_total /\ g[j] = usage'[j].use_total
    OBVIOUS
  <2> HIDE DEF f, g
  <2>4. IsFiniteSet(Journal)
    BY IterAssumption
  <2>5. SumFunctionOnSet(g, Journal) = SumFunctionOnSet(f, Journal) + g[j] - f[j]
    BY <2>2, <2>4, SumUpdate
  <2>6. total'.use_total = SumFunctionOnSet(g, Journal)
    BY <1>5, <1>6, <2>1, <2>3, <2>5
  <2> QED
    BY <2>6 DEF SumFunction, g
<1>8. total'.use_total = SumFunction(total'.use)
  <2>1. PICK f, g : f = total.use /\ g = total'.use
    OBVIOUS
  <2>2. /\ f \in [Type -> Int] /\ g \in [Type -> Int]
        /\ \A t \in Type : g[t] = f[t] + (IF t = object.type THEN s ELSE 0)
    <3>1. /\ g = Counted(total, object, n).use
          /\ \A t \in Type : Counted(total, object, n).use[t] =
                total.use[t] + (IF t = object.type THEN n * object.size ELSE 0)
      BY <1>1, <2>1, CountedFacts
    <3>2. f \in [Type -> Int] /\ g \in [Type -> Int]
      BY <1>3, <2>1 DEF Usage
    <3> QED
      BY <1>5, <2>1, <3>1, <3>2
  <2>3. total.use_total = SumFunctionOnSet(f, Type)
    BY <2>1, <2>2 DEF TotalIsSum, SumFunction
  <2>4. IsFiniteSet(Type)
    BY IterAssumption
  <2>5. /\ \A t \in Type : f[t] \in Int /\ g[t] \in Int
        /\ \A t \in Type \ {object.type} : f[t] = g[t]
        /\ g[object.type] = f[object.type] + s
    BY <1>5, <2>2
  <2>6. SumFunctionOnSet(g, Type) =
           SumFunctionOnSet(f, Type) + g[object.type] - f[object.type]
    BY <2>4, <2>5, SumUpdate
  <2>7. total'.use_total = SumFunctionOnSet(g, Type)
    BY <1>5, <1>6, <2>3, <2>5, <2>6
  <2> QED
    BY <2>1, <2>2, <2>7 DEF SumFunction
<1> QED
  BY <1>3, <1>4, <1>7, <1>8 DEF TotalIsSum

\* The greatest element of a set.
LEMMA MaxIs ==
    ASSUME NEW S \in SUBSET Int, NEW x \in S, \A y \in S : y <= x
    PROVE  Max(S) = x
<1>1. x >= x /\ \A y \in S : x >= y
  OBVIOUS
<1>2. Max(S) \in S /\ \A y \in S : Max(S) >= y
  BY <1>1 DEF Max
<1>3. Max(S) <= x /\ Max(S) >= x /\ Max(S) \in Int
  BY <1>2
<1> QED
  BY <1>3

\* A set of offsets that is not empty has one.
LEMMA MaxExists ==
    ASSUME NEW S \in SUBSET Offset, S # {}
    PROVE  Max(S) \in S /\ \A y \in S : y <= Max(S)
<1> DEFINE D == {MaxEnd - x : x \in S}
<1>1. \A x \in S : x \in Nat /\ x <= MaxEnd
  BY OffsetFacts
<1>2. D \subseteq Nat /\ D # {}
  BY <1>1, IterAssumption
<1>3. PICK d \in D : \A e \in D : d <= e
  BY <1>2, LeastElement
<1>4. PICK x \in S : d = MaxEnd - x
  BY <1>3
<1>5. \A y \in S : y <= x
  <2>1. ASSUME NEW y \in S PROVE MaxEnd - x <= MaxEnd - y
    BY <1>3, <1>4
  <2> QED
    BY <1>1, <2>1, IterAssumption
<1> QED
  <2>1. S \in SUBSET Int
    BY <1>1
  <2> QED
    BY <1>5, <2>1, MaxIs

\* The usage counted for a journal stays right when its iteration does not
\* move.
LEMMA UsageOfStays ==
    ASSUME IInv, IInv', NEW j \in Journal, NEW t \in Type, UsageOf(j, t),
           usage'[j] = usage[j], Passed(j)' = Passed(j),
           \A o \in Passed(j) : at'[j][o] = at[j][o],
           it'[j].st = "done" <=> it[j].st = "done"
    PROVE  UsageOf(j, t)'
<1>1. PICK S \in SUBSET Offset : S = Passed(j) /\ IsFiniteSet(S)
  BY PassedFacts
<1>2. /\ OfType(j, S, t)' = OfType(j, S, t)
      /\ SumFunctionOnSet(Sizes(j)', OfType(j, S, t)') =
            SumFunctionOnSet(Sizes(j), OfType(j, S, t))
  BY <1>1, OfTypeStays
<1>3. ASSUME it[j].st = "done" PROVE LastObject(j)' = LastObject(j)
  <2>1. Expected(j) = S
    BY <1>1, <1>3, PassedFacts
  <2>2. Expected(j)' = S
    BY <1>1, <1>3, PassedAll DEF AllPassed
  <2>3. S # {} => Max(S) \in S
    BY <1>1, MaxExists
  <2> QED
    BY <1>1, <2>1, <2>2, <2>3 DEF LastObject
<1>4. /\ Again(j, t)' <=> Again(j, t)
      /\ Again(j, t) => LastObject(j)' = LastObject(j)
  BY <1>3 DEF Again
<1> QED
  BY <1>1, <1>2, <1>4 DEF UsageOf, OfType

\* A callback of "usage" counts the objects that it passes.
LEMMA UsageSteps ==
    ASSUME JInv, IInv', UsageInv, cmd = "usage", cmd' = cmd, NEW j \in Journal,
           UsageCallback(j), Moves(j)
    PROVE  UsageInv'
<1>1. /\ IInv /\ TypeOK /\ usage \in [Journal -> Usage] /\ total \in Usage /\ TotalIsSum
      /\ \A i \in Journal, t \in Type : UsageOf(i, t)
      /\ \A i \in Journal : it[i].st \in {"idle", "header"} => it[i].object = Blank
  BY DEF JInv, IInv, UsageInv
<1>2. ASSUME NEW i \in Journal, NEW t \in Type, usage'[i] = usage[i],
             Passed(i)' = Passed(i), at' = at, it'[i].st = "done" <=> it[i].st = "done"
      PROVE  UsageOf(i, t)'
  BY <1>1, <1>2, UsageOfStays
<1>3. CASE /\ UNCHANGED <<usage, total, at, seen>> 
           /\ it' = it \/ (it' = [it EXCEPT ![j].st = "header"] /\ it[j].st = "idle")
  <2>1. TotalIsSum'
    BY <1>1, <1>3 DEF TotalIsSum
  <2>2. \A i \in Journal : Passed(i)' = Passed(i)
    BY <1>3 DEF Passed
  <2>3. \A i \in Journal : /\ it'[i].st = "done" <=> it[i].st = "done"
                           /\ it'[i].st \in {"idle", "header"} => it'[i].object = Blank
    <3>1. CASE it' = it
      BY <1>1, <3>1
    <3>2. CASE it' = [it EXCEPT ![j].st = "header"] /\ it[j].st = "idle"
      <4>1. /\ it'[j].st = "header" /\ it'[j].object = it[j].object
            /\ \A i \in Journal : i # j => it'[i] = it[i]
        BY <1>1, <3>2 DEF TypeOK
      <4> QED
        BY <1>1, <3>2, <4>1
    <3> QED
      BY <1>3, <3>1, <3>2
  <2>4. \A i \in Journal, t \in Type : UsageOf(i, t)'
    BY <1>2, <1>3, <2>2, <2>3
  <2> QED
    BY <1>1, <1>3, <2>1, <2>3, <2>4 DEF UsageInv
<1>4. CASE per_journal(j) \/ FstatFails(j) \/ (ReadFails(j) /\ UNCHANGED usageVars)
  <2>1. UNCHANGED <<usage, total, at, seen>>
    BY <1>4 DEF per_journal, FstatFails, ReadFails, journal_get_header, usageVars
  <2>2. it' = it \/ (it' = [it EXCEPT ![j].st = "header"] /\ it[j].st = "idle")
    BY <1>4 DEF per_journal, FstatFails, ReadFails, journal_get_header
  <2> QED
    BY <1>3, <2>1, <2>2
<1>5. CASE UsageGotHeader(j)
  <2> DEFINE n == IF it'[j].st = "done" THEN 1 ELSE 0
  <2>1. got_header(j) /\ per_data_object(j, it[j].object, n)
    BY <1>5 DEF UsageGotHeader
  <2>2. /\ it[j].st = "header" /\ it'[j].st \in {"reading", "done"}
        /\ Passed(j) = {} /\ Passed(j)' = {}
        /\ \A i \in Journal : i # j => Passed(i)' = Passed(i)
        /\ at' = at
    BY <1>1, <2>1, HeaderPasses
  <2>3. /\ it[j].object = Blank /\ Blank.type \in Type /\ Blank.size \in Nat /\ Blank.size = 0
        /\ Blank.type = OBJECT_UNUSED /\ n \in {0, 1, 2}
    BY <1>1, <2>2, IterAssumption DEF Blank
  <2>4. usage' \in [Journal -> Usage] /\ total' \in Usage /\ TotalIsSum'
    BY <1>1, <2>1, <2>3, TotalGrows
  <2>5. \A i \in Journal : i # j => usage'[i] = usage[i]
    BY <1>1, <2>1 DEF per_data_object
  <2>6. usage[j] \in Usage /\ usage'[j] = Counted(usage[j], Blank, n)
    BY <1>1, <2>1, <2>3 DEF per_data_object
  <2>7. ASSUME NEW t \in Type PROVE UsageOf(j, t)'
    <3>1. /\ usage'[j].count[t] = usage[j].count[t] + (IF t = OBJECT_UNUSED THEN n ELSE 0)
          /\ usage'[j].use[t] = usage[j].use[t] + (IF t = OBJECT_UNUSED THEN n * 0 ELSE 0)
      BY <2>3, <2>6, CountedFacts
    <3>2. OfType(j, {}, t) = {} /\ OfType(j, {}, t)' = {}
      BY DEF OfType
    <3>3. /\ Cardinality({}) = 0
          /\ SumFunctionOnSet(Sizes(j), {}) = 0 /\ SumFunctionOnSet(Sizes(j)', {}) = 0
      BY FS_EmptySet, SumType
    <3>4. usage[j].count[t] = 0 /\ usage[j].use[t] = 0
      <4>1. OfType(j, Passed(j), t) = {} /\ ~ Again(j, t)
        BY <2>2, <3>2 DEF Again
      <4>2. /\ usage[j].count[t] = Cardinality({}) + 0
            /\ usage[j].use[t] = SumFunctionOnSet(Sizes(j), {}) + 0
        BY <1>1, <4>1 DEF UsageOf
      <4> QED
        BY <3>3, <4>2
    <3>5. it'[j].st = "done" => LastObject(j)' = Blank
      BY <2>2, PassedAll DEF AllPassed, LastObject
    <3>6. /\ usage'[j].count[t] = IF Again(j, t)' THEN 1 ELSE 0
          /\ usage'[j].use[t] = 0
          /\ Again(j, t)' => LastObject(j)'.size = 0
      BY <2>3, <3>1, <3>4, <3>5 DEF Again
    <3> QED
      BY <2>2, <3>2, <3>3, <3>6 DEF UsageOf, OfType
  <2>8. ASSUME NEW i \in Journal, i # j, NEW t \in Type PROVE UsageOf(i, t)'
    BY <1>2, <2>2, <2>5, <2>8 DEF Moves
  <2>9. \A i \in Journal : it'[i].st \in {"idle", "header"} => it'[i].object = Blank
    BY <1>1, <2>2 DEF Moves
  <2> QED
    BY <2>4, <2>7, <2>8, <2>9 DEF UsageInv
<1>6. CASE UsageGotObject(j)
  <2> DEFINE n == IF it'[j].st = "done" THEN 2 ELSE 1
  <2>1. got_iter_object_header(j) /\ per_data_object(j, it'[j].object, n)
    BY <1>6 DEF UsageGotObject
  <2>2. PICK o \in Offset, S \in SUBSET Offset :
           /\ o = it[j].offset /\ S = Passed(j) /\ IsFiniteSet(S)
           /\ it[j].st = "reading" /\ it'[j].st \in {"reading", "done"}
           /\ o \notin S /\ \A p \in S : p < o
           /\ it'[j].object = at[j][o]
           /\ Passed(j)' = S \cup {o}
           /\ \A i \in Journal : i # j => Passed(i)' = Passed(i)
           /\ at' = at
    BY <1>1, <2>1, ObjectPasses, PassedFacts
  <2>3. /\ at[j][o].type \in Type /\ at[j][o].size \in Nat /\ n \in {0, 1, 2}
    BY <1>1, ObjectTypes
  <2>4. usage' \in [Journal -> Usage] /\ total' \in Usage /\ TotalIsSum'
    BY <1>1, <2>1, <2>2, <2>3, TotalGrows
  <2>5. \A i \in Journal : i # j => usage'[i] = usage[i]
    BY <1>1, <2>1 DEF per_data_object
  <2>6. usage[j] \in Usage /\ usage'[j] = Counted(usage[j], at[j][o], n)
    BY <1>1, <2>1, <2>2 DEF per_data_object
  <2>7. ASSUME NEW t \in Type PROVE UsageOf(j, t)'
    <3>1. /\ usage'[j].count[t] = usage[j].count[t] + (IF t = at[j][o].type THEN n ELSE 0)
          /\ usage'[j].use[t] = usage[j].use[t]
                                + (IF t = at[j][o].type THEN n * at[j][o].size ELSE 0)
      BY <2>3, <2>6, CountedFacts
    <3>2. /\ Cardinality(OfType(j, S \cup {o}, t)) =
                 Cardinality(OfType(j, S, t)) + (IF at[j][o].type = t THEN 1 ELSE 0)
          /\ SumFunctionOnSet(Sizes(j), OfType(j, S \cup {o}, t)) =
                 SumFunctionOnSet(Sizes(j), OfType(j, S, t))
                 + (IF at[j][o].type = t THEN at[j][o].size ELSE 0)
          /\ Cardinality(OfType(j, S, t)) \in Nat
          /\ SumFunctionOnSet(Sizes(j), OfType(j, S, t)) \in Nat
      BY <1>1, <2>2, OfTypeGrows, OfTypeFacts
    <3>3. /\ usage[j].count[t] = Cardinality(OfType(j, S, t))
          /\ usage[j].use[t] = SumFunctionOnSet(Sizes(j), OfType(j, S, t))
      BY <1>1, <2>2, <3>2 DEF UsageOf, Again
    <3>4. it'[j].st = "done" => LastObject(j)' = at[j][o]
      <4>1. \A y \in S \cup {o} : y <= o /\ y \in Int
        BY <2>2, OffsetFacts
      <4>2. Max(S \cup {o}) = o
        BY <4>1, MaxIs
      <4> QED
        BY <2>2, <4>2, PassedAll DEF AllPassed, LastObject
    <3>5. PICK c \in Nat, s \in Nat, m \in Nat :
             /\ c = Cardinality(OfType(j, S, t))
             /\ s = SumFunctionOnSet(Sizes(j), OfType(j, S, t))
             /\ m = at[j][o].size
      BY <2>3, <3>2
    <3>6. n * m = IF it'[j].st = "done" THEN m + m ELSE m
      BY <2>2
    <3>7. /\ usage'[j].count[t] = Cardinality(OfType(j, S \cup {o}, t))
                                  + (IF Again(j, t)' THEN 1 ELSE 0)
          /\ usage'[j].use[t] = SumFunctionOnSet(Sizes(j), OfType(j, S \cup {o}, t))
                                + (IF Again(j, t)' THEN LastObject(j)'.size ELSE 0)
      BY <2>2, <3>1, <3>2, <3>3, <3>4, <3>5, <3>6 DEF Again
    <3>8. OfType(j, S \cup {o}, t)' = OfType(j, S \cup {o}, t) /\ Sizes(j)' = Sizes(j)
      BY <2>2 DEF OfType, Sizes
    <3>9. OfType(j, Passed(j), t)' = OfType(j, S \cup {o}, t)
      BY <2>2 DEF OfType
    <3> QED
      BY <3>7, <3>8, <3>9 DEF UsageOf
  <2>8. ASSUME NEW i \in Journal, i # j, NEW t \in Type PROVE UsageOf(i, t)'
    BY <1>2, <2>2, <2>5, <2>8 DEF Moves
  <2>9. \A i \in Journal : it'[i].st \in {"idle", "header"} => it'[i].object = Blank
    BY <1>1, <2>2 DEF Moves
  <2> QED
    BY <2>4, <2>7, <2>8, <2>9 DEF UsageInv
<1> QED
  BY <1>4, <1>5, <1>6 DEF UsageCallback

\* The files are those they were as far as the iterations have come, and no
\* iteration moves.
Still ==
    /\ it' = it
    /\ \A j \in Journal : /\ Passed(j)' = Passed(j)
                          /\ \A o \in Passed(j) : at'[j][o] = at[j][o]

\* What does not touch what is counted and moves no iteration keeps it right.
LEMMA UsageStill ==
    ASSUME IInv, IInv', UsageInv, UNCHANGED <<usage, total, cmd>>, Still
    PROVE  UsageInv'
<1>1. TotalIsSum'
  BY DEF UsageInv, TotalIsSum
<1>2. cmd = "usage" => \A j \in Journal, t \in Type : UsageOf(j, t)'
  BY UsageOfStays DEF UsageInv, Still
<1> QED
  BY <1>1, <1>2 DEF UsageInv, Still

\* Before a command is started, nothing is counted and nothing to be counted.
LEMMA UsageStarts ==
    ASSUME IInv, UsageInv, main
    PROVE  UsageInv'
<1>1. /\ UNCHANGED <<usage, total, it, seen, at, starts>> /\ cmd = "none"
      /\ \A j \in Journal : it[j].st = "idle" /\ usage[j] = NoUsage /\ it[j].object = Blank
  BY DEF main, vars, usageVars, UsageInv
<1>2. TotalIsSum'
  BY <1>1 DEF UsageInv, TotalIsSum
<1>3. ASSUME NEW j \in Journal, NEW t \in Type PROVE UsageOf(j, t)'
  <2>1. Passed(j)' = {}
    BY <1>1, PassedFacts DEF Passed
  <2>2. OfType(j, Passed(j), t)' = {}
    BY <2>1 DEF OfType
  <2>3. Cardinality({}) = 0 /\ SumFunctionOnSet(Sizes(j)', {}) = 0
    BY FS_EmptySet, SumType
  <2>4. usage'[j].count[t] = 0 /\ usage'[j].use[t] = 0 /\ ~ Again(j, t)'
    BY <1>1 DEF NoUsage, Again
  <2> QED
    BY <2>2, <2>3, <2>4 DEF UsageOf
<1> QED
  BY <1>1, <1>2, <1>3 DEF UsageInv

\* What is counted is right in the initial state.
LEMMA UsageInit0 == JioInit => UsageInv
<1> SUFFICES ASSUME JioInit PROVE UsageInv
  OBVIOUS
<1>1. /\ usage = [j \in Journal |-> NoUsage] /\ total = NoUsage /\ cmd = "none"
      /\ \A j \in Journal : it[j].st = "idle" /\ it[j].object = Blank
  BY DEF JioInit, UsageInit, Init
<1>2. /\ NoUsage \in Usage /\ NoUsage.use_total = 0
      /\ \A t \in Type : NoUsage.count[t] = 0 /\ NoUsage.use[t] = 0
  BY DEF NoUsage, Usage
<1>3. ASSUME NEW t \in Type
      PROVE  /\ total.count[t] = SumFunction([j \in Journal |-> usage[j].count[t]])
             /\ total.use[t] = SumFunction([j \in Journal |-> usage[j].use[t]])
  <2> DEFINE f == [j \in Journal |-> usage[j].count[t]]
             h == [j \in Journal |-> usage[j].use[t]]
  <2>1. \A j \in Journal : f[j] = 0 /\ h[j] = 0
    BY <1>1, <1>2
  <2>2. DOMAIN f = Journal /\ DOMAIN h = Journal /\ IsFiniteSet(Journal)
    BY IterAssumption
  <2> HIDE DEF f, h
  <2>3. SumFunctionOnSet(f, Journal) = 0 /\ SumFunctionOnSet(h, Journal) = 0
    BY <2>1, <2>2, SumType
  <2> QED
    BY <1>1, <1>2, <2>2, <2>3 DEF SumFunction, f, h
<1>4. total.use_total = SumFunction([j \in Journal |-> usage[j].use_total])
  <2> DEFINE f == [j \in Journal |-> usage[j].use_total]
  <2>1. DOMAIN f = Journal /\ IsFiniteSet(Journal) /\ \A j \in Journal : f[j] = 0
    BY <1>1, <1>2, IterAssumption
  <2> HIDE DEF f
  <2>2. SumFunctionOnSet(f, Journal) = 0
    BY <2>1, SumType
  <2> QED
    BY <1>1, <1>2, <2>1, <2>2 DEF SumFunction, f
<1>5. total.use_total = SumFunction(total.use)
  <2>1. PICK f : f = total.use
    OBVIOUS
  <2>2. DOMAIN f = Type /\ IsFiniteSet(Type) /\ \A t \in Type : f[t] = 0
    BY <1>1, <1>2, <2>1, IterAssumption DEF Usage
  <2>3. SumFunctionOnSet(f, Type) = 0
    BY <2>2, SumType
  <2> QED
    BY <1>1, <1>2, <2>1, <2>2, <2>3 DEF SumFunction
<1> QED
  BY <1>1, <1>2, <1>3, <1>4, <1>5 DEF UsageInv, TotalIsSum

-----------------------------------------------------------------------------
\* The objects that were verified: those passed, and the one that the worker is
\* through with.
Verified(j) == Passed(j) \cup (IF vf[j].ph = "verified" THEN {it[j].offset} ELSE {})

\* The hashed objects of type t in a set.
HashedOf(j, objects, t) ==
    {o \in objects : at[j][o].type = t /\ t \in {OBJECT_FIELD, OBJECT_DATA}}

PayloadSizes(j, t) == [o \in Offset |-> at[j][o].size - PayloadOf(t)]

\* The statistics of a journal are those of the objects verified.
StatsOf(j, t) ==
    /\ vf[j].n[t] = Cardinality(HashedOf(j, Verified(j), t))
    /\ vf[j].bytes[t] = SumFunctionOnSet(PayloadSizes(j, t), HashedOf(j, Verified(j), t))

VerifyInv ==
    /\ cmd = "none" => \A j \in Journal :
          /\ it[j].st = "idle"
          /\ \A t \in Type : vf[j].n[t] = 0 /\ vf[j].bytes[t] = 0
    /\ cmd = "verify" => \A j \in Journal :
          /\ vf[j].ph # "iter" => IsHashed(at[j][it[j].offset].type)
          /\ it[j].st = "done" => vf[j].cap = 0 /\ vf[j].dcap = 0
          /\ \A t \in Type : StatsOf(j, t)

\* The objects verified are a finite set of offsets.
LEMMA VerifiedFacts ==
    ASSUME IInv, NEW j \in Journal
    PROVE  /\ Verified(j) \subseteq Offset /\ IsFiniteSet(Verified(j))
           /\ vf[j].ph # "verified" => Verified(j) = Passed(j)
<1>1. it[j].offset \in Offset
  BY DEF IInv, TypeOK
<1>2. Passed(j) \subseteq Offset /\ IsFiniteSet(Passed(j))
  BY PassedFacts
<1> QED
  BY <1>1, <1>2, FS_AddElement DEF Verified

\* A set of hashed objects is finite and has payloads.
LEMMA HashedOfFacts ==
    ASSUME IInv, NEW j \in Journal, NEW t, NEW S \in SUBSET Offset, IsFiniteSet(S)
    PROVE  /\ IsFiniteSet(HashedOf(j, S, t)) /\ Cardinality(HashedOf(j, S, t)) \in Nat
           /\ \A o \in Offset : /\ PayloadSizes(j, t)[o] = at[j][o].size - PayloadOf(t)
                                /\ PayloadSizes(j, t)[o] \in Int
           /\ SumFunctionOnSet(PayloadSizes(j, t), HashedOf(j, S, t)) \in Int
<1>1. IsFiniteSet(HashedOf(j, S, t)) /\ HashedOf(j, S, t) \subseteq Offset
  BY FS_Subset DEF HashedOf
<1>2. \A o \in Offset : /\ PayloadSizes(j, t)[o] = at[j][o].size - PayloadOf(t)
                        /\ PayloadSizes(j, t)[o] \in Int
  BY ObjectTypes, PayloadFacts DEF PayloadSizes, IInv
<1> QED
  BY <1>1, <1>2, FS_CardinalityType, SumType

\* One more object is counted if it is hashed.
LEMMA HashedOfGrows ==
    ASSUME IInv, NEW j \in Journal, NEW t, NEW S \in SUBSET Offset, IsFiniteSet(S),
           NEW o \in Offset, o \notin S
    PROVE  LET counts == at[j][o].type = t /\ t \in {OBJECT_FIELD, OBJECT_DATA}
           IN  /\ Cardinality(HashedOf(j, S \cup {o}, t)) =
                     Cardinality(HashedOf(j, S, t)) + (IF counts THEN 1 ELSE 0)
               /\ SumFunctionOnSet(PayloadSizes(j, t), HashedOf(j, S \cup {o}, t)) =
                     SumFunctionOnSet(PayloadSizes(j, t), HashedOf(j, S, t))
                     + (IF counts THEN at[j][o].size - PayloadOf(t) ELSE 0)
<1> DEFINE counts == at[j][o].type = t /\ t \in {OBJECT_FIELD, OBJECT_DATA}
<1>1. /\ IsFiniteSet(HashedOf(j, S, t)) /\ Cardinality(HashedOf(j, S, t)) \in Nat
      /\ SumFunctionOnSet(PayloadSizes(j, t), HashedOf(j, S, t)) \in Int
      /\ \A p \in Offset : /\ PayloadSizes(j, t)[p] = at[j][p].size - PayloadOf(t)
                           /\ PayloadSizes(j, t)[p] \in Int
  BY HashedOfFacts
<1>2. CASE counts
  <2>1. HashedOf(j, S \cup {o}, t) = HashedOf(j, S, t) \cup {o} /\ o \notin HashedOf(j, S, t)
        /\ HashedOf(j, S, t) \subseteq Offset
    BY <1>2 DEF HashedOf
  <2>2. Cardinality(HashedOf(j, S, t) \cup {o}) = Cardinality(HashedOf(j, S, t)) + 1
    BY <1>1, <2>1, FS_AddElement
  <2>3. SumFunctionOnSet(PayloadSizes(j, t), HashedOf(j, S, t) \cup {o}) =
           SumFunctionOnSet(PayloadSizes(j, t), HashedOf(j, S, t)) + PayloadSizes(j, t)[o]
    BY <1>1, <2>1, SumInsert
  <2> QED
    BY <1>1, <1>2, <2>1, <2>2, <2>3
<1>3. CASE ~ counts
  <2>1. HashedOf(j, S \cup {o}, t) = HashedOf(j, S, t)
    BY <1>3 DEF HashedOf
  <2> QED
    BY <1>1, <1>3, <2>1
<1> QED
  BY <1>2, <1>3

\* What happens to other objects does not matter.
LEMMA HashedOfStays ==
    ASSUME IInv, IInv', NEW j \in Journal, NEW t, NEW S \in SUBSET Offset, IsFiniteSet(S),
           \A o \in S : at'[j][o] = at[j][o]
    PROVE  /\ HashedOf(j, S, t)' = HashedOf(j, S, t)
           /\ SumFunctionOnSet(PayloadSizes(j, t)', HashedOf(j, S, t)') =
                 SumFunctionOnSet(PayloadSizes(j, t), HashedOf(j, S, t))
<1>1. HashedOf(j, S, t)' = HashedOf(j, S, t)
  BY DEF HashedOf
<1>2. PICK R : R = HashedOf(j, S, t)
  OBVIOUS
<1>3. IsFiniteSet(R) /\ R \subseteq S
  BY <1>2, HashedOfFacts DEF HashedOf
<1>4. PICK f, g : f = PayloadSizes(j, t) /\ g = PayloadSizes(j, t)'
  OBVIOUS
<1>5. \A o \in S : f[o] \in Int /\ g[o] \in Int /\ f[o] = g[o]
  <2>1. \A o \in Offset : f[o] = at[j][o].size - PayloadOf(t) /\ f[o] \in Int
    BY <1>4, HashedOfFacts, FS_EmptySet
  <2>2. \A o \in Offset : g[o] = at'[j][o].size - PayloadOf(t)
    BY <1>4 DEF PayloadSizes
  <2> QED
    BY <2>1, <2>2
<1>6. SumFunctionOnSet(f, R) = SumFunctionOnSet(g, R)
  BY <1>3, <1>5, SumCompare
<1> QED
  BY <1>1, <1>2, <1>4, <1>6

\* The statistics stay right when nothing more was verified,
LEMMA StatsStay ==
    ASSUME IInv, IInv', NEW j \in Journal, NEW t \in Type, StatsOf(j, t),
           vf'[j].n[t] = vf[j].n[t], vf'[j].bytes[t] = vf[j].bytes[t],
           Verified(j)' = Verified(j), \A o \in Verified(j) : at'[j][o] = at[j][o]
    PROVE  StatsOf(j, t)'
<1>1. PICK S \in SUBSET Offset : S = Verified(j) /\ IsFiniteSet(S)
  BY VerifiedFacts
<1>2. /\ HashedOf(j, S, t)' = HashedOf(j, S, t)
      /\ SumFunctionOnSet(PayloadSizes(j, t)', HashedOf(j, S, t)') =
            SumFunctionOnSet(PayloadSizes(j, t), HashedOf(j, S, t))
  BY <1>1, HashedOfStays
<1> QED
  BY <1>1, <1>2 DEF StatsOf, HashedOf

\* and when an object was, and was counted if it is hashed.
LEMMA StatsGrow ==
    ASSUME IInv, NEW j \in Journal, NEW t \in Type, StatsOf(j, t), NEW o \in Offset,
           o \notin Verified(j), Verified(j)' = Verified(j) \cup {o}, at' = at,
           LET counts == at[j][o].type = t /\ t \in {OBJECT_FIELD, OBJECT_DATA}
           IN  /\ vf'[j].n[t] = vf[j].n[t] + (IF counts THEN 1 ELSE 0)
               /\ vf'[j].bytes[t] = vf[j].bytes[t]
                                    + (IF counts THEN at[j][o].size - PayloadOf(t) ELSE 0)
    PROVE  StatsOf(j, t)'
<1>1. PICK S \in SUBSET Offset : S = Verified(j) /\ IsFiniteSet(S)
  BY VerifiedFacts
<1>2. /\ Cardinality(HashedOf(j, S \cup {o}, t)) = vf'[j].n[t]
      /\ SumFunctionOnSet(PayloadSizes(j, t), HashedOf(j, S \cup {o}, t)) = vf'[j].bytes[t]
  BY <1>1, HashedOfGrows DEF StatsOf
<1>3. HashedOf(j, Verified(j), t)' = HashedOf(j, S \cup {o}, t) /\ PayloadSizes(j, t)' = PayloadSizes(j, t)
  BY <1>1 DEF HashedOf, PayloadSizes
<1> QED
  BY <1>2, <1>3 DEF StatsOf

\* What the iteration's moving on does to the closure of j.
LEMMA ResumePasses ==
    ASSUME JInv, NEW j \in Journal, NEW w \in Closure, w.ph = "iter", Resume(j, w)
    PROVE  /\ it[j].offset \in Offset /\ it[j].offset \notin Passed(j)
           /\ Verified(j)' = Passed(j) \cup {it[j].offset}
           /\ vf'[j].ph = "iter" /\ vf'[j].n = w.n /\ vf'[j].bytes = w.bytes
           /\ it'[j].st = "done" => vf'[j].cap = 0 /\ vf'[j].dcap = 0
           /\ \A i \in Journal : i # j => Passed(i)' = Passed(i) /\ vf'[i] = vf[i]
           /\ at' = at
<1>1. got_iter_object_header(j) /\ IInv /\ vf \in [Journal -> Closure]
  BY DEF Resume, JInv
<1>2. /\ it[j].offset \in Offset /\ it[j].offset \notin Passed(j)
      /\ Passed(j)' = Passed(j) \cup {it[j].offset}
      /\ \A i \in Journal : i # j => Passed(i)' = Passed(i)
      /\ at' = at
  BY <1>1, ObjectPasses
<1>3. /\ Freed(w).ph = "iter" /\ Freed(w).n = w.n /\ Freed(w).bytes = w.bytes
      /\ Freed(w).cap = 0 /\ Freed(w).dcap = 0
  BY DEF Freed, Closure
<1>4. /\ vf'[j] = IF it'[j].st = "done" THEN Freed(w) ELSE w
      /\ \A i \in Journal : i # j => vf'[i] = vf[i]
  BY <1>1 DEF Resume
<1> QED
  BY <1>2, <1>3, <1>4 DEF Verified

\* verify_hashed_object() counts the object in the buffer.
LEMMA VerifiedCounts ==
    ASSUME TypeOK, NEW j \in Journal, NEW v \in Closure, NEW size \in Nat, v.holds \in Offset
    PROVE  LET object == at[j][v.holds]
               w == verify_hashed_object(j, v, size)
           IN  \A t \in Type :
                  /\ w.n[t] = v.n[t] + (IF object.type = t THEN 1 ELSE 0)
                  /\ w.bytes[t] = v.bytes[t]
                                  + (IF object.type = t THEN object.size - PayloadOf(t) ELSE 0)
<1> DEFINE object == at[j][v.holds]
           d == decompress(v, size)
           n == [d.n EXCEPT ![object.type] = d.n[object.type] + 1]
           bytes == [d.bytes EXCEPT ![object.type] =
                        d.bytes[object.type] + hashed_payload_size(object)]
<1>1. /\ object.size \in Nat /\ object.type \in Type
      /\ hashed_payload_size(object) = object.size - PayloadOf(object.type)
      /\ PayloadOf(object.type) \in Nat
  BY ObjectTypes, PayloadFacts
<1>2. d \in Closure /\ d.n = v.n /\ d.bytes = v.bytes
  BY DEF decompress, Grown, Closure
<1>3. v.n \in [Type -> Int] /\ v.bytes \in [Type -> Int]
  BY DEF Closure
<1>4. verify_hashed_object(j, v, size) = [[d EXCEPT !.n = n] EXCEPT !.bytes = bytes]
  BY DEF verify_hashed_object
<1>5. [[d EXCEPT !.n = n] EXCEPT !.bytes = bytes].n = n
      /\ [[d EXCEPT !.n = n] EXCEPT !.bytes = bytes].bytes = bytes
  <2> HIDE DEF n, bytes, d
  <2> QED
    BY <1>2 DEF Closure
<1>6. \A t \in Type :
         /\ n[t] = v.n[t] + (IF object.type = t THEN 1 ELSE 0)
         /\ bytes[t] = v.bytes[t] + (IF object.type = t THEN object.size - PayloadOf(t) ELSE 0)
  <2> HIDE DEF object, d
  <2>1. ASSUME NEW t \in Type
        PROVE  n[t] = v.n[t] + (IF object.type = t THEN 1 ELSE 0)
    BY <1>1, <1>2, <1>3
  <2>2. ASSUME NEW t \in Type
        PROVE  bytes[t] = v.bytes[t]
                          + (IF object.type = t THEN object.size - PayloadOf(t) ELSE 0)
    BY <1>1, <1>2, <1>3
  <2> HIDE DEF n, bytes
  <2> QED
    BY <2>1, <2>2
<1> QED
  BY <1>4, <1>5, <1>6

\* The closure of j has what it needs for the invariant; the others are as
\* before.
LEMMA OthersVerify ==
    ASSUME JInv, IInv', VerifyInv, cmd = "verify", cmd' = cmd, NEW j \in Journal, Moves(j),
           \A i \in Journal : i # j => Passed(i)' = Passed(i) /\ vf'[i] = vf[i],
           at' = at,
           vf'[j].ph # "iter" => IsHashed(at'[j][it'[j].offset].type),
           it'[j].st = "done" => vf'[j].cap = 0 /\ vf'[j].dcap = 0,
           \A t \in Type : StatsOf(j, t)'
    PROVE  VerifyInv'
<1>1. IInv
  BY DEF JInv
<1>2. ASSUME NEW i \in Journal, i # j
      PROVE  /\ vf'[i].ph # "iter" => IsHashed(at'[i][it'[i].offset].type)
             /\ it'[i].st = "done" => vf'[i].cap = 0 /\ vf'[i].dcap = 0
             /\ \A t \in Type : StatsOf(i, t)'
  <2>1. Passed(i)' = Passed(i) /\ vf'[i] = vf[i] /\ it'[i] = it[i]
    BY <1>2 DEF Moves
  <2>2. Verified(i)' = Verified(i)
    BY <2>1 DEF Verified
  <2>3. \A t \in Type : StatsOf(i, t)
    BY DEF VerifyInv
  <2>4. \A t \in Type : StatsOf(i, t)'
    BY <1>1, <2>1, <2>2, <2>3, StatsStay
  <2> QED
    BY <2>1, <2>4 DEF VerifyInv
<1> QED
  BY <1>2 DEF VerifyInv

\* A step that leaves the iteration of j where it is verifies nothing, or the
\* object that it is on.
LEMMA StaysVerify ==
    ASSUME JInv, IInv', VerifyInv, cmd = "verify", cmd' = cmd, NEW j \in Journal,
           UNCHANGED vars, it[j].st # "done", NEW w \in Closure,
           vf' = [vf EXCEPT ![j] = w], w.ph # "iter" => IsHashed(at[j][it[j].offset].type),
           (w.ph = "verified") = (vf[j].ph = "verified"), w.n = vf[j].n, w.bytes = vf[j].bytes
    PROVE  VerifyInv'
<1>1. IInv /\ vf \in [Journal -> Closure] /\ UNCHANGED <<starts, at, end, tail, intact, it, seen>>
  BY DEF JInv, vars
<1>2. vf'[j] = w /\ \A i \in Journal : i # j => vf'[i] = vf[i]
  BY <1>1
<1>3. \A i \in Journal : Passed(i)' = Passed(i)
  BY <1>1 DEF Passed
<1>4. Verified(j)' = Verified(j)
  BY <1>1, <1>2, <1>3 DEF Verified
<1>5. \A t \in Type : StatsOf(j, t)'
  <2>1. \A t \in Type : StatsOf(j, t)
    BY DEF VerifyInv
  <2> QED
    BY <1>1, <1>2, <1>4, <2>1, StatsStay
<1>6. Moves(j)
  BY <1>1 DEF Moves
<1> QED
  BY <1>1, <1>2, <1>3, <1>5, <1>6, OthersVerify

\* A step with which the iteration goes on, the object that it was on being
\* counted by then if it is hashed.
LEMMA ResumeVerify ==
    ASSUME JInv, IInv', VerifyInv, cmd = "verify", cmd' = cmd, NEW j \in Journal, Moves(j),
           NEW w \in Closure, w.ph = "iter", Resume(j, w),
           NEW o, o = it[j].offset,
           IF vf[j].ph = "verified" THEN w.n = vf[j].n /\ w.bytes = vf[j].bytes
           ELSE \A t \in Type :
                   LET counts == at[j][o].type = t /\ t \in {OBJECT_FIELD, OBJECT_DATA}
                   IN  /\ w.n[t] = vf[j].n[t] + (IF counts THEN 1 ELSE 0)
                       /\ w.bytes[t] = vf[j].bytes[t]
                                       + (IF counts THEN at[j][o].size - PayloadOf(t) ELSE 0)
    PROVE  VerifyInv'
<1>1. /\ o \in Offset /\ o \notin Passed(j) /\ Verified(j)' = Passed(j) \cup {o}
      /\ vf'[j].ph = "iter" /\ vf'[j].n = w.n /\ vf'[j].bytes = w.bytes
      /\ it'[j].st = "done" => vf'[j].cap = 0 /\ vf'[j].dcap = 0
      /\ \A i \in Journal : i # j => Passed(i)' = Passed(i) /\ vf'[i] = vf[i]
      /\ at' = at
  BY ResumePasses
<1>2. IInv /\ \A t \in Type : StatsOf(j, t)
  BY DEF JInv, VerifyInv
<1>3. \A t \in Type : StatsOf(j, t)'
  <2>1. CASE vf[j].ph = "verified"
    <3>1. Verified(j)' = Verified(j)
      BY <1>1, <2>1 DEF Verified
    <3> QED
      BY <1>1, <1>2, <2>1, <3>1, StatsStay
  <2>2. CASE vf[j].ph # "verified"
    <3>1. Verified(j) = Passed(j)
      BY <1>2, <2>2, VerifiedFacts
    <3> QED
      BY <1>1, <1>2, <2>2, <3>1, StatsGrow
  <2> QED
    BY <2>1, <2>2
<1> QED
  BY <1>1, <1>3, OthersVerify

\* The steps of "verify".
LEMMA VerifySteps ==
    ASSUME JInv, IInv', VerifyInv, cmd = "verify", cmd' = cmd, NEW j \in Journal,
           VerifyCallback(j), Moves(j)
    PROVE  VerifyInv'
<1>1. /\ vf[j] \in Closure /\ vf \in [Journal -> Closure] /\ TypeOK /\ IInv
      /\ it[j].offset \in Offset /\ it[j].offset \in Nat
  BY OffsetFacts DEF JInv, IInv, TypeOK
<1>2. \A size \in Inflated \cup {0} : size \in Nat
  BY VerifyAssumption
<1>3. CASE journal_get_header(j) /\ UNCHANGED vf
  <2>1. /\ it[j].st = "idle" /\ it' = [it EXCEPT ![j].st = "header"]
        /\ UNCHANGED <<seen, at>> /\ it'[j].st = "header"
    BY <1>1, <1>3 DEF journal_get_header, TypeOK
  <2>2. vf[j].ph = "iter" /\ vf' = vf
    BY <1>3, <2>1 DEF JInv, Busy
  <2>3. \A i \in Journal : Passed(i)' = Passed(i)
    BY <2>1 DEF Passed
  <2>4. Verified(j)' = Verified(j)
    BY <2>2, <2>3 DEF Verified
  <2>5. \A t \in Type : StatsOf(j, t)'
    <3>1. \A t \in Type : StatsOf(j, t)
      BY DEF VerifyInv
    <3> QED
      BY <1>1, <2>1, <2>2, <2>4, <3>1, StatsStay
  <2> QED
    BY <2>1, <2>2, <2>3, <2>5, OthersVerify
<1>4. CASE VerifyGotHeader(j)
  <2>1. /\ it[j].st = "header" /\ Passed(j) = {} /\ Passed(j)' = {}
        /\ \A i \in Journal : i # j => Passed(i)' = Passed(i)
        /\ at' = at
    BY <1>1, <1>4, HeaderPasses DEF VerifyGotHeader
  <2>2. vf[j].ph = "iter"
    BY <2>1 DEF JInv, Busy
  <2>3. /\ vf'[j] = IF it'[j].st = "done" THEN Freed(vf[j]) ELSE vf[j]
        /\ \A i \in Journal : i # j => vf'[i] = vf[i]
    BY <1>1, <1>4 DEF VerifyGotHeader
  <2>4. /\ Freed(vf[j]).ph = "iter" /\ Freed(vf[j]).n = vf[j].n
        /\ Freed(vf[j]).bytes = vf[j].bytes
        /\ Freed(vf[j]).cap = 0 /\ Freed(vf[j]).dcap = 0
    BY <1>1, <2>2 DEF Freed, Closure
  <2>5. Verified(j)' = Verified(j)
    BY <2>1, <2>2, <2>3, <2>4 DEF Verified
  <2>6. \A t \in Type : StatsOf(j, t)'
    <3>1. \A t \in Type : StatsOf(j, t)
      BY DEF VerifyInv
    <3> QED
      BY <1>1, <2>1, <2>3, <2>4, <2>5, <3>1, StatsStay
  <2> QED
    BY <2>1, <2>2, <2>3, <2>4, <2>6, OthersVerify
<1>5. CASE verify_object(j)
  <2>1. it[j].st = "reading" /\ vf[j].ph = "iter"
    BY <1>5 DEF verify_object
  <2> DEFINE object == at[j][it[j].offset]
  <2>2. CASE IsHashed(object.type)
    <3> DEFINE w == Loading(vf[j], object.size)
    <3>1. object.size \in Nat
      BY <1>1, ObjectTypes
    <3>2. w \in Closure /\ w.ph = "object" /\ w.n = vf[j].n /\ w.bytes = vf[j].bytes
      <4>1. w \in Closure /\ w.ph = "object"
        BY <1>1, <3>1, LoadingType
      <4>2. w.n = vf[j].n /\ w.bytes = vf[j].bytes
        BY <1>1 DEF Loading, Closure
      <4> QED
        BY <4>1, <4>2
    <3>3. UNCHANGED vars /\ vf' = [vf EXCEPT ![j] = w]
      BY <1>5, <2>2 DEF verify_object
    <3> HIDE DEF w
    <3> QED
      BY <2>1, <2>2, <3>2, <3>3, StaysVerify
  <2>3. CASE ~ IsHashed(object.type)
    <3>1. Resume(j, vf[j])
      BY <1>5, <2>3 DEF verify_object
    <3>2. vf[j].n \in [Type -> Int] /\ vf[j].bytes \in [Type -> Int]
      BY <1>1 DEF Closure
    <3>3. \A t \in Type : ~ (object.type = t /\ t \in {OBJECT_FIELD, OBJECT_DATA})
      BY <2>3 DEF IsHashed
    <3>4. \A t \in Type : /\ vf[j].n[t] = vf[j].n[t] + 0
                          /\ vf[j].bytes[t] = vf[j].bytes[t] + 0
      BY <3>2
    <3> QED
      BY <1>1, <2>1, <3>1, <3>3, <3>4, ResumeVerify
  <2> QED
    BY <2>2, <2>3
<1>6. CASE per_hashed_object(j)
  <2> DEFINE loaded == [vf[j] EXCEPT !.holds = it[j].offset]
             object == at[j][it[j].offset]
  <2>1. /\ vf[j].ph = "object" /\ it[j].st = "reading" /\ IsHashed(object.type)
    BY <1>6 DEF per_hashed_object, JInv, Busy, VerifyInv
  <2>2. /\ loaded \in Closure /\ loaded.holds = it[j].offset
        /\ loaded.n = vf[j].n /\ loaded.bytes = vf[j].bytes
        /\ [loaded EXCEPT !.ph = "worker"] \in Closure
        /\ [loaded EXCEPT !.ph = "worker"].ph = "worker"
        /\ [loaded EXCEPT !.ph = "worker"].n = vf[j].n
        /\ [loaded EXCEPT !.ph = "worker"].bytes = vf[j].bytes
    BY <1>1 DEF Closure
  <2>3. \/ \E size \in Inflated \cup {0} :
              Resume(j, [verify_hashed_object(j, loaded, size) EXCEPT !.ph = "iter"])
        \/ Handoff(j, loaded)
    BY <1>6 DEF per_hashed_object
  <2> HIDE DEF loaded
  <2>4. ASSUME NEW size \in Inflated \cup {0},
               Resume(j, [verify_hashed_object(j, loaded, size) EXCEPT !.ph = "iter"])
        PROVE  VerifyInv'
    <3> DEFINE v == verify_hashed_object(j, loaded, size)
               w == [v EXCEPT !.ph = "iter"]
    <3>1. /\ v \in Closure
          /\ \A t \in Type :
                /\ v.n[t] = vf[j].n[t] + (IF object.type = t THEN 1 ELSE 0)
                /\ v.bytes[t] = vf[j].bytes[t]
                                + (IF object.type = t THEN object.size - PayloadOf(t) ELSE 0)
      BY <1>1, <1>2, <2>2, ClosureTypes, VerifiedCounts
    <3> HIDE DEF v
    <3>2. w \in Closure /\ w.ph = "iter" /\ w.n = v.n /\ w.bytes = v.bytes
      BY <3>1 DEF Closure
    <3>3. \A t \in Type : object.type = t <=>
                          object.type = t /\ t \in {OBJECT_FIELD, OBJECT_DATA}
      BY <2>1 DEF IsHashed
    <3>4. Resume(j, w)
      BY <2>4 DEF v
    <3> HIDE DEF w
    <3> QED
      BY <2>1, <3>1, <3>2, <3>3, <3>4, ResumeVerify
  <2>5. CASE Handoff(j, loaded)
    <3>1. vf' = [vf EXCEPT ![j] = [loaded EXCEPT !.ph = "worker"]] /\ UNCHANGED vars
      BY <2>5 DEF Handoff
    <3> QED
      BY <2>1, <2>2, <3>1, StaysVerify
  <2> QED
    BY <2>3, <2>4, <2>5
<1>7. CASE WorkerVerifies(j)
  <2>1. PICK size \in Inflated \cup {0} :
           vf' = [vf EXCEPT ![j] = [verify_hashed_object(j, vf[j], size) EXCEPT !.ph = "verified"]]
    BY <1>7 DEF WorkerVerifies
  <2> DEFINE object == at[j][it[j].offset]
             v == verify_hashed_object(j, vf[j], size)
             w == [v EXCEPT !.ph = "verified"]
  <2>2. /\ it[j].st = "reading" /\ vf[j].holds = it[j].offset /\ vf[j].ph = "worker"
        /\ IsHashed(object.type)
    BY <1>7 DEF WorkerVerifies, JInv, Busy, VerifyInv
  <2>3. /\ v \in Closure
        /\ \A t \in Type :
              /\ v.n[t] = vf[j].n[t] + (IF object.type = t THEN 1 ELSE 0)
              /\ v.bytes[t] = vf[j].bytes[t]
                              + (IF object.type = t THEN object.size - PayloadOf(t) ELSE 0)
    BY <1>1, <1>2, <2>2, ClosureTypes, VerifiedCounts
  <2> HIDE DEF v
  <2>4. w \in Closure /\ w.ph = "verified" /\ w.n = v.n /\ w.bytes = v.bytes
    BY <2>3 DEF Closure
  <2>5. vf'[j] = w /\ \A i \in Journal : i # j => vf'[i] = vf[i]
    BY <1>1, <2>1 DEF v
  <2> HIDE DEF w
  <2>6. UNCHANGED <<starts, at, end, tail, intact, it, seen>>
    BY <1>7 DEF WorkerVerifies, vars
  <2>7. \A i \in Journal : Passed(i)' = Passed(i)
    BY <2>6 DEF Passed
  <2>8. PICK o \in Offset : o = it[j].offset
    BY <1>1
  <2>9. o \notin Passed(j)
    BY <1>1, <2>2, <2>8, PassedFacts, OffsetFacts
  <2>10. Verified(j)' = Verified(j) \cup {o} /\ o \notin Verified(j)
    BY <1>1, <2>2, <2>4, <2>5, <2>6, <2>7, <2>8, <2>9 DEF Verified
  <2>11. ASSUME NEW t \in Type PROVE StatsOf(j, t)'
    <3>1. StatsOf(j, t)
      BY DEF VerifyInv
    <3>2. object.type = t <=> object.type = t /\ t \in {OBJECT_FIELD, OBJECT_DATA}
      BY <2>2 DEF IsHashed
    <3>3. /\ vf'[j].n[t] = vf[j].n[t] + (IF object.type = t THEN 1 ELSE 0)
          /\ vf'[j].bytes[t] = vf[j].bytes[t]
                               + (IF object.type = t THEN object.size - PayloadOf(t) ELSE 0)
      BY <2>3, <2>4, <2>5
    <3> QED
      BY <1>1, <2>6, <2>8, <2>10, <3>1, <3>2, <3>3, StatsGrow
  <2> QED
    BY <2>2, <2>5, <2>6, <2>7, <2>11, OthersVerify
<1>8. CASE WorkerDone(j)
  <2> DEFINE w == [vf[j] EXCEPT !.ph = "iter"]
  <2>1. Resume(j, w) /\ vf[j].ph = "verified"
    BY <1>8 DEF WorkerDone
  <2>2. w \in Closure /\ w.ph = "iter" /\ w.n = vf[j].n /\ w.bytes = vf[j].bytes
    BY <1>1, <2>1 DEF Closure
  <2> HIDE DEF w
  <2> QED
    BY <2>1, <2>2, ResumeVerify
<1>9. CASE VerifyFails(j)
  <2>1. UNCHANGED <<starts, at, it, seen, vf>>
    BY <1>9 DEF VerifyFails, ReadFails
  <2>2. \A i \in Journal : Passed(i)' = Passed(i)
    BY <2>1 DEF Passed
  <2>3. Verified(j)' = Verified(j)
    BY <2>1, <2>2 DEF Verified
  <2>4. \A t \in Type : StatsOf(j, t)
    BY DEF VerifyInv
  <2>5. \A t \in Type : StatsOf(j, t)'
    BY <1>1, <2>1, <2>3, <2>4, StatsStay
  <2> QED
    BY <2>1, <2>2, <2>5, OthersVerify DEF VerifyInv
<1> QED
  BY <1>3, <1>4, <1>5, <1>6, <1>7, <1>8, <1>9 DEF VerifyCallback

\* What does not touch the closures and moves no iteration keeps it right.
LEMMA VerifyStill ==
    ASSUME JInv, IInv', VerifyInv, UNCHANGED <<vf, cmd>>, Still,
           \A j \in Journal : it[j].st = "reading" =>
              at'[j][it[j].offset] = at[j][it[j].offset]
    PROVE  VerifyInv'
<1>1. ASSUME cmd = "verify", NEW j \in Journal
      PROVE  /\ vf'[j].ph # "iter" => IsHashed(at'[j][it'[j].offset].type)
             /\ it'[j].st = "done" => vf'[j].cap = 0 /\ vf'[j].dcap = 0
             /\ \A t \in Type : StatsOf(j, t)'
  <2>1. /\ vf[j].ph # "iter" => it[j].st = "reading" /\ IsHashed(at[j][it[j].offset].type)
        /\ it[j].st = "done" => vf[j].cap = 0 /\ vf[j].dcap = 0
        /\ \A t \in Type : StatsOf(j, t)
    BY <1>1 DEF JInv, Busy, VerifyInv
  <2>2. Verified(j)' = Verified(j) /\ \A o \in Verified(j) : at'[j][o] = at[j][o]
    BY <2>1 DEF Still, Verified
  <2> QED
    BY <2>1, <2>2, StatsStay DEF Still, JInv
<1> QED
  BY <1>1 DEF VerifyInv, Still

\* Before a command is started, nothing was verified and nothing has to be.
LEMMA VerifyStarts ==
    ASSUME JInv, VerifyInv, main
    PROVE  VerifyInv'
<1>1. /\ UNCHANGED <<vf, it, seen, at, starts>> /\ cmd = "none"
      /\ \A j \in Journal : /\ it[j].st = "idle" /\ vf[j].ph = "iter"
                            /\ \A t \in Type : vf[j].n[t] = 0 /\ vf[j].bytes[t] = 0
  BY DEF main, vars, VerifyInv, JInv, Busy
<1>2. ASSUME NEW j \in Journal, NEW t \in Type PROVE StatsOf(j, t)'
  <2>1. Verified(j)' = {}
    BY <1>1, PassedFacts DEF Passed, Verified, JInv
  <2>2. HashedOf(j, Verified(j), t)' = {}
    BY <2>1 DEF HashedOf
  <2>3. Cardinality({}) = 0 /\ SumFunctionOnSet(PayloadSizes(j, t)', {}) = 0
    BY FS_EmptySet, SumType
  <2> QED
    BY <1>1, <2>2, <2>3 DEF StatsOf
<1> QED
  BY <1>1, <1>2 DEF VerifyInv

-----------------------------------------------------------------------------
\* What is known of payloads, and of tables that count them.
Payload ==
    {p \in [size : Nat \ {0}, items : Seq(Item)] :
        p.size < 2^Classes /\ 8 * Len(p.items) <= p.size}
Table == UNION {[D -> Nat \ {0}] : D \in {E \in SUBSET Payload : IsFiniteSet(E)}}

\* Per class: the payloads counted, the space they take, the different ones.
Counts(ea) == [c \in Class |-> SumClass(ea, c, ea)]
Spaces(ea) == [c \in Class |-> SumClass(ea, c, [p \in DOMAIN ea |-> p.size * ea[p]])]
Kinds(ea) == [c \in Class |-> SumClass(ea, c, [p \in DOMAIN ea |-> 1])]

InClass(D, c) == {p \in D : u64log2(p.size) = c}

\* u64log2() gives the class that a size lies in.
LEMMA Log2Facts ==
    ASSUME NEW n \in Nat \ {0}, n < 2^Classes
    PROVE  /\ u64log2(n) \in Class
           /\ \A c \in Class : (2^c <= n /\ n < 2^(c + 1)) <=> u64log2(n) = c
<1>1. Classes \in Nat
  BY ArraysAssumption
<1>2. PICK k \in Class : /\ 2^k <= n /\ n < 2^(k + 1)
                         /\ \A c \in Nat : 2^c <= n /\ n < 2^(c + 1) => c = k
  BY <1>1, HighestBit DEF Class
<1>3. \A c \in Class : c \in Nat
  BY DEF Class
<1>4. u64log2(n) = k
  <2>1. CASE n > 1
    <3>1. u64log2(n) = CHOOSE c \in Class : 2^c <= n /\ n < 2^(c + 1)
      BY <2>1 DEF u64log2
    <3>2. \A c \in Class : (2^c <= n /\ n < 2^(c + 1)) <=> c = k
      BY <1>2, <1>3
    <3> QED
      BY <3>1, <3>2
  <2>2. CASE n = 1
    <3>1. 2^0 <= 1 /\ 1 < 2^(0 + 1)
      OBVIOUS
    <3>2. k = 0
      BY <1>2, <2>2, <3>1
    <3> QED
      BY <2>2, <3>2 DEF u64log2
  <2> QED
    BY <2>1, <2>2
<1> QED
  BY <1>2, <1>3, <1>4

\* What is in a table.
LEMMA TableFacts ==
    ASSUME NEW ea \in Table
    PROVE  /\ DOMAIN ea \subseteq Payload /\ IsFiniteSet(DOMAIN ea)
           /\ \A p \in DOMAIN ea : ea[p] \in Nat \ {0}
           /\ ea \in [DOMAIN ea -> Nat \ {0}]
<1>1. PICK D \in SUBSET Payload : IsFiniteSet(D) /\ ea \in [D -> Nat \ {0}]
  BY DEF Table
<1> QED
  BY <1>1

\* g is f, but for p, which may be new.
DifferAt(D, p, f, g) ==
    /\ IsFiniteSet(D)
    /\ \A q \in D : f[q] \in Int
    /\ \A q \in D \cup {p} : g[q] \in Int
    /\ \A q \in D \ {p} : g[q] = f[q]

Difference(D, p, f, g, c) ==
    IF u64log2(p.size) = c THEN g[p] - (IF p \in D THEN f[p] ELSE 0) ELSE 0

Grows(D, p, f, g, c) ==
    /\ SumFunctionOnSet(f, InClass(D, c)) \in Int
    /\ SumFunctionOnSet(g, InClass(D \cup {p}, c)) =
          SumFunctionOnSet(f, InClass(D, c)) + Difference(D, p, f, g, c)

\* A sum over a class, when p is added to the set D, or had another value.
LEMMA ClassSumGrows ==
    ASSUME NEW D, NEW p, NEW f, NEW g, NEW c, DifferAt(D, p, f, g)
    PROVE  Grows(D, p, f, g, c)
<1> USE DEF DifferAt, Difference, Grows
<1> DEFINE C == InClass(D, c)
<1>1. IsFiniteSet(C) /\ C \subseteq D /\ SumFunctionOnSet(f, C) \in Int
  <2>1. IsFiniteSet(C) /\ C \subseteq D
    BY FS_Subset DEF InClass
  <2> QED
    BY <2>1, SumType
<1>2. p \in C => p \in D
  BY <1>1
<1>3. CASE u64log2(p.size) # c
  <2>1. InClass(D \cup {p}, c) = C /\ p \notin C
    BY <1>3 DEF InClass
  <2>2. \A q \in C : f[q] \in Int /\ g[q] \in Int /\ f[q] = g[q]
    BY <1>1, <2>1
  <2>3. SumFunctionOnSet(f, C) = SumFunctionOnSet(g, C)
    BY <1>1, <2>2, SumCompare
  <2> QED
    BY <1>1, <1>3, <2>1, <2>3
<1>4. CASE u64log2(p.size) = c /\ p \in D
  <2>1. InClass(D \cup {p}, c) = C /\ p \in C
    BY <1>4 DEF InClass
  <2>2. \A q \in C : f[q] \in Int /\ g[q] \in Int /\ (q # p => f[q] = g[q])
    BY <1>1, <1>4
  <2>3. SumFunctionOnSet(g, C) = SumFunctionOnSet(f, C) + g[p] - f[p]
    BY <1>1, <2>1, <2>2, SumUpdate
  <2>4. g[p] - (IF p \in D THEN f[p] ELSE 0) = g[p] - f[p] /\ g[p] \in Int /\ f[p] \in Int
    BY <1>4
  <2> HIDE DEF C
  <2> QED
    BY <1>1, <1>4, <2>1, <2>3, <2>4 DEF C
<1>5. CASE u64log2(p.size) = c /\ p \notin D
  <2>1. InClass(D \cup {p}, c) = C \cup {p} /\ p \notin C
    BY <1>5 DEF InClass
  <2>2. \A q \in C : f[q] \in Int /\ g[q] \in Int /\ f[q] = g[q]
    BY <1>1, <1>5
  <2>3. SumFunctionOnSet(f, C) = SumFunctionOnSet(g, C)
    BY <1>1, <2>2, SumCompare
  <2>4. SumFunctionOnSet(g, C \cup {p}) = SumFunctionOnSet(g, C) + g[p]
    BY <1>1, <2>1, <2>2, SumInsert
  <2>5. g[p] - (IF p \in D THEN f[p] ELSE 0) = g[p] /\ g[p] \in Int
    BY <1>5
  <2> QED
    BY <1>1, <1>5, <2>1, <2>3, <2>4, <2>5
<1> QED
  BY <1>1, <1>3, <1>4, <1>5

\* A payload that is counted adds to its own class, and makes a new kind of
\* payload if it is the first of its kind.
LEMMA TableGrows ==
    ASSUME NEW ea \in Table, NEW p \in Payload
    PROVE  LET new == per_entry_array_payload(ea, p)
               k == u64log2(p.size)
           IN  /\ new \in Table /\ k \in Class
               /\ DOMAIN new = DOMAIN ea \cup {p}
               /\ \A c \in Class :
                     /\ Counts(ea)[c] \in Int /\ Spaces(ea)[c] \in Int /\ Kinds(ea)[c] \in Int
                     /\ Counts(new)[c] = Counts(ea)[c] + (IF k = c THEN 1 ELSE 0)
                     /\ Spaces(new)[c] = Spaces(ea)[c] + (IF k = c THEN p.size ELSE 0)
                     /\ Kinds(new)[c] = Kinds(ea)[c]
                                        + (IF k = c /\ p \notin DOMAIN ea THEN 1 ELSE 0)
<1> DEFINE D == DOMAIN ea
           new == per_entry_array_payload(ea, p)
           k == u64log2(p.size)
<1>1. /\ D \subseteq Payload /\ IsFiniteSet(D)
      /\ \A q \in D : ea[q] \in Nat \ {0}
  BY TableFacts
<1>2. /\ DOMAIN new = D \cup {p}
      /\ new[p] = IF p \in D THEN ea[p] + 1 ELSE 1
      /\ \A q \in D \ {p} : new[q] = ea[q]
      /\ new = [q \in D \cup {p} |-> new[q]]
  BY DEF per_entry_array_payload
<1> HIDE DEF new
<1>3. \A q \in D \cup {p} : new[q] \in Nat \ {0} /\ q \in Payload /\ q.size \in Nat \ {0}
  BY <1>1, <1>2 DEF Payload
<1>4. IsFiniteSet(D \cup {p}) /\ D \cup {p} \subseteq Payload
  BY <1>1, <1>3, FS_AddElement
<1>5. new \in Table
  <2>1. new \in [D \cup {p} -> Nat \ {0}]
    BY <1>2, <1>3
  <2> QED
    BY <1>4, <2>1 DEF Table
<1>6. k \in Class
  BY Log2Facts DEF Payload
<1>7. ASSUME NEW c \in Class
      PROVE  /\ Counts(ea)[c] \in Int
             /\ Counts(new)[c] = Counts(ea)[c] + (IF k = c THEN 1 ELSE 0)
  <2>1. /\ Counts(ea)[c] = SumFunctionOnSet(ea, InClass(D, c))
        /\ Counts(new)[c] = SumFunctionOnSet(new, InClass(D \cup {p}, c))
    BY <1>2 DEF Counts, SumClass, InClass
  <2>2. /\ SumFunctionOnSet(ea, InClass(D, c)) \in Int
        /\ SumFunctionOnSet(new, InClass(D \cup {p}, c)) =
              SumFunctionOnSet(ea, InClass(D, c)) + Difference(D, p, ea, new, c)
    <3>1. DifferAt(D, p, ea, new)
      BY <1>1, <1>2, <1>3 DEF DifferAt
    <3>2. Grows(D, p, ea, new, c)
      BY <3>1, ClassSumGrows, Zenon
    <3> QED
      BY <3>2 DEF Grows
  <2>3. Difference(D, p, ea, new, c) = IF k = c THEN 1 ELSE 0
    BY <1>1, <1>2 DEF Difference
  <2> QED
    BY <2>1, <2>2, <2>3
<1>8. ASSUME NEW c \in Class
      PROVE  /\ Spaces(ea)[c] \in Int
             /\ Spaces(new)[c] = Spaces(ea)[c] + (IF k = c THEN p.size ELSE 0)
  <2> DEFINE f == [q \in D |-> q.size * ea[q]]
             g == [q \in D \cup {p} |-> q.size * new[q]]
  <2>1. /\ Spaces(ea)[c] = SumFunctionOnSet(f, InClass(D, c))
        /\ Spaces(new)[c] = SumFunctionOnSet(g, InClass(D \cup {p}, c))
    BY <1>2 DEF Spaces, SumClass, InClass
  <2>2. /\ \A q \in D : f[q] \in Int
        /\ \A q \in D \cup {p} : g[q] \in Int
        /\ \A q \in D \ {p} : g[q] = f[q]
    <3>1. \A q \in D : q.size \in Int /\ ea[q] \in Int
      BY <1>1, <1>3
    <3>2. \A q \in D \cup {p} : q.size \in Int /\ new[q] \in Int
      BY <1>3
    <3>3. \A a, b \in Int : a * b \in Int
      OBVIOUS
    <3> QED
      BY <1>2, <3>1, <3>2, <3>3
  <2>3. g[p] - (IF p \in D THEN f[p] ELSE 0) = p.size
    <3>1. PICK n \in Nat : n = p.size
      BY <1>3
    <3>2. CASE p \in D
      <4>1. PICK m \in Nat : m = ea[p]
        BY <1>1, <3>2
      <4>2. g[p] = n * (m + 1) /\ f[p] = n * m
        BY <1>2, <3>1, <3>2, <4>1
      <4>3. n * (m + 1) = n * m + n /\ n * m \in Int
        OBVIOUS
      <4> QED
        BY <3>1, <3>2, <4>2, <4>3
    <3>3. CASE p \notin D
      <4>1. g[p] = n * 1
        BY <1>2, <3>1, <3>3
      <4> QED
        BY <3>1, <3>3, <4>1
    <3> QED
      BY <3>2, <3>3
  <2> HIDE DEF f, g
  <2>4. /\ SumFunctionOnSet(f, InClass(D, c)) \in Int
        /\ SumFunctionOnSet(g, InClass(D \cup {p}, c)) =
              SumFunctionOnSet(f, InClass(D, c)) + Difference(D, p, f, g, c)
    <3>1. DifferAt(D, p, f, g)
      BY <1>1, <2>2 DEF DifferAt
    <3>2. Grows(D, p, f, g, c)
      BY <3>1, ClassSumGrows, Zenon
    <3> QED
      BY <3>2 DEF Grows
  <2> QED
    BY <2>1, <2>3, <2>4 DEF Difference
<1>9. ASSUME NEW c \in Class
      PROVE  /\ Kinds(ea)[c] \in Int
             /\ Kinds(new)[c] = Kinds(ea)[c] + (IF k = c /\ p \notin D THEN 1 ELSE 0)
  <2> DEFINE f == [q \in D |-> 1]
             g == [q \in D \cup {p} |-> 1]
  <2>1. /\ Kinds(ea)[c] = SumFunctionOnSet(f, InClass(D, c))
        /\ Kinds(new)[c] = SumFunctionOnSet(g, InClass(D \cup {p}, c))
    BY <1>2 DEF Kinds, SumClass, InClass
  <2>2. /\ \A q \in D : f[q] \in Int
        /\ \A q \in D \cup {p} : g[q] \in Int
        /\ \A q \in D \ {p} : g[q] = f[q]
        /\ g[p] - (IF p \in D THEN f[p] ELSE 0) = IF p \notin D THEN 1 ELSE 0
    OBVIOUS
  <2> HIDE DEF f, g
  <2>4. /\ SumFunctionOnSet(f, InClass(D, c)) \in Int
        /\ SumFunctionOnSet(g, InClass(D \cup {p}, c)) =
              SumFunctionOnSet(f, InClass(D, c)) + Difference(D, p, f, g, c)
    <3>1. DifferAt(D, p, f, g)
      BY <1>1, <2>2 DEF DifferAt
    <3>2. Grows(D, p, f, g, c)
      BY <3>1, ClassSumGrows, Zenon
    <3> QED
      BY <3>2 DEF Grows
  <2> QED
    BY <2>1, <2>2, <2>4 DEF Difference
<1> QED
  BY <1>2, <1>5, <1>6, <1>7, <1>8, <1>9 DEF new

\* The classes are finitely many.
LEMMA ClassFacts == IsFiniteSet(Class)
<1>1. IsFiniteSet(0 .. Classes - 1)
  BY FS_Interval, ArraysAssumption
<1> QED
  BY <1>1 DEF Class

\* Taken together the classes have one payload more, and one kind if it is new.
LEMMA SumsGrow ==
    ASSUME NEW ea \in Table, NEW p \in Payload
    PROVE  LET new == per_entry_array_payload(ea, p)
           IN  /\ SumFunctionOnSet(Counts(ea), Class) \in Int
               /\ SumFunctionOnSet(Kinds(ea), Class) \in Int
               /\ SumFunctionOnSet(Counts(new), Class) = SumFunctionOnSet(Counts(ea), Class) + 1
               /\ SumFunctionOnSet(Kinds(new), Class) =
                     SumFunctionOnSet(Kinds(ea), Class) + (IF p \notin DOMAIN ea THEN 1 ELSE 0)
<1>1. PICK new, k : new = per_entry_array_payload(ea, p) /\ k = u64log2(p.size)
  OBVIOUS
<1>2. PICK f, g, h, i : f = Counts(ea) /\ g = Counts(new) /\ h = Kinds(ea) /\ i = Kinds(new)
  OBVIOUS
<1>3. /\ k \in Class
      /\ \A c \in Class :
            /\ f[c] \in Int /\ h[c] \in Int
            /\ g[c] = f[c] + (IF k = c THEN 1 ELSE 0)
            /\ i[c] = h[c] + (IF k = c /\ p \notin DOMAIN ea THEN 1 ELSE 0)
  BY TableGrows, <1>1, <1>2
<1>4. /\ \A c \in Class : f[c] \in Int /\ g[c] \in Int /\ h[c] \in Int /\ i[c] \in Int
      /\ \A c \in Class \ {k} : f[c] = g[c] /\ h[c] = i[c]
  BY <1>3
<1>5. /\ SumFunctionOnSet(g, Class) = SumFunctionOnSet(f, Class) + g[k] - f[k]
      /\ SumFunctionOnSet(i, Class) = SumFunctionOnSet(h, Class) + i[k] - h[k]
      /\ SumFunctionOnSet(f, Class) \in Int /\ SumFunctionOnSet(h, Class) \in Int
  <2>1. SumFunctionOnSet(g, Class) = SumFunctionOnSet(f, Class) + g[k] - f[k]
    BY <1>3, <1>4, ClassFacts, SumUpdate
  <2>2. SumFunctionOnSet(i, Class) = SumFunctionOnSet(h, Class) + i[k] - h[k]
    BY <1>3, <1>4, ClassFacts, SumUpdate
  <2> QED
    BY <1>4, <2>1, <2>2, ClassFacts, SumType
<1>6. g[k] = f[k] + 1 /\ i[k] = h[k] + (IF p \notin DOMAIN ea THEN 1 ELSE 0)
      /\ f[k] \in Int /\ h[k] \in Int
  BY <1>3
<1>7. /\ SumFunctionOnSet(g, Class) = SumFunctionOnSet(f, Class) + 1
      /\ SumFunctionOnSet(i, Class) =
            SumFunctionOnSet(h, Class) + (IF p \notin DOMAIN ea THEN 1 ELSE 0)
  BY <1>5, <1>6
<1> QED
  BY <1>1, <1>2, <1>5, <1>7

\* An array can only be filled to its size.
LEMMA PayloadsFit ==
    ASSUME NEW size \in Nat \ {0}, size < 2^Classes, NEW p \in Payloads(size)
    PROVE  p \in Payload /\ p.size = size
<1>1. PICK m \in 0 .. size \div 8 :
         \E s \in [1 .. m -> Item] : p = [size |-> size, items |-> s]
  BY DEF Payloads, SeqOf
<1> PICK s \in [1 .. m -> Item] : p = [size |-> size, items |-> s]
  BY <1>1
<1>2. s \in Seq(Item) /\ Len(s) = m
  OBVIOUS
<1>3. 8 * m <= size
  OBVIOUS
<1> QED
  BY <1>1, <1>2, <1>3 DEF Payload

\* What is printed of a profile, whichever payloads come last in the table.
LEMMA StatsFacts ==
    ASSUME NEW pr, pr.ea \in Table, NEW s \in Stats(pr)
    PROVE  /\ s.count = pr.count /\ s.unique = Cardinality(DOMAIN pr.ea)
           /\ s.total = Counts(pr.ea) /\ s.space = Spaces(pr.ea) /\ s.distinct = Kinds(pr.ea)
           /\ \A f \in PerClass, c \in Class : s[f][c] \in Int
           /\ \A c \in Class : /\ s.utilized[c] <= s.space[c]
                               /\ s.distinct[c] <= s.total[c]
<1> DEFINE ea == pr.ea
           ones == [p \in DOMAIN ea |-> 1]
           space == [p \in DOMAIN ea |-> p.size * ea[p]]
           used == [p \in DOMAIN ea |-> 8 * Len(p.items) * ea[p]]
<1>1. PICK last :
         /\ last \in [{u64log2(p.size) : p \in DOMAIN ea} -> DOMAIN ea]
         /\ s = [count |-> pr.count, unique |-> Cardinality(DOMAIN ea),
                 total |-> [c \in Class |-> SumClass(ea, c, ea)],
                 distinct |-> [c \in Class |-> SumClass(ea, c, ones)],
                 bytes |-> [c \in Class |-> IF c \in DOMAIN last
                                            THEN last[c].size * ea[last[c]] ELSE 0],
                 unique_bytes |-> [c \in Class |-> IF c \in DOMAIN last
                                                   THEN last[c].size ELSE 0],
                 space |-> [c \in Class |-> SumClass(ea, c, space)],
                 utilized |-> [c \in Class |-> SumClass(ea, c, used)]]
  BY DEF Stats
<1>2. /\ s.count = pr.count /\ s.unique = Cardinality(DOMAIN ea)
      /\ s.total = Counts(ea) /\ s.space = Spaces(ea) /\ s.distinct = Kinds(ea)
  BY <1>1 DEF Counts, Spaces, Kinds
<1>3. \A c \in Class :
         /\ s.total[c] = SumFunctionOnSet(ea, InClass(DOMAIN ea, c))
         /\ s.distinct[c] = SumFunctionOnSet(ones, InClass(DOMAIN ea, c))
         /\ s.space[c] = SumFunctionOnSet(space, InClass(DOMAIN ea, c))
         /\ s.utilized[c] = SumFunctionOnSet(used, InClass(DOMAIN ea, c))
  BY <1>1 DEF SumClass, InClass
<1>4. \A p \in DOMAIN ea : /\ p.size \in Nat /\ ea[p] \in Nat \ {0} /\ Len(p.items) \in Nat
                           /\ 8 * Len(p.items) <= p.size
  BY TableFacts DEF Payload
<1>5. ASSUME NEW p \in DOMAIN ea
      PROVE  /\ ones[p] \in Int /\ ea[p] \in Int /\ ones[p] <= ea[p]
             /\ used[p] \in Int /\ space[p] \in Int /\ used[p] <= space[p]
  <2>1. PICK a \in Nat, b \in Nat, n \in Nat \ {0} :
           a = Len(p.items) /\ b = p.size /\ n = ea[p] /\ 8 * a <= b
    BY <1>4
  <2>2. ones[p] = 1 /\ used[p] = 8 * a * n /\ space[p] = b * n
    BY <2>1
  <2>3. 8 * a * n \in Int /\ b * n \in Int /\ 8 * a * n <= b * n
    <3>1. PICK d \in Nat : b = 8 * a + d
      <4>1. b - 8 * a \in Nat /\ b = 8 * a + (b - 8 * a)
        BY <2>1
      <4> QED
        BY <4>1
    <3>2. b * n = 8 * a * n + d * n /\ d * n \in Nat /\ 8 * a * n \in Nat
      BY <3>1
    <3> QED
      BY <3>2
  <2> QED
    BY <2>1, <2>2, <2>3
<1>6. ASSUME NEW c \in Class PROVE s.bytes[c] \in Int /\ s.unique_bytes[c] \in Int
  <2>1. /\ s.bytes[c] = IF c \in DOMAIN last THEN last[c].size * ea[last[c]] ELSE 0
        /\ s.unique_bytes[c] = IF c \in DOMAIN last THEN last[c].size ELSE 0
    BY <1>1
  <2>2. \A p \in DOMAIN ea : p.size * ea[p] \in Int /\ p.size \in Int
    BY <1>4
  <2>3. c \in DOMAIN last => last[c] \in DOMAIN ea
    BY <1>1
  <2> HIDE DEF ea
  <2>4. c \in DOMAIN last => last[c].size * ea[last[c]] \in Int /\ last[c].size \in Int
    BY <2>2, <2>3
  <2> QED
    BY <2>1, <2>4
<1>7. ASSUME NEW c \in Class
      PROVE  /\ s.total[c] \in Int /\ s.space[c] \in Int
             /\ s.utilized[c] \in Int /\ s.distinct[c] \in Int
             /\ s.utilized[c] <= s.space[c] /\ s.distinct[c] <= s.total[c]
  <2>1. PICK C : C = InClass(DOMAIN ea, c)
    OBVIOUS
  <2>2. IsFiniteSet(C) /\ C \subseteq DOMAIN ea
    BY <2>1, TableFacts, FS_Subset DEF InClass
  <2> HIDE DEF ones, space, used, ea
  <2>3. \A p \in C : /\ ones[p] \in Int /\ ea[p] \in Int /\ ones[p] <= ea[p]
                     /\ used[p] \in Int /\ space[p] \in Int /\ used[p] <= space[p]
    BY <1>5, <2>2
  <2>4. SumFunctionOnSet(ones, C) <= SumFunctionOnSet(ea, C)
    BY <2>2, <2>3, SumCompare
  <2>5. SumFunctionOnSet(used, C) <= SumFunctionOnSet(space, C)
    BY <2>2, <2>3, SumCompare
  <2>6. /\ SumFunctionOnSet(ea, C) \in Int /\ SumFunctionOnSet(space, C) \in Int
        /\ SumFunctionOnSet(ones, C) \in Int /\ SumFunctionOnSet(used, C) \in Int
    BY <2>2, <2>3, SumType
  <2> QED
    BY <1>3, <2>1, <2>4, <2>5, <2>6
<1>8. ASSUME NEW f \in PerClass, NEW c \in Class PROVE s[f][c] \in Int
  BY <1>6, <1>7 DEF PerClass
<1> QED
  BY <1>2, <1>7, <1>8

-----------------------------------------------------------------------------
\* The arrays in a set of objects whose payloads are of the class c.
ArraysIn(j, objects, c) ==
    {o \in objects : /\ at[j][o].type = OBJECT_ENTRY_ARRAY
                     /\ 2^c <= payload_size(at[j][o])
                     /\ payload_size(at[j][o]) < 2^(c + 1)}

ArraySizes(j) == [o \in Offset |-> payload_size(at[j][o])]

\* The profile of a journal accounts for the arrays passed.
Accounts(j, c) ==
    /\ Counts(profile[j].ea)[c] = Cardinality(ArraysIn(j, Passed(j), c))
    /\ Spaces(profile[j].ea)[c] = SumFunctionOnSet(ArraySizes(j), ArraysIn(j, Passed(j), c))

Profile ==
    {pr \in [reading : BOOLEAN, count : Nat, ea : Table] :
        /\ pr.count = SumFunctionOnSet(Counts(pr.ea), Class) + (IF pr.reading THEN 1 ELSE 0)
        /\ Cardinality(DOMAIN pr.ea) = SumFunctionOnSet(Kinds(pr.ea), Class)}

\* What is added up in the totals are numbers.
IsStats(s) ==
    /\ s.count \in Int /\ s.unique \in Int
    /\ \A f \in PerClass, c \in Class : s[f][c] \in Int

\* What journald wrote has one of the sizes it writes.
Sized == \A j \in Journal, o \in Offset :
            at[j][o].type # OBJECT_UNUSED => at[j][o].size \in Size

ArraysInv ==
    /\ profile \in [Journal -> Profile]
    /\ \A j \in Journal : IsStats(stats[j])
    /\ DOMAIN stats = Journal /\ DOMAIN totals = DOMAIN NoStats
    /\ TotalsAddUp
    /\ Sized
    /\ cmd = "none" => \A j \in Journal :
          it[j].st = "idle" /\ profile[j].ea = <<>> /\ profile[j].reading = FALSE
    /\ cmd \in {"none", "entry-arrays"} =>
          \A j \in Journal : it[j].st # "done" => stats[j] = NoStats
    /\ cmd = "entry-arrays" => \A j \in Journal :
          /\ \A c \in Class : Accounts(j, c)
          /\ profile[j].reading => /\ it[j].st = "reading"
                                   /\ at[j][it[j].offset].type = OBJECT_ENTRY_ARRAY
          /\ it[j].st = "done" => stats[j] \in Stats(profile[j])

\* The payload of an array has a size, and a class.
LEMMA ArrayFacts ==
    ASSUME Sized, NEW j \in Journal, NEW o \in Offset, at[j][o].type = OBJECT_ENTRY_ARRAY
    PROVE  /\ payload_size(at[j][o]) \in Nat \ {0} /\ payload_size(at[j][o]) < 2^Classes
           /\ \A c \in Class :
                 (2^c <= payload_size(at[j][o]) /\ payload_size(at[j][o]) < 2^(c + 1))
                 <=> u64log2(payload_size(at[j][o])) = c
<1>1. PICK s \in Size : s = at[j][o].size
  BY ArraysAssumption DEF Sized
<1> PICK n : n = payload_size(at[j][o])
  OBVIOUS
<1>2. n = s - ItemsOffset
  BY <1>1 DEF payload_size
<1>3. s > ItemsOffset /\ s < 2^Classes /\ ItemsOffset \in Nat /\ Classes \in Nat
  BY ArraysAssumption
<1>4. PICK P \in [Nat -> Nat \ {0}] : \A k \in Nat : P[k] = 2^k /\ P[k + 1] = P[k] + P[k]
  BY PowerFacts
<1>5. n \in Nat \ {0} /\ n < 2^Classes
  <2>1. s \in Nat /\ n \in Nat \ {0} /\ n <= s
    BY <1>3, <1>2, IterAssumption
  <2>2. PICK b \in Nat : b = 2^Classes
    BY <1>3, <1>4
  <2> QED
    BY <1>3, <2>1, <2>2
<1> QED
  BY <1>5, Log2Facts

\* The arrays of a class among finitely many objects have a number and a size.
LEMMA ArraysInFacts ==
    ASSUME IInv, NEW j \in Journal, NEW c, NEW S \in SUBSET Offset, IsFiniteSet(S)
    PROVE  /\ IsFiniteSet(ArraysIn(j, S, c)) /\ Cardinality(ArraysIn(j, S, c)) \in Nat
           /\ \A o \in Offset : /\ ArraySizes(j)[o] = payload_size(at[j][o])
                                /\ ArraySizes(j)[o] \in Int
           /\ SumFunctionOnSet(ArraySizes(j), ArraysIn(j, S, c)) \in Int
<1>1. IsFiniteSet(ArraysIn(j, S, c)) /\ ArraysIn(j, S, c) \subseteq Offset
  BY FS_Subset DEF ArraysIn
<1>2. \A o \in Offset : /\ ArraySizes(j)[o] = payload_size(at[j][o])
                        /\ ArraySizes(j)[o] \in Int
  BY ObjectTypes, ArraysAssumption DEF ArraySizes, payload_size, IInv
<1> QED
  BY <1>1, <1>2, FS_CardinalityType, SumType

\* One more object is one more array of its class, if it is an array.
LEMMA ArraysInGrow ==
    ASSUME IInv, Sized, NEW j \in Journal, NEW c \in Class, NEW S \in SUBSET Offset,
           IsFiniteSet(S), NEW o \in Offset, o \notin S
    PROVE  LET counts == /\ at[j][o].type = OBJECT_ENTRY_ARRAY
                         /\ u64log2(payload_size(at[j][o])) = c
           IN  /\ Cardinality(ArraysIn(j, S \cup {o}, c)) =
                     Cardinality(ArraysIn(j, S, c)) + (IF counts THEN 1 ELSE 0)
               /\ SumFunctionOnSet(ArraySizes(j), ArraysIn(j, S \cup {o}, c)) =
                     SumFunctionOnSet(ArraySizes(j), ArraysIn(j, S, c))
                     + (IF counts THEN payload_size(at[j][o]) ELSE 0)
<1> DEFINE counts == /\ at[j][o].type = OBJECT_ENTRY_ARRAY
                     /\ u64log2(payload_size(at[j][o])) = c
<1>1. /\ IsFiniteSet(ArraysIn(j, S, c)) /\ Cardinality(ArraysIn(j, S, c)) \in Nat
      /\ SumFunctionOnSet(ArraySizes(j), ArraysIn(j, S, c)) \in Int
      /\ \A p \in Offset : /\ ArraySizes(j)[p] = payload_size(at[j][p])
                           /\ ArraySizes(j)[p] \in Int
  BY ArraysInFacts
<1>2. counts <=> /\ at[j][o].type = OBJECT_ENTRY_ARRAY
                 /\ 2^c <= payload_size(at[j][o])
                 /\ payload_size(at[j][o]) < 2^(c + 1)
  BY ArrayFacts
<1> HIDE DEF counts
<1>3. CASE counts
  <2>1. ArraysIn(j, S \cup {o}, c) = ArraysIn(j, S, c) \cup {o} /\ o \notin ArraysIn(j, S, c)
        /\ ArraysIn(j, S, c) \subseteq Offset
    BY <1>2, <1>3, Zenon DEF ArraysIn
  <2>2. Cardinality(ArraysIn(j, S, c) \cup {o}) = Cardinality(ArraysIn(j, S, c)) + 1
    BY <1>1, <2>1, FS_AddElement
  <2>3. SumFunctionOnSet(ArraySizes(j), ArraysIn(j, S, c) \cup {o}) =
           SumFunctionOnSet(ArraySizes(j), ArraysIn(j, S, c)) + ArraySizes(j)[o]
    BY <1>1, <2>1, SumInsert
  <2> QED
    BY <1>1, <1>3, <2>1, <2>2, <2>3 DEF counts
<1>4. CASE ~ counts
  <2>1. ArraysIn(j, S \cup {o}, c) = ArraysIn(j, S, c)
    BY <1>2, <1>4, Zenon DEF ArraysIn
  <2> QED
    BY <1>1, <1>4, <2>1 DEF counts
<1> QED
  BY <1>3, <1>4

\* What happens to other objects does not matter.
LEMMA ArraysInStay ==
    ASSUME IInv, IInv', NEW j \in Journal, NEW c, NEW S \in SUBSET Offset, IsFiniteSet(S),
           \A o \in S : at'[j][o] = at[j][o]
    PROVE  /\ ArraysIn(j, S, c)' = ArraysIn(j, S, c)
           /\ SumFunctionOnSet(ArraySizes(j)', ArraysIn(j, S, c)') =
                 SumFunctionOnSet(ArraySizes(j), ArraysIn(j, S, c))
<1>1. ArraysIn(j, S, c)' = ArraysIn(j, S, c)
  BY Zenon DEF ArraysIn, payload_size
<1>2. PICK R : R = ArraysIn(j, S, c)
  OBVIOUS
<1>3. IsFiniteSet(R) /\ R \subseteq S
  BY <1>2, ArraysInFacts DEF ArraysIn
<1>4. PICK f, g : f = ArraySizes(j) /\ g = ArraySizes(j)'
  OBVIOUS
<1>5. \A o \in S : f[o] \in Int /\ g[o] \in Int /\ f[o] = g[o]
  <2>1. \A o \in Offset : f[o] = payload_size(at[j][o]) /\ f[o] \in Int
    BY <1>4, ArraysInFacts, FS_EmptySet
  <2>2. \A o \in Offset : g[o] = payload_size(at'[j][o])
    BY <1>4 DEF ArraySizes, payload_size
  <2> QED
    BY <2>1, <2>2
<1>6. SumFunctionOnSet(f, R) = SumFunctionOnSet(g, R)
  BY <1>3, <1>5, SumCompare
<1> QED
  BY <1>1, <1>2, <1>4, <1>6

\* A journal's account stays right when nothing more is passed,
LEMMA AccountsStay ==
    ASSUME IInv, IInv', NEW j \in Journal, NEW c \in Class, Accounts(j, c),
           profile'[j].ea = profile[j].ea, Passed(j)' = Passed(j),
           \A o \in Passed(j) : at'[j][o] = at[j][o]
    PROVE  Accounts(j, c)'
<1>1. PICK S \in SUBSET Offset : S = Passed(j) /\ IsFiniteSet(S)
  BY PassedFacts
<1>2. /\ ArraysIn(j, S, c)' = ArraysIn(j, S, c)
      /\ SumFunctionOnSet(ArraySizes(j)', ArraysIn(j, S, c)') =
            SumFunctionOnSet(ArraySizes(j), ArraysIn(j, S, c))
  BY <1>1, ArraysInStay
<1>3. ArraysIn(j, Passed(j), c)' = ArraysIn(j, S, c)'
  BY <1>1, Zenon DEF ArraysIn
<1>4. /\ Counts(profile[j].ea)' = Counts(profile[j].ea)
      /\ Spaces(profile[j].ea)' = Spaces(profile[j].ea)
  BY Zenon DEF Counts, Spaces, SumClass
<1> QED
  BY <1>1, <1>2, <1>3, <1>4, Zenon DEF Accounts

\* and when an object was, if an array was counted by its payload.
LEMMA AccountsGrow ==
    ASSUME IInv, Sized, NEW j \in Journal, NEW c \in Class, Accounts(j, c),
           NEW o \in Offset, o \notin Passed(j), Passed(j)' = Passed(j) \cup {o}, at' = at,
           profile[j].ea \in Table,
           IF at[j][o].type = OBJECT_ENTRY_ARRAY
           THEN \E p \in Payloads(payload_size(at[j][o])) :
                   profile'[j].ea = per_entry_array_payload(profile[j].ea, p)
           ELSE profile'[j].ea = profile[j].ea
    PROVE  Accounts(j, c)'
<1> DEFINE n == payload_size(at[j][o])
           counts == at[j][o].type = OBJECT_ENTRY_ARRAY /\ u64log2(n) = c
<1>1. PICK S \in SUBSET Offset : S = Passed(j) /\ IsFiniteSet(S)
  BY PassedFacts
<1>2. /\ Cardinality(ArraysIn(j, S \cup {o}, c)) =
            Cardinality(ArraysIn(j, S, c)) + (IF counts THEN 1 ELSE 0)
      /\ SumFunctionOnSet(ArraySizes(j), ArraysIn(j, S \cup {o}, c)) =
            SumFunctionOnSet(ArraySizes(j), ArraysIn(j, S, c)) + (IF counts THEN n ELSE 0)
      /\ Cardinality(ArraysIn(j, S, c)) \in Int
      /\ SumFunctionOnSet(ArraySizes(j), ArraysIn(j, S, c)) \in Int
  BY <1>1, ArraysInGrow, ArraysInFacts
<1>3. PICK ea \in Table : \E new : ea = profile[j].ea /\ new = profile'[j].ea
  OBVIOUS
<1> PICK new : ea = profile[j].ea /\ new = profile'[j].ea
  BY <1>3
<1>4. /\ Counts(new)[c] = Counts(ea)[c] + (IF counts THEN 1 ELSE 0)
      /\ Spaces(new)[c] = Spaces(ea)[c] + (IF counts THEN n ELSE 0)
  <2>1. CASE at[j][o].type = OBJECT_ENTRY_ARRAY
    <3>1. PICK p \in Payloads(n) : new = per_entry_array_payload(ea, p)
      BY <2>1
    <3>2. p \in Payload /\ p.size = n
      <4>1. n \in Nat \ {0} /\ n < 2^Classes
        BY <2>1, ArrayFacts
      <4> HIDE DEF n
      <4> QED
        BY <4>1, PayloadsFit
    <3> HIDE DEF n
    <3>3. \A d \in Class :
             /\ Counts(per_entry_array_payload(ea, p))[d] =
                   Counts(ea)[d] + (IF u64log2(p.size) = d THEN 1 ELSE 0)
             /\ Spaces(per_entry_array_payload(ea, p))[d] =
                   Spaces(ea)[d] + (IF u64log2(p.size) = d THEN p.size ELSE 0)
      BY <3>2, TableGrows
    <3> QED
      BY <2>1, <3>1, <3>2, <3>3
  <2>2. CASE at[j][o].type # OBJECT_ENTRY_ARRAY
    <3>1. new = ea
      BY <2>2
    <3> QED
      BY <1>1, <1>2, <2>2, <3>1 DEF Accounts
  <2> QED
    BY <2>1, <2>2
<1>5. /\ Counts(ea)[c] = Cardinality(ArraysIn(j, S, c))
      /\ Spaces(ea)[c] = SumFunctionOnSet(ArraySizes(j), ArraysIn(j, S, c))
  BY <1>1 DEF Accounts
<1>6. /\ Counts(new)[c] = Cardinality(ArraysIn(j, S \cup {o}, c))
      /\ Spaces(new)[c] = SumFunctionOnSet(ArraySizes(j), ArraysIn(j, S \cup {o}, c))
  BY <1>2, <1>4, <1>5
<1>7. /\ ArraysIn(j, Passed(j), c)' = ArraysIn(j, S \cup {o}, c)
      /\ ArraySizes(j)' = ArraySizes(j)
  BY <1>1, Zenon DEF ArraysIn, ArraySizes, payload_size
<1>8. Counts(profile[j].ea)' = Counts(new) /\ Spaces(profile[j].ea)' = Spaces(new)
  BY Zenon DEF Counts, Spaces, SumClass
<1> QED
  BY <1>6, <1>7, <1>8, Zenon DEF Accounts

\* The arrays counted in all classes together are a number.
LEMMA TableSums ==
    ASSUME NEW ea \in Table
    PROVE  SumFunctionOnSet(Counts(ea), Class) \in Int
<1>1. ASSUME NEW c \in Class PROVE Counts(ea)[c] \in Int
  <2>1. IsFiniteSet(InClass(DOMAIN ea, c)) /\ InClass(DOMAIN ea, c) \subseteq DOMAIN ea
    BY TableFacts, FS_Subset DEF InClass
  <2>2. SumFunctionOnSet(ea, InClass(DOMAIN ea, c)) \in Int
    BY <2>1, TableFacts, SumType
  <2> QED
    BY <2>2 DEF Counts, SumClass, InClass
<1> QED
  BY <1>1, ClassFacts, SumType

\* A profile when a payload is asked for, and when it has arrived.
Asking(pr) == [pr EXCEPT !.reading = TRUE, !.count = pr.count + 1]
Arrived(pr, p) ==
    [pr EXCEPT !.reading = FALSE, !.ea = per_entry_array_payload(pr.ea, p)]

\* When the payload of an array is asked for, the array is counted ahead of it.
LEMMA ProfileReads ==
    ASSUME NEW pr \in Profile, ~ pr.reading
    PROVE  /\ Asking(pr) \in Profile
           /\ Asking(pr).reading = TRUE /\ Asking(pr).ea = pr.ea
<1> DEFINE w == [pr EXCEPT !.reading = TRUE, !.count = pr.count + 1]
<1>1. PICK ea \in Table : ea = pr.ea
  BY DEF Profile
<1>2. /\ pr.count = SumFunctionOnSet(Counts(ea), Class) + 0
      /\ Cardinality(DOMAIN ea) = SumFunctionOnSet(Kinds(ea), Class)
      /\ pr.count \in Nat
  BY <1>1 DEF Profile
<1>3. w \in [reading : BOOLEAN, count : Nat, ea : Table]
      /\ w.reading = TRUE /\ w.count = pr.count + 1 /\ w.ea = ea
  <2>1. PICK n \in Nat : n = pr.count + 1
    BY <1>2
  <2>2. pr \in [reading : BOOLEAN, count : Nat, ea : Table]
    BY DEF Profile
  <2>3. w = [[pr EXCEPT !.reading = TRUE] EXCEPT !.count = n]
    BY <2>1
  <2> QED
    BY <1>1, <2>1, <2>2, <2>3
<1> HIDE DEF w
<1>4. SumFunctionOnSet(Counts(ea), Class) \in Int
  BY TableSums
<1>5. w.count = SumFunctionOnSet(Counts(w.ea), Class) + (IF w.reading THEN 1 ELSE 0)
  BY <1>2, <1>3, <1>4
<1>6. w \in Profile
  BY <1>2, <1>3, <1>5 DEF Profile
<1> QED
  BY <1>1, <1>3, <1>6 DEF w, Asking

\* A payload that is counted after its array keeps the profile's sums right.
LEMMA ProfileGrows ==
    ASSUME NEW pr \in Profile, pr.reading, NEW p \in Payload
    PROVE  Arrived(pr, p) \in Profile
<1>1. PICK ea, new :
         ea \in Table /\ ea = pr.ea /\ new = per_entry_array_payload(ea, p)
  BY DEF Profile
<1>2. /\ new \in Table /\ DOMAIN new = DOMAIN ea \cup {p}
  BY <1>1, TableGrows
<1>3. /\ SumFunctionOnSet(Counts(new), Class) = SumFunctionOnSet(Counts(ea), Class) + 1
      /\ SumFunctionOnSet(Kinds(new), Class) =
            SumFunctionOnSet(Kinds(ea), Class) + (IF p \notin DOMAIN ea THEN 1 ELSE 0)
      /\ SumFunctionOnSet(Kinds(ea), Class) \in Int
      /\ SumFunctionOnSet(Counts(ea), Class) \in Int
  BY <1>1, SumsGrow
<1>4. Cardinality(DOMAIN new) = Cardinality(DOMAIN ea) + (IF p \notin DOMAIN ea THEN 1 ELSE 0)
  <2>1. IsFiniteSet(DOMAIN ea) /\ Cardinality(DOMAIN ea) \in Nat
    <3>1. ea \in Table
      BY <1>1
    <3> QED
      BY <3>1, TableFacts, FS_CardinalityType
  <2> QED
    BY <1>2, <2>1, FS_AddElement
<1>5. /\ pr.count = SumFunctionOnSet(Counts(ea), Class) + 1
      /\ Cardinality(DOMAIN ea) = SumFunctionOnSet(Kinds(ea), Class)
      /\ pr.count \in Nat
  BY <1>1 DEF Profile
<1> DEFINE w == [pr EXCEPT !.reading = FALSE, !.ea = new]
<1>6. w \in [reading : BOOLEAN, count : Nat, ea : Table]
      /\ w.reading = FALSE /\ w.count = pr.count /\ w.ea = new
  BY <1>2 DEF Profile
<1> HIDE DEF w
<1>7. w.count = SumFunctionOnSet(Counts(w.ea), Class) + (IF w.reading THEN 1 ELSE 0)
  BY <1>3, <1>5, <1>6
<1>8. Cardinality(DOMAIN w.ea) = SumFunctionOnSet(Kinds(w.ea), Class)
  BY <1>3, <1>4, <1>5, <1>6
<1>9. w \in Profile
  BY <1>6, <1>7, <1>8 DEF Profile
<1> QED
  BY <1>1, <1>9 DEF w, Arrived

\* A sum over the journals when that of j was nothing before.
LEMMA SumOverJournals ==
    ASSUME NEW f, NEW g, NEW j \in Journal, DOMAIN f = Journal, DOMAIN g = Journal,
           \A i \in Journal : f[i] \in Int /\ g[i] \in Int /\ (i # j => f[i] = g[i]),
           f[j] = 0
    PROVE  SumFunction(g) = SumFunction(f) + g[j]
<1>1. IsFiniteSet(Journal)
  BY IterAssumption
<1>2. SumFunctionOnSet(g, Journal) = SumFunctionOnSet(f, Journal) + g[j] - f[j]
  BY <1>1, SumUpdate
<1>3. SumFunctionOnSet(f, Journal) \in Int
  BY <1>1, SumType
<1> QED
  BY <1>2, <1>3 DEF SumFunction

\* Nothing is nothing in all of them.
LEMMA NoStatsFacts ==
    /\ IsStats(NoStats) /\ NoStats.count = 0 /\ NoStats.unique = 0
    /\ \A f \in PerClass, c \in Class : NoStats[f][c] = 0
    /\ DOMAIN NoStats = PerClass \cup {"count", "unique"}
BY DEF NoStats, Zeroes, IsStats, PerClass

\* What is printed for a journal is added to the totals.
LEMMA TotalsGrow ==
    ASSUME \A i \in Journal : IsStats(stats[i]), DOMAIN stats = Journal,
           DOMAIN totals = DOMAIN NoStats, TotalsAddUp,
           NEW j \in Journal, stats[j] = NoStats, NEW s, IsStats(s),
           stats' = [stats EXCEPT ![j] = s], totals' = add_stats(totals, s)
    PROVE  /\ \A i \in Journal : IsStats(stats[i])'
           /\ DOMAIN stats' = Journal /\ DOMAIN totals' = DOMAIN NoStats
           /\ TotalsAddUp'
<1>1. /\ stats'[j] = s /\ DOMAIN stats' = Journal
      /\ \A i \in Journal : i # j => stats'[i] = stats[i]
  OBVIOUS
<1>2. \A i \in Journal : IsStats(stats'[i])
  BY <1>1
<1>3. DOMAIN totals' = DOMAIN totals
  BY DEF add_stats
<1>4. /\ totals'.count = totals.count + s.count
      /\ totals'.unique = totals.unique + s.unique
      /\ \A f \in PerClass, c \in Class : totals'[f][c] = totals[f][c] + s[f][c]
  BY NoStatsFacts DEF add_stats, PerClass
<1>5. totals'.count = SumFunction([i \in Journal |-> stats'[i].count])
  <2> DEFINE f == [i \in Journal |-> stats[i].count]
             g == [i \in Journal |-> stats'[i].count]
  <2>1. /\ \A i \in Journal : f[i] \in Int /\ g[i] \in Int /\ (i # j => f[i] = g[i])
        /\ f[j] = 0 /\ g[j] = s.count /\ DOMAIN f = Journal /\ DOMAIN g = Journal
    BY <1>1, <1>2, NoStatsFacts DEF IsStats
  <2>2. totals.count = SumFunction(f)
    BY DEF TotalsAddUp
  <2> HIDE DEF f, g
  <2>3. SumFunction(g) = SumFunction(f) + g[j]
    BY <2>1, SumOverJournals
  <2> QED
    BY <1>4, <2>1, <2>2, <2>3 DEF g
<1>6. totals'.unique = SumFunction([i \in Journal |-> stats'[i].unique])
  <2> DEFINE f == [i \in Journal |-> stats[i].unique]
             g == [i \in Journal |-> stats'[i].unique]
  <2>1. /\ \A i \in Journal : f[i] \in Int /\ g[i] \in Int /\ (i # j => f[i] = g[i])
        /\ f[j] = 0 /\ g[j] = s.unique /\ DOMAIN f = Journal /\ DOMAIN g = Journal
    BY <1>1, <1>2, NoStatsFacts DEF IsStats
  <2>2. totals.unique = SumFunction(f)
    BY DEF TotalsAddUp
  <2> HIDE DEF f, g
  <2>3. SumFunction(g) = SumFunction(f) + g[j]
    BY <2>1, SumOverJournals
  <2> QED
    BY <1>4, <2>1, <2>2, <2>3 DEF g
<1>7. ASSUME NEW field \in PerClass, NEW c \in Class
      PROVE  totals'[field][c] = SumFunction([i \in Journal |-> stats'[i][field][c]])
  <2> DEFINE f == [i \in Journal |-> stats[i][field][c]]
             g == [i \in Journal |-> stats'[i][field][c]]
  <2>1. /\ \A i \in Journal : f[i] \in Int /\ g[i] \in Int /\ (i # j => f[i] = g[i])
        /\ f[j] = 0 /\ g[j] = s[field][c] /\ DOMAIN f = Journal /\ DOMAIN g = Journal
    BY <1>1, <1>2, NoStatsFacts DEF IsStats
  <2>2. totals[field][c] = SumFunction(f)
    BY DEF TotalsAddUp
  <2> HIDE DEF f, g
  <2>3. SumFunction(g) = SumFunction(f) + g[j]
    BY <2>1, SumOverJournals
  <2> QED
    BY <1>4, <2>1, <2>2, <2>3 DEF g
<1>8. TotalsAddUp'
  BY <1>5, <1>6, <1>7, Zenon DEF TotalsAddUp
<1>9. \A i \in Journal : IsStats(stats[i])'
  BY <1>2, Zenon DEF IsStats
<1> QED
  BY <1>1, <1>3, <1>8, <1>9

\* The others' accounts and statistics are as before when the closure of j has
\* run and, at the end of its journal, has printed its statistics.
LEMMA ProfiledSteps ==
    ASSUME IInv, IInv', ArraysInv, cmd = "entry-arrays", cmd' = cmd, NEW j \in Journal,
           Moves(j), at' = at, it[j].st # "done",
           \A i \in Journal : i # j => Passed(i)' = Passed(i),
           NEW pr \in Profile, Profiled(j, pr), ~ pr.reading,
           \A c \in Class : Accounts(j, c)'
    PROVE  ArraysInv'
<1>1. /\ profile \in [Journal -> Profile] /\ profile' = [profile EXCEPT ![j] = pr]
      /\ profile'[j] = pr /\ \A i \in Journal : i # j => profile'[i] = profile[i]
      /\ \A i \in Journal : i # j => it'[i] = it[i]
  BY DEF ArraysInv, Profiled, Moves
<1>2. Sized'
  BY DEF ArraysInv, Sized
<1>3. pr.ea \in Table
  BY DEF Profile
<1>4. /\ \A i \in Journal : IsStats(stats[i])'
      /\ DOMAIN stats' = Journal /\ DOMAIN totals' = DOMAIN NoStats
      /\ TotalsAddUp'
      /\ \A i \in Journal : i # j => stats'[i] = stats[i]
      /\ it'[j].st # "done" => stats'[j] = NoStats
      /\ it'[j].st = "done" => stats'[j] \in Stats(pr)
  <2>0. /\ \A i \in Journal : IsStats(stats[i])
        /\ DOMAIN stats = Journal /\ DOMAIN totals = DOMAIN NoStats
        /\ TotalsAddUp /\ stats[j] = NoStats
    BY DEF ArraysInv
  <2>1. CASE it'[j].st = "done"
    <3>1. PICK s \in Stats(pr) : /\ stats' = [stats EXCEPT ![j] = s]
                                 /\ totals' = add_stats(totals, s)
      BY <2>1 DEF Profiled
    <3>2. IsStats(s)
      <4>1. /\ s.count = pr.count /\ s.unique = Cardinality(DOMAIN pr.ea)
            /\ \A f \in PerClass, c \in Class : s[f][c] \in Int
        BY <1>3, StatsFacts
      <4>2. pr.count \in Int /\ Cardinality(DOMAIN pr.ea) \in Int
        BY <1>3, TableFacts, FS_CardinalityType DEF Profile
      <4> QED
        BY <4>1, <4>2 DEF IsStats
    <3>3. /\ \A i \in Journal : IsStats(stats[i])'
          /\ DOMAIN stats' = Journal /\ DOMAIN totals' = DOMAIN NoStats
          /\ TotalsAddUp'
      BY <2>0, <3>1, <3>2, TotalsGrow
    <3>4. stats'[j] = s /\ \A i \in Journal : i # j => stats'[i] = stats[i]
      BY <2>0, <3>1
    <3> QED
      BY <2>1, <3>1, <3>3, <3>4
  <2>2. CASE it'[j].st # "done"
    <3>1. stats' = stats /\ totals' = totals
      BY <2>2 DEF Profiled
    <3>2. TotalsAddUp'
      BY <2>0, <3>1 DEF TotalsAddUp
    <3> QED
      BY <2>0, <2>2, <3>1, <3>2 DEF IsStats
  <2> QED
    BY <2>1, <2>2
<1>5. ASSUME NEW i \in Journal
      PROVE  /\ \A c \in Class : Accounts(i, c)'
             /\ profile'[i].reading => /\ it'[i].st = "reading"
                                       /\ at'[i][it'[i].offset].type = OBJECT_ENTRY_ARRAY
             /\ it'[i].st = "done" => stats'[i] \in Stats(profile'[i])
             /\ it'[i].st # "done" => stats'[i] = NoStats
  <2>1. CASE i = j
    BY <1>1, <1>4, <2>1
  <2>2. CASE i # j
    <3>1. /\ \A c \in Class : Accounts(i, c)
          /\ profile[i].reading => /\ it[i].st = "reading"
                                   /\ at[i][it[i].offset].type = OBJECT_ENTRY_ARRAY
          /\ it[i].st = "done" => stats[i] \in Stats(profile[i])
          /\ it[i].st # "done" => stats[i] = NoStats
      BY DEF ArraysInv
    <3>2. \A c \in Class : Accounts(i, c)'
      BY <1>1, <2>2, <3>1, AccountsStay
    <3> QED
      BY <1>1, <1>4, <2>2, <3>1, <3>2
  <2> QED
    BY <2>1, <2>2
<1>6. profile' \in [Journal -> Profile]
  BY <1>1
<1>7. \A i \in Journal : it'[i].st = "done" => stats'[i] \in Stats(profile[i])'
  BY <1>5, Zenon DEF Stats, SumClass
<1> QED
  BY <1>2, <1>4, <1>5, <1>6, <1>7 DEF ArraysInv

\* What does not touch the profiles and moves no iteration keeps them right.
LEMMA ArraysStill ==
    ASSUME IInv, IInv', ArraysInv, UNCHANGED <<profile, stats, totals, cmd>>, Still, Sized',
           \A j \in Journal : it[j].st = "reading" =>
              at'[j][it[j].offset] = at[j][it[j].offset]
    PROVE  ArraysInv'
<1>1. TotalsAddUp' /\ \A i \in Journal : IsStats(stats[i])'
  BY DEF ArraysInv, TotalsAddUp, IsStats
<1>2. ASSUME cmd = "entry-arrays", NEW i \in Journal
      PROVE  /\ \A c \in Class : Accounts(i, c)'
             /\ profile'[i].reading => /\ it'[i].st = "reading"
                                       /\ at'[i][it'[i].offset].type = OBJECT_ENTRY_ARRAY
             /\ it'[i].st = "done" => stats'[i] \in Stats(profile'[i])
  <2>1. /\ \A c \in Class : Accounts(i, c)
        /\ profile[i].reading => /\ it[i].st = "reading"
                                 /\ at[i][it[i].offset].type = OBJECT_ENTRY_ARRAY
        /\ it[i].st = "done" => stats[i] \in Stats(profile[i])
    BY <1>2 DEF ArraysInv
  <2>2. \A c \in Class : Accounts(i, c)'
    BY <2>1, AccountsStay DEF Still
  <2> QED
    BY <2>1, <2>2 DEF Still
<1>3. cmd = "entry-arrays" =>
         \A i \in Journal : it'[i].st = "done" => stats'[i] \in Stats(profile[i])'
  BY <1>2, Zenon DEF Stats, SumClass
<1> QED
  BY <1>1, <1>2, <1>3 DEF ArraysInv, Still

\* The steps of "entry-arrays".
LEMMA ArraysSteps ==
    ASSUME IInv, IInv', ArraysInv, cmd = "entry-arrays", cmd' = cmd, NEW j \in Journal,
           ArraysCallback(j), Moves(j)
    PROVE  ArraysInv'
<1>1. /\ profile \in [Journal -> Profile] /\ Sized /\ it \in [Journal -> [st : {"idle", "header", "reading", "done"},
                           tail : Offset, offset : Offset, object : Object]]
      /\ \A c \in Class : Accounts(j, c)
      /\ profile[j].reading => /\ it[j].st = "reading"
                               /\ at[j][it[j].offset].type = OBJECT_ENTRY_ARRAY
      /\ profile[j].ea \in Table /\ profile[j].reading \in BOOLEAN
  BY DEF ArraysInv, Profile, IInv, TypeOK
<1>2. ASSUME at' = at PROVE Sized'
  BY <1>1, <1>2 DEF Sized
<1>3. CASE journal_get_header(j) /\ UNCHANGED arraysVars
  <2>1. /\ it[j].st = "idle" /\ it' = [it EXCEPT ![j].st = "header"]
        /\ UNCHANGED <<seen, at, profile, stats, totals>>
    BY <1>3 DEF journal_get_header, arraysVars
  <2>2. \A i \in Journal : Passed(i)' = Passed(i)
    BY <2>1 DEF Passed
  <2>3. Profiled(j, profile[j]) /\ ~ profile[j].reading
    <3>1. it'[j].st # "done" /\ profile' = [profile EXCEPT ![j] = profile[j]]
      BY <1>1, <2>1
    <3> QED
      BY <1>1, <2>1, <3>1 DEF Profiled
  <2>4. \A c \in Class : Accounts(j, c)'
    BY <1>1, <2>1, <2>2, AccountsStay
  <2> QED
    BY <1>1, <2>1, <2>2, <2>3, <2>4, ProfiledSteps
<1>4. CASE ArraysGotHeader(j)
  <2>1. got_header(j) /\ Profiled(j, profile[j])
    BY <1>4 DEF ArraysGotHeader
  <2>2. /\ it[j].st = "header" /\ Passed(j)' = Passed(j)
        /\ \A i \in Journal : i # j => Passed(i)' = Passed(i)
        /\ at' = at
    BY <2>1, HeaderPasses
  <2>3. profile'[j].ea = profile[j].ea
    BY <1>1, <2>1 DEF Profiled
  <2>4. \A c \in Class : Accounts(j, c)'
    BY <1>1, <2>2, <2>3, AccountsStay
  <2> QED
    BY <1>1, <2>1, <2>2, <2>4, ProfiledSteps
<1>5. CASE arrays_object(j)
  <2>1. it[j].st = "reading" /\ ~ profile[j].reading
    BY <1>5 DEF arrays_object
  <2>2. CASE at[j][it[j].offset].type = OBJECT_ENTRY_ARRAY
    <3> DEFINE pr == Asking(profile[j])
    <3>1. /\ profile' = [profile EXCEPT ![j] = pr]
          /\ UNCHANGED <<stats, totals>> /\ UNCHANGED vars
      BY <1>1, <1>5, <2>2 DEF arrays_object, Asking
    <3>2. pr \in Profile /\ pr.ea = profile[j].ea /\ pr.reading = TRUE
      BY <1>1, <2>1, ProfileReads
    <3> HIDE DEF pr
    <3>3. UNCHANGED <<at, it, seen>>
      BY <3>1 DEF vars
    <3>4. \A i \in Journal : Passed(i)' = Passed(i) /\ profile'[i].ea = profile[i].ea
      BY <1>1, <3>1, <3>2, <3>3 DEF Passed
    <3>5. /\ TotalsAddUp' /\ (\A i \in Journal : IsStats(stats[i])') /\ Sized'
          /\ DOMAIN stats' = Journal /\ DOMAIN totals' = DOMAIN NoStats
      BY <1>2, <3>1, <3>3 DEF ArraysInv, TotalsAddUp, IsStats
    <3>6. \A i \in Journal : it'[i].st # "done" => stats'[i] = NoStats
      BY <3>1, <3>3 DEF ArraysInv
    <3>7. profile' \in [Journal -> Profile]
      BY <1>1, <3>1, <3>2
    <3>8. ASSUME NEW i \in Journal
          PROVE  /\ \A c \in Class : Accounts(i, c)'
                 /\ profile'[i].reading => /\ it'[i].st = "reading"
                                           /\ at'[i][it'[i].offset].type = OBJECT_ENTRY_ARRAY
                 /\ it'[i].st = "done" => stats'[i] \in Stats(profile'[i])
      <4>1. /\ \A c \in Class : Accounts(i, c)
            /\ profile[i].reading => /\ it[i].st = "reading"
                                     /\ at[i][it[i].offset].type = OBJECT_ENTRY_ARRAY
            /\ it[i].st = "done" => stats[i] \in Stats(profile[i])
        BY DEF ArraysInv
      <4>2. \A c \in Class : Accounts(i, c)'
        BY <3>3, <3>4, <4>1, AccountsStay
      <4>3. i # j => profile'[i] = profile[i]
        BY <1>1, <3>1
      <4> QED
        BY <2>1, <2>2, <3>1, <3>3, <4>1, <4>2, <4>3
    <3>9. \A i \in Journal : it'[i].st = "done" => stats'[i] \in Stats(profile[i])'
      BY <3>8, Zenon DEF Stats, SumClass
    <3> QED
      BY <3>5, <3>6, <3>7, <3>8, <3>9 DEF ArraysInv
  <2>3. CASE at[j][it[j].offset].type # OBJECT_ENTRY_ARRAY
    <3>1. got_iter_object_header(j) /\ Profiled(j, profile[j])
      BY <1>5, <2>3 DEF arrays_object
    <3>2. PICK o : o = it[j].offset
      OBVIOUS
    <3>3. /\ o \in Offset /\ o \notin Passed(j) /\ Passed(j)' = Passed(j) \cup {o} /\ at' = at
          /\ \A i \in Journal : i # j => Passed(i)' = Passed(i)
      BY <3>1, <3>2, ObjectPasses
    <3>4. profile'[j].ea = profile[j].ea
      BY <1>1, <3>1 DEF Profiled
    <3>5. \A c \in Class : Accounts(j, c)'
      BY <1>1, <2>3, <3>2, <3>3, <3>4, AccountsGrow
    <3> QED
      BY <1>1, <2>1, <3>1, <3>3, <3>5, ProfiledSteps
  <2> QED
    BY <2>2, <2>3
<1>6. CASE ArraysGotPayload(j)
  <2>1. PICK o : o = it[j].offset
    OBVIOUS
  <2>2. PICK p \in Payloads(payload_size(at[j][it[j].offset])) :
           Profiled(j, Arrived(profile[j], p))
    BY <1>6, Zenon DEF ArraysGotPayload, Arrived
  <2>3. profile[j].reading /\ got_iter_object_header(j)
    BY <1>6 DEF ArraysGotPayload
  <2>4. /\ o \in Offset /\ o \notin Passed(j) /\ Passed(j)' = Passed(j) \cup {o} /\ at' = at
        /\ \A i \in Journal : i # j => Passed(i)' = Passed(i)
    BY <2>1, <2>3, ObjectPasses
  <2>5. at[j][o].type = OBJECT_ENTRY_ARRAY /\ it[j].st = "reading"
    BY <1>1, <2>1, <2>3
  <2>6. p \in Payload
    <3>1. PICK n \in Nat \ {0} : n = payload_size(at[j][o]) /\ n < 2^Classes
      BY <1>1, <2>4, <2>5, ArrayFacts
    <3>2. p \in Payloads(n)
      BY <2>1, <2>2, <3>1
    <3> QED
      BY <3>1, <3>2, PayloadsFit
  <2> DEFINE pr == Arrived(profile[j], p)
  <2>7. pr \in Profile
    BY <1>1, <2>3, <2>6, ProfileGrows
  <2>8. ~ pr.reading /\ pr.ea = per_entry_array_payload(profile[j].ea, p)
    BY <1>1 DEF Profile, Arrived
  <2>9. Profiled(j, pr)
    BY <2>2
  <2> HIDE DEF pr
  <2>10. profile'[j].ea = per_entry_array_payload(profile[j].ea, p)
    BY <1>1, <2>8, <2>9 DEF Profiled
  <2>11. \A c \in Class : Accounts(j, c)'
    <3>1. \E q \in Payloads(payload_size(at[j][o])) :
             profile'[j].ea = per_entry_array_payload(profile[j].ea, q)
      <4>1. p \in Payloads(payload_size(at[j][o]))
        BY <2>1, <2>2
      <4> QED
        BY <2>10, <4>1
    <3> QED
      BY <1>1, <2>4, <2>5, <3>1, AccountsGrow
  <2> QED
    BY <2>4, <2>5, <2>7, <2>8, <2>9, <2>11, ProfiledSteps
<1>7. CASE ReadFails(j) /\ UNCHANGED arraysVars
  <2>1. UNCHANGED <<it, seen, at, profile, stats, totals>>
    BY <1>7 DEF ReadFails, arraysVars
  <2>2. Still
    BY <2>1 DEF Still, Passed
  <2> QED
    BY <1>2, <2>1, <2>2, ArraysStill
<1> QED
  BY <1>3, <1>4, <1>5, <1>6, <1>7 DEF ArraysCallback

\* In an empty table nothing is counted.
LEMMA EmptyTable ==
    /\ <<>> \in Table /\ DOMAIN <<>> = {}
    /\ \A c \in Class : Counts(<<>>)[c] = 0 /\ Spaces(<<>>)[c] = 0 /\ Kinds(<<>>)[c] = 0
<1>1. PICK none : none = <<>>
  OBVIOUS
<1>2. DOMAIN none = {} /\ none \in [{} -> Nat \ {0}] /\ none = [x \in {} |-> 0]
  BY <1>1
<1>3. IsFiniteSet({}) /\ {} \subseteq Payload
  BY FS_EmptySet
<1>4. none \in Table
  BY <1>2, <1>3 DEF Table
<1>5. \A f : SumFunctionOnSet(f, {}) = 0
  BY <1>3, SumType
<1>6. \A c \in Class : InClass({}, c) = {}
  BY DEF InClass
<1>7. \A c \in Class : Counts(none)[c] = 0 /\ Spaces(none)[c] = 0 /\ Kinds(none)[c] = 0
  <2> SUFFICES ASSUME NEW c \in Class
               PROVE  Counts(none)[c] = 0 /\ Spaces(none)[c] = 0 /\ Kinds(none)[c] = 0
    OBVIOUS
  <2>1. /\ Counts(none)[c] = SumFunctionOnSet(none, InClass(DOMAIN none, c))
        /\ Spaces(none)[c] = SumFunctionOnSet([p \in DOMAIN none |-> p.size * none[p]],
                                              InClass(DOMAIN none, c))
        /\ Kinds(none)[c] = SumFunctionOnSet([p \in DOMAIN none |-> 1], InClass(DOMAIN none, c))
    BY DEF Counts, Spaces, Kinds, SumClass, InClass
  <2>2. InClass(DOMAIN none, c) = {}
    BY <1>2, <1>6
  <2> QED
    BY <1>5, <2>1, <2>2
<1> QED
  BY <1>1, <1>2, <1>4, <1>7

\* What journald appends has a size, and what is lost has no type.
LEMMA SizedStays ==
    ASSUME IInv, Sized, Environment
    PROVE  Sized'
<1>1. CASE Appends
  <2>1. PICK i \in Journal, t \in Type, s \in Size :
           JournaldAppend(i, [type |-> t, size |-> s])
    BY <1>1 DEF Appends
  <2>2. at' = [at EXCEPT ![i] = [@ EXCEPT ![end[i]] = [type |-> t, size |-> s]]]
    BY <2>1 DEF JournaldAppend
  <2> QED
    BY <2>2 DEF Sized, IInv, TypeOK
<1>2. CASE \E j \in Journal, o \in Offset : Lose(j, o)
  <2>1. PICK i \in Journal, o \in Offset : Lose(i, o)
    BY <1>2
  <2>2. at' = [at EXCEPT ![i] = [@ EXCEPT ![o] = Blank]]
    BY <2>1 DEF Lose
  <2> QED
    BY <2>2 DEF Sized, IInv, TypeOK, Blank
<1> QED
  BY <1>1, <1>2 DEF Environment

\* Before a command is started there are no arrays to account for.
LEMMA ArraysStarts ==
    ASSUME IInv, ArraysInv, main
    PROVE  ArraysInv'
<1>1. /\ UNCHANGED <<profile, stats, totals, it, seen, at, starts>> /\ cmd = "none"
      /\ \A j \in Journal : /\ it[j].st = "idle" /\ profile[j].ea = <<>>
                            /\ profile[j].reading = FALSE
  BY DEF main, vars, arraysVars, ArraysInv
<1>2. TotalsAddUp' /\ (\A i \in Journal : IsStats(stats[i])') /\ Sized'
  BY <1>1 DEF ArraysInv, TotalsAddUp, IsStats, Sized
<1>3. ASSUME NEW j \in Journal, NEW c \in Class PROVE Accounts(j, c)'
  <2>1. Passed(j)' = {}
    BY <1>1, PassedFacts DEF Passed
  <2>2. ArraysIn(j, Passed(j), c)' = {}
    BY <2>1 DEF ArraysIn
  <2>3. Cardinality({}) = 0 /\ SumFunctionOnSet(ArraySizes(j)', {}) = 0
    BY FS_EmptySet, SumType
  <2>4. profile'[j].ea = <<>>
    BY <1>1
  <2>5. Counts(profile[j].ea)'[c] = 0 /\ Spaces(profile[j].ea)'[c] = 0
    <3>1. Counts(profile'[j].ea)[c] = 0 /\ Spaces(profile'[j].ea)[c] = 0
      BY <2>4, EmptyTable
    <3> QED
      BY <3>1, Zenon DEF Counts, Spaces, SumClass
  <2> QED
    BY <2>2, <2>3, <2>5, Zenon DEF Accounts
<1> QED
  BY <1>1, <1>2, <1>3 DEF ArraysInv

\* The accounts are right in the initial state.
LEMMA ArraysInit0 == JioInit => ArraysInv
<1> SUFFICES ASSUME JioInit PROVE ArraysInv
  OBVIOUS
<1>1. /\ profile = [j \in Journal |-> [reading |-> FALSE, count |-> 0, ea |-> <<>>]]
      /\ stats = [j \in Journal |-> NoStats] /\ totals = NoStats /\ cmd = "none"
      /\ at = [j \in Journal |-> [o \in Offset |-> Blank]]
      /\ \A j \in Journal : it[j].st = "idle"
  BY DEF JioInit, ArraysInit, Init
<1>2. [reading |-> FALSE, count |-> 0, ea |-> <<>>] \in Profile
  <2>1. PICK none \in Table : none = <<>>
    BY EmptyTable
  <2>2. Cardinality(DOMAIN none) = 0
    BY <2>1, EmptyTable, FS_EmptySet
  <2>3. SumFunctionOnSet(Counts(none), Class) = 0 /\ SumFunctionOnSet(Kinds(none), Class) = 0
    BY <2>1, EmptyTable, ClassFacts, SumType
  <2> DEFINE pr == [reading |-> FALSE, count |-> 0, ea |-> none]
  <2>4. /\ pr \in [reading : BOOLEAN, count : Nat, ea : Table]
        /\ pr.reading = FALSE /\ pr.count = 0 /\ pr.ea = none
    OBVIOUS
  <2> HIDE DEF pr
  <2>5. pr \in Profile
    BY <2>2, <2>3, <2>4 DEF Profile
  <2> QED
    BY <2>1, <2>5 DEF pr
<1>3. profile \in [Journal -> Profile]
  BY <1>1, <1>2
<1>4. Sized
  BY <1>1 DEF Sized, Blank
<1>5. ASSUME NEW f, DOMAIN f = Journal, \A i \in Journal : f[i] = 0
      PROVE  SumFunction(f) = 0
  BY <1>5, IterAssumption, SumType DEF SumFunction
<1>6. TotalsAddUp
  <2>1. /\ totals.count = 0 /\ totals.unique = 0
        /\ \A f \in PerClass, c \in Class : totals[f][c] = 0
        /\ \A i \in Journal :
              /\ stats[i].count = 0 /\ stats[i].unique = 0
              /\ \A f \in PerClass, c \in Class : stats[i][f][c] = 0
    BY <1>1, NoStatsFacts
  <2>2. SumFunction([i \in Journal |-> stats[i].count]) = 0
    BY <1>5, <2>1
  <2>3. SumFunction([i \in Journal |-> stats[i].unique]) = 0
    BY <1>5, <2>1
  <2>4. ASSUME NEW f \in PerClass, NEW c \in Class
        PROVE  SumFunction([i \in Journal |-> stats[i][f][c]]) = 0
    BY <1>5, <2>1
  <2> QED
    BY <2>1, <2>2, <2>3, <2>4, Zenon DEF TotalsAddUp
<1>7. (\A i \in Journal : IsStats(stats[i])) /\ DOMAIN stats = Journal
  BY <1>1, NoStatsFacts
<1>8. DOMAIN totals = DOMAIN NoStats /\ \A j \in Journal : stats[j] = NoStats
  BY <1>1
<1> QED
  BY <1>1, <1>3, <1>4, <1>6, <1>7, <1>8 DEF ArraysInv

\* Nothing was verified in the initial state.
LEMMA VerifyInit0 == JioInit => VerifyInv
BY DEF JioInit, VerifyInit, Init, VerifyInv

-----------------------------------------------------------------------------
\* What may be printed of objects.
Marks == {Mark(o, object) : o \in Offset, object \in Object}

\* Where the object behind the one marked m at o is.
Behind(o, m) == o + m.size + m.pad

\* The marks printed for j are those of the objects passed, which are at the
\* offsets place in that order: the first behind the header, each further one
\* behind the one before it, and so is the one that the iteration reads.
Placed(j, marks, place) ==
    /\ Len(place) = Len(marks)
    /\ \A k \in 1 .. Len(place) :
          /\ place[k] \in Passed(j)
          /\ marks[k] = Mark(place[k], at[j][place[k]])
          /\ IF k = 1 THEN place[k] = header_size
             ELSE place[k] > place[k - 1] /\ place[k] = Behind(place[k - 1], marks[k - 1])
    /\ \A o \in Passed(j) : \E k \in 1 .. Len(place) : place[k] = o

Reaches(j, marks, place) ==
    it[j].st = "reading" =>
       it[j].offset = IF Len(place) = 0 THEN header_size
                      ELSE Behind(place[Len(place)], marks[Len(place)])

IsPlaced(j) ==
    \E place \in Seq(Offset) :
       Placed(j, out[j].marks, place) /\ Reaches(j, out[j].marks, place)

\* The layout file of j is there as long as its iteration runs.
StreamOf(j) ==
    out[j].stream = IF it[j].st = "idle" THEN "none"
                    ELSE IF it[j].st = "done" THEN "closed" ELSE "open"

LayoutInv ==
    /\ \A j \in Journal : out[j].marks \in Seq(Marks)
    /\ DOMAIN out = Journal
    /\ \A j \in Journal : DOMAIN out[j] = {"stream", "marks"}
    /\ cmd = "none" => \A j \in Journal : /\ it[j].st = "idle"
                                           /\ out[j].stream = "none"
                                           /\ out[j].marks = <<>>
    /\ cmd = "layout" => \A j \in Journal : StreamOf(j) /\ IsPlaced(j)

\* What moves no iteration keeps the places.
LEMMA PlacesStay ==
    ASSUME NEW j \in Journal, it'[j] = it[j], out'[j] = out[j], Passed(j)' = Passed(j),
           \A o \in Passed(j) : at'[j][o] = at[j][o]
    PROVE  /\ IsPlaced(j) => IsPlaced(j)'
           /\ StreamOf(j) => StreamOf(j)'
<1>1. StreamOf(j) => StreamOf(j)'
  BY DEF StreamOf
<1>2. ASSUME NEW place \in Seq(Offset), Placed(j, out[j].marks, place),
             Reaches(j, out[j].marks, place)
      PROVE  Placed(j, out[j].marks, place)' /\ Reaches(j, out[j].marks, place)'
  <2>1. Placed(j, out[j].marks, place)'
    BY <1>2 DEF Placed
  <2>2. Reaches(j, out[j].marks, place)'
    BY <1>2 DEF Reaches
  <2> QED
    BY <2>1, <2>2
<1> QED
  BY <1>1, <1>2 DEF IsPlaced

\* Nothing is to be placed where nothing has been passed.
LEMMA NoPlaces ==
    ASSUME NEW j \in Journal, Passed(j) = {}, out[j].marks = <<>>,
           it[j].st = "reading" => it[j].offset = header_size
    PROVE  IsPlaced(j)
<1>1. <<>> \in Seq(Offset) /\ Len(<<>>) = 0
  OBVIOUS
<1>2. Placed(j, <<>>, <<>>) /\ Reaches(j, <<>>, <<>>)
  BY <1>1 DEF Placed, Reaches
<1> QED
  BY <1>1, <1>2 DEF IsPlaced

\* An object of the journal, its mark and the place behind it.
LEMMA MarkFacts ==
    ASSUME IInv, NEW j \in Journal, NEW o \in starts[j]
    PROVE  /\ o \in Offset /\ o > 0 /\ at[j][o] \in Object
           /\ at[j][o].size \in Nat
           /\ Mark(o, at[j][o]) \in Marks
           /\ o + at[j][o].size <= MaxEnd
           /\ Behind(o, Mark(o, at[j][o])) = o + ALIGN64(at[j][o].size)
<1>1. o \in Offset /\ at[j][o] \in Object /\ at[j][o].size \in Nat /\ o > 0
  <2>1. o \in Offset /\ at[j][o] \in Object
    BY DEF IInv, TypeOK
  <2>2. at[j][o].size \in Nat
    <3>1. Size \cup {0} \subseteq Nat
      BY IterAssumption
    <3>2. at[j][o].size \in Size \cup {0}
      BY <2>1 DEF Object
    <3> QED
      BY <3>1, <3>2
  <2>3. header_size <= o
    BY DEF IInv, Layout
  <2> QED
    BY <2>1, <2>2, <2>3, OffsetFacts
<1>2. Mark(o, at[j][o]) \in Marks
  BY <1>1 DEF Marks
<1>3. o + at[j][o].size <= MaxEnd
  <2>1. o \in Nat /\ o <= MaxEnd /\ end[j] \in Offset
    BY <1>1, OffsetFacts DEF IInv, TypeOK
  <2>2. CASE at[j][o].size = 0
    BY <2>1, <2>2
  <2>3. CASE at[j][o].size # 0
    <3>1. o + ALIGN64(at[j][o].size) \in starts[j] \cup {end[j]}
      BY <2>3 DEF IInv, Layout
    <3>2. o + ALIGN64(at[j][o].size) <= MaxEnd
      BY <2>1, <3>1, OffsetFacts DEF IInv, TypeOK
    <3>3. ALIGN64(at[j][o].size) \in Nat /\ ALIGN64(at[j][o].size) >= at[j][o].size
      BY <1>1, AlignFacts
    <3> QED
      BY <1>1, <2>1, <3>2, <3>3, IterAssumption
  <2> QED
    BY <2>2, <2>3
<1>4. Behind(o, Mark(o, at[j][o])) = o + ALIGN64(at[j][o].size)
  <2>1. o \in Nat /\ ALIGN64(at[j][o].size) \in Nat
    BY <1>1, AlignFacts, OffsetFacts
  <2> HIDE DEF ALIGN64
  <2> QED
    BY <1>1, <2>1 DEF Behind, Mark
<1> QED
  BY <1>1, <1>2, <1>3, <1>4

\* The mark of the object that has arrived is put behind the others, and the
\* iteration moves on to the place behind it.
LEMMA PlacesGrow ==
    ASSUME IInv, NEW j \in Journal, got_iter_object_header(j),
           out[j].marks \in Seq(Marks), IsPlaced(j),
           out'[j].marks = out[j].marks \o <<Mark(it[j].offset, it'[j].object)>>
    PROVE  IsPlaced(j)' /\ out'[j].marks \in Seq(Marks)
<1> DEFINE o == it[j].offset
           m == Mark(o, at[j][o])
           marks == out[j].marks
<1>1. PICK place \in Seq(Offset) : Placed(j, marks, place) /\ Reaches(j, marks, place)
  BY DEF IsPlaced
<1>2. /\ it[j].st = "reading" /\ o \in Offset /\ at' = at /\ it'[j].object = at[j][o]
      /\ Passed(j)' = Passed(j) \cup {o} /\ \A p \in Passed(j) : p < o
  BY ObjectPasses
<1>3. o \in starts[j]
  BY <1>2, PassedFacts DEF Expected
<1>4. /\ m \in Marks /\ at[j][o].size \in Nat /\ o > 0
      /\ Behind(o, m) = o + ALIGN64(at[j][o].size)
  BY <1>3, MarkFacts
<1>5. it'[j].st = "reading" => it'[j].offset = Behind(o, m)
  <2>1. /\ it'[j].offset = NextOffset(o, at[j][o].size, it[j].tail)
        /\ it'[j].st = "reading" => it'[j].offset # 0
    BY <1>2 DEF got_iter_object_header, Continue, IInv, TypeOK
  <2>2. it[j].tail \in Nat
    BY OffsetFacts DEF IInv, TypeOK
  <2> HIDE DEF m
  <2> QED
    BY <1>4, <2>1, <2>2 DEF NextOffset
<1> HIDE DEF m, marks, o
<1>6. PICK places, marked, n :
         places = Append(place, o) /\ marked = Append(marks, m) /\ n = Len(place)
  OBVIOUS
<1>7. /\ n \in Nat /\ Len(marks) = n
      /\ places \in Seq(Offset) /\ Len(places) = n + 1 /\ places[n + 1] = o
      /\ \A k \in 1 .. n : places[k] = place[k]
  BY <1>1, <1>2, <1>6, AppendProperties, LenProperties DEF Placed
<1>8. /\ marked \in Seq(Marks) /\ Len(marked) = n + 1 /\ marked[n + 1] = m
      /\ \A k \in 1 .. n : marked[k] = marks[k]
  BY <1>4, <1>6, <1>7, AppendProperties DEF marks
<1>9. o = IF n = 0 THEN header_size ELSE Behind(place[n], marks[n])
  BY <1>1, <1>2, <1>6 DEF Reaches, o
<1>10. /\ \A k \in 1 .. n :
            /\ place[k] \in Passed(j) /\ marks[k] = Mark(place[k], at[j][place[k]])
            /\ IF k = 1 THEN place[k] = header_size
               ELSE place[k] > place[k - 1] /\ place[k] = Behind(place[k - 1], marks[k - 1])
       /\ \A p \in Passed(j) : \E k \in 1 .. n : place[k] = p
  BY <1>1, <1>6 DEF Placed
<1>11. Placed(j, marked, places)'
  <2>1. ASSUME NEW k \in 1 .. n + 1
        PROVE  /\ places[k] \in Passed(j)'
               /\ marked[k] = Mark(places[k], at'[j][places[k]])
               /\ IF k = 1 THEN places[k] = header_size
                  ELSE /\ places[k] > places[k - 1]
                       /\ places[k] = Behind(places[k - 1], marked[k - 1])
    <3>1. CASE k \in 1 .. n
      <4>1. /\ places[k] = place[k] /\ marked[k] = marks[k]
            /\ k # 1 => k - 1 \in 1 .. n
        BY <1>7, <1>8, <3>1
      <4>2. k # 1 => places[k - 1] = place[k - 1] /\ marked[k - 1] = marks[k - 1]
        BY <1>7, <1>8, <4>1
      <4> QED
        BY <1>2, <1>10, <3>1, <4>1, <4>2
    <3>2. CASE k = n + 1
      <4>1. places[k] = o /\ marked[k] = m /\ m = Mark(o, at[j][o])
        BY <1>7, <1>8, <3>2 DEF m
      <4>2. CASE n = 0
        BY <1>2, <1>9, <3>2, <4>1, <4>2
      <4>3. CASE n # 0
        <5>1. n \in 1 .. n /\ k - 1 = n /\ k # 1
          BY <1>7, <3>2, <4>3
        <5>2. places[n] = place[n] /\ marked[n] = marks[n] /\ place[n] < o
          BY <1>2, <1>7, <1>8, <1>10, <5>1
        <5>3. place[n] \in Nat /\ o \in Nat
          BY <1>2, <1>10, <5>1, PassedFacts, OffsetFacts
        <5>4. o > place[n] /\ o = Behind(places[n], marked[n])
          BY <1>9, <4>3, <5>2, <5>3
        <5> QED
          BY <1>2, <4>1, <5>1, <5>2, <5>4
      <4> QED
        BY <4>2, <4>3
    <3> QED
      BY <1>7, <3>1, <3>2
  <2>2. ASSUME NEW p \in Passed(j)' PROVE \E k \in 1 .. n + 1 : places[k] = p
    <3>1. CASE p = o
      BY <1>7, <3>1
    <3>2. CASE p \in Passed(j)
      <4>1. PICK k \in 1 .. n : place[k] = p
        BY <1>10, <3>2
      <4> QED
        BY <1>7, <4>1
    <3> QED
      BY <1>2, <3>1, <3>2
  <2>3. Len(places) = n + 1 /\ Len(marked) = n + 1
    BY <1>7, <1>8
  <2> QED
    BY <2>1, <2>2, <2>3 DEF Placed
<1>12. Reaches(j, marked, places)'
  <2>1. Len(places) # 0
    BY <1>7
  <2> QED
    BY <1>5, <1>7, <1>8, <2>1 DEF Reaches
<1>13. marked = out'[j].marks
  <2>1. marked = marks \o <<m>>
    BY <1>4, <1>6, AppendIsConcat DEF marks
  <2> QED
    BY <1>2, <2>1 DEF marks, m, o
<1> QED
  BY <1>7, <1>8, <1>11, <1>12, <1>13 DEF IsPlaced

\* The callbacks of "layout" keep the marks and the stream right.
LEMMA LayoutSteps ==
    ASSUME IInv, IInv', LayoutInv, cmd = "layout", cmd' = cmd,
           NEW j \in Journal, Moves(j), LayoutCallback(j)
    PROVE  LayoutInv'
<1>1. /\ DOMAIN out = Journal /\ out[j].marks \in Seq(Marks) /\ at' = at
      /\ \A i \in Journal : /\ out[i].marks \in Seq(Marks) /\ StreamOf(i) /\ IsPlaced(i)
                             /\ DOMAIN out[i] = {"stream", "marks"}
  BY DEF LayoutInv, Moves
<1>2. ASSUME /\ DOMAIN out' = Journal /\ DOMAIN out'[j] = {"stream", "marks"}
             /\ \A i \in Journal : i # j => out'[i] = out[i] /\ Passed(i)' = Passed(i)
             /\ out'[j].marks \in Seq(Marks) /\ StreamOf(j)' /\ IsPlaced(j)'
      PROVE  LayoutInv'
  <2>1. ASSUME NEW i \in Journal, i # j PROVE StreamOf(i)' /\ IsPlaced(i)'
    <3>1. /\ it'[i] = it[i] /\ out'[i] = out[i] /\ Passed(i)' = Passed(i)
          /\ \A o \in Passed(i) : at'[i][o] = at[i][o]
      BY <1>1, <1>2, <2>1 DEF Moves
    <3> QED
      BY <1>1, <3>1, PlacesStay
  <2> QED
    BY <1>1, <1>2, <2>1 DEF LayoutInv
<1>3. CASE layout_journal(j)
  <2>1. /\ it[j].st = "idle" /\ it'[j].st = "header" /\ seen' = seen
        /\ out' = [out EXCEPT ![j].stream = "open"]
    BY <1>3 DEF layout_journal, journal_get_header, IInv, TypeOK
  <2>2. /\ out'[j].stream = "open" /\ out'[j].marks = out[j].marks
        /\ DOMAIN out' = Journal /\ DOMAIN out'[j] = {"stream", "marks"}
        /\ \A i \in Journal : i # j => out'[i] = out[i]
    BY <1>1, <2>1
  <2>3. \A i \in Journal : Passed(i)' = Passed(i)
    BY <2>1 DEF Passed
  <2>4. IsPlaced(j)'
    <3>1. Passed(j) = {}
      BY <2>1, PassedFacts
    <3>2. PICK place \in Seq(Offset) : Placed(j, out[j].marks, place)
      BY <1>1 DEF IsPlaced
    <3>3. Placed(j, out[j].marks, place)' /\ Reaches(j, out[j].marks, place)'
      BY <1>1, <2>1, <2>2, <2>3, <3>2 DEF Placed, Reaches
    <3> QED
      BY <3>3 DEF IsPlaced
  <2>5. StreamOf(j)'
    BY <2>1, <2>2 DEF StreamOf
  <2> QED
    BY <1>1, <1>2, <2>2, <2>3, <2>4, <2>5
<1>4. CASE LayoutGotHeader(j)
  <2>1. /\ got_header(j) /\ out' = [out EXCEPT ![j] = Printed(out[j], <<>>, it'[j].st)]
    BY <1>4 DEF LayoutGotHeader
  <2>2. /\ it[j].st = "header" /\ it'[j].st \in {"reading", "done"}
        /\ Passed(j) = {} /\ Passed(j)' = {}
        /\ \A i \in Journal : i # j => Passed(i)' = Passed(i)
    BY <2>1, HeaderPasses
  <2>3. out[j].marks \o <<>> = out[j].marks
    BY <1>1, ConcatEmptySeq
  <2>4. /\ out'[j].stream = IF it'[j].st = "done" THEN "closed" ELSE out[j].stream
        /\ out'[j].marks = out[j].marks
        /\ DOMAIN out' = Journal /\ DOMAIN out'[j] = {"stream", "marks"}
        /\ \A i \in Journal : i # j => out'[i] = out[i]
    BY <1>1, <2>1, <2>3 DEF Printed
  <2>5. IsPlaced(j)'
    <3>1. PICK place \in Seq(Offset) : Placed(j, out[j].marks, place)
      BY <1>1 DEF IsPlaced
    <3>2. Len(place) \in Nat /\ \A k \in 1 .. Len(place) : place[k] \in Passed(j)
      BY <3>1, LenProperties DEF Placed
    <3>3. Len(place) = 0
      <4>1. Len(place) > 0 => 1 \in 1 .. Len(place)
        BY <3>2
      <4>2. ~ (Len(place) > 0)
        BY <2>2, <3>2, <4>1
      <4> QED
        BY <3>2, <4>2
    <3>4. it'[j].st = "reading" => it'[j].offset = header_size
      <4>1. /\ it'[j].offset = NextOffset(0, it[j].object.size, tail[j])
            /\ it'[j].st = "reading" => it'[j].offset # 0
        BY <2>1 DEF got_header, Continue, IInv, TypeOK
      <4> QED
        BY <4>1 DEF NextOffset
    <3>5. Placed(j, out[j].marks, place)'
      BY <2>2, <2>4, <3>1, <3>3 DEF Placed
    <3>6. Reaches(j, out[j].marks, place)'
      BY <3>3, <3>4 DEF Reaches
    <3> QED
      BY <3>5, <3>6 DEF IsPlaced
  <2>6. StreamOf(j)'
    <3>1. out[j].stream = "open"
      BY <1>1, <2>2 DEF StreamOf
    <3> QED
      BY <2>2, <2>4, <3>1 DEF StreamOf
  <2> QED
    BY <1>1, <1>2, <2>2, <2>4, <2>5, <2>6
<1>5. CASE LayoutGotObject(j)
  <2>1. /\ got_iter_object_header(j)
        /\ out' = [out EXCEPT ![j] = Printed(out[j], <<Mark(it[j].offset, it'[j].object)>>,
                                             it'[j].st)]
    BY <1>5 DEF LayoutGotObject
  <2>2. /\ it[j].st = "reading" /\ it'[j].st \in {"reading", "done"}
        /\ \A i \in Journal : i # j => Passed(i)' = Passed(i)
    BY <2>1, ObjectPasses
  <2>3. /\ out'[j].stream = IF it'[j].st = "done" THEN "closed" ELSE out[j].stream
        /\ out'[j].marks = out[j].marks \o <<Mark(it[j].offset, it'[j].object)>>
        /\ DOMAIN out' = Journal /\ DOMAIN out'[j] = {"stream", "marks"}
        /\ \A i \in Journal : i # j => out'[i] = out[i]
    BY <1>1, <2>1 DEF Printed
  <2>4. IsPlaced(j)' /\ out'[j].marks \in Seq(Marks)
    BY <1>1, <2>1, <2>3, PlacesGrow
  <2>5. StreamOf(j)'
    <3>1. out[j].stream = "open"
      BY <1>1, <2>2 DEF StreamOf
    <3> QED
      BY <2>2, <2>3, <3>1 DEF StreamOf
  <2> QED
    BY <1>1, <1>2, <2>2, <2>3, <2>4, <2>5
<1>6. CASE LayoutFails(j)
  <2>1. UNCHANGED <<it, seen, out>>
    BY <1>6 DEF LayoutFails
  <2>2. \A i \in Journal : Passed(i)' = Passed(i)
    BY <2>1 DEF Passed
  <2>3. StreamOf(j)' /\ IsPlaced(j)'
    BY <1>1, <2>1, <2>2, PlacesStay
  <2> QED
    BY <1>1, <1>2, <2>1, <2>2, <2>3
<1> QED
  BY <1>3, <1>4, <1>5, <1>6 DEF LayoutCallback

\* What does not touch the layout files and moves no iteration keeps them right.
LEMMA LayoutStill ==
    ASSUME LayoutInv, UNCHANGED <<out, cmd>>, Still
    PROVE  LayoutInv'
<1>1. ASSUME cmd = "layout", NEW j \in Journal PROVE StreamOf(j)' /\ IsPlaced(j)'
  BY <1>1, PlacesStay DEF LayoutInv, Still
<1> QED
  BY <1>1 DEF LayoutInv, Still

\* Before a command is started, no layout file is there.
LEMMA LayoutStarts ==
    ASSUME IInv, LayoutInv, main
    PROVE  LayoutInv'
<1>1. /\ UNCHANGED <<out, it, seen, at, starts>> /\ cmd = "none"
      /\ \A j \in Journal : /\ it[j].st = "idle" /\ out[j].stream = "none"
                             /\ out[j].marks = <<>>
  BY DEF main, vars, LayoutInv
<1>2. ASSUME NEW j \in Journal PROVE StreamOf(j) /\ IsPlaced(j)
  <2>1. Passed(j) = {} /\ it[j].st = "idle" /\ out[j].marks = <<>>
    BY <1>1, PassedFacts
  <2> QED
    BY <1>1, <2>1, NoPlaces DEF StreamOf
<1>3. ASSUME NEW j \in Journal PROVE StreamOf(j)' /\ IsPlaced(j)'
  <2>1. /\ it'[j] = it[j] /\ out'[j] = out[j] /\ Passed(j)' = Passed(j)
        /\ \A o \in Passed(j) : at'[j][o] = at[j][o]
    BY <1>1 DEF Passed
  <2> QED
    BY <1>2, <2>1, PlacesStay
<1> QED
  BY <1>1, <1>3 DEF LayoutInv

LEMMA LayoutInit0 == JioInit => LayoutInv
<1> SUFFICES ASSUME JioInit PROVE LayoutInv
  OBVIOUS
<1>1. /\ out = [j \in Journal |-> [stream |-> "none", marks |-> <<>>]]
      /\ cmd = "none" /\ \A j \in Journal : it[j].st = "idle"
  BY DEF JioInit, LayoutInit, Init
<1>2. <<>> \in Seq(Marks)
  BY EmptySeq
<1> QED
  BY <1>1, <1>2 DEF LayoutInv

-----------------------------------------------------------------------------
\* What each command counts is what its iterations have passed, and what no
\* command has counted yet is nothing.
RInv == JInv /\ UsageInv /\ LayoutInv /\ VerifyInv /\ ArraysInv

\* The callbacks of other commands leave the counts alone.
LEMMA OthersCount ==
    ASSUME JInv, IInv', at' = at, cmd' = cmd, cmd # "none"
    PROVE  /\ UsageInv /\ cmd # "usage" /\ UNCHANGED usageVars => UsageInv'
           /\ LayoutInv /\ cmd # "layout" /\ UNCHANGED out => LayoutInv'
           /\ VerifyInv /\ cmd # "verify" => VerifyInv'
           /\ ArraysInv /\ cmd # "entry-arrays" /\ UNCHANGED arraysVars => ArraysInv'
<1>1. ASSUME UsageInv, cmd # "usage", UNCHANGED usageVars PROVE UsageInv'
  <2>1. TotalIsSum'
    BY <1>1 DEF UsageInv, TotalIsSum, usageVars
  <2> QED
    BY <1>1, <2>1 DEF UsageInv, usageVars
<1>2. ASSUME VerifyInv, cmd # "verify" PROVE VerifyInv'
  BY <1>2 DEF VerifyInv
<1>3. ASSUME ArraysInv, cmd # "entry-arrays", UNCHANGED arraysVars PROVE ArraysInv'
  <2>1. TotalsAddUp' /\ (\A i \in Journal : IsStats(stats[i])') /\ Sized'
    BY <1>3 DEF ArraysInv, TotalsAddUp, IsStats, Sized, arraysVars
  <2> QED
    BY <1>3, <2>1 DEF ArraysInv, arraysVars
<1>4. ASSUME LayoutInv, cmd # "layout", UNCHANGED out PROVE LayoutInv'
  BY <1>4 DEF LayoutInv
<1> QED
  BY <1>1, <1>2, <1>3, <1>4

\* Whatever leaves iterations and counts alone keeps all of them right.
LEMMA StillRInv ==
    ASSUME RInv, JInv', Still, Sized', UNCHANGED <<usageVars, out, arraysVars, vf, cmd>>,
           \A j \in Journal : it[j].st = "reading" =>
              at'[j][it[j].offset] = at[j][it[j].offset]
    PROVE  RInv'
<1>1. /\ JInv /\ IInv /\ IInv' /\ UsageInv /\ LayoutInv /\ VerifyInv /\ ArraysInv
      /\ UNCHANGED <<usage, total, out, profile, stats, totals, vf, cmd>>
  BY DEF RInv, JInv, usageVars, arraysVars
<1>2. UsageInv'
  BY <1>1, UsageStill
<1>3. VerifyInv'
  BY <1>1, VerifyStill
<1>4. ArraysInv'
  BY <1>1, ArraysStill
<1>5. LayoutInv'
  BY <1>1, LayoutStill
<1> QED
  BY <1>2, <1>3, <1>4, <1>5 DEF RInv

\* A callback of any command.
LEMMA CallbackRInv ==
    ASSUME RInv, NEW j \in Journal, Callback(j)
    PROVE  RInv'
<1>1. /\ JInv /\ IInv /\ UsageInv /\ LayoutInv /\ VerifyInv /\ ArraysInv
      /\ JInv' /\ IInv' /\ Moves(j) /\ at' = at /\ cmd' = cmd
  BY CallbackJInv, CallbackMoves DEF RInv, JInv, Moves, Callback
<1>2. CASE cmd = "usage"
  <2>1. UsageCallback(j) /\ UNCHANGED out /\ UNCHANGED arraysVars
    BY <1>2 DEF Callback
  <2>2. UsageInv'
    BY <1>1, <1>2, <2>1, UsageSteps
  <2> QED
    BY <1>1, <1>2, <2>1, <2>2, OthersCount DEF RInv
<1>3. CASE cmd = "layout"
  <2>1. LayoutCallback(j) /\ UNCHANGED usageVars /\ UNCHANGED arraysVars
    BY <1>3 DEF Callback
  <2>2. LayoutInv'
    BY <1>1, <1>3, <2>1, LayoutSteps
  <2> QED
    BY <1>1, <1>3, <2>1, <2>2, OthersCount DEF RInv
<1>4. CASE cmd = "entry-arrays"
  <2>1. ArraysCallback(j) /\ UNCHANGED usageVars /\ UNCHANGED out
    BY <1>4 DEF Callback
  <2>2. ArraysInv'
    BY <1>1, <1>4, <2>1, ArraysSteps
  <2> QED
    BY <1>1, <1>4, <2>1, <2>2, OthersCount DEF RInv
<1>5. CASE cmd = "verify"
  <2>1. VerifyCallback(j) /\ UNCHANGED usageVars /\ UNCHANGED out /\ UNCHANGED arraysVars
    BY <1>5 DEF Callback
  <2>2. VerifyInv'
    BY <1>1, <1>5, <2>1, VerifySteps
  <2> QED
    BY <1>1, <1>5, <2>1, <2>2, OthersCount DEF RInv
<1> QED
  BY <1>2, <1>3, <1>4, <1>5 DEF Callback

\* Every step keeps the counts right.
LEMMA NextRInv == RInv /\ [JioNext]_allVars => RInv'
<1> SUFFICES ASSUME RInv, [JioNext]_allVars PROVE RInv'
  OBVIOUS
<1>1. JInv /\ JInv' /\ IInv /\ IInv' /\ UsageInv /\ LayoutInv /\ VerifyInv
      /\ ArraysInv /\ Sized
  <2>1. JInv /\ JInv'
    BY NextJInv DEF RInv
  <2> QED
    BY <2>1 DEF RInv, JInv, ArraysInv
<1>2. CASE UNCHANGED allVars \/ main_returns
  <2>1. /\ UNCHANGED <<usageVars, out, arraysVars, vf, cmd>>
        /\ UNCHANGED <<it, seen, at>>
    BY <1>2 DEF allVars, main_returns, vars
  <2>2. Still /\ Sized'
    BY <1>1, <2>1 DEF Still, Passed, Sized
  <2> QED
    BY <1>1, <2>1, <2>2, StillRInv
<1>3. CASE main
  BY <1>1, <1>3, UsageStarts, LayoutStarts, VerifyStarts, ArraysStarts DEF RInv
<1>4. CASE \E j \in Journal : Callback(j)
  BY <1>4, CallbackRInv
<1>5. CASE Environment
  <2>1. UNCHANGED <<usageVars, out, arraysVars, vf, cmd>>
    BY <1>5 DEF Environment
  <2>2. /\ it' = it
        /\ \A j \in Journal : it[j].st = "reading" =>
              at'[j][it[j].offset] = at[j][it[j].offset]
    BY <1>1, <1>5, EnvironmentKeeps
  <2>3. Still
    BY <1>1, <1>5, <2>2, EnvironmentPasses DEF Still
  <2>4. Sized'
    BY <1>1, <1>5, SizedStays
  <2> QED
    BY <1>1, <2>1, <2>2, <2>3, <2>4, StillRInv
<1> QED
  BY <1>2, <1>3, <1>4, <1>5 DEF JioNext

LEMMA ReportsInvariant == JioSpec => []RInv
<1>1. JioInit => RInv
  BY InitJInv, UsageInit0, LayoutInit0, VerifyInit0, ArraysInit0 DEF RInv
<1> QED
  BY <1>1, NextRInv, PTL DEF JioSpec

-----------------------------------------------------------------------------
\* per_data_object() of report-usage.c: the totals are always the sums of the
\* journals' usages, and what is printed of a journal at its end is the number
\* and the size of its objects of each type, as of its header, and the last one
\* once more.
THEOREM UsageIsRight == JioSpec => [](TotalIsSum /\ UsageReported)
<1>1. RInv => TotalIsSum /\ UsageReported
  <2> SUFFICES ASSUME RInv, cmd = "usage", NEW j \in Journal, NEW t \in Type,
                      it[j].st = "done"
               PROVE  /\ usage[j].count[t] = Cardinality(Delivered(j, t))
                                             + (IF LastObject(j).type = t THEN 1 ELSE 0)
                      /\ usage[j].use[t] =
                            SumFunctionOnSet([o \in Offset |-> at[j][o].size], Delivered(j, t))
                            + (IF LastObject(j).type = t THEN LastObject(j).size ELSE 0)
    BY DEF RInv, UsageInv, UsageReported, UsageIsObjectsAndLast
  <2>1. UsageOf(j, t)
    BY DEF RInv, UsageInv
  <2>2. Passed(j) = Expected(j)
    BY PassedFacts DEF RInv, JInv
  <2>3. OfType(j, Passed(j), t) = Delivered(j, t)
    BY <2>2 DEF OfType, Delivered
  <2>4. Again(j, t) <=> LastObject(j).type = t
    BY DEF Again
  <2> QED
    BY <2>1, <2>3, <2>4 DEF UsageOf, Sizes
<1> QED
  BY <1>1, ReportsInvariant, PTL

\* per_data_object() of report-layout.c: at the end of a journal its layout
\* file is closed and tells the place, the type and the page boundaries of each
\* of its objects, for every size of pages and objects.
THEOREM LayoutIsRight == JioSpec => []LayoutReported
<1>1. RInv => LayoutReported
  <2> SUFFICES ASSUME RInv, cmd = "layout", NEW j \in Journal
               PROVE  /\ (out[j].stream = "open") = (it[j].st \in {"header", "reading"})
                      /\ it[j].st = "done" =>
                            /\ out[j].stream = "closed"
                            /\ \E place \in [DOMAIN out[j].marks -> Expected(j)] :
                                  Tells(j, out[j].marks, place)
    BY Zenon DEF LayoutReported, LayoutTellsObjects
  <2>1. IInv /\ StreamOf(j) /\ IsPlaced(j) /\ out[j].marks \in Seq(Marks)
    BY DEF RInv, JInv, LayoutInv
  <2>2. it[j].st \in {"idle", "header", "reading", "done"}
    BY <2>1 DEF IInv, TypeOK
  <2>3. (out[j].stream = "open") = (it[j].st \in {"header", "reading"})
    BY <2>1, <2>2 DEF StreamOf
  <2>4. ASSUME it[j].st = "done"
        PROVE  /\ out[j].stream = "closed"
               /\ \E place \in [DOMAIN out[j].marks -> Expected(j)] :
                     Tells(j, out[j].marks, place)
    <3>1. out[j].stream = "closed"
      BY <2>1, <2>4 DEF StreamOf
    <3>2. PICK place \in Seq(Offset) : Placed(j, out[j].marks, place)
      BY <2>1 DEF IsPlaced
    <3>3. PICK marks, n : marks = out[j].marks /\ n = Len(place)
      OBVIOUS
    <3>4. /\ DOMAIN marks = 1 .. n /\ n \in Nat
          /\ place \in [1 .. n -> Offset]
          /\ \A k \in 1 .. n :
                /\ place[k] \in Expected(j)
                /\ marks[k] = Mark(place[k], at[j][place[k]])
                /\ IF k = 1 THEN place[k] = header_size
                   ELSE place[k] > place[k - 1] /\ place[k] = Behind(place[k - 1], marks[k - 1])
          /\ \A o \in Expected(j) : \E k \in 1 .. n : place[k] = o
      <4>1. Passed(j) = Expected(j)
        BY <2>1, <2>4, PassedFacts
      <4>2. Len(marks) = n /\ marks \in Seq(Marks)
        BY <2>1, <3>2, <3>3 DEF Placed
      <4> QED
        BY <3>2, <3>3, <4>1, <4>2, LenProperties DEF Placed
    <3>5. ASSUME NEW k \in 1 .. n
          PROVE  LET o == place[k]
                     m == marks[k]
                 IN  /\ m.type = at[j][o].type
                     /\ m.page = \E i \in 0 .. MaxEnd : i * PAGE_SIZE = o
                     /\ m.spans = Cardinality({i \in 0 .. MaxEnd :
                                     o < i * PAGE_SIZE /\ i * PAGE_SIZE < o + m.size})
      <4>1. PICK o, s : o = place[k] /\ s = at[j][o].size
        OBVIOUS
      <4>2. o \in starts[j] /\ marks[k] = Mark(o, at[j][o])
        BY <3>4, <4>1 DEF Expected
      <4>3. o \in Nat \ {0} /\ o <= MaxEnd /\ s \in Nat /\ o + s <= MaxEnd
        <5>1. o \in Offset /\ o > 0 /\ s \in Nat /\ o + s <= MaxEnd
          BY <2>1, <4>1, <4>2, MarkFacts
        <5> QED
          BY <5>1, OffsetFacts
      <4>4. PAGE_SIZE \in Nat \ {0} /\ MaxEnd \in Nat
        BY LayoutAssumption, IterAssumption
      <4>5. (o % PAGE_SIZE = 0) = \E i \in 0 .. MaxEnd : i * PAGE_SIZE = o
        <5>1. o \in Nat /\ o <= MaxEnd
          BY <4>3
        <5>2. o % PAGE_SIZE = 0 <=> \E i \in 0 .. MaxEnd : i * PAGE_SIZE = o
          BY <4>4, <5>1, PageStart, Zenon
        <5> QED
          BY <5>2, Zenon
      <4>6. (IF page_delta(o, s) > PAGE_SIZE THEN page_delta(o, s) \div PAGE_SIZE - 1 ELSE 0)
            = Cardinality({i \in 0 .. MaxEnd : o < i * PAGE_SIZE /\ i * PAGE_SIZE < o + s})
        <5>1. PICK p, e : p = PAGE_SIZE /\ e = MaxEnd
          OBVIOUS
        <5>2. p \in Nat \ {0} /\ e \in Nat /\ o + s <= e
          BY <4>3, <4>4, <5>1
        <5>3. page_delta(o, s) = ((o + s + p - 1) \div p - o \div p) * p
          BY <5>1 DEF page_delta
        <5> HIDE DEF page_delta
        <5>4. (IF page_delta(o, s) > p THEN page_delta(o, s) \div p - 1 ELSE 0)
              = Cardinality({i \in 0 .. e : o < i * p /\ i * p < o + s})
          <6>1. PICK d : d = ((o + s + p - 1) \div p - o \div p) * p
            OBVIOUS
          <6>2. (IF d > p THEN d \div p - 1 ELSE 0)
                = Cardinality({i \in 0 .. e : o < i * p /\ i * p < o + s})
            <7>1. o \in Nat \ {0} /\ s \in Nat
              BY <4>3
            <7> HIDE DEF page_delta
            <7> QED
              BY <5>2, <6>1, <7>1, BoundariesInside, Zenon
          <6> QED
            BY <5>3, <6>1, <6>2, Zenon
        <5> QED
          BY <5>1, <5>4, Zenon
      <4>7. /\ marks[k].type = at[j][o].type /\ marks[k].size = s
            /\ marks[k].page = (o % PAGE_SIZE = 0)
            /\ marks[k].spans = IF page_delta(o, s) > PAGE_SIZE
                                THEN page_delta(o, s) \div PAGE_SIZE - 1 ELSE 0
        <5>1. at[j][o].size = s
          BY <4>1
        <5>2. /\ Mark(o, at[j][o]).type = at[j][o].type /\ Mark(o, at[j][o]).size = s
              /\ Mark(o, at[j][o]).page = (o % PAGE_SIZE = 0)
          BY <5>1, Zenon DEF Mark
        <5>3. Mark(o, at[j][o]).spans = IF page_delta(o, s) > PAGE_SIZE
                                       THEN page_delta(o, s) \div PAGE_SIZE - 1 ELSE 0
          BY <5>1, SMT DEF Mark
        <5> QED
          BY <4>2, <5>2, <5>3, Zenon
      <4> QED
        BY <4>1, <4>5, <4>6, <4>7, Zenon
    <3>6. place \in [DOMAIN marks -> Expected(j)]
      BY <3>4
    <3>7. Tells(j, marks, place)
      <4>1. \A k \in 1 .. n :
               IF k = 1 THEN place[k] = header_size
               ELSE place[k] > place[k - 1] /\ place[k] = place[k - 1] + marks[k - 1].size + marks[k - 1].pad
        BY <3>4 DEF Behind
      <4> QED
        BY <3>4, <3>5, <4>1, Zenon DEF Tells
    <3> QED
      BY <3>1, <3>3, <3>6, <3>7
  <2> QED
    BY <2>3, <2>4
<1> QED
  BY <1>1, ReportsInvariant, PTL

\* per_hashed_object() and the worker of verify-hashed-objects.c: at the end of
\* a journal each of its field and data objects was verified once, with all of
\* its payload, and the closure's buffers are free.
THEOREM VerifyIsComplete == JioSpec => []HashedVerified
<1>1. RInv => HashedVerified
  <2> SUFFICES ASSUME RInv, cmd = "verify", NEW j \in Journal, it[j].st = "done"
               PROVE  /\ vf[j].cap = 0 /\ vf[j].dcap = 0
                      /\ \A t \in Type :
                            /\ vf[j].n[t] = Cardinality(HashedOf(j, Expected(j), t))
                            /\ vf[j].bytes[t] =
                                  SumFunctionOnSet([o \in Offset |-> at[j][o].size - PayloadOf(t)],
                                                   HashedOf(j, Expected(j), t))
    BY Zenon DEF HashedVerified, VerifyComplete, HashedOf, PayloadOf
  <2>1. /\ vf[j].cap = 0 /\ vf[j].dcap = 0
        /\ \A t \in Type : StatsOf(j, t)
    BY DEF RInv, VerifyInv
  <2>2. Passed(j) = Expected(j) /\ vf[j].ph = "iter"
    BY PassedFacts DEF RInv, JInv, Busy
  <2>3. Verified(j) = Expected(j)
    BY <2>2 DEF Verified
  <2> QED
    BY <2>1, <2>3 DEF StatsOf, PayloadSizes, PayloadOf
<1> QED
  BY <1>1, ReportsInvariant, PTL

\* per_object() and add_stats() of report-entry-arrays.c: what is printed of a
\* journal accounts for each of its entry arrays and its space, in its size
\* class, however the arrays were filled while they were read, and the totals
\* are the sums of what was printed, in whatever order the journals end.
THEOREM ArraysAreRight == JioSpec => [](TotalsAddUp /\ ArraysReported)
<1>1. RInv => TotalsAddUp /\ ArraysReported
  <2>1. RInv => TotalsAddUp
    BY DEF RInv, ArraysInv
  <2>2. ASSUME RInv, cmd = "entry-arrays", NEW j \in Journal, it[j].st = "done"
        PROVE  /\ \A c \in Class :
                     /\ stats[j].total[c] = Cardinality(ArraysOf(j, c))
                     /\ stats[j].space[c] = SumFunctionOnSet(ArraySizes(j), ArraysOf(j, c))
                     /\ stats[j].utilized[c] <= stats[j].space[c]
                     /\ stats[j].distinct[c] <= stats[j].total[c]
               /\ stats[j].count = SumFunction(stats[j].total)
               /\ stats[j].unique = SumFunction(stats[j].distinct)
    <3>1. /\ \A c \in Class : Accounts(j, c)
          /\ ~ profile[j].reading
          /\ stats[j] \in Stats(profile[j])
          /\ profile[j] \in Profile
      BY <2>2 DEF RInv, ArraysInv
    <3>2. Passed(j) = Expected(j)
      BY <2>2, PassedFacts DEF RInv, JInv
    <3>3. \A c \in Class : ArraysOf(j, c) = ArraysIn(j, Passed(j), c)
      BY <3>2, Zenon DEF ArraysOf, ArraysIn
    <3>4. PICK pr, s : pr \in Profile /\ pr = profile[j] /\ s = stats[j] /\ s \in Stats(pr)
      BY <3>1
    <3>5. /\ pr.ea \in Table /\ pr.count = SumFunctionOnSet(Counts(pr.ea), Class) + 0
          /\ Cardinality(DOMAIN pr.ea) = SumFunctionOnSet(Kinds(pr.ea), Class)
      BY <3>1, <3>4 DEF Profile
    <3>6. /\ s.count = pr.count /\ s.unique = Cardinality(DOMAIN pr.ea)
          /\ s.total = Counts(pr.ea) /\ s.space = Spaces(pr.ea) /\ s.distinct = Kinds(pr.ea)
          /\ \A c \in Class : s.utilized[c] <= s.space[c] /\ s.distinct[c] <= s.total[c]
      BY <3>4, <3>5, StatsFacts
    <3>7. SumFunctionOnSet(Counts(pr.ea), Class) \in Int
      BY <3>5, TableSums
    <3>8. /\ SumFunction(s.total) = SumFunctionOnSet(Counts(pr.ea), Class)
          /\ SumFunction(s.distinct) = SumFunctionOnSet(Kinds(pr.ea), Class)
      <4>1. DOMAIN Counts(pr.ea) = Class /\ DOMAIN Kinds(pr.ea) = Class
        BY DEF Counts, Kinds
      <4> QED
        BY <3>6, <4>1 DEF SumFunction
    <3>9. s.count = SumFunction(s.total) /\ s.unique = SumFunction(s.distinct)
      BY <3>5, <3>6, <3>7, <3>8
    <3> QED
      BY <3>1, <3>3, <3>4, <3>6, <3>9, Zenon DEF Accounts
  <2>3. RInv => ArraysReported
    BY <2>2, Zenon DEF ArraysReported, ArraysAccounted, ArraySizes
  <2> QED
    BY <2>1, <2>3
<1> QED
  BY <1>1, ReportsInvariant, PTL
=============================================================================
