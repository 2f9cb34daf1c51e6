----------------------------- MODULE VerifyHashed -----------------------------
(***************************************************************************)
(* "jio verify hashed-objects" (src/verify-hashed-objects.c), with         *)
(* journal_get_object() of src/journals.c: the field and data objects of a *)
(* journal are loaded into one buffer that is used over and over, and      *)
(* verified, the large ones by a worker thread.                            *)
(*                                                                         *)
(* The closure of the iteration goes on to the next object by itself, when *)
(* it is through with one: got_iter_object_header() of ObjectIter is its   *)
(* call of journal_iter_next_object().  Hashes are not computed: an object *)
(* matches its hash or it does not.                                        *)
(***************************************************************************)
EXTENDS Ring, FiniteSetsExt

CONSTANTS OBJECT_FIELD, OBJECT_DATA,
          FieldPayload,    \* of the payload in a field object
          DataPayload,     \* of the payload in a data object, which is further in
          SmallSize,       \* larger objects are left to the worker (16 KiB)
          Inflated         \* sizes that compressed payloads decompress to

ASSUME VerifyAssumption ==
    /\ FieldPayload \in Nat /\ DataPayload \in Nat
    /\ SmallSize \in Nat
    /\ Inflated \subseteq Nat \ {0}

VARIABLE vf     \* per journal: what its closure does, the sizes of the buffers
                \* iter_object and decompressed, the object in the first, stats

Freed(v) == [v EXCEPT !.cap = 0, !.dcap = 0, !.holds = 0]

VerifyInit ==
    vf = [j \in Journal |-> [ph |-> "iter", cap |-> 0, dcap |-> 0, holds |-> 0,
                             n |-> [t \in Type |-> 0], bytes |-> [t \in Type |-> 0]]]

-----------------------------------------------------------------------------
\* Faulty variant: a buffer that exists is taken to be large enough.
GrownFromNull(usable, size) == IF usable = 0 THEN size ELSE usable

\* A buffer too small for size is replaced by one that is not.
Grown(usable, size) == IF usable < size THEN size ELSE usable

\* Faulty variant: the other of the two types is forgotten.
IsHashedField(type) == type = OBJECT_FIELD

\* The objects that have a hash.
IsHashed(type) == type = OBJECT_FIELD \/ type = OBJECT_DATA

\* journal_iter_next_object() is called, the closure's state being v.  At the
\* end of the journal the closure runs once more and frees the buffers.
Resume(j, v) ==
    /\ got_iter_object_header(j)
    /\ Dispatch(j, NextRead(j))
    /\ vf' = [vf EXCEPT ![j] = IF it'[j].st = "done" THEN Freed(v) ELSE v]

VerifyGotHeader(j) ==
    /\ got_header(j)
    /\ Dispatch(j, NextRead(j))
    /\ vf' = [vf EXCEPT ![j] = IF it'[j].st = "done" THEN Freed(@) ELSE @]

\* per_object() queues the read of an object into a buffer that holds it.
Loading(v, size) == [v EXCEPT !.ph = "object", !.cap = Grown(v.cap, size)]

\* Faulty variant: a closure that passes an object over leaves it to its
\* caller to go on, as it would under journal_iter_objects().
verify_object_returns(j) ==
    LET object == at[j][it[j].offset]
    IN  /\ ~ err
        /\ it[j].st = "reading"
        /\ vf[j].ph = "iter"
        /\ IF IsHashed(object.type)
           THEN /\ vf' = [vf EXCEPT ![j] = Loading(vf[j], object.size)]
                /\ Dispatch(j, 1)
           ELSE Dispatch(j, 0) /\ UNCHANGED vf
        /\ UNCHANGED vars

\* per_object(): hashed objects are loaded, others passed over.
verify_object(j) ==
    LET object == at[j][it[j].offset]
    IN  /\ ~ err
        /\ it[j].st = "reading"
        /\ vf[j].ph = "iter"
        /\ IF IsHashed(object.type)
           THEN /\ vf' = [vf EXCEPT ![j] = Loading(vf[j], object.size)]
                /\ Dispatch(j, 1)
                /\ UNCHANGED vars
           ELSE Resume(j, vf[j])

\* decompress(): its buffer grows to what comes out, 0 for a payload that is
\* not compressed.
decompress(v, size) == [v EXCEPT !.dcap = Grown(v.dcap, size)]

\* Faulty variant: the one case was made from a copy of the other.
payload_size_copied(object) == object.size - DataPayload

\* What follows the header of a hashed object of its type.  The code counts
\* modulo 2^64, which sums of integers agree with.
hashed_payload_size(object) ==
    object.size - (IF object.type = OBJECT_FIELD THEN FieldPayload ELSE DataPayload)

\* verify_hashed_object() on the object in the buffer of v.
verify_hashed_object(j, v, size) ==
    LET object == at[j][v.holds]
    IN  [decompress(v, size) EXCEPT !.n[object.type] = @ + 1,
                                    !.bytes[object.type] = @ + hashed_payload_size(object)]

\* Faulty variant: the iteration goes on while the worker verifies.
HandoffAndResume(j, v) ==
    /\ got_iter_object_header(j)
    /\ Dispatch(j, 1 + NextRead(j))
    /\ vf' = [vf EXCEPT ![j].ph = "worker", ![j].holds = v.holds]

\* iou_async(): the worker gets the object, the closure waits.
Handoff(j, v) ==
    /\ vf' = [vf EXCEPT ![j] = [v EXCEPT !.ph = "worker"]]
    /\ Dispatch(j, 1)
    /\ UNCHANGED vars

\* got_object() and per_hashed_object(): the object has arrived.  A small one
\* is verified here, and the closure goes on if it matches.
per_hashed_object(j) ==
    LET loaded == [vf[j] EXCEPT !.holds = it[j].offset]
    IN  /\ ~ err
        /\ vf[j].ph = "object"
        /\ IF at[j][it[j].offset].size <= SmallSize
           THEN \E size \in Inflated \cup {0} :
                   Resume(j, [verify_hashed_object(j, loaded, size) EXCEPT !.ph = "iter"])
           ELSE Handoff(j, loaded)

\* The worker thread, which runs on when a callback has failed meanwhile: its
\* job is outstanding until the closure has been told.
WorkerVerifies(j) ==
    /\ vf[j].ph = "worker"
    /\ UNCHANGED queued
    /\ \E size \in Inflated \cup {0} :
          vf' = [vf EXCEPT ![j] = [verify_hashed_object(j, vf[j], size) EXCEPT !.ph = "verified"]]
    /\ UNCHANGED vars

\* The worker is done and the closure goes on: it is not told what the worker
\* found, whether or not iou_run() is.
WorkerDone(j) ==
    /\ vf[j].ph = "verified"
    /\ Resume(j, [vf[j] EXCEPT !.ph = "iter"])

\* A read, an allocation or a decompression fails, a hash does not match, or
\* the worker's result fails the run.
VerifyFails(j) ==
    /\ vf[j].ph # "worker"
    /\ ReadFails(j)
    /\ Dispatch(j, 0)
    /\ UNCHANGED vf

VerifyCallback(j) ==
    \/ journal_get_header(j) /\ Dispatch(j, 1) /\ UNCHANGED vf
    \/ VerifyGotHeader(j)
    \/ verify_object(j)
    \/ per_hashed_object(j)
    \/ WorkerVerifies(j)
    \/ WorkerDone(j)
    \/ VerifyFails(j)

-----------------------------------------------------------------------------
\* A journal that is through had each of its field and data objects verified
\* once and counted under its own type with the size of its payload, small or
\* large, and its buffers freed.
VerifyComplete ==
    \A j \in Journal : it[j].st = "done" =>
       /\ vf[j].cap = 0 /\ vf[j].dcap = 0
       /\ \A t \in Type :
             LET objects == {o \in Expected(j) : at[j][o].type = t
                                                 /\ t \in {OBJECT_FIELD, OBJECT_DATA}}
                 payload == IF t = OBJECT_FIELD THEN FieldPayload ELSE DataPayload
             IN  /\ vf[j].n[t] = Cardinality(objects)
                 /\ vf[j].bytes[t] =
                       SumFunctionOnSet([o \in Offset |-> at[j][o].size - payload], objects)

\* An object is only ever loaded into a buffer that has room for all of it,
\* whatever sizes came before.
LoadsFit ==
    \A j \in Journal : vf[j].ph # "iter" => vf[j].cap >= at[j][it[j].offset].size

\* While the worker has an object, the iteration stays on it and the buffer
\* keeps it: nothing is loaded over what is being verified, and no object is
\* passed over.
WorkerOwnsObject ==
    \A j \in Journal : vf[j].ph \in {"worker", "verified"} =>
       it[j].st = "reading" /\ vf[j].holds = it[j].offset
=============================================================================
