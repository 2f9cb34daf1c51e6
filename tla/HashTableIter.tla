----------------------------- MODULE HashTableIter -----------------------------
(***************************************************************************)
(* Iterating a journal's data or field hash table: journal_get_hash_table()*)
(* journal_hash_table_for_each() and journal_hash_table_iter_next_object() *)
(* (src/journals.c).                                                       *)
(*                                                                         *)
(* The table is loaded once; the chains it heads are then followed object  *)
(* by object in the file, where journald (external) may have made them     *)
(* longer meanwhile.  An object is named by its offset, which is never 0.  *)
(***************************************************************************)
EXTENDS Integers, FiniteSetsExt

CONSTANTS nbuckets,    \* *hash_table_size / sizeof(HashItem)
          MaxObjects   \* bound on the objects of the table

ASSUME HashAssumption == nbuckets \in Nat \ {0} /\ MaxObjects \in Nat

VARIABLES head, tail,         \* the table in the file
          next_hash_offset,   \* the chains in the file
          bucket,             \* the bucket of an object, nbuckets for none yet
          table,              \* *hash_table: the table as it was loaded
          known,              \* the objects it had then
          st,                 \* the iteration's state
          iter_bucket, iter_offset,
          seen                \* how often the closure ran for an object, up to 2

vars == <<head, tail, next_hash_offset, bucket, table, known, st,
          iter_bucket, iter_offset, seen>>

Bucket == 0 .. nbuckets - 1
Object == 1 .. MaxObjects
InTable == {o \in Object : bucket[o] # nbuckets}

Init ==
    /\ head = [b \in Bucket |-> 0]
    /\ tail = [b \in Bucket |-> 0]
    /\ next_hash_offset = [o \in Object |-> 0]
    /\ bucket = [o \in Object |-> nbuckets]
    /\ table = [head |-> head, tail |-> tail]
    /\ known = {}
    /\ st = "idle"
    /\ iter_bucket = 0
    /\ iter_offset = 0
    /\ seen = [o \in Object |-> 0]

-----------------------------------------------------------------------------
\* journald appends an object o to bucket b's chain.
JournaldLink(o, b) ==
    /\ o \notin InTable
    /\ bucket' = [bucket EXCEPT ![o] = b]
    /\ IF head[b] = 0
       THEN head' = [head EXCEPT ![b] = o] /\ UNCHANGED next_hash_offset
       ELSE /\ next_hash_offset' = [next_hash_offset EXCEPT ![tail[b]] = o]
            /\ UNCHANGED head
    /\ tail' = [tail EXCEPT ![b] = o]
    /\ UNCHANGED <<table, known, st, iter_bucket, iter_offset, seen>>

\* journal_get_hash_table() and got_hashtable().
got_hashtable ==
    /\ st = "idle"
    /\ table' = [head |-> head, tail |-> tail]
    /\ known' = InTable
    /\ st' = "loaded"
    /\ UNCHANGED <<head, tail, next_hash_offset, bucket,
                   iter_bucket, iter_offset, seen>>

-----------------------------------------------------------------------------
\* Faulty variants: the chain is followed past the tail the table knew, or left
\* after its first object.
OnChainLonger(next) == iter_offset # 0 /\ next # 0
OnChainNever(next) == FALSE

\* There is more of the chain that iter_offset is on.
OnChain(next) == iter_offset # 0 /\ iter_offset # table.tail[iter_bucket]

\* Faulty variant: the loop looks at the bucket before it steps.
BucketsAheadSame == {b \in Bucket : b >= (IF iter_offset = 0 THEN 0 ELSE iter_bucket)
                                    /\ table.head[b] # 0}

\* The buckets the do-while loop may stop at; it steps before it looks.
BucketsAhead == {b \in Bucket : b > (IF iter_offset = 0 THEN 0 ELSE iter_bucket)
                                /\ table.head[b] # 0}

\* journal_hash_table_iter_next_object(), next being the next_hash_offset in
\* *iter_object_header.  When the loop runs out of buckets, the closure runs
\* with *iter_offset 0.
IterNext(next) ==
    \/ /\ iter_bucket >= nbuckets        \* assert(*iter_bucket < nbuckets)
       /\ st' = "aborted"
       /\ UNCHANGED <<iter_bucket, iter_offset>>
    \/ /\ iter_bucket < nbuckets
       /\ OnChain(next)
       /\ iter_offset' = next
       /\ st' = "reading"
       /\ UNCHANGED iter_bucket
    \/ /\ iter_bucket < nbuckets
       /\ ~ OnChain(next)
       /\ IF BucketsAhead = {}
          THEN iter_bucket' = nbuckets /\ iter_offset' = 0 /\ st' = "done"
          ELSE /\ iter_bucket' = Min(BucketsAhead)
               /\ iter_offset' = table.head[Min(BucketsAhead)]
               /\ st' = "reading"

\* journal_hash_table_for_each(): *iter_offset is 0 already.
journal_hash_table_for_each ==
    /\ st = "loaded"
    /\ IterNext(0)
    /\ UNCHANGED <<head, tail, next_hash_offset, bucket, table, known, seen>>

\* got_hash_table_iter_object_header() and
\* journal_hash_table_for_each_dispatch(): the object arrives, the closure
\* runs, and unless *iter_offset is 0 the iteration goes on.
got_hash_table_iter_object_header ==
    /\ st = "reading"
    /\ IF iter_offset = 0
       THEN st' = "done" /\ UNCHANGED <<seen, iter_bucket, iter_offset>>
       ELSE /\ seen' = [seen EXCEPT ![iter_offset] = IF @ < 2 THEN @ + 1 ELSE @]
            /\ IterNext(next_hash_offset[iter_offset])
    /\ UNCHANGED <<head, tail, next_hash_offset, bucket, table, known>>

\* A read fails or is short: its callback's error ends iou_run().
ReadFails ==
    /\ st \in {"idle", "reading"}
    /\ st' = "failed"
    /\ UNCHANGED <<head, tail, next_hash_offset, bucket, table, known,
                   iter_bucket, iter_offset, seen>>

\* journal_hash_table_iter_next_object() recurs after the end: a new pass,
\* unless the call fails.
IterAgain ==
    /\ st = "done"
    /\ IterNext(0)
    /\ seen' = IF st' = "aborted" THEN seen ELSE [o \in Object |-> 0]
    /\ UNCHANGED <<head, tail, next_hash_offset, bucket, table, known>>

Next ==
    \/ \E o \in Object, b \in Bucket : JournaldLink(o, b)
    \/ got_hashtable
    \/ journal_hash_table_for_each
    \/ got_hash_table_iter_object_header
    \/ ReadFails
    \/ IterAgain

Spec == Init /\ [][Next]_vars

\* iou_run() completes every read and the loop dispatches itself.
FairSpec ==
    /\ Spec
    /\ WF_vars(journal_hash_table_for_each)
    /\ WF_vars(got_hash_table_iter_object_header)

-----------------------------------------------------------------------------
\* The objects that the loaded table leads to from bucket b.
KnownIn(b) == {o \in known : bucket[o] = b}

\* Only objects that the loaded table leads to are delivered, each of them
\* once at most, although the chains in the file grow behind the iteration.
DeliversKnownOnce ==
    \A o \in Object : seen[o] > 0 => seen[o] = 1 /\ o \in known

\* When the iteration leaves a bucket, by stepping to a later one or by
\* ending, every object of the buckets it passed since bucket 0 was delivered.
ChainsComplete ==
    \A b \in 1 .. nbuckets - 1 :
       b < iter_bucket /\ st \in {"reading", "done"} =>
          \A o \in KnownIn(b) : seen[o] = 1

\* An offset of 0 is never read as an object: the closure's test for the end
\* and the journal's header are not confused.
NeverReadsHeader == st = "reading" => iter_offset # 0

\* What the iteration keeps of the promises of Iterations: the known objects
\* of the buckets from 1 on that it has not delivered are still to be.
Its == INSTANCE Iterations WITH
    Iter <- {"table"},
    Thing <- Object,
    Before <- {},
    st <- [i \in {"table"} |-> IF st \in {"done", "aborted"} THEN "ended"
                               ELSE IF iter_offset # 0 THEN "iterating" ELSE "idle"],
    todo <- [i \in {"table"} |-> IF st \in {"idle", "loaded"} THEN {}
                                 ELSE {o \in known : bucket[o] >= 1 /\ seen[o] = 0}],
    delivered <- [i \in {"table"} |-> seen]

\* What will be delivered is settled when the loop begins, and is delivered
\* once, in a file whose chains keep growing.
RefinesIterations == Its!Spec

\* Every iteration that starts ends, however long the chains grow meanwhile.
IterationEnds == st \in {"loaded", "reading"} ~> st \in {"done", "failed"}

\* The closure is dispatched for every object in the hash table.
IteratesWholeTable == st = "done" => \A o \in known : seen[o] = 1

\* Recurring after the end restarts the iteration: the call does not fail.
RecursAfterEnd == st # "aborted"
=============================================================================
