------------------------------ MODULE ObjectIter ------------------------------
(***************************************************************************)
(* Iterating the objects of journals: journal_get_header(),                *)
(* journal_iter_objects() and journal_iter_next_object() (src/journals.c). *)
(*                                                                         *)
(* Every journal is iterated by its own chain of closures; the chains      *)
(* interleave in iou_run(), and journald (external) keeps appending to the *)
(* journals while they are iterated.  An object is its type and its size;  *)
(* objects follow each other at 8 byte boundaries from header_size on.     *)
(*                                                                         *)
(* A read yields what the file holds below the tail object of the header   *)
(* the chain has loaded; module JournalRead shows that journal_read() does *)
(* so although it reads through buffers.                                   *)
(***************************************************************************)
EXTENDS Integers, FiniteSets

CONSTANTS Journal,       \* the journals
          header_size,   \* size of a journal's header, where objects begin
          MaxEnd,        \* bound on the space taken by objects
          Type,          \* types of objects
          OBJECT_UNUSED, \* the type of a zeroed object header
          Size           \* sizes of the objects that journald writes

\* Objects start at multiples of 8, and so do they after a header.
ASSUME IterAssumption ==
    /\ IsFiniteSet(Journal) /\ IsFiniteSet(Type)
    /\ header_size \in Nat \ {0} /\ header_size % 8 = 0
    /\ MaxEnd \in Nat /\ MaxEnd >= header_size
    /\ Size \subseteq Nat \ {0}
    /\ OBJECT_UNUSED \in Type

VARIABLES starts,    \* where the file has objects
          at,        \* the object header at an offset
          end,       \* where journald puts the next object
          tail,      \* tail_object_offset in the file's header
          intact,    \* no object of the file was lost
          it,        \* the iteration: header and iter_{offset,object_header}
          seen,      \* how often the closure ran with *iter_offset = o, up to 2
          err        \* a callback has failed: iou_run() returns

vars == <<starts, at, end, tail, intact, it, seen, err>>

Offset == {o \in 0 .. MaxEnd : o % 8 = 0}
Object == [type : Type, size : Size \cup {0}]
Blank == [type |-> OBJECT_UNUSED, size |-> 0]
NotSeen == [o \in Offset |-> 0]

Init ==
    /\ starts = [j \in Journal |-> {}]
    /\ at = [j \in Journal |-> [o \in Offset |-> Blank]]
    /\ end = [j \in Journal |-> header_size]
    /\ tail = [j \in Journal |-> 0]
    /\ intact = [j \in Journal |-> TRUE]
    /\ it = [j \in Journal |-> [st |-> "idle", tail |-> 0, offset |-> 0, object |-> Blank]]
    /\ seen = [j \in Journal |-> NotSeen]
    /\ err = FALSE

-----------------------------------------------------------------------------
ALIGN64(x) == ((x + 7) \div 8) * 8

\* Faulty variants of journal_iter_next_object(): the padding is forgotten,
\* the tail object is left out, an object appended later is let in, or a
\* zero-sized object is stepped over by nothing.
NextUnaligned(offset, size, tl) ==
    LET next == IF offset = 0 THEN header_size
                ELSE IF size # 0 THEN offset + size ELSE tl + 1
    IN  IF next > tl THEN 0 ELSE next
NextBeforeTail(offset, size, tl) ==
    LET next == IF offset = 0 THEN header_size
                ELSE IF size # 0 THEN offset + ALIGN64(size) ELSE tl + 1
    IN  IF next >= tl THEN 0 ELSE next
NextBeyondTail(offset, size, tl) ==
    LET next == IF offset = 0 THEN header_size
                ELSE IF size # 0 THEN offset + ALIGN64(size) ELSE tl + 1
    IN  IF next > tl + 8 THEN 0 ELSE next
NextUnguarded(offset, size, tl) ==
    LET next == IF offset = 0 THEN header_size ELSE offset + ALIGN64(size)
    IN  IF next > tl THEN 0 ELSE next

\* journal_iter_next_object(): the offset it moves *iter_offset to, from the
\* size of the object there and the header's tail_object_offset.
NextOffset(offset, size, tl) ==
    LET next == IF offset = 0 THEN header_size
                ELSE IF size # 0 THEN offset + ALIGN64(size) ELSE tl + 1
    IN  IF next > tl THEN 0 ELSE next

\* The closure ran at offset o: once more, as far as it is counted.
Bump(counts, o) == [counts EXCEPT ![o] = IF @ < 2 THEN @ + 1 ELSE @]

\* The iteration of j moves on from offset, having loaded object there: the
\* next read is queued or, at the end, the closure runs with *iter_offset 0.
Continue(j, tl, offset, object, counts) ==
    LET next == NextOffset(offset, object.size, tl)
    IN  /\ it' = [it EXCEPT ![j] = [st |-> IF next = 0 THEN "done" ELSE "reading",
                                    tail |-> tl, offset |-> next, object |-> object]]
        /\ seen' = [seen EXCEPT ![j] = IF next = 0 THEN Bump(counts, 0) ELSE counts]

\* The journal's chain begins: journal_get_header() queues its read.
journal_get_header(j) ==
    /\ ~ err
    /\ it[j].st = "idle"
    /\ it' = [it EXCEPT ![j].st = "header"]
    /\ UNCHANGED <<starts, at, end, tail, intact, seen, err>>

\* got_header() and journal_iter_objects(): the header as it is in the file
\* now is the one the whole iteration goes by.
got_header(j) ==
    /\ ~ err
    /\ it[j].st = "header"
    /\ Continue(j, tail[j], 0, it[j].object, seen[j])
    /\ UNCHANGED <<starts, at, end, tail, intact, err>>

\* got_iter_object_header() and journal_iter_objects_dispatch(): the closure
\* runs for the object that was read, then the iteration moves on.
got_iter_object_header(j) ==
    /\ ~ err
    /\ it[j].st = "reading"
    /\ Continue(j, it[j].tail, it[j].offset, at[j][it[j].offset],
                Bump(seen[j], it[j].offset))
    /\ UNCHANGED <<starts, at, end, tail, intact, err>>

\* journal_iter_next_object() is called again after the end: a new pass.
IterAgain(j) ==
    /\ ~ err
    /\ it[j].st = "done"
    /\ Continue(j, it[j].tail, it[j].offset, it[j].object, NotSeen)
    /\ UNCHANGED <<starts, at, end, tail, intact, err>>

\* A read fails or is short: its callback's error ends iou_run().
ReadFails(j) ==
    /\ ~ err
    /\ it[j].st \in {"header", "reading"}
    /\ err' = TRUE
    /\ UNCHANGED <<starts, at, end, tail, intact, it, seen>>

-----------------------------------------------------------------------------
\* journald appends an object and then accounts for it in the header.
JournaldAppend(j, object) ==
    /\ intact[j]
    /\ end[j] + ALIGN64(object.size) <= MaxEnd
    /\ starts' = [starts EXCEPT ![j] = @ \cup {end[j]}]
    /\ at' = [at EXCEPT ![j][end[j]] = object]
    /\ tail' = [tail EXCEPT ![j] = end[j]]
    /\ end' = [end EXCEPT ![j] = @ + ALIGN64(object.size)]
    /\ UNCHANGED <<intact, it, seen, err>>

\* An object never reached the disk when the machine went down: it reads as
\* zeroes.  journald does not append to such a file any more.
Lose(j, o) ==
    /\ intact[j]
    /\ it[j].st = "idle"
    /\ o \in starts[j]
    /\ at' = [at EXCEPT ![j][o] = Blank]
    /\ intact' = [intact EXCEPT ![j] = FALSE]
    /\ UNCHANGED <<starts, end, tail, it, seen, err>>

Appends == \E j \in Journal, t \in Type \ {OBJECT_UNUSED}, s \in Size :
              JournaldAppend(j, [type |-> t, size |-> s])

Next ==
    \/ \E j \in Journal :
          \/ journal_get_header(j)
          \/ got_header(j)
          \/ got_iter_object_header(j)
          \/ IterAgain(j)
          \/ ReadFails(j)
          \/ \E o \in Offset : Lose(j, o)
    \/ Appends

Spec == Init /\ [][Next]_vars

\* iou_run() completes every read that was queued.
FairSpec ==
    /\ Spec
    /\ \A j \in Journal : WF_vars(got_header(j)) /\ WF_vars(got_iter_object_header(j))

-----------------------------------------------------------------------------
TypeOK ==
    /\ starts \in [Journal -> SUBSET Offset]
    /\ at \in [Journal -> [Offset -> Object]]
    /\ end \in [Journal -> Offset]
    /\ tail \in [Journal -> Offset]
    /\ intact \in [Journal -> BOOLEAN]
    /\ it \in [Journal -> [st : {"idle", "header", "reading", "done"},
                           tail : Offset, offset : Offset, object : Object]]
    /\ seen \in [Journal -> [Offset -> 0 .. 2]]
    /\ err \in BOOLEAN

\* Every object header that is read lies where journald put an object, and
\* not beyond the tail object of the header the iteration started from: the
\* padding between objects never leads into the middle of one, and what is
\* appended meanwhile is never run into.
ReadsObjects ==
    \A j \in Journal : it[j].st = "reading" =>
       it[j].offset \in starts[j] /\ it[j].offset <= it[j].tail

\* The objects an iteration has to deliver: those the header knew of, up to
\* and including the first that reads as zero-sized.
Expected(j) ==
    {o \in starts[j] : /\ o <= it[j].tail
                       /\ \A p \in starts[j] : p < o => at[j][p].size # 0}

\* An iteration that has ended ran its closure once for every object it had
\* to deliver, once with *iter_offset 0, and for nothing else, whatever
\* journald appended while it ran.
IterationComplete ==
    \A j \in Journal : it[j].st = "done" =>
       seen[j] = [o \in Offset |-> IF o = 0 \/ o \in Expected(j) THEN 1 ELSE 0]

\* What an iteration keeps of the promises of Iterations: the objects from
\* *iter_offset on are still to be delivered, in the order they lie in.
IterStatus(j) ==
    IF it[j].st = "reading" THEN "iterating"
    ELSE IF it[j].st = "done" THEN "ended" ELSE "idle"

IterTodo(j) ==
    IF it[j].st = "reading" THEN {o \in Expected(j) : o >= it[j].offset} ELSE {}

LiesBefore == {p \in Offset \X Offset : p[1] < p[2]}

Its == INSTANCE Iterations WITH
    Iter <- Journal,
    Thing <- Offset \ {0},
    Before <- LiesBefore,
    st <- [j \in Journal |-> IterStatus(j)],
    todo <- [j \in Journal |-> IterTodo(j)],
    delivered <- [j \in Journal |-> [o \in Offset \ {0} |-> seen[j][o]]]

\* The objects of each journal are settled when its header is loaded, and are
\* delivered once each and in order, however the journals' chains of callbacks
\* interleave with each other and with journald.
RefinesIterations == Its!Spec

\* Every iteration that starts ends, on a growing and on a corrupt journal
\* alike, unless a read fails.
IterationEnds ==
    \A j \in Journal : (it[j].st = "header") ~> (it[j].st = "done" \/ err)
=============================================================================
