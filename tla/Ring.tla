--------------------------------- MODULE Ring ---------------------------------
(***************************************************************************)
(* iou_run() (libs/iou, external), as the chains of callbacks that iterate *)
(* journals depend on it: it dispatches the callback of an operation that  *)
(* has completed, for as long as there are operations outstanding.  A      *)
(* callback that queues nothing is the end of its chain, whether or not    *)
(* its journal is.                                                         *)
(***************************************************************************)
EXTENDS ObjectIter

VARIABLE queued     \* per journal: the operations its chain has queued, and
                    \* the jobs it has given to a worker, that are outstanding

RingInit == queued = [j \in Journal |-> 0]

\* An operation of j has completed; its callback queues n more.
Dispatch(j, n) ==
    /\ queued[j] > 0
    /\ queued' = [queued EXCEPT ![j] = @ - 1 + n]

\* What journal_iter_next_object() has queued: the read of an object header,
\* or nothing at the end of the journal, when the closure runs instead.
NextRead(j) == IF it'[j].st = "reading" THEN 1 ELSE 0

\* iou_run() has nothing to wait for.
NothingOutstanding == \A j \in Journal : queued[j] = 0
=============================================================================
