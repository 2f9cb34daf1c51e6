-------------------------------- MODULE BufLru --------------------------------
(***************************************************************************)
(* The list that orders one journal's read buffers from the least to the   *)
(* most recently used: journal->lru_{head,tail} and the lru_{prev,next}    *)
(* pointers threaded through journal->bufs[] (src/journals.c).             *)
(*                                                                         *)
(* The list is one value l = [head, tail, prev, next]; the two pointer     *)
(* fields of the buffers are the functions prev and next, and NULL is C's  *)
(* null pointer.                                                           *)
(***************************************************************************)
EXTENDS Integers

CONSTANTS JOURNAL_BUF_CNT,   \* buffers of a journal (8 in the code)
          NULL               \* the null pointer

ASSUME BufCntAssumption == JOURNAL_BUF_CNT \in Nat \ {0}
ASSUME NullAssumption == NULL \notin Int

\* &journal->bufs[i] is named by i.
BufIdx == 0 .. JOURNAL_BUF_CNT - 1
BufPtr == BufIdx \cup {NULL}

LruList == [head : BufIdx, tail : BufIdx,
            prev : [BufIdx -> BufPtr], next : [BufIdx -> BufPtr]]

-----------------------------------------------------------------------------
\* The list opened_journal() builds over the zeroed buffers of a journal it
\* has just opened: bufs[0], bufs[1], ... in index order.
lru_setup ==
    [head |-> 0,
     tail |-> JOURNAL_BUF_CNT - 1,
     prev |-> [b \in BufIdx |-> IF b = 0 THEN NULL ELSE b - 1],
     next |-> [b \in BufIdx |-> IF b = JOURNAL_BUF_CNT - 1 THEN NULL ELSE b + 1]]

\* Faulty variant: the new tail is linked forwards only.
buf_used_no_prev(l, b) ==
    IF l.tail = b
    THEN l
    ELSE LET p == l.prev[b]
             n == l.next[b]
             unlinked == IF p = NULL THEN l.next ELSE [l.next EXCEPT ![p] = n]
         IN  [head |-> IF p = NULL THEN n ELSE l.head,
              tail |-> b,
              prev |-> [l.prev EXCEPT ![n] = p],
              next |-> [unlinked EXCEPT ![b] = NULL, ![l.tail] = b]]

\* Faulty variant: a buffer that is used keeps its place in the list.
buf_used_forgotten(l, b) == l

\* buf_used(): move b to the tail.  b is taken out between its neighbours
\* (b has a successor, not being the tail) and appended behind the old tail.
buf_used(l, b) ==
    IF l.tail = b
    THEN l
    ELSE LET p == l.prev[b]
             n == l.next[b]
             unlinked == IF p = NULL THEN l.next ELSE [l.next EXCEPT ![p] = n]
         IN  [head |-> IF p = NULL THEN n ELSE l.head,
              tail |-> b,
              prev |-> [l.prev EXCEPT ![n] = p, ![b] = l.tail],
              next |-> [unlinked EXCEPT ![b] = NULL, ![l.tail] = b]]

-----------------------------------------------------------------------------
\* rank numbers the buffers of l from the head (0) to the tail, and both
\* pointers of every buffer agree with it.
Ranks(l, rank) ==
    /\ rank[l.head] = 0
    /\ rank[l.tail] = JOURNAL_BUF_CNT - 1
    /\ \A b, c \in BufIdx : rank[b] = rank[c] => b = c
    /\ \A b \in BufIdx :
          IF rank[b] = JOURNAL_BUF_CNT - 1
          THEN l.next[b] = NULL
          ELSE l.next[b] \in BufIdx /\ rank[l.next[b]] = rank[b] + 1
    /\ \A b \in BufIdx :
          IF rank[b] = 0
          THEN l.prev[b] = NULL
          ELSE l.prev[b] \in BufIdx /\ rank[l.prev[b]] = rank[b] - 1

\* The list is a single doubly linked chain through all the buffers.
WellLinked(l) ==
    \E rank \in [BufIdx -> 0 .. JOURNAL_BUF_CNT - 1] : Ranks(l, rank)

\* The buffers from the head to the tail, as the forward pointers give them.
LruOrder(l) ==
    LET walk[n \in 1 .. JOURNAL_BUF_CNT] ==
          IF n = 1 THEN l.head
          ELSE IF walk[n - 1] = NULL THEN NULL ELSE l.next[walk[n - 1]]
    IN  [n \in 1 .. JOURNAL_BUF_CNT |-> walk[n]]
=============================================================================
