-------------------------------- MODULE LruPool --------------------------------
(***************************************************************************)
(* What a journal's buffers promise as a pool: a least-recently-used cache.*)
(* Only the buffer that has gone unused the longest is ever given up, a    *)
(* use makes a buffer the last to be given up, and only a buffer that was  *)
(* given up is filled.  No pointers and no I/O.                            *)
(***************************************************************************)
EXTENDS Integers, Sequences

VARIABLES order,    \* the buffers, least recently used first
          held      \* the buffers whose contents can be served

vars == <<order, held>>

MovedToEnd(i) ==
    Append(SubSeq(order, 1, i - 1) \o SubSeq(order, i + 1, Len(order)), order[i])

Init == held = {}

\* A read found its data in the i-th buffer.
Use(i) ==
    /\ order[i] \in held
    /\ order' = MovedToEnd(i)
    /\ UNCHANGED held

\* A read did not find its data: the least recently used buffer is given up
\* for it, and counts as used from now on.
GiveUp ==
    /\ order' = MovedToEnd(1)
    /\ held' = held \ {order[1]}

\* The data arrived in the buffer given up last.
Fill ==
    LET b == order[Len(order)]
    IN  /\ b \notin held
        /\ held' = held \cup {b}
        /\ UNCHANGED order

Next ==
    \/ \E i \in DOMAIN order : Use(i)
    \/ GiveUp
    \/ Fill

Spec == Init /\ [][Next]_vars
=============================================================================
