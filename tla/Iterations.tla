------------------------------ MODULE Iterations ------------------------------
(***************************************************************************)
(* What an iteration promises to its command.  When it begins, what it     *)
(* will deliver is settled; each of these things is then delivered once,   *)
(* none before one that comes before it; it ends with the last.  It may    *)
(* stop short of that, and then delivers nothing more.  Iterations go on   *)
(* side by side.  No files and no I/O.                                     *)
(***************************************************************************)
EXTENDS Integers

CONSTANTS Iter,      \* the iterations
          Thing,     \* what may be delivered
          Before     \* pairs of things of which the first must come first

VARIABLES st,        \* per iteration: "idle", "iterating" or "ended"
          todo,      \* what it has still to deliver
          delivered  \* how often it has delivered what

vars == <<st, todo, delivered>>

Init ==
    /\ st = [i \in Iter |-> "idle"]
    /\ todo = [i \in Iter |-> {}]
    /\ delivered = [i \in Iter |-> [x \in Thing |-> 0]]

\* The iteration has things to deliver, or has come to its end.
MovesOn(i, things) ==
    /\ todo' = [todo EXCEPT ![i] = things]
    /\ st' = [st EXCEPT ![i] = IF things = {} THEN "ended" ELSE "iterating"]

\* An iteration begins, for the first time or again after its end, with any
\* things to deliver.
Begin(i) ==
    /\ st[i] # "iterating"
    /\ todo'[i] \subseteq Thing
    /\ MovesOn(i, todo'[i])
    /\ delivered' = [delivered EXCEPT ![i] = [x \in Thing |-> 0]]

\* The command's closure runs for x.
Deliver(i, x) ==
    /\ st[i] = "iterating"
    /\ x \in todo[i]
    /\ \A y \in todo[i] : <<y, x>> \notin Before
    /\ MovesOn(i, todo[i] \ {x})
    /\ delivered' = [delivered EXCEPT ![i][x] = 1]

Next ==
    \E i \in Iter :
       \/ Begin(i)
       \/ \E x \in todo[i] : Deliver(i, x)

Spec == Init /\ [][Next]_vars
=============================================================================
