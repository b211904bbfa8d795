--------------------------- MODULE OrderedDelivery ---------------------------
(***************************************************************************)
(* What the agent's sensor channels promise together: the updates of a     *)
(* worker are taken from it and processed one by one, in its order, with   *)
(* none left out in between and none made up, until the agent stops; then  *)
(* a last part of them may remain unprocessed.                             *)
(***************************************************************************)
EXTENDS Naturals

CONSTANT Worker

VARIABLES
  offered,    \* how many updates each worker has made
  delivered   \* the number of its last one to be processed

vars == <<offered, delivered>>

Init ==
  /\ offered = [w \in Worker |-> 0]
  /\ delivered = [w \in Worker |-> 0]

Offer(w) == offered' = [offered EXCEPT ![w] = @ + 1] /\ UNCHANGED delivered

Deliver(w) ==
  /\ delivered[w] < offered[w]
  /\ delivered' = [delivered EXCEPT ![w] = @ + 1]
  /\ UNCHANGED offered

Next == \E w \in Worker : Offer(w) \/ Deliver(w)

Spec == Init /\ [][Next]_vars
=============================================================================
