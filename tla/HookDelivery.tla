---------------------------- MODULE HookDelivery ----------------------------
(***************************************************************************)
(* What the webhook queue promises, free of rows, jobs and consumers: an   *)
(* event starts the deliveries of some of the webhooks that wait for it,   *)
(* once; a delivery is tried Tries times at most, and may be given up on   *)
(* before; one that is over never starts again.  Webhooks implements it.   *)
(***************************************************************************)
EXTENDS Naturals

CONSTANTS
  Delivery,  \* an event for a webhook
  Tries      \* the most times one is tried

VARIABLES
  awaited,   \* the deliveries whose event has not happened yet
  left       \* the tries each delivery has left

vars == <<awaited, left>>

Init == awaited \subseteq Delivery /\ left = [d \in Delivery |-> 0]

\* An event happens: the deliveries that waited for it start, or do not.
Happen ==
  /\ awaited' \subseteq awaited
  /\ \E started \in SUBSET (awaited \ awaited') :
       left' = [d \in Delivery |-> IF d \in started THEN Tries ELSE left[d]]

Try(d) == left[d] > 0 /\ left' = [left EXCEPT ![d] = @ - 1] /\ UNCHANGED awaited

GiveUp(d) == left[d] > 0 /\ left' = [left EXCEPT ![d] = 0] /\ UNCHANGED awaited

Next == Happen \/ \E d \in Delivery : Try(d) \/ GiveUp(d)

Spec == Init /\ [][Next]_vars
=============================================================================
