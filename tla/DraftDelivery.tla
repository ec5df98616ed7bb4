--------------------------- MODULE DraftDelivery ---------------------------
(***************************************************************************)
(* What the draft lifecycle promises about email, free of rows, statuses   *)
(* and workers: a draft is granted permits to be emailed, one at a time,   *)
(* each permit is used for at most one email, and permits may be           *)
(* withdrawn.  Drafts implements it.                                       *)
(***************************************************************************)
EXTENDS Naturals, Sequences

CONSTANT Drafts

VARIABLES
  granted,      \* how many permits each draft was ever granted
  permits,      \* the permits in hand: pairs of a draft and its permit's number
  delivered     \* the permits used up by an email, in the order of the emails

vars == <<granted, permits, delivered>>

Init ==
  /\ granted = [d \in Drafts |-> 0]
  /\ permits = {}
  /\ delivered = << >>

\* A new permit for d; permits in hand may lapse in the same step.
Grant(d) ==
  LET permit == <<d, granted[d] + 1>> IN
  /\ granted' = [granted EXCEPT ![d] = @ + 1]
  /\ permit \in permits'
  /\ permits' \subseteq permits \cup {permit}
  /\ UNCHANGED delivered

Deliver(permit) ==
  /\ permit \in permits
  /\ permits' = permits \ {permit}
  /\ delivered' = Append(delivered, permit)
  /\ UNCHANGED granted

Withdraw ==
  /\ permits' \subseteq permits
  /\ UNCHANGED <<granted, delivered>>

Next ==
  \/ \E d \in Drafts : Grant(d)
  \/ \E permit \in permits : Deliver(permit)
  \/ Withdraw

Spec == Init /\ [][Next]_vars
=============================================================================
