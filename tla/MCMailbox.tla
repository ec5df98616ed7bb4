----------------------------- MODULE MCMailbox -----------------------------
(***************************************************************************)
(* Instances of Mailbox for TLC.  Workers are interchangeable.             *)
(***************************************************************************)
EXTENDS Mailbox, TLC

Symmetry == Permutations(Workers)
=============================================================================
