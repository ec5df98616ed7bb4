------------------------------ MODULE MCDrafts ------------------------------
(***************************************************************************)
(* Instances of Drafts for TLC.  Requests are interchangeable, and so are  *)
(* cron runs; drafts are not, the drain orders them.                       *)
(***************************************************************************)
EXTENDS Drafts, TLC

Symmetry == Permutations(Requests) \cup Permutations(Crons)
=============================================================================
