------------------------------ MODULE MCRouting ------------------------------
(***************************************************************************)
(* A custom domain, the inboxes on it and on the deployment's own domain,  *)
(* and one run of the setup, over the same rows and Cloudflare zones.      *)
(***************************************************************************)
EXTENDS Routes, TLC

Symmetry == Permutations(Caller)
=============================================================================
