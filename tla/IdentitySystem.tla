--------------------------- MODULE IdentitySystem ---------------------------
(***************************************************************************)
(* Accounts, OAuth and Orgs at work together: the requests of all three    *)
(* interleave over the same tables, in whatever state they leave them.     *)
(***************************************************************************)
EXTENDS OAuth, Orgs

Next ==
    \/ \E p \in Request : AccountStep(p) \/ OAuthStep(p) \/ OrgStep(p)
    \/ BeginAuthorization
    \/ Tick

Spec == IdentityInit /\ [][Next]_vars
=============================================================================
