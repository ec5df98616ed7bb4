----------------------------- MODULE MCIdentity -----------------------------
(***************************************************************************)
(* Scenarios for IdentitySystem.  Each names the calls its clients make,   *)
(* the rest of the API being quiet, so that the requests that share state  *)
(* meet without exploring those that do not.                               *)
(***************************************************************************)
EXTENDS IdentitySystem, TLC

CONSTANTS a1, a2

Verifying == [calls |-> {"signup", "verify"}, clients |-> {a1}, settled |-> <<>>, org |-> FALSE,
    maxTime |-> 2, maxKeys |-> 2, maxCodes |-> 2]
Rotating == [calls |-> {"signup", "verify", "createKey", "revokeKey"}, clients |-> {a1},
             settled |-> <<a1>>, org |-> FALSE,
    maxTime |-> 2, maxKeys |-> 3, maxCodes |-> 2]
Authorizing == [calls |-> {"authorize", "email", "code", "exchange"}, clients |-> {a1, a2},
                settled |-> <<a1, a2>>, org |-> FALSE,
    maxTime |-> 2, maxKeys |-> 4, maxCodes |-> 2]
Founding == [calls |-> {"createOrg", "change", "provision"}, clients |-> {},
             settled |-> <<a1, a2>>, org |-> FALSE,
    maxTime |-> 1, maxKeys |-> 2, maxCodes |-> 0]
Managing == [calls |-> {"invite", "uninvite", "change", "signup"}, clients |-> {a2},
             settled |-> <<a1>>, org |-> TRUE,
    maxTime |-> 1, maxKeys |-> 2, maxCodes |-> 1]

Crowning == [calls |-> {"createOrg", "invite", "signup"}, clients |-> {a1},
             settled |-> <<a1>>, org |-> FALSE,
    maxTime |-> 1, maxKeys |-> 2, maxCodes |-> 1]

OrgsOnly == {Founding, Managing}
Everything == {Verifying, Rotating, Authorizing, Founding, Managing, Crowning}

Symmetry == Permutations(Request)
=============================================================================
