-------------------------------- MODULE Orgs --------------------------------
(***************************************************************************)
(* Company mode: core/orgs.ts.  Every check, of the caller's role, of the  *)
(* open invite, of the last admin, is a read before the statement it       *)
(* guards; none of the pairs is in one db.batch.                           *)
(***************************************************************************)
EXTENDS Accounts

Caller == Account \cup {Operator}
OrgIds == 1 .. db.orgs
IsAdmin(o, a) == a = Operator \/ RoleOf(o, a) = "admin"

\* requireOrgAdmin: a full-scope key and the admin role; operators are admins.
Admitted(p, op, o, a, r) == Holds(a) /\ IsAdmin(o, a) /\ Begin(p, op, [r EXCEPT !.org = o]) /\ Local

\* Mutant: countOrgs is not asked.
CreateOrgAlways(p, a) ==
    /\ Holds(a) /\ (a # Operator => db.accounts[a] = "verified")
    /\ Begin(p, "createOrg", [Blank EXCEPT !.acct = a, !.pc = "insertOrg"])
    /\ Local

\* The admin secret was right, the account is verified, countOrgs is zero.
CreateOrgStart(p, a) ==
    /\ Holds(a) /\ (a # Operator => db.accounts[a] = "verified")
    /\ db.orgs = 0
    /\ Begin(p, "createOrg", [Blank EXCEPT !.acct = a, !.pc = "insertOrg"])
    /\ Local

InsertOrg(p) ==
    /\ At(p, "insertOrg")
    /\ db' = [db EXCEPT !.orgs = @ + 1]
    /\ hist' = [hist EXCEPT !.orgRace = @ \/ \E q \in Request \ {p} : At(q, "insertOrg")]
    /\ req' = [req EXCEPT ![p].pc = "founder", ![p].org = db.orgs + 1]
    /\ Write

InsertFounder(p) ==
    LET r == req[p]
    IN /\ At(p, "founder")
       /\ db' = [db EXCEPT !.members = Joined(r.org, r.acct, "admin")]
       /\ hist' = [hist EXCEPT !.founded = @ \cup {r.org}]
       /\ Finish(p)
       /\ Write

InviteStart(p, a, o, m, role) ==
    /\ RoleOf(o, m) = None /\ OpenInvites(o, m) = {}
    /\ Admitted(p, "invite", o, a, [Blank EXCEPT !.target = m, !.role = role, !.pc = "insertInvite"])

InsertInvite(p) ==
    LET r == req[p]
    IN /\ At(p, "insertInvite") /\ Len(db.invites) < MaxInvites
       /\ db' = [db EXCEPT !.invites = WithInvite(r.org, r.target, r.role)]
       /\ Finish(p)
       /\ Write /\ UNCHANGED hist

UninviteStart(p, a, o, i) ==
    /\ db.invites[i].org = o /\ db.invites[i].state = "open"
    /\ Admitted(p, "uninvite", o, a, [Blank EXCEPT !.invite = i, !.pc = "deleteInvite"])

DeleteInvite(p) ==
    /\ At(p, "deleteInvite")
    /\ db' = [db EXCEPT !.invites = Deleted(req[p].invite)]
    /\ Finish(p)
    /\ Write /\ UNCHANGED hist

\* updateMember and removeMember read the member; role is None for a removal.
ChangeStart(p, a, o, m, role) ==
    LET held == RoleOf(o, m)
    IN /\ held \notin {None, role}
       /\ Admitted(p, "change", o, a,
                   [Blank EXCEPT !.target = m, !.role = role,
                                 !.pc = IF held = "admin" THEN "countAdmins" ELSE "change"])

\* Mutant: the last admin is allowed to go.
CountAdminsLate(p) ==
    /\ At(p, "countAdmins")
    /\ IF Admins(req[p].org) = {} THEN Finish(p) ELSE Goto(p, "change")
    /\ Local

\* requireNotLastAdmin
CountAdmins(p) ==
    /\ At(p, "countAdmins")
    /\ IF Cardinality(Admins(req[p].org)) <= 1 THEN Finish(p) ELSE Goto(p, "change")
    /\ Local

ChangeMember(p) ==
    LET r == req[p]
        overlap == \E q \in Request \ {p} : req[q].op = "change" /\ req[q].org = r.org
    IN /\ At(p, "change")
       /\ db' = [db EXCEPT !.members = IF r.role = None THEN Without(r.org, r.target)
                                       ELSE WithRole(r.org, r.target, r.role)]
       /\ hist' = IF overlap THEN [hist EXCEPT !.crossedOrgs = @ \cup {r.org}] ELSE hist
       /\ IF r.role = None THEN Goto(p, "revokeAll") ELSE Finish(p)
       /\ Write

RevokeMemberKeys(p) ==
    LET r == req[p]
    IN /\ At(p, "revokeAll")
       /\ db' = [db EXCEPT !.keys = RevokedKeys(OfAccount(r.target))]
       /\ hist' = [hist EXCEPT !.cut = @ \cup {r.target}]
       /\ Finish(p)
       /\ Write

\* provisionInbox: createInbox as the member, who must belong to the org.
ProvisionStart(p, a, o, m) ==
    /\ RoleOf(o, m) # None /\ m # Operator
    /\ Admitted(p, "provision", o, a, [Blank EXCEPT !.target = m, !.pc = "provision"])

ProvisionInbox(p) ==
    /\ At(p, "provision")
    /\ db' = [db EXCEPT !.inboxes = @ \cup {req[p].target}]
    /\ Finish(p)
    /\ Write /\ UNCHANGED hist

OrgStep(p) ==
    \/ \E a \in Caller : CreateOrgStart(p, a)
    \/ InsertOrg(p) \/ InsertFounder(p)
    \/ \E a \in Caller, o \in OrgIds, m \in Account, role \in Roles : InviteStart(p, a, o, m, role)
    \/ InsertInvite(p)
    \/ \E a \in Caller, o \in OrgIds, i \in 1 .. Len(db.invites) : UninviteStart(p, a, o, i)
    \/ DeleteInvite(p)
    \/ \E a \in Caller, o \in OrgIds, m \in Caller, role \in Roles \cup {None} :
         ChangeStart(p, a, o, m, role)
    \/ CountAdmins(p) \/ ChangeMember(p) \/ RevokeMemberKeys(p)
    \/ \E a \in Caller, o \in OrgIds, m \in Account : ProvisionStart(p, a, o, m)
    \/ ProvisionInbox(p)
-----------------------------------------------------------------------------
(* The last admin is protected by a count before the write: an org that    *)
(* was founded is without an admin only when two changes of its members    *)
(* overlapped, or its founder was invited and joined before the row that   *)
(* makes a founder an admin, which then changes nothing (orgs.ts:191,290). *)
AdminLossNeedsOverlap ==
    \A o \in hist.founded \ hist.crossedOrgs : Admins(o) # {}

(* There is one org per deployment unless two createOrg calls had both     *)
(* counted none when the first inserted (orgs.ts:185).                     *)
SecondOrgNeedsOverlap == db.orgs > 1 => hist.orgRace

(* docs/architecture.md:598: "An admin cannot demote or remove the last    *)
(* admin, so an org always has one."                                       *)
OrgHasAdmin == \A o \in hist.founded : Admins(o) # {}
=============================================================================
