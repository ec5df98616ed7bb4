------------------------------ MODULE Identity ------------------------------
(***************************************************************************)
(* The D1 tables behind accounts, API keys, organizations and OAuth, and   *)
(* the requests that work on them.  A request is a sequence of statements: *)
(* D1 runs each one atomically and the requests of several isolates        *)
(* interleave between them, so a request keeps what it has read in its own *)
(* record req[p] until it writes.  The audit log, which nothing but        *)
(* list_audit reads, and the names, hashes and addresses are left out.     *)
(***************************************************************************)
EXTENDS Naturals, FiniteSets, Sequences

CONSTANTS
    Account,      \* the accounts, each standing for its email address too
    Request,      \* the requests in flight at the same time
    Operator,     \* the account of the operator token
    None,         \* SQL NULL
    Allowed,      \* ALLOWED_SIGNUP_EMAILS, {} when it is not set
    OtpTtl, OtpWindow, OtpAttempts, OtpPerHour, SessionTtl, GrantTtl,
    Scenarios,    \* what is explored together: the calls, the accounts that
                  \* make them, the tables they start from, and the bounds
                  \* maxTime, maxKeys and maxCodes of the clock and the tables
    MaxSessions, MaxInvites   \* bounds of the other tables

ASSUME IdentityAssumption ==
    /\ IsFiniteSet(Request) /\ Request # {}
    /\ Operator \notin Account
    /\ None \notin Account \cup {Operator} \cup {"admin", "member"}
    /\ \A n \in {OtpAttempts, OtpPerHour} : n \in Nat \ {0}
    /\ \A n \in {OtpTtl, OtpWindow, SessionTtl, GrantTtl} : n \in Nat

ASSUME ScenarioAssumption ==
    \A s \in Scenarios :
        /\ s.clients \subseteq Account /\ s.settled \in Seq(Account)
        /\ s.org \in BOOLEAN /\ (s.org => s.settled # <<>>)
        /\ s.maxTime \in Nat \ {0} /\ s.maxKeys \in Nat /\ s.maxCodes \in Nat

VARIABLES
    now,    \* the clock the code reads with now()
    mix,    \* the scenario of this behaviour
    db,     \* the tables
    req,    \* what each request remembers
    hist    \* history the properties are stated over; no action reads it

vars == <<now, mix, db, req, hist>>

Roles == {"admin", "member"}
-----------------------------------------------------------------------------
(* Requests *)

Blank == [op |-> "idle", pc |-> "idle", acct |-> None, key |-> 0,
          pending |-> FALSE, verified |-> FALSE, fresh |-> FALSE, guess |-> 0,
          at |-> 0, code |-> 0, invite |-> 0, org |-> 0, target |-> None,
          role |-> None, session |-> 0, grant |-> 0]

Free(p) == req[p] = Blank
At(p, pc) == req[p].pc = pc
Begin(p, op, r) == /\ Free(p) /\ op \in mix.calls
                   /\ req' = [req EXCEPT ![p] = [r EXCEPT !.op = op]]
Goto(p, pc) == req' = [req EXCEPT ![p].pc = pc]
Finish(p) == req' = [req EXCEPT ![p] = Blank]
Local == UNCHANGED <<now, mix, db, hist>>
Write == UNCHANGED <<now, mix>>

\* A statement, a mail or a Cloudflare call throws, or the isolate is
\* evicted: what the request has written stays.
Abort(p) == ~Free(p) /\ Finish(p) /\ Local

Tick == now < mix.maxTime /\ now' = now + 1 /\ UNCHANGED <<mix, db, req, hist>>
-----------------------------------------------------------------------------
(* Statements on accounts, keys and one-time codes *)

\* accounts.email is UNIQUE: the INSERT throws when the address has a row.
Taken(a) == db.accounts[a] # "none"
WithAccount(a) == [db.accounts EXCEPT ![a] = "unverified"]
Verified(a) == [db.accounts EXCEPT ![a] = "verified"]

Key == 1 .. Len(db.keys)
KeyLive(k) == db.keys[k].active /\ ~db.keys[k].revoked
Holds(a) == a = Operator \/ \E k \in Key : db.keys[k].acct = a /\ KeyLive(k)

WithKey(a, active, grant) ==
    Append(db.keys, [acct |-> a, active |-> active, revoked |-> FALSE, grant |-> grant])

Activated(k) == [db.keys EXCEPT ![k].active = TRUE]

RevokedKeys(S) ==
    [k \in Key |-> IF k \in S THEN [db.keys[k] EXCEPT !.revoked = TRUE] ELSE db.keys[k]]

\* Mutant: the statement forgets id != ?.
OthersAndKept(a, k) == {j \in Key : db.keys[j].acct = a}

Others(a, k) == {j \in Key : db.keys[j].acct = a /\ j # k}
OfAccount(a) == {j \in Key : db.keys[j].acct = a}

OtpsOf(a) == {o \in db.otps : o.acct = a}
RecentOtps(a, t) == {o \in OtpsOf(a) : o.at + OtpWindow >= t}

WithOtp(a, code, at) ==
    db.otps \cup {[acct |-> a, code |-> code, at |-> at, attempts |-> 0]}

\* created_at orders and names an account's codes; the code's number breaks
\* the ties of this clock, which is coarser than the code's milliseconds.
LatestOtp(a) ==
    CHOOSE o \in OtpsOf(a) : \A q \in OtpsOf(a) :
        q.at < o.at \/ (q.at = o.at /\ q.code <= o.code)
Missed(code) ==
    {IF o.code = code THEN [o EXCEPT !.attempts = o.attempts + 1] ELSE o : o \in db.otps}
WithoutOtps(a) == db.otps \ OtpsOf(a)
-----------------------------------------------------------------------------
(* Statements on organizations *)

RoleOf(o, a) ==
    IF \E m \in db.members : m.org = o /\ m.acct = a
    THEN (CHOOSE m \in db.members : m.org = o /\ m.acct = a).role ELSE None

Admins(o) == {m \in db.members : m.org = o /\ m.role = "admin"}

\* ON CONFLICT (org_id, account_id) DO NOTHING
Joined(o, a, role) ==
    IF RoleOf(o, a) # None THEN db.members
    ELSE db.members \cup {[org |-> o, acct |-> a, role |-> role]}

WithRole(o, a, role) ==
    {IF m.org = o /\ m.acct = a THEN [m EXCEPT !.role = role] ELSE m : m \in db.members}

Without(o, a) == {m \in db.members : ~(m.org = o /\ m.acct = a)}

WithInvite(o, a, role) ==
    Append(db.invites, [org |-> o, acct |-> a, role |-> role, state |-> "open"])

\* Both statements carry accepted_at IS NULL: they touch an open invite only.
Closed(i, state) ==
    IF db.invites[i].state = "open" THEN [db.invites EXCEPT ![i].state = state] ELSE db.invites
Accepted(i) == Closed(i, "accepted")
Deleted(i) == Closed(i, "deleted")

OpenInvites(o, a) ==
    {i \in 1 .. Len(db.invites) : /\ db.invites[i].org = o /\ db.invites[i].acct = a
                                  /\ db.invites[i].state = "open"}

\* The invite a signup finds: the newest open one of the oldest org, 0 if none.
OpenInvite(a) ==
    LET found == OpenInvites(1, a)
    IN IF found = {} THEN 0 ELSE CHOOSE i \in found : \A j \in found : j <= i
-----------------------------------------------------------------------------
\* A behaviour starts in an empty deployment, or in one whose settled accounts
\* are verified and hold a key and an inbox, the first as admin of an org.
IdentityInit ==
    /\ now = 1
    /\ mix \in Scenarios
    /\ LET settled == mix.settled
           Settled == {settled[i] : i \in DOMAIN settled}
       IN db = [accounts |-> [a \in Account |-> IF a \in Settled THEN "verified" ELSE "none"],
                inboxes |-> Settled,
                keys |-> [i \in DOMAIN settled |->
                            [acct |-> settled[i], active |-> TRUE, revoked |-> FALSE, grant |-> 0]],
                otps |-> {}, orgs |-> IF mix.org THEN 1 ELSE 0,
                members |-> IF mix.org THEN {[org |-> 1, acct |-> settled[1], role |-> "admin"]} ELSE {},
                invites |-> <<>>, sessions |-> <<>>, grants |-> <<>>]
    /\ req = [p \in Request |-> Blank]
    /\ hist = [codes |-> 0, mailed |-> {}, cut |-> {}, crossed |-> {}, proofs |-> {},
               founded |-> 1 .. db.orgs, crossedOrgs |-> {}, orgRace |-> FALSE]

\* The tables keep the shape of their columns, rows name accounts that exist,
\* and the counters stay within the bounds.
IdentityTypeOK ==
    /\ now \in 1 .. mix.maxTime
    /\ db.accounts \in [Account -> {"none", "unverified", "verified"}]
    /\ db.inboxes \subseteq Account
    /\ \A k \in Key : /\ db.keys[k].acct \in Account
                      /\ db.accounts[db.keys[k].acct] # "none"
                      /\ db.keys[k].grant \in 0 .. Len(db.grants)
    /\ \A o \in db.otps : o.acct \in Account /\ o.at \in 1 .. now /\ o.attempts \in Nat
    /\ \A m \in db.members : m.org \in 1 .. db.orgs /\ m.role \in Roles
    /\ \A m, n \in db.members : m.org = n.org /\ m.acct = n.acct => m = n
    /\ \A p \in Request : DOMAIN req[p] = DOMAIN Blank
=============================================================================
