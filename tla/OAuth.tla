------------------------------- MODULE OAuth -------------------------------
(***************************************************************************)
(* The authorization-code flow of core/oauth.ts: a session, the email form *)
(* that binds an account to it, the code form that turns a one-time code   *)
(* into a grant, and the exchange that turns a grant into an API key.      *)
(* The parameters for which the first and the last step refuse a request,  *)
(* and the registration of clients, are left out.                          *)
(***************************************************************************)
EXTENDS Accounts

LiveSessions == {s \in 1 .. Len(db.sessions) : db.sessions[s].row /\ db.sessions[s].expires > now}

\* DELETE ... WHERE expires_at < ?: a row that expires now is still there.
Purged(rows) ==
    [i \in DOMAIN rows |-> IF rows[i].expires < now THEN [rows[i] EXCEPT !.row = FALSE] ELSE rows[i]]

WithSession(rows) ==
    Append(rows, [acct |-> None, expires |-> now + SessionTtl, row |-> TRUE])

\* UPDATE ... WHERE session_id = ?: a session deleted meanwhile stays deleted.
Bound(s, a) ==
    IF db.sessions[s].row THEN [db.sessions EXCEPT ![s].acct = a] ELSE db.sessions

WithGrant(a, s) ==
    Append(db.grants, [acct |-> a, session |-> s, row |-> TRUE, used |-> FALSE,
                       expires |-> now + GrantTtl])

\* UPDATE ... WHERE used_at IS NULL: of two exchanges one changes the row.
Claimable(g) == db.grants[g].row /\ ~db.grants[g].used
-----------------------------------------------------------------------------
\* The purge and the insert touch different rows, so they are one step.
BeginAuthorization ==
    /\ "authorize" \in mix.calls /\ Len(db.sessions) < MaxSessions
    /\ db' = [db EXCEPT !.sessions = WithSession(Purged(db.sessions))]
    /\ UNCHANGED <<now, mix, req, hist>>

EmailStart(p, s, a) ==
    /\ s \in LiveSessions /\ a \in mix.clients /\ db.accounts[a] # "none"
    /\ Begin(p, "email", [Blank EXCEPT !.acct = a, !.session = s, !.pc = "otp"])
    /\ Local

\* The session takes the account once its code is mailed, live or not.
BindSession(p) ==
    LET r == req[p]
    IN /\ At(p, "bind")
       /\ db' = [db EXCEPT !.sessions = Bound(r.session, r.acct)]
       /\ Finish(p)
       /\ Write /\ UNCHANGED hist

\* The account is read from the session here, and the code checked later.
CodeStart(p, s, guess) ==
    LET a == db.sessions[s].acct
    IN /\ s \in LiveSessions /\ a # None
       /\ Begin(p, "code", [Blank EXCEPT !.acct = a, !.session = s, !.guess = guess,
                            !.verified = (db.accounts[a] = "verified"), !.pc = "check"])
       /\ Local

\* Mutant: the grant takes the account the session names by now.
InsertGrantReread(p) ==
    LET r == req[p]
    IN /\ At(p, "grant") /\ Len(db.grants) < mix.maxCodes
       /\ db' = [db EXCEPT !.grants = WithGrant(db.sessions[r.session].acct, r.session)]
       /\ Goto(p, "endSession")
       /\ Write /\ UNCHANGED hist

InsertGrant(p) ==
    LET r == req[p]
    IN /\ At(p, "grant") /\ Len(db.grants) < mix.maxCodes
       /\ db' = [db EXCEPT !.grants = WithGrant(r.acct, r.session)]
       /\ Goto(p, "endSession")
       /\ Write /\ UNCHANGED hist

EndSession(p) ==
    /\ At(p, "endSession")
    /\ db' = [db EXCEPT !.sessions[req[p].session].row = FALSE]
    /\ Finish(p)
    /\ Write /\ UNCHANGED hist

\* The purge, the checks of client, redirect and verifier, and the read.
ExchangeStart(p, g) ==
    LET row == db.grants[g]
    IN /\ row.row /\ ~row.used /\ row.expires > now
       /\ Begin(p, "exchange", [Blank EXCEPT !.grant = g, !.acct = row.acct, !.pc = "claim"])
       /\ db' = [db EXCEPT !.grants = Purged(db.grants)]
       /\ Write /\ UNCHANGED hist

\* Mutant: the number of rows the UPDATE changed is not looked at.
ClaimGrantBlind(p) ==
    /\ At(p, "claim")
    /\ db' = [db EXCEPT !.grants[req[p].grant].used = TRUE]
    /\ Goto(p, "mint")
    /\ Write /\ UNCHANGED hist

ClaimGrant(p) ==
    LET g == req[p].grant
    IN /\ At(p, "claim")
       /\ db' = IF Claimable(g) THEN [db EXCEPT !.grants[g].used = TRUE] ELSE db
       /\ IF Claimable(g) THEN Goto(p, "mint") ELSE Finish(p)
       /\ Write /\ UNCHANGED hist

OAuthStep(p) ==
    \/ \E s \in 1 .. Len(db.sessions), a \in Account : EmailStart(p, s, a)
    \/ BindSession(p)
    \/ \E s \in 1 .. Len(db.sessions), guess \in hist.mailed \cup {0} : CodeStart(p, s, guess)
    \/ InsertGrant(p) \/ EndSession(p)
    \/ \E g \in 1 .. Len(db.grants) : ExchangeStart(p, g)
    \/ ClaimGrant(p)
-----------------------------------------------------------------------------
(* A grant is redeemed once: however the exchanges of one code interleave, *)
(* and although claiming it, minting the key and the purge are separate    *)
(* statements, at most one key comes of it (oauth.ts:500).                 *)
GrantBuysOneKey ==
    \A g \in 1 .. Len(db.grants) :
        Cardinality({k \in Key : db.keys[k].grant = g}) <= 1

(* The account a grant and its key belong to is the one whose mailed code  *)
(* was presented in that session, even when the email form rebinds the     *)
(* session to another account while the code form runs (oauth.ts:429).     *)
GrantsAreProved ==
    /\ \A g \in 1 .. Len(db.grants) :
        <<db.grants[g].session, db.grants[g].acct>> \in hist.proofs
    /\ \A k \in Key : db.keys[k].grant # 0 =>
        db.keys[k].acct = db.grants[db.keys[k].grant].acct
=============================================================================
