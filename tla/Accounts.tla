------------------------------ MODULE Accounts ------------------------------
(***************************************************************************)
(* Signup, the one-time codes and API keys: core/accounts.ts and           *)
(* core/keys.ts, statement by statement.  A repeat signup mints a pending  *)
(* key, which only verify accepts; verify consumes a code, activates the   *)
(* key and revokes the others.  Reads that run back to back and lead to no *)
(* write in between are one step.                                          *)
(***************************************************************************)
EXTENDS Identity

(* signup *)

\* The lookups of signup and its refusals: an organization closes signup to
\* new addresses without an invite, ALLOWED_SIGNUP_EMAILS to every other one.
SignupStart(p, a) ==
    LET fresh == ~Taken(a)
        invite == OpenInvite(a)
    IN /\ a \in mix.clients
       /\ fresh /\ db.orgs > 0 => invite # 0
       /\ invite = 0 => Allowed = {} \/ a \in Allowed
       /\ Begin(p, "signup",
                [Blank EXCEPT !.acct = a, !.fresh = fresh, !.invite = invite,
                              !.pc = IF fresh THEN "account" ELSE "inbox"])
       /\ Local

JoinThen(r, pc) == IF r.invite # 0 THEN "join" ELSE pc

InsertAccount(p) ==
    LET r == req[p]
    IN /\ At(p, "account")
       /\ IF Taken(r.acct)
          THEN UNCHANGED db /\ Finish(p)
          ELSE /\ db' = [db EXCEPT !.accounts = WithAccount(r.acct)]
               /\ Goto(p, JoinThen(r, "inbox"))
       /\ Write /\ UNCHANGED hist

JoinOrg(p) ==
    LET r == req[p]
        i == db.invites[r.invite]
        founding == \E q \in Request : At(q, "founder") /\ req[q].org = i.org
    IN /\ At(p, "join")
       /\ db' = [db EXCEPT !.members = Joined(i.org, r.acct, i.role)]
       /\ hist' = IF founding THEN [hist EXCEPT !.crossedOrgs = @ \cup {i.org}] ELSE hist
       /\ Goto(p, "accept")
       /\ Write

MarkAccepted(p) ==
    LET r == req[p]
    IN /\ At(p, "accept")
       /\ db' = [db EXCEPT !.invites = Accepted(r.invite)]
       /\ Goto(p, IF r.fresh THEN "inbox" ELSE "otp")
       /\ Write /\ UNCHANGED hist

\* The account's oldest inbox, or a new one; createInbox may throw (Abort).
EnsureInbox(p) ==
    /\ At(p, "inbox")
    /\ db' = [db EXCEPT !.inboxes = @ \cup {req[p].acct}]
    /\ Goto(p, "key")
    /\ Write /\ UNCHANGED hist

\* The first key of an account is active, a repeat signup's is pending.
InsertSignupKey(p) ==
    LET r == req[p]
    IN /\ At(p, "key") /\ Len(db.keys) < mix.maxKeys
       /\ db' = [db EXCEPT !.keys = WithKey(r.acct, r.fresh, 0)]
       /\ Goto(p, IF r.fresh THEN "otp" ELSE JoinThen(r, "otp"))
       /\ Write /\ UNCHANGED hist
-----------------------------------------------------------------------------
(* issueOtp: signup and the OAuth email form share it *)

CountOtps(p) ==
    LET r == req[p]
    IN /\ At(p, "otp")
       /\ IF Cardinality(RecentOtps(r.acct, now)) >= OtpPerHour
          THEN Finish(p)
          ELSE req' = [req EXCEPT ![p].pc = "insertOtp", ![p].at = now]
       /\ Local

InsertOtp(p) ==
    LET r == req[p]
        code == hist.codes + 1
    IN /\ At(p, "insertOtp") /\ code <= mix.maxCodes
       /\ db' = [db EXCEPT !.otps = WithOtp(r.acct, code, r.at)]
       /\ hist' = [hist EXCEPT !.codes = code]
       /\ req' = [req EXCEPT ![p].pc = "mail", ![p].code = code]
       /\ Write

\* A mail that fails is reported as otp_sent: false; the row stays.
MailOtp(p, sent) ==
    LET r == req[p]
    IN /\ At(p, "mail")
       /\ hist' = IF sent THEN [hist EXCEPT !.mailed = @ \cup {r.code}] ELSE hist
       /\ IF r.op = "email" /\ sent THEN Goto(p, "bind") ELSE Finish(p)
       /\ Write /\ UNCHANGED db
-----------------------------------------------------------------------------
(* verify and consumeOtp *)

\* authenticate with allowPending: the key is not revoked; a verified account
\* with an active key is answered at once.
VerifyStart(p, k, guess) ==
    LET key == db.keys[k]
        verified == db.accounts[key.acct] = "verified"
    IN /\ ~key.revoked
       /\ ~(verified /\ key.active)
       /\ Begin(p, "verify", [Blank EXCEPT !.acct = key.acct, !.key = k, !.guess = guess,
                              !.pending = ~key.active, !.verified = verified, !.pc = "check"])
       /\ Local

\* Mutant: wrong guesses are counted and the count is not looked at.
CheckOtpOpen(p) ==
    LET r == req[p]
    IN /\ At(p, "check")
       /\ IF OtpsOf(r.acct) = {} THEN Finish(p)
          ELSE LET o == LatestOtp(r.acct)
               IN IF o.at + OtpTtl <= now THEN Finish(p)
                  ELSE req' = [req EXCEPT ![p].code = o.code,
                                          ![p].pc = IF r.guess = o.code THEN "mark" ELSE "miss"]
       /\ Local

\* consumeOtp reads the latest code; the row it compares may be gone later.
\* A missing or expired code and one with too many attempts end the request.
CheckOtp(p) ==
    LET r == req[p]
    IN /\ At(p, "check")
       /\ IF OtpsOf(r.acct) = {} THEN Finish(p)
          ELSE LET o == LatestOtp(r.acct)
               IN IF o.at + OtpTtl <= now \/ o.attempts >= OtpAttempts THEN Finish(p)
                  ELSE req' = [req EXCEPT ![p].code = o.code,
                                          ![p].pc = IF r.guess = o.code THEN "mark" ELSE "miss"]
       /\ Local

MissOtp(p) ==
    /\ At(p, "miss")
    /\ db' = [db EXCEPT !.otps = Missed(req[p].code)]
    /\ Finish(p)
    /\ Write /\ UNCHANGED hist

MarkVerified(p) ==
    LET r == req[p]
    IN /\ At(p, "mark")
       /\ db' = IF r.verified THEN db ELSE [db EXCEPT !.accounts = Verified(r.acct)]
       /\ hist' = [hist EXCEPT !.proofs = @ \cup {<<r.session, r.acct>>}]
       /\ Goto(p, "clear")
       /\ Write

DeleteOtps(p) ==
    LET r == req[p]
    IN /\ At(p, "clear")
       /\ db' = [db EXCEPT !.otps = WithoutOtps(r.acct)]
       /\ IF r.op = "code" THEN Goto(p, "grant")
          ELSE IF r.pending THEN Goto(p, "activate") ELSE Finish(p)
       /\ Write /\ UNCHANGED hist

\* UPDATE ... WHERE activated_at IS NULL: it does not look at revoked_at.
ActivateKey(p) ==
    /\ At(p, "activate")
    /\ db' = [db EXCEPT !.keys = Activated(req[p].key)]
    /\ Goto(p, "revokeOthers")
    /\ Write /\ UNCHANGED hist

Crossing(p) ==
    \E q \in Request \ {p} : /\ req[q].op = "verify" /\ req[q].pending
                             /\ req[q].acct = req[p].acct /\ req[q].key # req[p].key

RevokeOtherKeys(p) ==
    LET r == req[p]
    IN /\ At(p, "revokeOthers")
       /\ db' = [db EXCEPT !.keys = RevokedKeys(Others(r.acct, r.key))]
       /\ hist' = IF Crossing(p) THEN [hist EXCEPT !.crossed = @ \cup {r.acct}] ELSE hist
       /\ Finish(p)
       /\ Write
-----------------------------------------------------------------------------
(* Keys of an authenticated account *)

CreateKeyStart(p, a) ==
    /\ a # Operator /\ Holds(a)
    /\ Begin(p, "createKey", [Blank EXCEPT !.acct = a, !.pc = "mint"])
    /\ Local

\* createApiKey and, with the grant it redeems, the OAuth token exchange.
MintKey(p) ==
    LET r == req[p]
    IN /\ At(p, "mint") /\ Len(db.keys) < mix.maxKeys
       /\ db' = [db EXCEPT !.keys = WithKey(r.acct, TRUE, r.grant)]
       /\ Finish(p)
       /\ Write /\ UNCHANGED hist

RevokeKeyStart(p, a, k) ==
    /\ a # Operator /\ Holds(a)
    /\ Begin(p, "revokeKey", [Blank EXCEPT !.acct = a, !.key = k, !.pc = "revoke"])
    /\ Local

\* UPDATE ... WHERE account_id = ? AND revoked_at IS NULL
RevokeKey(p) ==
    LET r == req[p]
    IN /\ At(p, "revoke")
       /\ IF r.key \in OfAccount(r.acct)
          THEN /\ db' = [db EXCEPT !.keys = RevokedKeys({r.key})]
               /\ hist' = [hist EXCEPT !.cut = @ \cup {r.acct}]
          ELSE UNCHANGED <<db, hist>>
       /\ Finish(p)
       /\ Write
-----------------------------------------------------------------------------
AccountStep(p) ==
    \/ \E a \in Account : SignupStart(p, a)
    \/ InsertAccount(p) \/ JoinOrg(p) \/ MarkAccepted(p)
    \/ EnsureInbox(p) \/ InsertSignupKey(p)
    \/ CountOtps(p) \/ InsertOtp(p)
    \/ \E sent \in BOOLEAN : MailOtp(p, sent)
    \/ \E k \in Key, guess \in hist.mailed \cup {0} : VerifyStart(p, k, guess)
    \/ CheckOtp(p) \/ MissOtp(p) \/ MarkVerified(p) \/ DeleteOtps(p)
    \/ ActivateKey(p) \/ RevokeOtherKeys(p)
    \/ \E a \in Account : CreateKeyStart(p, a)
    \/ MintKey(p)
    \/ \E a \in Account, k \in Key : RevokeKeyStart(p, a, k)
    \/ RevokeKey(p)
    \/ Abort(p)
-----------------------------------------------------------------------------
(* The attempts are compared before they are counted, so requests that     *)
(* guess at the same time all pass the comparison; a code never takes more *)
(* than one extra guess per further request in flight (accounts.ts:179).   *)
GuessesBounded ==
    \A o \in db.otps : o.attempts <= OtpAttempts + Cardinality(Request) - 1

(* Verifying a pending key revokes every other key of the account, in a    *)
(* statement after the one that activates it.  An account that has held an *)
(* active key still has a live one, through repeat signups, stale codes    *)
(* and aborts, unless it revoked a key itself, was removed from its org,   *)
(* or two verifications of different keys overlapped (accounts.ts:205).    *)
KeepsAKey ==
    \A a \in Account \ (hist.cut \cup hist.crossed) :
        (\E k \in OfAccount(a) : db.keys[k].active) => Holds(a)
=============================================================================
