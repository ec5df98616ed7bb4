--------------------------- MODULE IdentityProofs ---------------------------
(***************************************************************************)
(* Proofs about IdentitySystem, for any number of accounts, requests,      *)
(* keys, codes and orgs, and whatever scenario a behaviour starts in.      *)
(*                                                                         *)
(* Four invariants on top of the shape of the tables, each of which says   *)
(* what a request that has read and not written yet can still rely on:     *)
(* Codes for the guesses in flight, Grants for the exchanges of a grant,   *)
(* Keys for the verifications of pending keys, Orgs for the changes of     *)
(* members and for the founders between their two statements.  A step      *)
(* disturbs at most two of them: the others see a quiet step.              *)
(***************************************************************************)
EXTENDS IdentitySystem, FiniteSetTheorems, NaturalsInduction, WellFoundedInduction,
        SequenceTheorems, TLAPS

Person == Account \cup {None, Operator}

KeyRow == [acct : Person, active : BOOLEAN, revoked : BOOLEAN, grant : Nat]

OtpRow == [acct : Person, code : Nat, at : Nat, attempts : Nat]

MemberRow == [org : Nat, acct : Person, role : Roles]

InviteRow == [org : Nat, acct : Person, role : Roles, state : {"open", "accepted", "deleted"}]

SessionRow == [acct : Person, expires : Nat, row : BOOLEAN]

GrantRow == [acct : Person, session : Nat, row : BOOLEAN, used : BOOLEAN, expires : Nat]

Tables == [accounts : [Account -> {"none", "unverified", "verified"}], inboxes : SUBSET Person,
           keys : Seq(KeyRow), otps : SUBSET OtpRow, orgs : Nat, members : SUBSET MemberRow,
           invites : Seq(InviteRow), sessions : Seq(SessionRow), grants : Seq(GrantRow)]

Ops == {"idle", "signup", "verify", "createKey", "revokeKey", "email", "code", "exchange",
        "createOrg", "invite", "uninvite", "change", "provision"}

Labels == {"idle", "account", "join", "accept", "inbox", "key", "otp", "insertOtp", "mail", "bind",
           "check", "miss", "mark", "clear", "activate", "revokeOthers", "mint", "revoke", "grant",
           "endSession", "claim", "insertOrg", "founder", "insertInvite", "deleteInvite",
           "countAdmins", "change", "revokeAll", "provision"}

Locals == [op : Ops, pc : Labels, acct : Person, key : Nat,
           pending : BOOLEAN, verified : BOOLEAN, fresh : BOOLEAN, guess : Nat,
           at : Nat, code : Nat, invite : Nat, org : Nat, target : Person,
           role : Roles \cup {None}, session : Nat, grant : Nat]

History == [codes : Nat, mailed : SUBSET Nat, cut : SUBSET Person, crossed : SUBSET Person,
            proofs : SUBSET (Nat \X Person), founded : SUBSET Nat, crossedOrgs : SUBSET Nat,
            orgRace : BOOLEAN]

Typed == now \in Nat /\ mix \in Scenarios /\ db \in Tables /\ hist \in History
         /\ req \in [Request -> Locals]

\* The invite a request is to accept has a row, the role it is to write is one.
Invited ==
    \A p \in Request :
        /\ req[p].invite <= Len(db.invites)
        /\ req[p].pc \in {"join", "accept"} => req[p].invite # 0
        /\ req[p].pc = "insertInvite" => req[p].role \in Roles

Shape == Typed /\ Invited

-----------------------------------------------------------------------------
(* Numbers and sequences *)

\* Numbers up to some bound, if there are any, have a greatest.
LEMMA GreatestFacts ==
  ASSUME NEW T \in SUBSET Nat, T # {}, NEW n \in Nat, \A x \in T : x <= n
  PROVE  \E x \in T : \A y \in T : y <= x
<1> DEFINE R == OpToRel(<, Nat)
           D == {n - x : x \in T}
<1>1. D \subseteq Nat /\ D # {}
  <2>1. ASSUME NEW x \in T PROVE n - x \in Nat
    <3>1. x \in Nat /\ x <= n
      OBVIOUS
    <3>2. QED
      BY <3>1
  <2>2. QED
    BY <2>1
<1>2. \E d \in D : \A e \in D : ~ (<<e, d>> \in R)
  BY <1>1, NatLessThanWellFounded, WFMin, Zenon
<1>3. \A x, y \in Nat : y < x => <<y, x>> \in R
  BY DEF OpToRel
<1> HIDE DEF R
<1>4. PICK d \in D : \A e \in D : ~ (<<e, d>> \in R)
  BY <1>2
<1>5. PICK x \in T : d = n - x
  OBVIOUS
<1>6. \A y \in T : ~ (n - y < n - x)
  BY <1>1, <1>3, <1>4, <1>5
<1>7. QED
  <2> SUFFICES ASSUME NEW y \in T PROVE y <= x
    OBVIOUS
  <2>1. x \in Nat /\ y \in Nat /\ ~ (n - y < n - x)
    BY <1>6
  <2>2. QED
    BY <2>1

\* Adding a row to a table, or changing some of its rows.
LEMMA RowFacts ==
  ASSUME NEW S, NEW s \in Seq(S)
  PROVE  /\ Len(s) \in Nat /\ DOMAIN s = 1 .. Len(s) /\ \A i \in 1 .. Len(s) : s[i] \in S
         /\ \A e \in S : /\ Append(s, e) \in Seq(S) /\ Len(Append(s, e)) = Len(s) + 1
                         /\ \A i \in 1 .. Len(s) : Append(s, e)[i] = s[i]
                         /\ Append(s, e)[Len(s) + 1] = e
         /\ \A t \in [1 .. Len(s) -> S] : t \in Seq(S) /\ Len(t) = Len(s)
<1>1. Len(s) \in Nat /\ DOMAIN s = 1 .. Len(s) /\ \A i \in 1 .. Len(s) : s[i] \in S
  BY LenProperties, ElementOfSeq
<1>2. ASSUME NEW e \in S
      PROVE  /\ Append(s, e) \in Seq(S) /\ Len(Append(s, e)) = Len(s) + 1
             /\ \A i \in 1 .. Len(s) : Append(s, e)[i] = s[i]
             /\ Append(s, e)[Len(s) + 1] = e
  BY <1>1, AppendProperties
<1>3. ASSUME NEW t \in [1 .. Len(s) -> S]
      PROVE  t \in Seq(S) /\ Len(t) = Len(s)
  <2>1. t \in Seq(S)
    BY <1>1, SeqDef
  <2>2. DOMAIN t = 1 .. Len(t) /\ DOMAIN t = 1 .. Len(s) /\ Len(t) \in Nat
    BY <2>1, LenProperties
  <2>3. QED
    BY <1>1, <2>1, <2>2
<1>4. QED
  BY <1>1, <1>2, <1>3

\* A request at rest.
LEMMA BlankFacts ==
    /\ Blank \in Locals
    /\ Blank.op = "idle" /\ Blank.pc = "idle" /\ Blank.acct = None /\ Blank.key = 0
    /\ Blank.pending = FALSE /\ Blank.guess = 0 /\ Blank.at = 0 /\ Blank.code = 0
    /\ Blank.invite = 0 /\ Blank.org = 0 /\ Blank.target = None /\ Blank.role = None
    /\ Blank.session = 0 /\ Blank.grant = 0
<1>1. None \in Person /\ 0 \in Nat /\ None \in Roles \cup {None}
  BY DEF Person
<1>2. Blank \in Locals
  BY <1>1 DEF Blank, Locals, Ops, Labels
<1>3. QED
  BY <1>2 DEF Blank

\* The statements on keys.
LEMMA KeyFacts ==
  ASSUME Typed
  PROVE  /\ Len(db.keys) \in Nat /\ \A k \in Key : db.keys[k] \in KeyRow
         /\ \A a \in Person, b \in BOOLEAN, g \in Nat :
              /\ WithKey(a, b, g) \in Seq(KeyRow) /\ Len(WithKey(a, b, g)) = Len(db.keys) + 1
              /\ \A k \in Key : WithKey(a, b, g)[k] = db.keys[k]
              /\ WithKey(a, b, g)[Len(db.keys) + 1]
                   = [acct |-> a, active |-> b, revoked |-> FALSE, grant |-> g]
         /\ \A j : /\ Activated(j) \in Seq(KeyRow) /\ Len(Activated(j)) = Len(db.keys)
                   /\ \A k \in Key : /\ Activated(j)[k].acct = db.keys[k].acct
                                     /\ Activated(j)[k].grant = db.keys[k].grant
                                     /\ Activated(j)[k].revoked = db.keys[k].revoked
                                     /\ Activated(j)[k].active = (db.keys[k].active \/ k = j)
         /\ \A T : /\ RevokedKeys(T) \in Seq(KeyRow) /\ Len(RevokedKeys(T)) = Len(db.keys)
                   /\ \A k \in Key : /\ RevokedKeys(T)[k].acct = db.keys[k].acct
                                     /\ RevokedKeys(T)[k].grant = db.keys[k].grant
                                     /\ RevokedKeys(T)[k].revoked = (db.keys[k].revoked \/ k \in T)
                                     /\ RevokedKeys(T)[k].active = db.keys[k].active
<1>1. db.keys \in Seq(KeyRow)
  BY DEF Typed, Tables
<1>2. /\ Len(db.keys) \in Nat /\ DOMAIN db.keys = Key
      /\ \A k \in Key : db.keys[k] \in KeyRow
      /\ \A t \in [Key -> KeyRow] : t \in Seq(KeyRow) /\ Len(t) = Len(db.keys)
  BY <1>1, RowFacts DEF Key
<1>3. ASSUME NEW a \in Person, NEW b \in BOOLEAN, NEW g \in Nat
      PROVE  /\ WithKey(a, b, g) \in Seq(KeyRow) /\ Len(WithKey(a, b, g)) = Len(db.keys) + 1
             /\ \A k \in Key : WithKey(a, b, g)[k] = db.keys[k]
             /\ WithKey(a, b, g)[Len(db.keys) + 1]
                  = [acct |-> a, active |-> b, revoked |-> FALSE, grant |-> g]
  <2>1. [acct |-> a, active |-> b, revoked |-> FALSE, grant |-> g] \in KeyRow
    BY DEF KeyRow
  <2>2. QED
    BY <1>1, <2>1, RowFacts DEF WithKey, Key
<1>4. ASSUME NEW j
      PROVE  /\ Activated(j) \in Seq(KeyRow) /\ Len(Activated(j)) = Len(db.keys)
             /\ \A k \in Key : /\ Activated(j)[k].acct = db.keys[k].acct
                               /\ Activated(j)[k].grant = db.keys[k].grant
                               /\ Activated(j)[k].revoked = db.keys[k].revoked
                               /\ Activated(j)[k].active = (db.keys[k].active \/ k = j)
  <2> DEFINE t == Activated(j)
  <2>1. /\ DOMAIN t = Key
        /\ \A k \in Key : t[k] = IF k = j THEN [db.keys[k] EXCEPT !.active = TRUE] ELSE db.keys[k]
    BY <1>2 DEF Activated
  <2>2. \A k \in Key : [db.keys[k] EXCEPT !.active = TRUE] \in KeyRow
    BY <1>2 DEF KeyRow
  <2>3. t \in [Key -> KeyRow]
    <3>1. t = [k \in Key |-> t[k]]
      BY <2>1 DEF Activated
    <3>2. QED
      BY <1>2, <2>1, <2>2, <3>1
  <2>4. \A k \in Key : /\ t[k].acct = db.keys[k].acct
                       /\ t[k].grant = db.keys[k].grant
                       /\ t[k].revoked = db.keys[k].revoked
                       /\ t[k].active = (db.keys[k].active \/ k = j)
    BY <1>2, <2>1 DEF KeyRow
  <2>5. QED
    BY <1>2, <2>3, <2>4
<1>5. ASSUME NEW T
      PROVE  /\ RevokedKeys(T) \in Seq(KeyRow) /\ Len(RevokedKeys(T)) = Len(db.keys)
             /\ \A k \in Key : /\ RevokedKeys(T)[k].acct = db.keys[k].acct
                               /\ RevokedKeys(T)[k].grant = db.keys[k].grant
                               /\ RevokedKeys(T)[k].revoked = (db.keys[k].revoked \/ k \in T)
                               /\ RevokedKeys(T)[k].active = db.keys[k].active
  <2>1. \A k \in Key : [db.keys[k] EXCEPT !.revoked = TRUE] \in KeyRow
    BY <1>2 DEF KeyRow
  <2>2. RevokedKeys(T) \in [Key -> KeyRow]
    BY <1>2, <2>1 DEF RevokedKeys
  <2>3. \A k \in Key : /\ RevokedKeys(T)[k].acct = db.keys[k].acct
                       /\ RevokedKeys(T)[k].grant = db.keys[k].grant
                       /\ RevokedKeys(T)[k].revoked = (db.keys[k].revoked \/ k \in T)
                       /\ RevokedKeys(T)[k].active = db.keys[k].active
    BY <1>2 DEF RevokedKeys, KeyRow
  <2>4. QED
    BY <1>2, <2>2, <2>3
<1>6. QED
  BY <1>2, <1>3, <1>4, <1>5

\* The statements on invites.
LEMMA InviteFacts ==
  ASSUME Typed
  PROVE  /\ Len(db.invites) \in Nat
         /\ \A i \in 1 .. Len(db.invites) : db.invites[i] \in InviteRow
         /\ \A o \in Nat, a \in Person, role \in Roles :
              /\ WithInvite(o, a, role) \in Seq(InviteRow)
              /\ Len(WithInvite(o, a, role)) = Len(db.invites) + 1
              /\ \A i \in 1 .. Len(db.invites) : WithInvite(o, a, role)[i] = db.invites[i]
              /\ WithInvite(o, a, role)[Len(db.invites) + 1].org = o
         /\ \A j, state :
              state \in {"accepted", "deleted"} =>
                /\ Closed(j, state) \in Seq(InviteRow) /\ Len(Closed(j, state)) = Len(db.invites)
                /\ \A i \in 1 .. Len(db.invites) : Closed(j, state)[i].org = db.invites[i].org
<1>1. db.invites \in Seq(InviteRow)
  BY DEF Typed, Tables
<1>2. /\ Len(db.invites) \in Nat /\ DOMAIN db.invites = 1 .. Len(db.invites)
      /\ \A i \in 1 .. Len(db.invites) : db.invites[i] \in InviteRow
      /\ \A t \in [1 .. Len(db.invites) -> InviteRow] :
           t \in Seq(InviteRow) /\ Len(t) = Len(db.invites)
  BY <1>1, RowFacts
<1>3. ASSUME NEW o \in Nat, NEW a \in Person, NEW role \in Roles
      PROVE  /\ WithInvite(o, a, role) \in Seq(InviteRow)
             /\ Len(WithInvite(o, a, role)) = Len(db.invites) + 1
             /\ \A i \in 1 .. Len(db.invites) : WithInvite(o, a, role)[i] = db.invites[i]
             /\ WithInvite(o, a, role)[Len(db.invites) + 1].org = o
  <2>1. PICK row \in InviteRow : row = [org |-> o, acct |-> a, role |-> role, state |-> "open"]
    BY DEF InviteRow
  <2>2. WithInvite(o, a, role) = Append(db.invites, row) /\ row.org = o
    BY <2>1 DEF WithInvite
  <2>3. QED
    BY <1>1, <2>2, RowFacts
<1>4. ASSUME NEW j, NEW state \in {"accepted", "deleted"}
      PROVE  /\ Closed(j, state) \in Seq(InviteRow) /\ Len(Closed(j, state)) = Len(db.invites)
             /\ \A i \in 1 .. Len(db.invites) : Closed(j, state)[i].org = db.invites[i].org
  <2>1. CASE db.invites[j].state # "open"
    BY <1>1, <2>1 DEF Closed
  <2>2. CASE db.invites[j].state = "open"
    <3> DEFINE t == [db.invites EXCEPT ![j].state = state]
    <3>1. /\ t = [i \in 1 .. Len(db.invites) |-> t[i]]
          /\ \A i \in 1 .. Len(db.invites) :
               t[i] = IF i = j THEN [db.invites[i] EXCEPT !.state = state] ELSE db.invites[i]
      BY <1>2
    <3>2. \A i \in 1 .. Len(db.invites) :
            /\ [db.invites[i] EXCEPT !.state = state] \in InviteRow
            /\ [db.invites[i] EXCEPT !.state = state].org = db.invites[i].org
      BY <1>2 DEF InviteRow
    <3> HIDE DEF t
    <3>3. t \in [1 .. Len(db.invites) -> InviteRow]
      BY <1>2, <3>1, <3>2
    <3>4. \A i \in 1 .. Len(db.invites) : t[i].org = db.invites[i].org
      BY <3>1, <3>2
    <3>5. Closed(j, state) = t
      BY <2>2 DEF Closed, t
    <3>6. QED
      BY <1>2, <3>3, <3>4, <3>5
  <2>3. QED
    BY <2>1, <2>2
<1>5. QED
  BY <1>2, <1>3, <1>4

\* The statements on grants.
LEMMA GrantFacts ==
  ASSUME Typed
  PROVE  /\ Len(db.grants) \in Nat
         /\ \A g \in 1 .. Len(db.grants) : db.grants[g] \in GrantRow
         /\ \A a \in Person, s \in Nat :
              /\ WithGrant(a, s) \in Seq(GrantRow) /\ Len(WithGrant(a, s)) = Len(db.grants) + 1
              /\ \A g \in 1 .. Len(db.grants) : WithGrant(a, s)[g] = db.grants[g]
              /\ WithGrant(a, s)[Len(db.grants) + 1].acct = a
              /\ WithGrant(a, s)[Len(db.grants) + 1].session = s
         /\ Purged(db.grants) \in Seq(GrantRow) /\ Len(Purged(db.grants)) = Len(db.grants)
         /\ \A g \in 1 .. Len(db.grants) : /\ Purged(db.grants)[g].acct = db.grants[g].acct
                                           /\ Purged(db.grants)[g].session = db.grants[g].session
                                           /\ Purged(db.grants)[g].used = db.grants[g].used
<1>1. db.grants \in Seq(GrantRow)
  BY DEF Typed, Tables
<1>2. /\ Len(db.grants) \in Nat /\ DOMAIN db.grants = 1 .. Len(db.grants)
      /\ \A g \in 1 .. Len(db.grants) : db.grants[g] \in GrantRow
      /\ \A t \in [1 .. Len(db.grants) -> GrantRow] :
           t \in Seq(GrantRow) /\ Len(t) = Len(db.grants)
  BY <1>1, RowFacts
<1>3. ASSUME NEW a \in Person, NEW s \in Nat
      PROVE  /\ WithGrant(a, s) \in Seq(GrantRow) /\ Len(WithGrant(a, s)) = Len(db.grants) + 1
             /\ \A g \in 1 .. Len(db.grants) : WithGrant(a, s)[g] = db.grants[g]
             /\ WithGrant(a, s)[Len(db.grants) + 1].acct = a
             /\ WithGrant(a, s)[Len(db.grants) + 1].session = s
  <2>1. now + GrantTtl \in Nat
    BY IdentityAssumption DEF Typed
  <2>2. PICK row \in GrantRow : row = [acct |-> a, session |-> s, row |-> TRUE, used |-> FALSE,
                                       expires |-> now + GrantTtl]
    BY <2>1 DEF GrantRow
  <2>3. WithGrant(a, s) = Append(db.grants, row) /\ row.acct = a /\ row.session = s
    BY <2>2 DEF WithGrant
  <2>4. QED
    BY <1>1, <2>3, RowFacts
<1>4. /\ Purged(db.grants) \in Seq(GrantRow) /\ Len(Purged(db.grants)) = Len(db.grants)
      /\ \A g \in 1 .. Len(db.grants) : /\ Purged(db.grants)[g].acct = db.grants[g].acct
                                        /\ Purged(db.grants)[g].session = db.grants[g].session
                                        /\ Purged(db.grants)[g].used = db.grants[g].used
  <2>1. \A g \in 1 .. Len(db.grants) : [db.grants[g] EXCEPT !.row = FALSE] \in GrantRow
    BY <1>2 DEF GrantRow
  <2>2. Purged(db.grants) \in [1 .. Len(db.grants) -> GrantRow]
    BY <1>2, <2>1 DEF Purged
  <2>3. \A g \in 1 .. Len(db.grants) : /\ Purged(db.grants)[g].acct = db.grants[g].acct
                                       /\ Purged(db.grants)[g].session = db.grants[g].session
                                       /\ Purged(db.grants)[g].used = db.grants[g].used
    BY <1>2 DEF Purged, GrantRow
  <2>4. QED
    BY <1>2, <2>2, <2>3
<1>5. QED
  BY <1>2, <1>3, <1>4

\* The statements on sessions.
LEMMA SessionFacts ==
  ASSUME Typed
  PROVE  /\ Len(db.sessions) \in Nat
         /\ \A s \in 1 .. Len(db.sessions) : db.sessions[s] \in SessionRow
         /\ WithSession(Purged(db.sessions)) \in Seq(SessionRow)
         /\ \A s : \A a \in Person : Bound(s, a) \in Seq(SessionRow)
         /\ \A s : [db.sessions EXCEPT ![s].row = FALSE] \in Seq(SessionRow)
<1>1. db.sessions \in Seq(SessionRow)
  BY DEF Typed, Tables
<1>2. /\ Len(db.sessions) \in Nat /\ DOMAIN db.sessions = 1 .. Len(db.sessions)
      /\ \A s \in 1 .. Len(db.sessions) : db.sessions[s] \in SessionRow
      /\ \A t \in [1 .. Len(db.sessions) -> SessionRow] :
           t \in Seq(SessionRow) /\ Len(t) = Len(db.sessions)
  BY <1>1, RowFacts
<1>3. /\ \A s \in 1 .. Len(db.sessions) : [db.sessions[s] EXCEPT !.row = FALSE] \in SessionRow
      /\ \A s \in 1 .. Len(db.sessions), a \in Person : [db.sessions[s] EXCEPT !.acct = a] \in SessionRow
  BY <1>2 DEF SessionRow
<1>4. WithSession(Purged(db.sessions)) \in Seq(SessionRow)
  <2>1. Purged(db.sessions) \in [1 .. Len(db.sessions) -> SessionRow]
    BY <1>2, <1>3 DEF Purged
  <2>2. Purged(db.sessions) \in Seq(SessionRow)
    BY <1>2, <2>1
  <2>3. now + SessionTtl \in Nat /\ None \in Person
    BY IdentityAssumption DEF Typed, Person
  <2>4. [acct |-> None, expires |-> now + SessionTtl, row |-> TRUE] \in SessionRow
    BY <2>3 DEF SessionRow
  <2>5. QED
    BY <2>2, <2>4, RowFacts DEF WithSession
<1>5. ASSUME NEW s, NEW a \in Person PROVE Bound(s, a) \in Seq(SessionRow)
  <2>1. CASE db.sessions[s].row
    <3>1. [db.sessions EXCEPT ![s].acct = a] \in [1 .. Len(db.sessions) -> SessionRow]
      BY <1>2, <1>3
    <3>2. QED
      BY <1>2, <2>1, <3>1 DEF Bound
  <2>2. CASE ~ db.sessions[s].row
    BY <1>1, <2>2 DEF Bound
  <2>3. QED
    BY <2>1, <2>2
<1>6. ASSUME NEW s PROVE [db.sessions EXCEPT ![s].row = FALSE] \in Seq(SessionRow)
  <2>1. [db.sessions EXCEPT ![s].row = FALSE] \in [1 .. Len(db.sessions) -> SessionRow]
    BY <1>2, <1>3
  <2>2. QED
    BY <1>2, <2>1
<1>7. QED
  BY <1>2, <1>4, <1>5, <1>6

-----------------------------------------------------------------------------
(* Steps of one request *)

\* From the locals r to s, a request starts no guess: it goes on with the one it had.
CodesCalm(r, s) ==
    /\ s.pc = "miss" => r.pc = "miss" /\ s.code = r.code
    /\ s.at \in {0, r.at, now}

\* It redeems no grant and proves no account.
GrantsCalm(r, s) ==
    \/ s.grant = 0 /\ s.pc \notin {"clear", "grant", "claim"}
    \/ /\ s.grant = r.grant /\ s.acct = r.acct /\ s.session = r.session
       /\ s.pc \in {"clear", "grant", "claim", "mint"} => s.pc = r.pc

\* It takes up no pending key.
KeysCalm(r, s) ==
    /\ s.pending => r.pending /\ s.op = r.op /\ s.key = r.key /\ s.acct = r.acct
    /\ s.pc \in {"activate", "revokeOthers"} => s = r

\* It founds no org and changes no member.
OrgsCalm(r, s) ==
    /\ s.pc \in {"insertOrg", "founder", "countAdmins", "change"} => s = r
    /\ s.op = "change" => r.op = "change" /\ s.org = r.org
    /\ s.org \in {0, r.org} \cup OrgIds

Calm(r, s) == CodesCalm(r, s) /\ GrantsCalm(r, s) /\ KeysCalm(r, s) /\ OrgsCalm(r, s)

\* What a step leaves of the tables and the history.
CodesQuiet ==
    /\ db'.otps \subseteq db.otps /\ hist'.codes = hist.codes /\ now' \in {now, now + 1}
    /\ \A q \in Request : CodesCalm(req[q], req'[q])

GrantsQuiet ==
    /\ db'.grants = db.grants /\ hist'.proofs = hist.proofs /\ Len(db'.keys) = Len(db.keys)
    /\ \A k \in Key : /\ db'.keys[k].grant = db.keys[k].grant
                      /\ db'.keys[k].acct = db.keys[k].acct
    /\ \A q \in Request : GrantsCalm(req[q], req'[q])

KeysQuiet ==
    /\ db'.keys = db.keys /\ hist'.cut = hist.cut /\ hist'.crossed = hist.crossed
    /\ \A q \in Request : KeysCalm(req[q], req'[q])

OrgsQuiet ==
    /\ db'.orgs = db.orgs /\ db'.members = db.members /\ hist'.founded = hist.founded
    /\ hist'.crossedOrgs = hist.crossedOrgs /\ hist'.orgRace = hist.orgRace
    /\ \A i \in 1 .. Len(db'.invites) :
         \/ \E q \in Request : db'.invites[i].org = req[q].org
         \/ i <= Len(db.invites) /\ db'.invites[i].org = db.invites[i].org
    /\ \A q \in Request : OrgsCalm(req[q], req'[q])

Quiet == CodesQuiet /\ GrantsQuiet /\ KeysQuiet /\ OrgsQuiet

\* A request begins with a copy of the blank record.
LEMMA BeginFacts ==
  ASSUME Typed, NEW p \in Request, NEW op \in Ops, NEW r \in Locals, Begin(p, op, r)
  PROVE  /\ req' \in [Request -> Locals] /\ \A q \in Request \ {p} : req'[q] = req[q]
         /\ req[p] = Blank /\ req'[p] \in Locals
         /\ req'[p].op = op /\ req'[p].pc = r.pc /\ req'[p].acct = r.acct /\ req'[p].key = r.key
         /\ req'[p].pending = r.pending /\ req'[p].at = r.at /\ req'[p].code = r.code
         /\ req'[p].invite = r.invite /\ req'[p].org = r.org /\ req'[p].target = r.target
         /\ req'[p].role = r.role /\ req'[p].session = r.session /\ req'[p].grant = r.grant
<1>1. PICK s : s = [r EXCEPT !.op = op]
  OBVIOUS
<1>2. s \in Locals
  BY <1>1 DEF Locals
<1>3. req' = [req EXCEPT ![p] = s]
  BY <1>1 DEF Begin
<1>4. req' \in [Request -> Locals] /\ req'[p] = s /\ \A q \in Request \ {p} : req'[q] = req[q]
  BY <1>2, <1>3 DEF Typed
<1>5. QED
  BY <1>1, <1>2, <1>4 DEF Begin, Free, Locals

\* It goes on to its next statement with what it remembers.
LEMMA GotoFacts ==
  ASSUME Typed, NEW p \in Request, NEW l \in Labels, Goto(p, l)
  PROVE  /\ req' \in [Request -> Locals] /\ \A q \in Request \ {p} : req'[q] = req[q]
         /\ req[p] \in Locals /\ req'[p] \in Locals
         /\ req'[p].op = req[p].op /\ req'[p].pc = l /\ req'[p].acct = req[p].acct
         /\ req'[p].key = req[p].key /\ req'[p].pending = req[p].pending
         /\ req'[p].at = req[p].at /\ req'[p].code = req[p].code
         /\ req'[p].invite = req[p].invite /\ req'[p].org = req[p].org
         /\ req'[p].target = req[p].target /\ req'[p].role = req[p].role
         /\ req'[p].session = req[p].session /\ req'[p].grant = req[p].grant
<1>1. PICK r \in Locals : r = req[p]
  BY DEF Typed
<1>2. PICK s : s = [r EXCEPT !.pc = l]
  OBVIOUS
<1>3. s \in Locals
  BY <1>1, <1>2 DEF Locals
<1>4. req' = [req EXCEPT ![p] = s]
  BY <1>1, <1>2 DEF Goto
<1>5. req' \in [Request -> Locals] /\ req'[p] = s /\ \A q \in Request \ {p} : req'[q] = req[q]
  BY <1>3, <1>4 DEF Typed
<1>6. QED
  BY <1>1, <1>2, <1>3, <1>5 DEF Locals

\* It answers.
LEMMA FinishFacts ==
  ASSUME Typed, NEW p \in Request, Finish(p)
  PROVE  /\ req' \in [Request -> Locals] /\ \A q \in Request \ {p} : req'[q] = req[q]
         /\ req'[p] = Blank
BY BlankFacts DEF Finish, Typed

\* Locals other than those of a request that moves calm are untouched.
LEMMA StillCalm ==
  ASSUME NEW p \in Request, \A q \in Request \ {p} : req'[q] = req[q], Calm(req[p], req'[p])
  PROVE  \A q \in Request : Calm(req[q], req'[q])
BY DEF Calm, CodesCalm, GrantsCalm, KeysCalm, OrgsCalm

\* The calm moves: a request ends, or goes on to a label that reads and writes none of this.
LEMMA FinishCalm == \A r : Calm(r, Blank)
BY BlankFacts DEF Calm, CodesCalm, GrantsCalm, KeysCalm, OrgsCalm

\* A step of one request that leaves the tables alone.
LEMMA LocalFacts ==
  ASSUME Shape, NEW p \in Request, Local, req' \in [Request -> Locals],
         \A q \in Request \ {p} : req'[q] = req[q],
         req'[p].invite <= Len(db.invites), req'[p].pc \in {"join", "accept"} => req'[p].invite # 0,
         req'[p].pc = "insertInvite" => req'[p].role \in Roles
  PROVE  /\ Shape'
         /\ CodesCalm(req[p], req'[p]) => CodesQuiet
         /\ GrantsCalm(req[p], req'[p]) => GrantsQuiet
         /\ KeysCalm(req[p], req'[p]) => KeysQuiet
         /\ OrgsCalm(req[p], req'[p]) => OrgsQuiet
<1>1. Shape'
  <2>1. Typed'
    BY DEF Local, Shape, Typed
  <2>2. Invited'
    BY DEF Local, Shape, Invited
  <2>3. QED
    BY <2>1, <2>2 DEF Shape
<1>2. now' = now /\ db' = db /\ hist' = hist /\ mix' = mix
  BY DEF Local
<1>3. ASSUME CodesCalm(req[p], req'[p]) PROVE CodesQuiet
  BY <1>2, <1>3 DEF CodesQuiet, CodesCalm
<1>4. ASSUME GrantsCalm(req[p], req'[p]) PROVE GrantsQuiet
  BY <1>2, <1>4 DEF GrantsQuiet, GrantsCalm
<1>5. ASSUME KeysCalm(req[p], req'[p]) PROVE KeysQuiet
  BY <1>2, <1>5 DEF KeysQuiet, KeysCalm
<1>6. ASSUME OrgsCalm(req[p], req'[p]) PROVE OrgsQuiet
  BY <1>2, <1>6 DEF OrgsQuiet, OrgsCalm
<1>7. QED
  BY <1>1, <1>3, <1>4, <1>5, <1>6

\* A step of one request that writes, its tables and history of their types.
LEMMA WriteFacts ==
  ASSUME Shape, NEW p \in Request, Write, req' \in [Request -> Locals],
         \A q \in Request \ {p} : req'[q] = req[q], db' \in Tables, hist' \in History,
         Len(db.invites) <= Len(db'.invites), req'[p].invite \in {0, req[p].invite},
         req'[p].pc \in {"join", "accept"} => req'[p].invite # 0,
         req'[p].pc # "insertInvite"
  PROVE  /\ Shape'
         /\ (/\ CodesCalm(req[p], req'[p]) /\ db'.otps \subseteq db.otps
             /\ hist'.codes = hist.codes) => CodesQuiet
         /\ (/\ GrantsCalm(req[p], req'[p]) /\ db'.grants = db.grants /\ db'.keys = db.keys
             /\ hist'.proofs = hist.proofs) => GrantsQuiet
         /\ (/\ KeysCalm(req[p], req'[p]) /\ db'.keys = db.keys /\ hist'.cut = hist.cut
             /\ hist'.crossed = hist.crossed) => KeysQuiet
         /\ (/\ OrgsCalm(req[p], req'[p]) /\ db'.orgs = db.orgs /\ db'.members = db.members
             /\ db'.invites = db.invites /\ hist'.founded = hist.founded
             /\ hist'.crossedOrgs = hist.crossedOrgs /\ hist'.orgRace = hist.orgRace) => OrgsQuiet
<1>1. Shape'
  <2>1. Typed'
    BY DEF Write, Shape, Typed
  <2>2. Len(db.invites) \in Nat /\ Len(db'.invites) \in Nat
    BY <2>1, InviteFacts, RowFacts DEF Shape, Typed, Tables
  <2>3. Invited'
    <3> SUFFICES ASSUME NEW q \in Request
                 PROVE  /\ req'[q].invite <= Len(db'.invites)
                        /\ req'[q].pc \in {"join", "accept"} => req'[q].invite # 0
                        /\ req'[q].pc = "insertInvite" => req'[q].role \in Roles
      BY DEF Invited
    <3>1. req[q].invite <= Len(db.invites) /\ req[q].invite \in Nat
      BY DEF Shape, Typed, Invited, Locals
    <3>2. req[q].invite <= Len(db'.invites)
      BY <2>2, <3>1
    <3>3. CASE q = p
      BY <2>2, <3>2, <3>3
    <3>4. CASE q # p
      BY <3>2, <3>4 DEF Shape, Invited
    <3>5. QED
      BY <3>3, <3>4
  <2>4. QED
    BY <2>1, <2>3 DEF Shape
<1>2. now' = now
  BY DEF Write
<1>3. ASSUME CodesCalm(req[p], req'[p]), db'.otps \subseteq db.otps, hist'.codes = hist.codes
      PROVE  CodesQuiet
  BY <1>2, <1>3 DEF CodesQuiet, CodesCalm
<1>4. ASSUME GrantsCalm(req[p], req'[p]), db'.grants = db.grants, db'.keys = db.keys,
             hist'.proofs = hist.proofs
      PROVE  GrantsQuiet
  BY <1>4 DEF GrantsQuiet, GrantsCalm
<1>5. ASSUME KeysCalm(req[p], req'[p]), db'.keys = db.keys, hist'.cut = hist.cut,
             hist'.crossed = hist.crossed
      PROVE  KeysQuiet
  BY <1>5 DEF KeysQuiet, KeysCalm
<1>6. ASSUME OrgsCalm(req[p], req'[p]), db'.orgs = db.orgs, db'.members = db.members,
             db'.invites = db.invites, hist'.founded = hist.founded,
             hist'.crossedOrgs = hist.crossedOrgs, hist'.orgRace = hist.orgRace
      PROVE  OrgsQuiet
  BY <1>6 DEF OrgsQuiet, OrgsCalm
<1>7. QED
  BY <1>1, <1>3, <1>4, <1>5, <1>6

\* The invite a signup finds has a row.
LEMMA OpenInviteFacts ==
  ASSUME Typed
  PROVE  \A a : OpenInvite(a) \in 0 .. Len(db.invites)
<1> SUFFICES ASSUME NEW a PROVE OpenInvite(a) \in 0 .. Len(db.invites)
  OBVIOUS
<1> DEFINE found == OpenInvites(1, a)
<1>1. Len(db.invites) \in Nat /\ found \subseteq 1 .. Len(db.invites)
  BY InviteFacts DEF OpenInvites
<1>2. CASE found = {}
  BY <1>1, <1>2 DEF OpenInvite
<1>3. CASE found # {}
  <2>1. found \in SUBSET Nat /\ \A i \in found : i <= Len(db.invites)
    BY <1>1
  <2>2. \E i \in found : \A j \in found : j <= i
    BY <1>1, <1>3, <2>1, GreatestFacts
  <2>3. (CHOOSE i \in found : \A j \in found : j <= i) \in found
    BY <2>2
  <2>4. OpenInvite(a) \in found
    BY <1>3, <2>3 DEF OpenInvite
  <2>5. QED
    BY <1>1, <2>4
<1>4. QED
  BY <1>2, <1>3

\* A call that begins with reads.
LEMMA BeginsQuiet ==
  ASSUME Shape, NEW p \in Request, NEW op \in Ops \ {"change"}, NEW r \in Locals, Begin(p, op, r), Local,
         r.invite <= Len(db.invites), ~ r.pending, r.at = 0, r.grant = 0, r.org \in {0} \cup OrgIds,
         r.pc \in {"account", "inbox", "otp", "mint", "revoke", "check", "deleteInvite", "provision"}
                  \/ (r.pc = "insertInvite" /\ r.role \in Roles)
  PROVE  Shape' /\ Quiet
<1>1. /\ req' \in [Request -> Locals] /\ \A q \in Request \ {p} : req'[q] = req[q]
      /\ req[p] = Blank /\ req'[p] \in Locals
      /\ req'[p].op = op /\ req'[p].pc = r.pc /\ ~ req'[p].pending /\ req'[p].at = 0
      /\ req'[p].invite = r.invite /\ req'[p].org = r.org /\ req'[p].role = r.role
      /\ req'[p].grant = 0
  BY BeginFacts DEF Shape
<1>2. Calm(req[p], req'[p])
  BY <1>1, BlankFacts DEF Calm, CodesCalm, GrantsCalm, KeysCalm, OrgsCalm
<1>3. QED
  BY <1>1, <1>2, LocalFacts DEF Calm, Quiet

\* The calls that begin without disturbing anything, and the reads that change no request's mind.
LEMMA ReadsQuiet ==
  ASSUME Shape, NEW p \in Request,
         \/ \E a \in Account : SignupStart(p, a)
         \/ CountOtps(p)
         \/ \E a \in Account : CreateKeyStart(p, a)
         \/ \E a \in Account, k \in Key : RevokeKeyStart(p, a, k)
         \/ Abort(p)
         \/ \E s \in 1 .. Len(db.sessions), a \in Account : EmailStart(p, s, a)
         \/ \E s \in 1 .. Len(db.sessions), guess \in hist.mailed \cup {0} : CodeStart(p, s, guess)
         \/ \E a \in Caller, o \in OrgIds, m \in Account, role \in Roles : InviteStart(p, a, o, m, role)
         \/ \E a \in Caller, o \in OrgIds, i \in 1 .. Len(db.invites) : UninviteStart(p, a, o, i)
         \/ \E a \in Caller, o \in OrgIds, m \in Account : ProvisionStart(p, a, o, m)
  PROVE  Shape' /\ Quiet
<1>0. /\ Typed /\ db.orgs \in Nat /\ Account \subseteq Person /\ Len(db.invites) \in Nat
      /\ Len(db.keys) \in Nat /\ Len(db.sessions) \in Nat
  BY InviteFacts, KeyFacts, SessionFacts DEF Shape, Typed, Tables, Person
<1>1. ASSUME NEW a \in Account, SignupStart(p, a) PROVE Shape' /\ Quiet
  <2>1. OpenInvite(a) \in Nat /\ OpenInvite(a) <= Len(db.invites) /\ a \in Person
    BY <1>0, OpenInviteFacts
  <2>2. PICK fresh \in BOOLEAN, l \in Labels :
          fresh = (~ Taken(a)) /\ l = IF fresh THEN "account" ELSE "inbox"
    BY DEF Taken, Labels
  <2>3. PICK r : r = [Blank EXCEPT !.acct = a, !.fresh = fresh, !.invite = OpenInvite(a), !.pc = l]
    OBVIOUS
  <2>4. /\ r \in Locals /\ r.invite = OpenInvite(a) /\ ~ r.pending /\ r.at = 0 /\ r.grant = 0
        /\ r.org = 0 /\ r.pc = l
    BY <2>1, <2>3, BlankFacts DEF Locals
  <2>5. Begin(p, "signup", r) /\ Local
    BY <1>1, <2>2, <2>3 DEF SignupStart
  <2>6. QED
    BY <2>1, <2>2, <2>4, <2>5, BeginsQuiet DEF Ops
<1>2. CASE CountOtps(p)
  <2>1. CASE Finish(p) /\ Local
    BY <2>1, FinishFacts, FinishCalm, BlankFacts, LocalFacts, <1>0 DEF Quiet, Calm, Shape
  <2>2. CASE req' = [req EXCEPT ![p].pc = "insertOtp", ![p].at = now] /\ Local
    <3>1. PICK r \in Locals : r = req[p]
      BY DEF Shape, Typed
    <3>2. PICK s : s = [r EXCEPT !.pc = "insertOtp", !.at = now]
      OBVIOUS
    <3>3. /\ s \in Locals /\ s.pc = "insertOtp" /\ s.at = now /\ s.grant = r.grant /\ s.acct = r.acct
          /\ s.session = r.session /\ s.pending = r.pending /\ s.op = r.op /\ s.key = r.key
          /\ s.org = r.org /\ s.invite = r.invite
      BY ZenonT(30), <1>0, <3>1, <3>2 DEF Locals, Labels, Typed
    <3>4. req' = [req EXCEPT ![p] = s]
      BY <2>2, <3>1, <3>2
    <3>5. req' \in [Request -> Locals] /\ \A q \in Request \ {p} : req'[q] = req[q]
      BY <1>0, <3>3, <3>4 DEF Typed
    <3>6. Calm(req[p], req'[p]) /\ req'[p] = s
      BY <1>0, <3>1, <3>3, <3>4 DEF Typed, Calm, CodesCalm, GrantsCalm, KeysCalm, OrgsCalm
    <3>7. s.invite <= Len(db.invites)
      BY <3>1, <3>3 DEF Shape, Invited
    <3>8. QED
      BY <2>2, <3>3, <3>5, <3>6, <3>7, LocalFacts DEF Quiet, Calm
  <2>3. QED
    BY <1>2, <2>1, <2>2 DEF CountOtps
<1>3. ASSUME NEW a \in Account, CreateKeyStart(p, a) PROVE Shape' /\ Quiet
  <2>0. a \in Person
    BY <1>0
  <2>1. PICK r : r = [Blank EXCEPT !.acct = a, !.pc = "mint"]
    OBVIOUS
  <2>2. /\ r \in Locals /\ r.invite = 0 /\ ~ r.pending /\ r.at = 0 /\ r.grant = 0
        /\ r.org = 0 /\ r.pc = "mint"
    BY <2>0, <2>1, BlankFacts DEF Locals, Labels
  <2>3. Begin(p, "createKey", r) /\ Local
    BY <1>3, <2>1 DEF CreateKeyStart
  <2>4. QED
    BY <1>0, <2>2, <2>3, BeginsQuiet DEF Ops
<1>4. ASSUME NEW a \in Account, NEW k \in Key, RevokeKeyStart(p, a, k) PROVE Shape' /\ Quiet
  <2>0. a \in Person /\ k \in Nat
    BY <1>0 DEF Key
  <2>1. PICK r : r = [Blank EXCEPT !.acct = a, !.key = k, !.pc = "revoke"]
    OBVIOUS
  <2>2. /\ r \in Locals /\ r.invite = 0 /\ ~ r.pending /\ r.at = 0 /\ r.grant = 0
        /\ r.org = 0 /\ r.pc = "revoke"
    BY <2>0, <2>1, BlankFacts DEF Locals, Labels
  <2>3. Begin(p, "revokeKey", r) /\ Local
    BY <1>4, <2>1 DEF RevokeKeyStart
  <2>4. QED
    BY <1>0, <2>2, <2>3, BeginsQuiet DEF Ops
<1>5. CASE Abort(p)
  BY <1>0, <1>5, FinishFacts, FinishCalm, BlankFacts, LocalFacts DEF Abort, Quiet, Calm, Shape
<1>6. ASSUME NEW s \in 1 .. Len(db.sessions), NEW a \in Account, EmailStart(p, s, a)
      PROVE  Shape' /\ Quiet
  <2>0. a \in Person /\ s \in Nat
    BY <1>0
  <2>1. PICK r : r = [Blank EXCEPT !.acct = a, !.session = s, !.pc = "otp"]
    OBVIOUS
  <2>2. /\ r \in Locals /\ r.invite = 0 /\ ~ r.pending /\ r.at = 0 /\ r.grant = 0
        /\ r.org = 0 /\ r.pc = "otp"
    BY <2>0, <2>1, BlankFacts DEF Locals, Labels
  <2>3. Begin(p, "email", r) /\ Local
    BY <1>6, <2>1 DEF EmailStart
  <2>4. QED
    BY <1>0, <2>2, <2>3, BeginsQuiet DEF Ops
<1>7. ASSUME NEW s \in 1 .. Len(db.sessions), NEW guess \in hist.mailed \cup {0}, CodeStart(p, s, guess)
      PROVE  Shape' /\ Quiet
  <2>0. db.sessions[s].acct \in Person /\ guess \in Nat /\ s \in Nat
    BY <1>0, SessionFacts DEF SessionRow, Typed, History
  <2>a. PICK a \in Person, verified \in BOOLEAN :
          a = db.sessions[s].acct /\ verified = (db.accounts[db.sessions[s].acct] = "verified")
    BY <2>0
  <2>1. PICK r : r = [Blank EXCEPT !.acct = a, !.session = s, !.guess = guess,
                                   !.verified = verified, !.pc = "check"]
    OBVIOUS
  <2>2. /\ r \in Locals /\ r.invite = 0 /\ ~ r.pending /\ r.at = 0 /\ r.grant = 0
        /\ r.org = 0 /\ r.pc = "check"
    BY <2>0, <2>1, BlankFacts DEF Locals, Labels
  <2>3. Begin(p, "code", r) /\ Local
    BY <1>7, <2>a, <2>1 DEF CodeStart
  <2>4. QED
    BY <1>0, <2>2, <2>3, BeginsQuiet DEF Ops
<1>8. ASSUME NEW a \in Caller, NEW o \in OrgIds, NEW m \in Account, NEW role \in Roles,
             InviteStart(p, a, o, m, role)
      PROVE  Shape' /\ Quiet
  <2>0. m \in Person /\ o \in Nat
    BY <1>0 DEF OrgIds
  <2>1. PICK r : r = [Blank EXCEPT !.target = m, !.role = role, !.pc = "insertInvite", !.org = o]
    OBVIOUS
  <2>2. /\ r \in Locals /\ r.invite = 0 /\ ~ r.pending /\ r.at = 0 /\ r.grant = 0
        /\ r.org = o /\ r.pc = "insertInvite" /\ r.role \in Roles
    BY <2>0, <2>1, BlankFacts DEF Locals, Labels
  <2>3. Begin(p, "invite", r) /\ Local
    BY <1>8, <2>1 DEF InviteStart, Admitted
  <2>4. QED
    BY <1>0, <2>2, <2>3, BeginsQuiet DEF Ops
<1>9. ASSUME NEW a \in Caller, NEW o \in OrgIds, NEW i \in 1 .. Len(db.invites),
             UninviteStart(p, a, o, i)
      PROVE  Shape' /\ Quiet
  <2>0. o \in Nat /\ i \in Nat
    BY <1>0 DEF OrgIds
  <2>1. PICK r : r = [Blank EXCEPT !.invite = i, !.pc = "deleteInvite", !.org = o]
    OBVIOUS
  <2>2. /\ r \in Locals /\ r.invite = i /\ ~ r.pending /\ r.at = 0 /\ r.grant = 0
        /\ r.org = o /\ r.pc = "deleteInvite"
    BY <2>0, <2>1, BlankFacts DEF Locals, Labels
  <2>3. Begin(p, "uninvite", r) /\ Local
    BY <1>9, <2>1 DEF UninviteStart, Admitted
  <2>4. QED
    BY <1>0, <2>2, <2>3, BeginsQuiet DEF Ops
<1>10. ASSUME NEW a \in Caller, NEW o \in OrgIds, NEW m \in Account, ProvisionStart(p, a, o, m)
       PROVE  Shape' /\ Quiet
  <2>0. m \in Person /\ o \in Nat
    BY <1>0 DEF OrgIds
  <2>1. PICK r : r = [Blank EXCEPT !.target = m, !.pc = "provision", !.org = o]
    OBVIOUS
  <2>2. /\ r \in Locals /\ r.invite = 0 /\ ~ r.pending /\ r.at = 0 /\ r.grant = 0
        /\ r.org = o /\ r.pc = "provision"
    BY <2>0, <2>1, BlankFacts DEF Locals, Labels
  <2>3. Begin(p, "provision", r) /\ Local
    BY <1>10, <2>1 DEF ProvisionStart, Admitted
  <2>4. QED
    BY <1>0, <2>2, <2>3, BeginsQuiet DEF Ops
<1>11. QED
  BY <1>1, <1>2, <1>3, <1>4, <1>5, <1>6, <1>7, <1>8, <1>9, <1>10

\* A request that writes and goes on with its next statement.
LEMMA GoesOnFacts ==
  ASSUME Shape, NEW p \in Request, Write, NEW l \in Labels \ {"insertInvite"}, Goto(p, l),
         db' \in Tables, hist' \in History, Len(db.invites) <= Len(db'.invites),
         l \in {"join", "accept"} => req[p].invite # 0
  PROVE  /\ Shape'
         /\ (/\ l # "miss" /\ db'.otps \subseteq db.otps /\ hist'.codes = hist.codes) => CodesQuiet
         /\ (/\ l \notin {"clear", "grant", "claim", "mint"} /\ db'.grants = db.grants
             /\ db'.keys = db.keys /\ hist'.proofs = hist.proofs) => GrantsQuiet
         /\ (/\ l \notin {"activate", "revokeOthers"} /\ db'.keys = db.keys
             /\ hist'.cut = hist.cut /\ hist'.crossed = hist.crossed) => KeysQuiet
         /\ (/\ l \notin {"insertOrg", "founder", "countAdmins", "change"} /\ db'.orgs = db.orgs
             /\ db'.members = db.members /\ db'.invites = db.invites
             /\ hist'.founded = hist.founded /\ hist'.crossedOrgs = hist.crossedOrgs
             /\ hist'.orgRace = hist.orgRace) => OrgsQuiet
         /\ l \notin {"clear", "grant", "claim", "mint"} =>
              \A q \in Request : GrantsCalm(req[q], req'[q])
         /\ l \notin {"activate", "revokeOthers"} =>
              \A q \in Request : KeysCalm(req[q], req'[q])
         /\ l \notin {"insertOrg", "founder", "countAdmins", "change"} =>
              \A q \in Request : OrgsCalm(req[q], req'[q])
<1>1. /\ req' \in [Request -> Locals] /\ \A q \in Request \ {p} : req'[q] = req[q]
      /\ req'[p].op = req[p].op /\ req'[p].pc = l /\ req'[p].acct = req[p].acct
      /\ req'[p].key = req[p].key /\ req'[p].pending = req[p].pending /\ req'[p].at = req[p].at
      /\ req'[p].invite = req[p].invite /\ req'[p].org = req[p].org
      /\ req'[p].session = req[p].session /\ req'[p].grant = req[p].grant
  BY GotoFacts DEF Shape
<1>2. l # "miss" => CodesCalm(req[p], req'[p])
  BY <1>1 DEF CodesCalm
<1>3. l \notin {"clear", "grant", "claim", "mint"} => GrantsCalm(req[p], req'[p])
  BY <1>1 DEF GrantsCalm
<1>4. l \notin {"activate", "revokeOthers"} => KeysCalm(req[p], req'[p])
  BY <1>1 DEF KeysCalm
<1>5. l \notin {"insertOrg", "founder", "countAdmins", "change"} => OrgsCalm(req[p], req'[p])
  BY <1>1 DEF OrgsCalm
<1>6. OrgsCalm(req[p], req'[p]) => \A q \in Request : OrgsCalm(req[q], req'[q])
  BY <1>1 DEF OrgsCalm
<1>7. GrantsCalm(req[p], req'[p]) => \A q \in Request : GrantsCalm(req[q], req'[q])
  BY <1>1 DEF GrantsCalm
<1>8. KeysCalm(req[p], req'[p]) => \A q \in Request : KeysCalm(req[q], req'[q])
  BY <1>1 DEF KeysCalm
<1>9. req'[p].invite \in {0, req[p].invite} /\ req'[p].pc # "insertInvite"
      /\ (req'[p].pc \in {"join", "accept"} => req'[p].invite # 0)
  BY <1>1
<1>10. QED
  BY <1>1, <1>2, <1>3, <1>4, <1>5, <1>6, <1>7, <1>8, <1>9, WriteFacts

\* A request that writes and answers.
LEMMA AnswersFacts ==
  ASSUME Shape, NEW p \in Request, Write, Finish(p),
         db' \in Tables, hist' \in History, Len(db.invites) <= Len(db'.invites)
  PROVE  /\ Shape'
         /\ (/\ db'.otps \subseteq db.otps /\ hist'.codes = hist.codes) => CodesQuiet
         /\ (/\ db'.grants = db.grants /\ db'.keys = db.keys
             /\ hist'.proofs = hist.proofs) => GrantsQuiet
         /\ (/\ db'.keys = db.keys /\ hist'.cut = hist.cut
             /\ hist'.crossed = hist.crossed) => KeysQuiet
         /\ (/\ db'.orgs = db.orgs /\ db'.members = db.members /\ db'.invites = db.invites
             /\ hist'.founded = hist.founded /\ hist'.crossedOrgs = hist.crossedOrgs
             /\ hist'.orgRace = hist.orgRace) => OrgsQuiet
         /\ \A q \in Request : Calm(req[q], req'[q])
<1>1. /\ req' \in [Request -> Locals] /\ \A q \in Request \ {p} : req'[q] = req[q]
      /\ req'[p] = Blank
  BY FinishFacts DEF Shape
<1>2. Calm(req[p], req'[p])
  BY <1>1, FinishCalm
<1>3. /\ req'[p].invite \in {0, req[p].invite} /\ req'[p].pc # "insertInvite"
      /\ (req'[p].pc \in {"join", "accept"} => req'[p].invite # 0)
  BY <1>1, BlankFacts
<1>4. \A q \in Request : Calm(req[q], req'[q])
  BY <1>1, <1>2, StillCalm
<1>5. /\ CodesCalm(req[p], req'[p]) /\ GrantsCalm(req[p], req'[p])
      /\ KeysCalm(req[p], req'[p]) /\ OrgsCalm(req[p], req'[p])
  BY <1>2 DEF Calm
<1>6. QED
  BY <1>1, <1>3, <1>4, <1>5, WriteFacts

\* The writes that none of the four invariants looks at: rows of accounts, inboxes, sessions.
LEMMA RowsQuiet ==
  ASSUME Shape, NEW p \in Request,
         \/ InsertAccount(p) \/ EnsureInbox(p) \/ ProvisionInbox(p)
         \/ BindSession(p) \/ EndSession(p)
         \/ \E sent \in BOOLEAN : MailOtp(p, sent)
  PROVE  Shape' /\ Quiet
<1>0. /\ Typed /\ db \in Tables /\ hist \in History /\ req[p] \in Locals
      /\ Len(db.invites) \in Nat
  BY InviteFacts DEF Shape, Typed
<1>1. CASE InsertAccount(p)
  <2>1. CASE Taken(req[p].acct)
    <3>1. Local /\ Finish(p)
      BY <1>1, <2>1 DEF InsertAccount, Local, Write
    <3>2. QED
      BY <1>0, <3>1, FinishFacts, FinishCalm, BlankFacts, LocalFacts DEF Quiet, Calm
  <2>2. CASE ~ Taken(req[p].acct)
    <3>1. PICK l \in {"join", "inbox"} : Goto(p, l) /\ (l = "join" => req[p].invite # 0)
      BY <1>1, <2>2 DEF InsertAccount, JoinThen
    <3>2. WithAccount(req[p].acct) \in [Account -> {"none", "unverified", "verified"}]
      BY <1>0 DEF WithAccount, Tables
    <3>3. /\ db' = [db EXCEPT !.accounts = WithAccount(req[p].acct)]
          /\ Write /\ hist' = hist
      BY <1>1, <2>2 DEF InsertAccount
    <3>4. /\ db' \in Tables /\ db'.otps = db.otps /\ db'.grants = db.grants /\ db'.keys = db.keys
          /\ db'.orgs = db.orgs /\ db'.members = db.members /\ db'.invites = db.invites
      BY <1>0, <3>2, <3>3 DEF Tables
    <3>5. QED
      BY <1>0, <3>1, <3>3, <3>4, GoesOnFacts DEF Labels, Quiet
  <2>3. QED
    BY <2>1, <2>2
<1>2. CASE EnsureInbox(p)
  <2>1. Goto(p, "key") /\ Write /\ hist' = hist
    BY <1>2 DEF EnsureInbox
  <2>2. PICK X \in SUBSET Person : db' = [db EXCEPT !.inboxes = X]
    <3>1. db.inboxes \cup {req[p].acct} \in SUBSET Person
      BY <1>0 DEF Tables, Locals
    <3>2. QED
      BY <1>2, <3>1 DEF EnsureInbox
  <2>3. /\ db' \in Tables /\ db'.otps = db.otps /\ db'.grants = db.grants /\ db'.keys = db.keys
        /\ db'.orgs = db.orgs /\ db'.members = db.members /\ db'.invites = db.invites
    BY <1>0, <2>2 DEF Tables
  <2>4. QED
    BY <1>0, <2>1, <2>3, GoesOnFacts DEF Labels, Quiet
<1>3. CASE ProvisionInbox(p)
  <2>1. Finish(p) /\ Write /\ hist' = hist
    BY <1>3 DEF ProvisionInbox
  <2>2. PICK X \in SUBSET Person : db' = [db EXCEPT !.inboxes = X]
    <3>1. db.inboxes \cup {req[p].target} \in SUBSET Person
      BY <1>0 DEF Tables, Locals
    <3>2. QED
      BY <1>3, <3>1 DEF ProvisionInbox
  <2>3. /\ db' \in Tables /\ db'.otps = db.otps /\ db'.grants = db.grants /\ db'.keys = db.keys
        /\ db'.orgs = db.orgs /\ db'.members = db.members /\ db'.invites = db.invites
    BY <1>0, <2>2 DEF Tables
  <2>4. QED
    BY <1>0, <2>1, <2>3, AnswersFacts DEF Quiet
<1>4. CASE BindSession(p) \/ EndSession(p)
  <2>1. Finish(p) /\ Write /\ hist' = hist
    BY <1>4 DEF BindSession, EndSession
  <2>2. PICK X \in Seq(SessionRow) : db' = [db EXCEPT !.sessions = X]
    <3>1. Bound(req[p].session, req[p].acct) \in Seq(SessionRow)
      BY <1>0, SessionFacts DEF Locals
    <3>2. [db.sessions EXCEPT ![req[p].session].row = FALSE] \in Seq(SessionRow)
      BY <1>0, SessionFacts
    <3>3. QED
      BY <1>0, <1>4, <3>1, <3>2 DEF BindSession, EndSession, Tables
  <2>3. /\ db' \in Tables /\ db'.otps = db.otps /\ db'.grants = db.grants /\ db'.keys = db.keys
        /\ db'.orgs = db.orgs /\ db'.members = db.members /\ db'.invites = db.invites
    BY <1>0, <2>2 DEF Tables
  <2>4. QED
    BY <1>0, <2>1, <2>3, AnswersFacts DEF Quiet
<1>5. ASSUME NEW sent \in BOOLEAN, MailOtp(p, sent) PROVE Shape' /\ Quiet
  <2>1. Write /\ db' = db /\ (Goto(p, "bind") \/ Finish(p))
    BY <1>5 DEF MailOtp
  <2>2. PICK X \in SUBSET Nat : hist' = [hist EXCEPT !.mailed = X]
    <3>1. hist.mailed \cup {req[p].code} \in SUBSET Nat /\ hist = [hist EXCEPT !.mailed = hist.mailed]
      BY <1>0 DEF History, Locals
    <3>2. QED
      BY <1>0, <1>5, <3>1 DEF MailOtp, History
  <2>3. /\ hist' \in History /\ hist'.codes = hist.codes /\ hist'.cut = hist.cut
        /\ hist'.crossed = hist.crossed /\ hist'.proofs = hist.proofs /\ hist'.orgRace = hist.orgRace
        /\ hist'.founded = hist.founded /\ hist'.crossedOrgs = hist.crossedOrgs
    BY <1>0, <2>2 DEF History
  <2>4. CASE Goto(p, "bind")
    BY <1>0, <2>1, <2>3, <2>4, GoesOnFacts DEF Labels, Quiet
  <2>5. CASE Finish(p)
    BY <1>0, <2>1, <2>3, <2>5, AnswersFacts DEF Quiet
  <2>6. QED
    BY <2>1, <2>4, <2>5
<1>6. QED
  BY <1>1, <1>2, <1>3, <1>4, <1>5

\* The writes of invites: no invite moves to another org, a new one is of the caller's.
LEMMA InvitesQuiet ==
  ASSUME Shape, NEW p \in Request, MarkAccepted(p) \/ InsertInvite(p) \/ DeleteInvite(p)
  PROVE  Shape' /\ Quiet
<1>0. /\ Typed /\ db \in Tables /\ hist \in History /\ req[p] \in Locals
      /\ Len(db.invites) \in Nat
  BY InviteFacts DEF Shape, Typed
<1>1. Write /\ hist' = hist
  BY DEF MarkAccepted, InsertInvite, DeleteInvite
<1>2. PICK X \in Seq(InviteRow) :
        /\ db' = [db EXCEPT !.invites = X] /\ Len(db.invites) <= Len(X)
        /\ \A i \in 1 .. Len(X) : \/ X[i].org = req[p].org
                                  \/ i <= Len(db.invites) /\ X[i].org = db.invites[i].org
  <2>1. CASE MarkAccepted(p) \/ DeleteInvite(p)
    <3>1. PICK state \in {"accepted", "deleted"} :
            db' = [db EXCEPT !.invites = Closed(req[p].invite, state)]
      BY <2>1 DEF MarkAccepted, DeleteInvite, Accepted, Deleted
    <3>2. PICK X : X = Closed(req[p].invite, state)
      OBVIOUS
    <3>3. /\ X \in Seq(InviteRow) /\ Len(X) = Len(db.invites)
          /\ \A i \in 1 .. Len(db.invites) : X[i].org = db.invites[i].org
      BY <1>0, <3>2, InviteFacts
    <3>4. db' = [db EXCEPT !.invites = X]
      BY <3>1, <3>2
    <3>5. /\ Len(db.invites) <= Len(X)
          /\ \A i \in 1 .. Len(X) : i <= Len(db.invites) /\ X[i].org = db.invites[i].org
      BY <1>0, <3>3
    <3>6. QED
      BY <3>3, <3>4, <3>5, Zenon
  <2>2. CASE InsertInvite(p)
    <3>1. PICK o \in Nat, a \in Person, role \in Roles :
            o = req[p].org /\ a = req[p].target /\ role = req[p].role
      BY <1>0, <2>2 DEF Locals, Shape, Invited, InsertInvite, At
    <3>2. PICK X : X = WithInvite(o, a, role)
      OBVIOUS
    <3>3. /\ X \in Seq(InviteRow) /\ Len(X) = Len(db.invites) + 1 /\ X[Len(db.invites) + 1].org = o
          /\ \A i \in 1 .. Len(db.invites) : X[i] = db.invites[i]
      BY <1>0, <3>2, InviteFacts
    <3>4. db' = [db EXCEPT !.invites = X]
      BY <2>2, <3>1, <3>2 DEF InsertInvite
    <3>5. \A i \in 1 .. Len(X) : i = Len(db.invites) + 1 \/ i \in 1 .. Len(db.invites)
      BY <1>0, <3>3
    <3>6. \A i \in 1 .. Len(X) : \/ X[i].org = req[p].org
                                 \/ i <= Len(db.invites) /\ X[i].org = db.invites[i].org
      <4> SUFFICES ASSUME NEW i \in 1 .. Len(X)
                   PROVE  \/ X[i].org = req[p].org
                          \/ i <= Len(db.invites) /\ X[i].org = db.invites[i].org
        OBVIOUS
      <4>1. CASE i = Len(db.invites) + 1
        BY <3>1, <3>3, <4>1
      <4>2. CASE i \in 1 .. Len(db.invites)
        BY <1>0, <3>3, <4>2
      <4>3. QED
        BY <3>5, <4>1, <4>2
    <3>7. Len(db.invites) <= Len(X)
      BY <1>0, <3>3
    <3>8. QED
      BY <3>3, <3>4, <3>6, <3>7, Zenon
  <2>3. QED
    BY <2>1, <2>2
<1>3. /\ db' \in Tables /\ db'.otps = db.otps /\ db'.grants = db.grants /\ db'.keys = db.keys
      /\ db'.orgs = db.orgs /\ db'.members = db.members /\ db'.invites = X
  BY <1>0, <1>2 DEF Tables
<1>4. /\ Shape' /\ CodesQuiet /\ GrantsQuiet /\ KeysQuiet
      /\ \A q \in Request : OrgsCalm(req[q], req'[q])
  <2>1. CASE Finish(p)
    BY <1>0, <1>1, <1>2, <1>3, <2>1, AnswersFacts DEF Calm
  <2>2. CASE ~ Finish(p)
    <3>1. PICK l \in {"inbox", "otp"} : Goto(p, l)
      BY <2>2 DEF MarkAccepted, InsertInvite, DeleteInvite
    <3>2. QED
      BY <1>0, <1>1, <1>2, <1>3, <3>1, GoesOnFacts DEF Labels
  <2>3. QED
    BY <2>1, <2>2
<1>5. OrgsQuiet
  BY <1>1, <1>2, <1>3, <1>4 DEF OrgsQuiet
<1>6. QED
  BY <1>4, <1>5 DEF Quiet

\* Steps that are no request's: the clock, a new session, and stuttering.
LEMMA OutsideQuiet ==
  ASSUME Shape, BeginAuthorization \/ Tick \/ UNCHANGED vars
  PROVE  Shape' /\ Quiet
<1>0. /\ Typed /\ db \in Tables /\ hist \in History /\ req \in [Request -> Locals] /\ now \in Nat
  BY DEF Shape, Typed
<1>1. mix' = mix /\ hist' = hist /\ req' = req /\ now' \in {now, now + 1}
  BY DEF BeginAuthorization, Tick, vars
<1>2. PICK X \in Seq(SessionRow) : db' = [db EXCEPT !.sessions = X]
  <2>1. CASE BeginAuthorization
    BY <1>0, <2>1, SessionFacts DEF BeginAuthorization
  <2>2. CASE Tick \/ UNCHANGED vars
    <3>1. db' = db
      BY <2>2 DEF Tick, vars
    <3>2. db = [db EXCEPT !.sessions = db.sessions] /\ db.sessions \in Seq(SessionRow)
      BY <1>0 DEF Tables
    <3>3. QED
      BY <3>1, <3>2
  <2>3. QED
    BY <2>1, <2>2
<1>3. /\ db' \in Tables /\ db'.otps = db.otps /\ db'.grants = db.grants /\ db'.keys = db.keys
      /\ db'.orgs = db.orgs /\ db'.members = db.members /\ db'.invites = db.invites
  BY <1>0, <1>2 DEF Tables
<1>4. Shape'
  <2>1. Typed'
    BY <1>0, <1>1, <1>3 DEF Typed
  <2>2. Invited'
    BY <1>1, <1>3 DEF Shape, Invited
  <2>3. QED
    BY <2>1, <2>2 DEF Shape
<1>5. \A q \in Request : Calm(req[q], req'[q])
  BY <1>1 DEF Calm, CodesCalm, GrantsCalm, KeysCalm, OrgsCalm
<1>6. CodesQuiet
  BY <1>1, <1>3, <1>5 DEF CodesQuiet, Calm
<1>7. GrantsQuiet
  BY <1>1, <1>3, <1>5 DEF GrantsQuiet, Calm
<1>8. KeysQuiet
  BY <1>1, <1>3, <1>5 DEF KeysQuiet, Calm
<1>9. OrgsQuiet
  <2>1. \A i \in 1 .. Len(db.invites) : i <= Len(db.invites)
    BY <1>0, InviteFacts
  <2>2. QED
    BY <1>1, <1>3, <1>5, <2>1 DEF OrgsQuiet, Calm
<1>10. QED
  BY <1>4, <1>6, <1>7, <1>8, <1>9 DEF Quiet

-----------------------------------------------------------------------------
(* One-time codes *)

\* The wrong guesses at a code that are compared and not counted yet.
Guessing(code) == {p \in Request : At(p, "miss") /\ req[p].code = code}

\* Every guess at a code is counted or in flight, and each was let through
\* while the count was below the limit; codes are told apart by their number.
CodesInv ==
    /\ \A o \in db.otps :
         /\ o.at <= now /\ o.code <= hist.codes
         /\ o.attempts + Cardinality(Guessing(o.code)) <= OtpAttempts + Cardinality(Request) - 1
    /\ \A o, q \in db.otps : o.code = q.code => o = q
    /\ \A p \in Request : /\ req[p].at <= now
                          /\ req[p].pc = "miss" => req[p].code <= hist.codes

\* The guesses in flight are some of the requests.
LEMMA GuessingFacts ==
  \A c : /\ IsFiniteSet(Guessing(c)) /\ Cardinality(Guessing(c)) \in Nat
         /\ Cardinality(Guessing(c)) <= Cardinality(Request)
         /\ \A S \in SUBSET Guessing(c) : /\ Cardinality(S) \in Nat
                                          /\ Cardinality(S) <= Cardinality(Guessing(c))
<1> SUFFICES ASSUME NEW c
             PROVE  /\ IsFiniteSet(Guessing(c)) /\ Cardinality(Guessing(c)) \in Nat
                    /\ Cardinality(Guessing(c)) <= Cardinality(Request)
                    /\ \A S \in SUBSET Guessing(c) : /\ Cardinality(S) \in Nat
                                                     /\ Cardinality(S) <= Cardinality(Guessing(c))
  OBVIOUS
<1>1. Guessing(c) \subseteq Request
  BY DEF Guessing
<1>2. /\ IsFiniteSet(Guessing(c)) /\ Cardinality(Guessing(c)) \in Nat
      /\ Cardinality(Guessing(c)) <= Cardinality(Request)
  BY <1>1, IdentityAssumption, FS_Subset, FS_CardinalityType
<1>3. ASSUME NEW S \in SUBSET Guessing(c)
      PROVE  Cardinality(S) \in Nat /\ Cardinality(S) <= Cardinality(Guessing(c))
  BY <1>2, FS_Subset, FS_CardinalityType
<1>4. QED
  BY <1>2, <1>3

\* The code that consumeOtp compares is one of the account's.
LEMMA LatestOtpFacts ==
  ASSUME Typed, CodesInv, NEW a, OtpsOf(a) # {}
  PROVE  LatestOtp(a) \in OtpsOf(a) /\ LatestOtp(a) \in db.otps
<1> DEFINE T == {o.at : o \in OtpsOf(a)}
<1>1. /\ OtpsOf(a) \subseteq db.otps /\ now \in Nat /\ hist.codes \in Nat
      /\ \A o \in OtpsOf(a) : o.at \in Nat /\ o.code \in Nat /\ o.at <= now /\ o.code <= hist.codes
  BY DEF OtpsOf, Typed, Tables, OtpRow, History, CodesInv
<1>2. PICK t \in T : \A x \in T : x <= t
  <2>1. T \in SUBSET Nat /\ T # {} /\ \A x \in T : x <= now
    BY <1>1
  <2>2. QED
    BY <1>1, <2>1, GreatestFacts
<1> DEFINE U == {o.code : o \in {r \in OtpsOf(a) : r.at = t}}
<1>3. PICK c \in U : \A x \in U : x <= c
  <2>1. U \in SUBSET Nat /\ U # {} /\ \A x \in U : x <= hist.codes
    BY <1>1, <1>2
  <2>2. QED
    BY <1>1, <2>1, GreatestFacts
<1>4. PICK o \in OtpsOf(a) : o.at = t /\ o.code = c
  BY <1>3
<1>5. \A q \in OtpsOf(a) : q.at < o.at \/ (q.at = o.at /\ q.code <= o.code)
  <2> SUFFICES ASSUME NEW q \in OtpsOf(a) PROVE q.at < o.at \/ (q.at = o.at /\ q.code <= o.code)
    OBVIOUS
  <2>1. q.at \in Nat /\ o.at \in Nat /\ q.at <= o.at
    BY <1>1, <1>2, <1>4
  <2>2. q.at = o.at => q.code <= o.code
    BY <1>3, <1>4
  <2>3. QED
    BY <2>1, <2>2
<1>6. LatestOtp(a) \in OtpsOf(a)
  BY <1>5 DEF LatestOtp
<1>7. QED
  BY <1>1, <1>6

\* A quiet step keeps the invariant: codes go, and guesses that were let through end.
LEMMA CodesStayQuiet ==
  ASSUME Shape, Shape', CodesInv, CodesQuiet PROVE CodesInv'
<1>1. /\ db'.otps \subseteq db.otps /\ hist'.codes = hist.codes /\ now' \in {now, now + 1}
      /\ \A q \in Request : CodesCalm(req[q], req'[q])
  BY DEF CodesQuiet
<1>2. now \in Nat /\ now <= now'
  BY <1>1 DEF Shape, Typed
<1>3. ASSUME NEW p \in Request
      PROVE  req'[p].at <= now' /\ (req'[p].pc = "miss" => req'[p].code <= hist'.codes)
  <2>1. req[p].at \in Nat /\ req[p].at <= now /\ (req[p].pc = "miss" => req[p].code <= hist.codes)
    BY DEF Shape, Typed, Locals, CodesInv
  <2>2. CodesCalm(req[p], req'[p])
    BY <1>1
  <2>3. req'[p].at \in {0, req[p].at, now}
    BY <2>2 DEF CodesCalm
  <2>4. QED
    BY <1>1, <1>2, <2>1, <2>2, <2>3 DEF CodesCalm
<1>4. ASSUME NEW o \in db'.otps
      PROVE  /\ o.at <= now' /\ o.code <= hist'.codes
             /\ o.attempts + Cardinality(Guessing(o.code)') <= OtpAttempts + Cardinality(Request) - 1
  <2>1. /\ o.at \in Nat /\ o.attempts \in Nat /\ o.at <= now /\ o.code <= hist.codes
        /\ o.attempts + Cardinality(Guessing(o.code)) <= OtpAttempts + Cardinality(Request) - 1
    BY <1>1 DEF Shape, Typed, Tables, OtpRow, CodesInv
  <2>2. Guessing(o.code)' \subseteq Guessing(o.code)
    BY <1>1 DEF Guessing, At, CodesCalm
  <2>3. /\ Cardinality(Guessing(o.code)) \in Nat /\ Cardinality(Guessing(o.code)') \in Nat
        /\ Cardinality(Guessing(o.code)') <= Cardinality(Guessing(o.code))
    BY <2>2, GuessingFacts
  <2>4. OtpAttempts \in Nat /\ Cardinality(Request) \in Nat
    BY IdentityAssumption, FS_CardinalityType
  <2>5. QED
    BY <1>1, <1>2, <2>1, <2>3, <2>4
<1>5. QED
  BY <1>1, <1>3, <1>4 DEF CodesInv

\* The code that is mailed is new: nobody has guessed at it.
LEMMA InsertOtpStep ==
  ASSUME Shape, CodesInv, NEW p \in Request, InsertOtp(p)
  PROVE  Shape' /\ CodesInv' /\ GrantsQuiet /\ KeysQuiet /\ OrgsQuiet
<1>0. /\ Typed /\ db \in Tables /\ hist \in History /\ req \in [Request -> Locals] /\ now \in Nat
      /\ Len(db.invites) \in Nat
  BY InviteFacts DEF Shape, Typed
<1>1. PICK r \in Locals : r = req[p]
  BY <1>0
<1>2. PICK code \in Nat : code = hist.codes + 1
  BY <1>0 DEF History
<1>3. PICK row \in OtpRow : row = [acct |-> r.acct, code |-> code, at |-> r.at, attempts |-> 0]
  BY <1>1 DEF OtpRow, Locals
<1>4. Write /\ db' = [db EXCEPT !.otps = db.otps \cup {row}] /\ hist' = [hist EXCEPT !.codes = code]
  BY <1>1, <1>2, <1>3 DEF InsertOtp, WithOtp
<1>5. /\ db' \in Tables /\ db'.otps = db.otps \cup {row} /\ db'.grants = db.grants
      /\ db'.keys = db.keys /\ db'.orgs = db.orgs /\ db'.members = db.members
      /\ db'.invites = db.invites
  BY <1>0, <1>4 DEF Tables
<1>6. /\ hist' \in History /\ hist'.codes = code /\ hist'.cut = hist.cut
      /\ hist'.crossed = hist.crossed /\ hist'.proofs = hist.proofs /\ hist'.orgRace = hist.orgRace
      /\ hist'.founded = hist.founded /\ hist'.crossedOrgs = hist.crossedOrgs
  BY <1>0, <1>4 DEF History
<1>7. PICK s : s = [r EXCEPT !.pc = "mail", !.code = code]
  OBVIOUS
<1>8. /\ s \in Locals /\ s.op = r.op /\ s.pc = "mail" /\ s.acct = r.acct /\ s.key = r.key
      /\ s.pending = r.pending /\ s.at = r.at /\ s.code = code /\ s.invite = r.invite
      /\ s.org = r.org /\ s.session = r.session /\ s.grant = r.grant
  BY ZenonT(30), <1>1, <1>7 DEF Locals, Labels
<1>9. /\ req' = [req EXCEPT ![p] = s] /\ req' \in [Request -> Locals] /\ req'[p] = s
      /\ \A q \in Request \ {p} : req'[q] = req[q]
  BY <1>0, <1>1, <1>2, <1>7, <1>8 DEF InsertOtp
<1>10. /\ GrantsCalm(req[p], req'[p]) /\ KeysCalm(req[p], req'[p]) /\ OrgsCalm(req[p], req'[p])
       /\ req'[p].invite = req[p].invite
  BY <1>1, <1>8, <1>9 DEF GrantsCalm, KeysCalm, OrgsCalm
<1>11. Shape' /\ GrantsQuiet /\ KeysQuiet /\ OrgsQuiet
  <2>1. /\ Len(db.invites) <= Len(db'.invites) /\ req'[p].invite \in {0, req[p].invite}
        /\ req'[p].pc \notin {"join", "accept", "insertInvite"}
    BY <1>0, <1>5, <1>8, <1>9, <1>10
  <2>2. QED
    BY <1>4, <1>5, <1>6, <1>9, <1>10, <2>1, WriteFacts
<1>12. CodesInv'
  <2>0. now' = now /\ req[p].pc = "insertOtp" /\ hist.codes \in Nat
    BY <1>0, <1>4 DEF InsertOtp, At, Write, History
  <2>1. ASSUME NEW q \in Request
        PROVE  req'[q].at <= now' /\ (req'[q].pc = "miss" => req'[q].code <= hist'.codes)
    <3>1. /\ req[q].at <= now /\ req[q].code \in Nat
          /\ (req[q].pc = "miss" => req[q].code <= hist.codes)
      BY <1>0 DEF CodesInv, Locals
    <3>2. CASE q = p
      BY <1>1, <1>8, <1>9, <2>0, <3>1, <3>2
    <3>3. CASE q # p
      BY <1>2, <1>6, <1>9, <2>0, <3>1, <3>3
    <3>4. QED
      BY <3>2, <3>3
  <2>2. \A o \in db.otps : o.at <= now /\ o.code <= hist.codes /\ o.code \in Nat /\ o.attempts \in Nat
    BY <1>0 DEF CodesInv, Tables, OtpRow
  <2>3. row.code = code /\ row.at = r.at /\ row.attempts = 0 /\ r.at <= now
    BY <1>1, <1>3 DEF CodesInv
  <2>4. OtpAttempts \in Nat \ {0} /\ Cardinality(Request) \in Nat
    BY IdentityAssumption, FS_CardinalityType
  <2>5. ASSUME NEW o \in db.otps
        PROVE o.attempts + Cardinality(Guessing(o.code)') <= OtpAttempts + Cardinality(Request) - 1
    <3>1. Guessing(o.code)' = Guessing(o.code)
      BY <1>1, <1>8, <1>9, <2>0 DEF Guessing, At
    <3>2. QED
      BY <3>1 DEF CodesInv
  <2>6. row.attempts + Cardinality(Guessing(row.code)') <= OtpAttempts + Cardinality(Request) - 1
    <3>1. Guessing(row.code)' = {}
      <4> SUFFICES ASSUME NEW q \in Request, req'[q].pc = "miss", req'[q].code = row.code PROVE FALSE
        BY DEF Guessing, At
      <4>1. q # p
        BY <1>8, <1>9
      <4>2. req[q].pc = "miss" /\ req[q].code = code
        BY <1>9, <2>3, <4>1
      <4>3. QED
        BY <1>2, <2>0, <4>2 DEF CodesInv
    <3>2. Cardinality(Request) # 0
      BY IdentityAssumption, FS_EmptySet
    <3>3. Cardinality({}) = 0
      BY FS_EmptySet
    <3>4. QED
      BY <2>3, <2>4, <3>1, <3>2, <3>3
  <2>7. \A o, q \in db.otps \cup {row} : o.code = q.code => o = q
    BY <1>2, <2>0, <2>2, <2>3 DEF CodesInv
  <2>8. \A o \in db.otps \cup {row} : o.at <= now /\ o.code <= code
    BY <1>2, <2>0, <2>2, <2>3
  <2>9. QED
    BY <1>5, <1>6, <2>0, <2>1, <2>5, <2>6, <2>7, <2>8 DEF CodesInv
<1>13. QED
  BY <1>11, <1>12

\* A guess is compared with a code that has attempts left; it may be wrong, and is in flight then.
LEMMA CheckOtpStep ==
  ASSUME Shape, CodesInv, NEW p \in Request, CheckOtp(p)
  PROVE  Shape' /\ CodesInv' /\ GrantsQuiet /\ KeysQuiet /\ OrgsQuiet
<1>0. /\ Typed /\ db \in Tables /\ hist \in History /\ req \in [Request -> Locals] /\ now \in Nat
  BY DEF Shape, Typed
<1>1. Local /\ req[p].pc = "check"
  BY DEF CheckOtp, At
<1>2. CASE Finish(p)
  <2>1. Shape' /\ Quiet
    BY <1>0, <1>1, <1>2, FinishFacts, FinishCalm, BlankFacts, LocalFacts DEF Quiet, Calm
  <2>2. QED
    BY <2>1, CodesStayQuiet DEF Quiet
<1>3. CASE ~ Finish(p)
  <2>1. PICK o \in db.otps, l \in {"mark", "miss"} :
          o.attempts < OtpAttempts /\ req' = [req EXCEPT ![p].code = o.code, ![p].pc = l]
    <3>1. OtpsOf(req[p].acct) # {}
      BY <1>3 DEF CheckOtp
    <3>2. PICK o \in db.otps : o = LatestOtp(req[p].acct)
      BY <1>0, <3>1, LatestOtpFacts
    <3>3. ~ (o.attempts >= OtpAttempts)
      BY <1>3, <3>1, <3>2 DEF CheckOtp
    <3>4. o.attempts < OtpAttempts
      <4>1. o.attempts \in Nat /\ OtpAttempts \in Nat
        BY <1>0, IdentityAssumption DEF Tables, OtpRow
      <4>2. QED
        BY <3>3, <4>1
    <3>5. req' = [req EXCEPT ![p].code = o.code, ![p].pc = "mark"]
          \/ req' = [req EXCEPT ![p].code = o.code, ![p].pc = "miss"]
      BY <1>3, <3>1, <3>2 DEF CheckOtp
    <3>6. QED
      BY <3>4, <3>5, Zenon
  <2>2. PICK r \in Locals : r = req[p]
    BY <1>0
  <2>3. PICK s : s = [r EXCEPT !.code = o.code, !.pc = l]
    OBVIOUS
  <2>4. o.code \in Nat /\ o.attempts \in Nat /\ o.code <= hist.codes /\ OtpAttempts \in Nat
    BY <1>0, IdentityAssumption DEF Tables, OtpRow, CodesInv
  <2>5. /\ s \in Locals /\ s.op = r.op /\ s.pc = l /\ s.acct = r.acct /\ s.key = r.key
        /\ s.pending = r.pending /\ s.at = r.at /\ s.code = o.code /\ s.invite = r.invite
        /\ s.org = r.org /\ s.session = r.session /\ s.grant = r.grant
    BY ZenonT(30), <2>2, <2>3, <2>4 DEF Locals, Labels
  <2>6. /\ req' = [req EXCEPT ![p] = s] /\ req' \in [Request -> Locals] /\ req'[p] = s
        /\ \A q \in Request \ {p} : req'[q] = req[q]
    BY <1>0, <2>1, <2>2, <2>3, <2>5
  <2>7. /\ GrantsCalm(req[p], req'[p]) /\ KeysCalm(req[p], req'[p]) /\ OrgsCalm(req[p], req'[p])
    BY <2>2, <2>5, <2>6 DEF GrantsCalm, KeysCalm, OrgsCalm
  <2>8. Shape' /\ GrantsQuiet /\ KeysQuiet /\ OrgsQuiet
    <3>1. /\ req'[p].invite <= Len(db.invites)
          /\ req'[p].pc \notin {"join", "accept", "insertInvite"}
      BY <2>2, <2>5, <2>6 DEF Shape, Invited
    <3>2. QED
      BY <1>1, <2>6, <2>7, <3>1, LocalFacts
  <2>9. CodesInv'
    <3>1. db' = db /\ hist' = hist /\ now' = now
      BY <1>1 DEF Local
    <3>2. ASSUME NEW q \in Request
          PROVE  req'[q].at <= now' /\ (req'[q].pc = "miss" => req'[q].code <= hist'.codes)
      <4>1. CASE q = p
        BY <2>2, <2>4, <2>5, <2>6, <3>1, <4>1 DEF CodesInv
      <4>2. CASE q # p
        BY <2>6, <3>1, <4>2 DEF CodesInv
      <4>3. QED
        BY <4>1, <4>2
    <3>3. ASSUME NEW x \in db.otps
          PROVE x.attempts + Cardinality(Guessing(x.code)') <= OtpAttempts + Cardinality(Request) - 1
      <4>1. CASE x = o
        <5>1. Guessing(x.code)' \subseteq Request
          BY DEF Guessing
        <5>2. /\ Cardinality(Guessing(x.code)') \in Nat /\ Cardinality(Request) \in Nat
              /\ Cardinality(Guessing(x.code)') <= Cardinality(Request)
          BY <5>1, IdentityAssumption, FS_Subset, FS_CardinalityType
        <5>3. QED
          BY <2>1, <2>4, <4>1, <5>2
      <4>2. CASE x # o
        <5>1. x.code # o.code
          BY <4>2 DEF CodesInv
        <5>2. Guessing(x.code)' = Guessing(x.code)
          BY <1>1, <2>5, <2>6, <5>1 DEF Guessing, At
        <5>3. QED
          BY <5>2 DEF CodesInv
      <4>3. QED
        BY <4>1, <4>2
    <3>4. QED
      BY <3>1, <3>2, <3>3 DEF CodesInv
  <2>10. QED
    BY <2>8, <2>9
<1>4. QED
  BY <1>2, <1>3

\* A wrong guess is counted and no longer in flight.
LEMMA MissOtpStep ==
  ASSUME Shape, CodesInv, NEW p \in Request, MissOtp(p)
  PROVE  Shape' /\ CodesInv' /\ GrantsQuiet /\ KeysQuiet /\ OrgsQuiet
<1>0. /\ Typed /\ db \in Tables /\ hist \in History /\ req \in [Request -> Locals] /\ now \in Nat
      /\ Len(db.invites) \in Nat
  BY InviteFacts DEF Shape, Typed
<1>1. PICK c \in Nat : c = req[p].code
  BY <1>0 DEF Locals
<1>2. /\ Write /\ hist' = hist /\ Finish(p) /\ req[p].pc = "miss"
      /\ db' = [db EXCEPT !.otps = Missed(c)]
  BY <1>1 DEF MissOtp, At
<1>3. ASSUME NEW o \in Missed(c)
      PROVE  /\ o \in OtpRow
             /\ \E x \in db.otps : /\ o.code = x.code /\ o.at = x.at
                                   /\ o.attempts = IF x.code = c THEN x.attempts + 1 ELSE x.attempts
                                   /\ o = IF x.code = c THEN [x EXCEPT !.attempts = x.attempts + 1] ELSE x
  <2>1. PICK x \in db.otps :
          o = IF x.code = c THEN [x EXCEPT !.attempts = x.attempts + 1] ELSE x
    BY DEF Missed
  <2>2. x \in OtpRow
    BY <1>0 DEF Tables
  <2>3. /\ o \in OtpRow /\ o.code = x.code /\ o.at = x.at
        /\ o.attempts = IF x.code = c THEN x.attempts + 1 ELSE x.attempts
    BY <2>1, <2>2 DEF OtpRow
  <2>4. QED
    BY <2>1, <2>3
<1>4. PICK X \in SUBSET OtpRow : X = Missed(c)
  BY <1>3
<1>5. /\ db' \in Tables /\ db'.otps = X /\ db'.grants = db.grants
      /\ db'.keys = db.keys /\ db'.orgs = db.orgs /\ db'.members = db.members
      /\ db'.invites = db.invites
  BY <1>0, <1>2, <1>4 DEF Tables
<1>6. Shape' /\ GrantsQuiet /\ KeysQuiet /\ OrgsQuiet
  BY <1>0, <1>2, <1>5, AnswersFacts
<1>7. CodesInv'
  <2>1. now' = now /\ \A q \in Request : CodesCalm(req[q], req'[q])
    BY <1>0, <1>2, <1>5, AnswersFacts DEF Calm, Write
  <2>2. /\ req'[p].pc = "idle" /\ \A q \in Request \ {p} : req'[q] = req[q]
    BY <1>0, <1>2, FinishFacts, BlankFacts
  <2>3. \A q \in Request : req'[q].at <= now' /\ (req'[q].pc = "miss" => req'[q].code <= hist'.codes)
    <3>1. \A q \in Request : /\ req[q].at <= now /\ now <= now /\ 0 <= now
                             /\ req[q].pc = "miss" => req[q].code <= hist.codes
      BY <1>0 DEF CodesInv
    <3>2. QED
      BY <1>2, <2>1, <3>1 DEF CodesCalm
  <2>4. ASSUME NEW o \in X
        PROVE  /\ o.at <= now' /\ o.code <= hist'.codes
               /\ o.attempts + Cardinality(Guessing(o.code)') <= OtpAttempts + Cardinality(Request) - 1
    <3>1. PICK x \in db.otps : /\ o.code = x.code /\ o.at = x.at
                               /\ o.attempts = IF x.code = c THEN x.attempts + 1 ELSE x.attempts
      BY <1>3, <1>4
    <3>2. /\ x.at <= now /\ x.code <= hist.codes /\ x.attempts \in Nat
          /\ x.attempts + Cardinality(Guessing(x.code)) <= OtpAttempts + Cardinality(Request) - 1
      BY <1>0 DEF CodesInv, Tables, OtpRow
    <3>3. OtpAttempts \in Nat /\ Cardinality(Request) \in Nat
      BY IdentityAssumption, FS_CardinalityType
    <3>4. CASE x.code = c
      <4>1. p \in Guessing(x.code) /\ Guessing(x.code)' = Guessing(x.code) \ {p}
        BY <1>1, <1>2, <2>2, <3>4 DEF Guessing, At
      <4>2. /\ Cardinality(Guessing(x.code)') = Cardinality(Guessing(x.code)) - 1
            /\ Cardinality(Guessing(x.code)) \in Nat
        <5>1. IsFiniteSet(Guessing(x.code)) /\ Cardinality(Guessing(x.code)) \in Nat
          BY GuessingFacts
        <5>2. Cardinality(Guessing(x.code) \ {p}) = Cardinality(Guessing(x.code)) - 1
          BY <4>1, <5>1, FS_RemoveElement
        <5>3. QED
          BY <4>1, <5>1, <5>2
      <4>3. QED
        BY <1>2, <2>1, <3>1, <3>2, <3>3, <3>4, <4>2
    <3>5. CASE x.code # c
      <4>1. Guessing(x.code)' = Guessing(x.code)
        BY <1>1, <2>2, <3>5 DEF Guessing, At
      <4>2. QED
        BY <1>2, <2>1, <3>1, <3>2, <3>5, <4>1
    <3>6. QED
      BY <3>4, <3>5
  <2>5. \A o, q \in X : o.code = q.code => o = q
    <3> SUFFICES ASSUME NEW o \in X, NEW q \in X, o.code = q.code PROVE o = q
      OBVIOUS
    <3>1. PICK x \in db.otps :
            o.code = x.code /\ o = IF x.code = c THEN [x EXCEPT !.attempts = x.attempts + 1] ELSE x
      BY <1>3, <1>4
    <3>2. PICK y \in db.otps :
            q.code = y.code /\ q = IF y.code = c THEN [y EXCEPT !.attempts = y.attempts + 1] ELSE y
      BY <1>3, <1>4
    <3>3. x = y
      BY <3>1, <3>2 DEF CodesInv
    <3>4. QED
      BY <3>1, <3>2, <3>3
  <2>6. QED
    BY <1>5, <2>3, <2>4, <2>5 DEF CodesInv
<1>8. QED
  BY <1>6, <1>7

-----------------------------------------------------------------------------
(* Grants *)

\* What a request holds of a grant: it is claimed before its key is minted,
\* and the proof for a grant is on record before the grant is.
Exchanging(r) ==
    /\ r.grant <= Len(db.grants)
    /\ r.grant # 0 => r.acct = db.grants[r.grant].acct
    /\ r.pc \in {"clear", "grant"} => <<r.session, r.acct>> \in hist.proofs
    /\ r.pc = "claim" => r.grant # 0
    /\ r.pc = "mint" /\ r.grant # 0 => db.grants[r.grant].used

\* A key that came of a grant.
Redeemed(key) ==
    /\ key.grant <= Len(db.grants)
    /\ key.grant # 0 => db.grants[key.grant].used /\ key.acct = db.grants[key.grant].acct

GrantsInv ==
    /\ \A g \in 1 .. Len(db.grants) : <<db.grants[g].session, db.grants[g].acct>> \in hist.proofs
    /\ \A k \in Key : Redeemed(db.keys[k])
    /\ \A p \in Request : Exchanging(req[p])
    /\ \A k, j \in Key : db.keys[k].grant # 0 /\ db.keys[k].grant = db.keys[j].grant => k = j
    /\ \A p, q \in Request :
         (/\ req[p].pc = "mint" /\ req[q].pc = "mint"
          /\ req[p].grant # 0 /\ req[p].grant = req[q].grant) => p = q
    /\ \A p \in Request, k \in Key :
         req[p].pc = "mint" /\ req[p].grant # 0 => db.keys[k].grant # req[p].grant

\* A quiet step keeps it.
LEMMA GrantsStayQuiet ==
  ASSUME Shape, Shape', GrantsInv, GrantsQuiet PROVE GrantsInv'
<1>1. /\ db'.grants = db.grants /\ hist'.proofs = hist.proofs /\ Len(db'.keys) = Len(db.keys)
      /\ \A k \in Key : db'.keys[k].grant = db.keys[k].grant /\ db'.keys[k].acct = db.keys[k].acct
      /\ \A q \in Request : GrantsCalm(req[q], req'[q])
  BY DEF GrantsQuiet
<1>2. Key' = Key
  BY <1>1 DEF Key
<1>3. \A q \in Request : req'[q].pc = "mint" /\ req'[q].grant # 0 =>
        req[q].pc = "mint" /\ req[q].grant = req'[q].grant
  BY <1>1 DEF GrantsCalm
<1>4. ASSUME NEW p \in Request PROVE Exchanging(req[p])'
  <2>1. Exchanging(req[p]) /\ GrantsCalm(req[p], req'[p])
    BY <1>1 DEF GrantsInv
  <2>2. Len(db.grants) \in Nat
    BY GrantFacts DEF Shape
  <2>3. QED
    BY <1>1, <2>1, <2>2 DEF Exchanging, GrantsCalm
<1>5. ASSUME NEW k \in Key PROVE Redeemed(db.keys[k])'
  BY <1>1 DEF GrantsInv, Redeemed
<1>6. \A k, j \in Key : db'.keys[k].grant # 0 /\ db'.keys[k].grant = db'.keys[j].grant => k = j
  BY <1>1 DEF GrantsInv
<1>7. \A p, q \in Request :
        (/\ req'[p].pc = "mint" /\ req'[q].pc = "mint"
         /\ req'[p].grant # 0 /\ req'[p].grant = req'[q].grant) => p = q
  BY <1>3 DEF GrantsInv
<1>8. \A p \in Request, k \in Key :
        req'[p].pc = "mint" /\ req'[p].grant # 0 => db'.keys[k].grant # req'[p].grant
  BY <1>1, <1>3 DEF GrantsInv
<1>9. \A g \in 1 .. Len(db'.grants) :
        <<db'.grants[g].session, db'.grants[g].acct>> \in hist'.proofs
  BY <1>1 DEF GrantsInv
<1>10. QED
  BY <1>2, <1>4, <1>5, <1>6, <1>7, <1>8, <1>9 DEF GrantsInv

\* A new key that came of no grant, or of one that was claimed for it and that no other has.
LEMMA GrantsWithKey ==
  ASSUME Shape, GrantsInv, NEW p \in Request, NEW a \in Person, NEW b \in BOOLEAN, NEW g \in Nat,
         db'.keys = WithKey(a, b, g), db'.grants = db.grants, hist'.proofs = hist.proofs,
         \A q \in Request : GrantsCalm(req[q], req'[q]),
         g # 0 => /\ g = req[p].grant /\ a = req[p].acct /\ req[p].pc = "mint"
                  /\ \A q \in Request \ {p} : req'[q] = req[q]
                  /\ req'[p] = Blank
  PROVE  GrantsInv'
<1>0. Typed /\ Len(db.keys) \in Nat /\ Len(db.grants) \in Nat
  BY GrantFacts, KeyFacts DEF Shape
<1> DEFINE n == Len(db.keys) + 1
<1>1. PICK row : row = [acct |-> a, active |-> b, revoked |-> FALSE, grant |-> g]
  OBVIOUS
<1>2. /\ Len(db'.keys) = n /\ db'.keys[n] = row /\ row.acct = a /\ row.grant = g
      /\ \A k \in Key : db'.keys[k] = db.keys[k]
  BY <1>0, <1>1, KeyFacts
<1>3. \A k \in Key' : k \in Key \/ k = n
  BY <1>0, <1>2 DEF Key
<1> HIDE DEF n
<1>4. \A q \in Request : req'[q].pc = "mint" /\ req'[q].grant # 0 =>
        req[q].pc = "mint" /\ req[q].grant = req'[q].grant
  BY DEF GrantsCalm
<1>5. ASSUME NEW q \in Request PROVE Exchanging(req[q])'
  <2>1. Exchanging(req[q]) /\ GrantsCalm(req[q], req'[q])
    BY DEF GrantsInv
  <2>2. QED
    BY <1>0, <2>1 DEF Exchanging, GrantsCalm
<1>6. g # 0 => /\ db.grants[g].used /\ a = db.grants[g].acct /\ g <= Len(db.grants)
               /\ \A k \in Key : db.keys[k].grant # g
  <2> SUFFICES ASSUME g # 0
               PROVE  /\ db.grants[g].used /\ a = db.grants[g].acct /\ g <= Len(db.grants)
                      /\ \A k \in Key : db.keys[k].grant # g
    OBVIOUS
  <2>1. g = req[p].grant /\ a = req[p].acct /\ req[p].pc = "mint"
    OBVIOUS
  <2>2. Exchanging(req[p]) /\ \A k \in Key : db.keys[k].grant # req[p].grant
    BY <2>1 DEF GrantsInv
  <2>3. QED
    BY <2>1, <2>2 DEF Exchanging
<1>7. ASSUME NEW k \in Key' PROVE Redeemed(db.keys[k])'
  <2>1. CASE k \in Key
    BY <1>2, <2>1 DEF GrantsInv, Redeemed
  <2>2. CASE k = n
    BY <1>0, <1>2, <1>6, <2>2 DEF Redeemed
  <2>3. QED
    BY <1>3, <2>1, <2>2
<1>8. \A k, j \in Key' : db'.keys[k].grant # 0 /\ db'.keys[k].grant = db'.keys[j].grant => k = j
  BY <1>2, <1>3, <1>6 DEF GrantsInv
<1>9. \A q, r \in Request :
        (/\ req'[q].pc = "mint" /\ req'[r].pc = "mint"
         /\ req'[q].grant # 0 /\ req'[q].grant = req'[r].grant) => q = r
  BY <1>4 DEF GrantsInv
<1>10. ASSUME NEW q \in Request, NEW k \in Key', req'[q].pc = "mint", req'[q].grant # 0
       PROVE  db'.keys[k].grant # req'[q].grant
  <2>1. req[q].pc = "mint" /\ req[q].grant # 0 /\ req[q].grant = req'[q].grant
    BY <1>4, <1>10
  <2>2. CASE k \in Key
    BY <1>2, <2>1, <2>2 DEF GrantsInv
  <2>3. CASE k = n /\ g # 0
    <3>1. q # p
      BY <1>10, <2>3, BlankFacts
    <3>2. req[q].grant # req[p].grant
      BY <2>1, <2>3, <3>1 DEF GrantsInv
    <3>3. QED
      BY <1>2, <2>1, <2>3, <3>2
  <2>4. CASE k = n /\ g = 0
    BY <1>2, <1>10, <2>4
  <2>5. QED
    BY <1>3, <2>2, <2>3, <2>4
<1>11. \A h \in 1 .. Len(db'.grants) :
         <<db'.grants[h].session, db'.grants[h].acct>> \in hist'.proofs
  BY DEF GrantsInv
<1>12. QED
  BY <1>5, <1>7, <1>8, <1>9, <1>10, <1>11 DEF GrantsInv

\* The proof is on record when the code is deleted, and it is the one the grant will be for.
LEMMA MarkVerifiedStep ==
  ASSUME Shape, GrantsInv, NEW p \in Request, MarkVerified(p)
  PROVE  Shape' /\ GrantsInv' /\ CodesQuiet /\ KeysQuiet /\ OrgsQuiet
<1>0. /\ Typed /\ db \in Tables /\ hist \in History /\ req[p] \in Locals
      /\ Len(db.invites) \in Nat
  BY InviteFacts DEF Shape, Typed
<1>1. Write /\ Goto(p, "clear") /\ req[p].pc = "mark"
  BY DEF MarkVerified, At
<1>2. PICK pair \in Nat \X Person : pair = <<req[p].session, req[p].acct>>
  BY <1>0 DEF Locals
<1>3. PICK X \in SUBSET (Nat \X Person) : X = hist.proofs \cup {pair}
  BY <1>0 DEF History
<1>4. /\ hist' \in History /\ hist'.codes = hist.codes /\ hist'.cut = hist.cut
      /\ hist'.crossed = hist.crossed /\ hist'.orgRace = hist.orgRace /\ hist'.proofs = X
      /\ hist'.founded = hist.founded /\ hist'.crossedOrgs = hist.crossedOrgs
  <2>1. hist' = [hist EXCEPT !.proofs = X]
    BY <1>2, <1>3 DEF MarkVerified
  <2>2. QED
    BY <1>0, <2>1 DEF History
<1>5. /\ db' \in Tables /\ db'.otps = db.otps /\ db'.grants = db.grants /\ db'.keys = db.keys
      /\ db'.orgs = db.orgs /\ db'.members = db.members /\ db'.invites = db.invites
  <2>1. PICK A \in [Account -> {"none", "unverified", "verified"}] :
          db' = db \/ db' = [db EXCEPT !.accounts = A]
    <3>1. Verified(req[p].acct) \in [Account -> {"none", "unverified", "verified"}]
      BY <1>0 DEF Verified, Tables
    <3>2. QED
      BY <3>1 DEF MarkVerified
  <2>2. CASE db' = db
    BY <1>0, <2>2
  <2>3. CASE db' = [db EXCEPT !.accounts = A]
    BY ZenonT(30), <1>0, <2>3 DEF Tables
  <2>4. QED
    BY <2>1, <2>2, <2>3
<1>6. Shape' /\ CodesQuiet /\ KeysQuiet /\ OrgsQuiet
  BY <1>0, <1>1, <1>4, <1>5, GoesOnFacts DEF Labels
<1>7. GrantsInv'
  <2>1. /\ req'[p].pc = "clear" /\ req'[p].acct = req[p].acct /\ req'[p].session = req[p].session
        /\ req'[p].grant = req[p].grant /\ \A q \in Request \ {p} : req'[q] = req[q]
    BY <1>0, <1>1, GotoFacts DEF Labels
  <2>2. ASSUME NEW q \in Request PROVE Exchanging(req[q])'
    <3>1. Exchanging(req[q])
      BY DEF GrantsInv
    <3>2. CASE q = p
      BY <1>2, <1>3, <1>4, <1>5, <2>1, <3>1, <3>2 DEF Exchanging
    <3>3. CASE q # p
      BY <1>3, <1>4, <1>5, <2>1, <3>1, <3>3 DEF Exchanging
    <3>4. QED
      BY <3>2, <3>3
  <2>3. \A q \in Request : req'[q].pc = "mint" => req'[q] = req[q]
    BY <2>1
  <2>4. Key' = Key /\ \A k \in Key : Redeemed(db.keys[k])'
    BY <1>5 DEF GrantsInv, Redeemed, Key
  <2>5. \A g \in 1 .. Len(db'.grants) :
          <<db'.grants[g].session, db'.grants[g].acct>> \in hist'.proofs
    BY <1>3, <1>4, <1>5 DEF GrantsInv
  <2>6. \A q, r \in Request :
          (/\ req'[q].pc = "mint" /\ req'[r].pc = "mint"
           /\ req'[q].grant # 0 /\ req'[q].grant = req'[r].grant) => q = r
    BY <2>3 DEF GrantsInv
  <2>7. QED
    BY <1>5, <2>2, <2>3, <2>4, <2>5, <2>6 DEF GrantsInv
<1>8. QED
  BY <1>6, <1>7

\* The code is spent before the grant is inserted or the pending key activated.
LEMMA DeleteOtpsStep ==
  ASSUME Shape, GrantsInv, NEW p \in Request, DeleteOtps(p)
  PROVE  /\ Shape' /\ GrantsInv' /\ CodesQuiet /\ OrgsQuiet
         /\ db'.keys = db.keys /\ hist' = hist
<1>0. /\ Typed /\ db \in Tables /\ hist \in History /\ req[p] \in Locals
      /\ Len(db.invites) \in Nat
  BY InviteFacts DEF Shape, Typed
<1>1. Write /\ hist' = hist /\ req[p].pc = "clear"
  BY DEF DeleteOtps, At
<1>2. PICK X \in SUBSET OtpRow : X \subseteq db.otps /\ db' = [db EXCEPT !.otps = X]
  <2>1. WithoutOtps(req[p].acct) \subseteq db.otps /\ db.otps \in SUBSET OtpRow
    BY <1>0 DEF WithoutOtps, Tables
  <2>2. QED
    BY <2>1 DEF DeleteOtps
<1>3. /\ db' \in Tables /\ db'.otps = X /\ db'.grants = db.grants /\ db'.keys = db.keys
      /\ db'.orgs = db.orgs /\ db'.members = db.members /\ db'.invites = db.invites
  BY <1>0, <1>2 DEF Tables
<1>4. Key' = Key
  BY <1>3 DEF Key
<1>5. CASE Finish(p)
  <2>1. Shape' /\ CodesQuiet /\ GrantsQuiet /\ OrgsQuiet
    BY <1>0, <1>1, <1>2, <1>3, <1>5, AnswersFacts
  <2>2. QED
    BY <1>1, <1>3, <2>1, GrantsStayQuiet
<1>6. CASE Goto(p, "activate")
  <2>1. Shape' /\ CodesQuiet /\ GrantsQuiet /\ OrgsQuiet
    BY <1>0, <1>1, <1>2, <1>3, <1>6, GoesOnFacts DEF Labels
  <2>2. QED
    BY <1>1, <1>3, <2>1, GrantsStayQuiet
<1>7. CASE Goto(p, "grant")
  <2>1. Shape' /\ CodesQuiet /\ OrgsQuiet
    BY <1>0, <1>1, <1>2, <1>3, <1>7, GoesOnFacts DEF Labels
  <2>2. /\ req'[p].pc = "grant" /\ req'[p].acct = req[p].acct /\ req'[p].session = req[p].session
        /\ req'[p].grant = req[p].grant /\ \A q \in Request \ {p} : req'[q] = req[q]
    BY <1>0, <1>7, GotoFacts DEF Labels
  <2>3. ASSUME NEW q \in Request PROVE Exchanging(req[q])'
    <3>1. Exchanging(req[q])
      BY DEF GrantsInv
    <3>2. CASE q = p
      BY <1>1, <1>3, <2>2, <3>1, <3>2 DEF Exchanging
    <3>3. CASE q # p
      BY <1>1, <1>3, <2>2, <3>1, <3>3 DEF Exchanging
    <3>4. QED
      BY <3>2, <3>3
  <2>4. \A q \in Request : req'[q].pc = "mint" => req'[q] = req[q]
    BY <2>2
  <2>5. \A k \in Key : Redeemed(db.keys[k])'
    BY <1>3 DEF GrantsInv, Redeemed
  <2>6. \A q, r \in Request :
          (/\ req'[q].pc = "mint" /\ req'[r].pc = "mint"
           /\ req'[q].grant # 0 /\ req'[q].grant = req'[r].grant) => q = r
    BY <2>4 DEF GrantsInv
  <2>7. GrantsInv'
    BY <1>1, <1>3, <1>4, <2>3, <2>4, <2>5, <2>6 DEF GrantsInv
  <2>8. QED
    BY <1>1, <1>3, <2>1, <2>7
<1>8. QED
  BY <1>5, <1>6, <1>7 DEF DeleteOtps

\* A key is inserted: for the account that asked, and of the grant it claimed if it is an exchange.
LEMMA InsertKeyStep ==
  ASSUME Shape, GrantsInv, NEW p \in Request, InsertSignupKey(p) \/ MintKey(p)
  PROVE  /\ Shape' /\ GrantsInv' /\ CodesQuiet /\ OrgsQuiet /\ hist' = hist
         /\ \E b \in BOOLEAN, g \in Nat : db'.keys = WithKey(req[p].acct, b, g)
         /\ \A q \in Request : KeysCalm(req[q], req'[q])
<1>0. /\ Typed /\ db \in Tables /\ hist \in History /\ req[p] \in Locals
      /\ Len(db.invites) \in Nat
  BY InviteFacts DEF Shape, Typed
<1>1. Write /\ hist' = hist
  BY DEF InsertSignupKey, MintKey
<1>2. PICK a \in Person : a = req[p].acct
  BY <1>0 DEF Locals
<1>3. PICK b \in BOOLEAN, g \in Nat :
        /\ db' = [db EXCEPT !.keys = WithKey(a, b, g)]
        /\ g # 0 => MintKey(p) /\ g = req[p].grant
  <2>1. CASE InsertSignupKey(p)
    BY <1>0, <1>2, <2>1 DEF InsertSignupKey, Locals
  <2>2. CASE MintKey(p)
    BY <1>0, <1>2, <2>2 DEF MintKey, Locals
  <2>3. QED
    BY <2>1, <2>2
<1>4. WithKey(a, b, g) \in Seq(KeyRow)
  BY <1>0, KeyFacts
<1>5. /\ db' \in Tables /\ db'.otps = db.otps /\ db'.grants = db.grants
      /\ db'.keys = WithKey(a, b, g)
      /\ db'.orgs = db.orgs /\ db'.members = db.members /\ db'.invites = db.invites
  BY <1>0, <1>3, <1>4 DEF Tables
<1>6. /\ Shape' /\ CodesQuiet /\ OrgsQuiet
      /\ \A q \in Request : GrantsCalm(req[q], req'[q])
      /\ \A q \in Request : KeysCalm(req[q], req'[q])
  <2>1. CASE InsertSignupKey(p)
    <3>1. PICK l \in {"otp", "join"} : Goto(p, l) /\ (l = "join" => req[p].invite # 0)
      BY <2>1 DEF InsertSignupKey, JoinThen
    <3>2. QED
      BY <1>0, <1>1, <1>5, <3>1, GoesOnFacts DEF Labels
  <2>2. CASE MintKey(p)
    <3>1. Finish(p)
      BY <2>2 DEF MintKey
    <3>2. QED
      BY <1>0, <1>1, <1>5, <3>1, AnswersFacts DEF Calm
  <2>3. QED
    BY <2>1, <2>2
<1>7. g # 0 => /\ g = req[p].grant /\ a = req[p].acct /\ req[p].pc = "mint"
               /\ \A q \in Request \ {p} : req'[q] = req[q]
               /\ req'[p] = Blank
  <2>1. MintKey(p) => Finish(p) /\ req[p].pc = "mint"
    BY DEF MintKey, At
  <2>2. Finish(p) => req'[p] = Blank /\ \A q \in Request \ {p} : req'[q] = req[q]
    BY <1>0, FinishFacts
  <2>3. QED
    BY <1>2, <1>3, <2>1, <2>2
<1>8. GrantsInv'
  BY <1>1, <1>5, <1>6, <1>7, GrantsWithKey
<1>9. QED
  BY <1>1, <1>2, <1>5, <1>6, <1>8

\* The grant is for the account whose code was presented.
LEMMA InsertGrantStep ==
  ASSUME Shape, GrantsInv, NEW p \in Request, InsertGrant(p)
  PROVE  Shape' /\ GrantsInv' /\ CodesQuiet /\ KeysQuiet /\ OrgsQuiet
<1>0. /\ Typed /\ db \in Tables /\ hist \in History /\ req[p] \in Locals
      /\ Len(db.invites) \in Nat /\ Len(db.grants) \in Nat
  BY InviteFacts, GrantFacts DEF Shape, Typed
<1>1. Write /\ hist' = hist /\ Goto(p, "endSession") /\ req[p].pc = "grant"
  BY DEF InsertGrant, At
<1>2. PICK a \in Person, s \in Nat : a = req[p].acct /\ s = req[p].session
  BY <1>0 DEF Locals
<1>3. PICK X \in Seq(GrantRow) :
        /\ X = WithGrant(a, s) /\ Len(X) = Len(db.grants) + 1
        /\ \A g \in 1 .. Len(db.grants) : X[g] = db.grants[g]
        /\ X[Len(db.grants) + 1].acct = a /\ X[Len(db.grants) + 1].session = s
  BY SMTT(30), <1>0, GrantFacts
<1>4. db' = [db EXCEPT !.grants = X]
  BY <1>2, <1>3 DEF InsertGrant
<1>5. /\ db' \in Tables /\ db'.otps = db.otps /\ db'.grants = X /\ db'.keys = db.keys
      /\ db'.orgs = db.orgs /\ db'.members = db.members /\ db'.invites = db.invites
  BY <1>0, <1>4 DEF Tables
<1>6. Shape' /\ CodesQuiet /\ KeysQuiet /\ OrgsQuiet
  BY <1>0, <1>1, <1>5, GoesOnFacts DEF Labels
<1>7. GrantsInv'
  <2>1. /\ req'[p].pc = "endSession" /\ req'[p].acct = req[p].acct
        /\ req'[p].grant = req[p].grant /\ \A q \in Request \ {p} : req'[q] = req[q]
    BY <1>0, <1>1, GotoFacts DEF Labels
  <2>2. ASSUME NEW q \in Request PROVE Exchanging(req[q])'
    <3>1. Exchanging(req[q]) /\ req[q].grant \in Nat
      BY DEF GrantsInv, Shape, Typed, Locals
    <3>2. /\ req'[q].grant = req[q].grant /\ req'[q].acct = req[q].acct
          /\ req'[q].pc = "endSession" \/ req'[q] = req[q]
      BY <2>1
    <3>3. req[q].grant # 0 => X[req[q].grant] = db.grants[req[q].grant]
      BY <1>0, <1>3, <3>1 DEF Exchanging
    <3>4. req[q].grant <= Len(X)
      BY <1>0, <1>3, <3>1 DEF Exchanging
    <3>5. QED
      BY <1>1, <1>5, <3>1, <3>2, <3>3, <3>4 DEF Exchanging
  <2>3. ASSUME NEW k \in Key PROVE Redeemed(db.keys[k])'
    <3>1. Redeemed(db.keys[k]) /\ db.keys[k].grant \in Nat
      BY <1>0, KeyFacts DEF GrantsInv, KeyRow
    <3>2. db.keys[k].grant # 0 => X[db.keys[k].grant] = db.grants[db.keys[k].grant]
      BY <1>0, <1>3, <3>1 DEF Redeemed
    <3>3. db.keys[k].grant <= Len(X)
      BY <1>0, <1>3, <3>1 DEF Redeemed
    <3>4. QED
      BY <1>5, <3>1, <3>2, <3>3 DEF Redeemed
  <2>4. Key' = Key
    BY <1>5 DEF Key
  <2>5. \A q \in Request : req'[q].pc = "mint" => req'[q] = req[q]
    BY <2>1
  <2>6. \A q, r \in Request :
          (/\ req'[q].pc = "mint" /\ req'[r].pc = "mint"
           /\ req'[q].grant # 0 /\ req'[q].grant = req'[r].grant) => q = r
    BY <2>5 DEF GrantsInv
  <2>7. ASSUME NEW g \in 1 .. Len(X) PROVE <<X[g].session, X[g].acct>> \in hist.proofs
    <3>1. CASE g \in 1 .. Len(db.grants)
      BY <1>3, <3>1 DEF GrantsInv
    <3>2. CASE g = Len(db.grants) + 1
      BY <1>1, <1>2, <1>3, <3>2 DEF GrantsInv, Exchanging
    <3>3. QED
      BY <1>0, <1>3, <3>1, <3>2
  <2>8. \A q \in Request, k \in Key :
          req'[q].pc = "mint" /\ req'[q].grant # 0 => db.keys[k].grant # req'[q].grant
    BY <2>5 DEF GrantsInv
  <2>9. \A k, j \in Key : db.keys[k].grant # 0 /\ db.keys[k].grant = db.keys[j].grant => k = j
    BY DEF GrantsInv
  <2>10. QED
    BY <1>1, <1>5, <2>2, <2>3, <2>4, <2>6, <2>7, <2>8, <2>9 DEF GrantsInv
<1>8. QED
  BY <1>6, <1>7

\* An exchange begins with a grant, which the purge may delete under it.
LEMMA ExchangeStartStep ==
  ASSUME Shape, GrantsInv, NEW p \in Request, NEW g \in 1 .. Len(db.grants), ExchangeStart(p, g)
  PROVE  Shape' /\ GrantsInv' /\ CodesQuiet /\ KeysQuiet /\ OrgsQuiet
<1>0. /\ Typed /\ db \in Tables /\ hist \in History /\ Len(db.invites) \in Nat
      /\ Len(db.grants) \in Nat
  BY InviteFacts, GrantFacts DEF Shape, Typed
<1>1. PICK a \in Person : a = db.grants[g].acct
  BY <1>0, GrantFacts DEF GrantRow
<1>2. PICK r : r = [Blank EXCEPT !.grant = g, !.acct = a, !.pc = "claim"]
  OBVIOUS
<1>3. /\ r \in Locals /\ r.invite = 0 /\ ~ r.pending /\ r.at = 0 /\ r.grant = g
      /\ r.org = 0 /\ r.pc = "claim" /\ r.acct = a
  <2>1. g \in Nat
    BY <1>0
  <2>2. QED
    BY <1>1, <1>2, <2>1, BlankFacts DEF Locals, Labels
<1>4. Begin(p, "exchange", r) /\ Write /\ hist' = hist
  BY <1>1, <1>2 DEF ExchangeStart
<1>5. PICK X \in Seq(GrantRow) :
        /\ X = Purged(db.grants) /\ Len(X) = Len(db.grants)
        /\ \A h \in 1 .. Len(db.grants) : /\ X[h].acct = db.grants[h].acct
                                          /\ X[h].session = db.grants[h].session
                                          /\ X[h].used = db.grants[h].used
  BY <1>0, GrantFacts
<1>6. db' = [db EXCEPT !.grants = X]
  BY <1>5 DEF ExchangeStart
<1>7. /\ db' \in Tables /\ db'.otps = db.otps /\ db'.grants = X /\ db'.keys = db.keys
      /\ db'.orgs = db.orgs /\ db'.members = db.members /\ db'.invites = db.invites
  BY <1>0, <1>6 DEF Tables
<1>8. /\ req' \in [Request -> Locals] /\ \A q \in Request \ {p} : req'[q] = req[q]
      /\ req[p] = Blank /\ req'[p].pc = "claim" /\ req'[p].acct = a /\ ~ req'[p].pending
      /\ req'[p].at = 0 /\ req'[p].invite = 0 /\ req'[p].org = 0 /\ req'[p].grant = g
      /\ req'[p].op = "exchange"
  BY <1>0, <1>3, <1>4, BeginFacts DEF Ops
<1>9. Shape' /\ CodesQuiet /\ KeysQuiet /\ OrgsQuiet
  <2>1. CodesCalm(req[p], req'[p]) /\ KeysCalm(req[p], req'[p]) /\ OrgsCalm(req[p], req'[p])
    BY <1>8 DEF CodesCalm, KeysCalm, OrgsCalm
  <2>2. /\ Len(db.invites) <= Len(db'.invites) /\ req'[p].invite \in {0, req[p].invite}
        /\ req'[p].pc \notin {"join", "accept", "insertInvite"}
    BY <1>0, <1>7, <1>8
  <2>3. QED
    BY <1>0, <1>4, <1>7, <1>8, <2>1, <2>2, WriteFacts
<1>10. GrantsInv'
  <2>1. ASSUME NEW q \in Request PROVE Exchanging(req[q])'
    <3>1. Exchanging(req[q]) /\ req[q].grant \in Nat
      BY DEF GrantsInv, Shape, Typed, Locals
    <3>2. CASE q = p
      <4>1. g <= Len(X) /\ X[g].acct = a /\ g # 0
        BY <1>0, <1>1, <1>5
      <4>2. QED
        BY <1>7, <1>8, <3>2, <4>1 DEF Exchanging
    <3>3. CASE q # p
      <4>1. req[q].grant # 0 => req[q].grant \in 1 .. Len(db.grants)
        BY <1>0, <3>1 DEF Exchanging
      <4>2. QED
        BY SMTT(30), <1>4, <1>5, <1>7, <1>8, <3>1, <3>3, <4>1 DEF Exchanging
    <3>4. QED
      BY <3>2, <3>3
  <2>2. ASSUME NEW k \in Key PROVE Redeemed(db.keys[k])'
    <3>1. Redeemed(db.keys[k]) /\ db.keys[k].grant \in Nat
      BY <1>0, KeyFacts DEF GrantsInv, KeyRow
    <3>2. db.keys[k].grant # 0 => db.keys[k].grant \in 1 .. Len(db.grants)
      BY <1>0, <3>1 DEF Redeemed
    <3>3. QED
      BY <1>5, <1>7, <3>1, <3>2 DEF Redeemed
  <2>3. Key' = Key
    BY <1>7 DEF Key
  <2>4. \A q \in Request : req'[q].pc = "mint" => req'[q] = req[q]
    BY <1>8
  <2>5. \A q, s \in Request :
          (/\ req'[q].pc = "mint" /\ req'[s].pc = "mint"
           /\ req'[q].grant # 0 /\ req'[q].grant = req'[s].grant) => q = s
    BY <2>4 DEF GrantsInv
  <2>6. \A q \in Request, k \in Key :
          req'[q].pc = "mint" /\ req'[q].grant # 0 => db.keys[k].grant # req'[q].grant
    BY <2>4 DEF GrantsInv
  <2>7. \A h \in 1 .. Len(X) : <<X[h].session, X[h].acct>> \in hist.proofs
    BY <1>5 DEF GrantsInv
  <2>8. \A k, j \in Key : db.keys[k].grant # 0 /\ db.keys[k].grant = db.keys[j].grant => k = j
    BY DEF GrantsInv
  <2>9. QED
    BY <1>4, <1>7, <2>1, <2>2, <2>3, <2>5, <2>6, <2>7, <2>8 DEF GrantsInv
<1>11. QED
  BY <1>9, <1>10

\* A grant is claimed by one exchange: nobody has minted its key, nobody is about to.
LEMMA ClaimGrantStep ==
  ASSUME Shape, GrantsInv, NEW p \in Request, ClaimGrant(p)
  PROVE  Shape' /\ GrantsInv' /\ CodesQuiet /\ KeysQuiet /\ OrgsQuiet
<1>0. /\ Typed /\ db \in Tables /\ hist \in History /\ req[p] \in Locals
      /\ Len(db.invites) \in Nat /\ Len(db.grants) \in Nat
  BY InviteFacts, GrantFacts DEF Shape, Typed
<1>1. Write /\ hist' = hist /\ req[p].pc = "claim"
  BY DEF ClaimGrant, At
<1>2. PICK g \in 1 .. Len(db.grants) : g = req[p].grant
  <2>1. req[p].grant \in Nat /\ Exchanging(req[p])
    BY <1>0 DEF GrantsInv, Locals
  <2>2. req[p].grant # 0 /\ req[p].grant <= Len(db.grants)
    BY <1>1, <2>1 DEF Exchanging
  <2>3. QED
    BY <1>0, <2>1, <2>2
<1>3. CASE ~ Claimable(g)
  <2>1. Finish(p) /\ db' = db
    BY <1>2, <1>3 DEF ClaimGrant
  <2>2. Shape' /\ CodesQuiet /\ GrantsQuiet /\ KeysQuiet /\ OrgsQuiet
    BY <1>0, <1>1, <2>1, AnswersFacts
  <2>3. QED
    BY <2>2, GrantsStayQuiet
<1>4. CASE Claimable(g)
  <2>1. PICK X : X = [db.grants EXCEPT ![g].used = TRUE]
    OBVIOUS
  <2>2. /\ X \in Seq(GrantRow) /\ Len(X) = Len(db.grants)
        /\ \A h \in 1 .. Len(db.grants) : /\ X[h].acct = db.grants[h].acct
                                          /\ X[h].session = db.grants[h].session
                                          /\ X[h].used = IF h = g THEN TRUE ELSE db.grants[h].used
    <3>1. /\ DOMAIN db.grants = 1 .. Len(db.grants)
          /\ \A h \in 1 .. Len(db.grants) : db.grants[h] \in GrantRow
          /\ X \in [1 .. Len(db.grants) -> GrantRow] => X \in Seq(GrantRow) /\ Len(X) = Len(db.grants)
      BY <1>0, RowFacts DEF Tables
    <3>2. \A h \in 1 .. Len(db.grants) :
            X[h] = IF h = g THEN [db.grants[h] EXCEPT !.used = TRUE] ELSE db.grants[h]
      BY <1>2, <2>1, <3>1
    <3>3. \A h \in 1 .. Len(db.grants) : [db.grants[h] EXCEPT !.used = TRUE] \in GrantRow
      BY <3>1 DEF GrantRow
    <3>4. X \in [1 .. Len(db.grants) -> GrantRow]
      <4>1. X = [h \in 1 .. Len(db.grants) |-> X[h]]
        BY <2>1, <3>1
      <4>2. QED
        BY <3>1, <3>2, <3>3, <4>1
    <3>5. \A h \in 1 .. Len(db.grants) :
            /\ X[h].acct = db.grants[h].acct /\ X[h].session = db.grants[h].session
            /\ X[h].used = IF h = g THEN TRUE ELSE db.grants[h].used
      BY <3>1, <3>2 DEF GrantRow
    <3>6. QED
      BY <3>1, <3>4, <3>5
  <2>3. db' = [db EXCEPT !.grants = X] /\ Goto(p, "mint")
    BY <1>0, <1>2, <1>4, <2>1 DEF ClaimGrant, Tables
  <2>4. /\ db' \in Tables /\ db'.otps = db.otps /\ db'.grants = X /\ db'.keys = db.keys
        /\ db'.orgs = db.orgs /\ db'.members = db.members /\ db'.invites = db.invites
    BY <1>0, <2>2, <2>3 DEF Tables
  <2>5. Shape' /\ CodesQuiet /\ KeysQuiet /\ OrgsQuiet
    BY <1>0, <1>1, <2>3, <2>4, GoesOnFacts DEF Labels
  <2>6. /\ req'[p].pc = "mint" /\ req'[p].acct = req[p].acct /\ req'[p].grant = g
        /\ \A q \in Request \ {p} : req'[q] = req[q]
    BY <1>0, <1>2, <2>3, GotoFacts DEF Labels
  <2>7. ~ db.grants[g].used
    BY <1>4 DEF Claimable
  <2>8. ASSUME NEW q \in Request PROVE Exchanging(req[q])'
    <3>1. Exchanging(req[q]) /\ req[q].grant \in Nat
      BY DEF GrantsInv, Shape, Typed, Locals
    <3>2. req[q].grant # 0 => req[q].grant \in 1 .. Len(db.grants)
      BY <1>0, <3>1 DEF Exchanging
    <3>3. \A h \in 1 .. Len(db.grants) : db.grants[h].used => X[h].used
      BY <2>2
    <3>4. X[g].used /\ X[g].acct = db.grants[g].acct
      BY <1>2, <2>2
    <3>5. CASE q = p
      <4>1. /\ req'[q].grant = g /\ req'[q].acct = X[g].acct /\ g <= Len(X)
            /\ req'[q].pc = "mint" /\ db'.grants = X
        BY <1>0, <1>2, <2>2, <2>4, <2>6, <3>1, <3>2, <3>4, <3>5 DEF Exchanging
      <4>2. QED
        BY <3>4, <4>1 DEF Exchanging
    <3>6. CASE q # p
      <4>1. req'[q] = req[q] /\ db'.grants = X /\ Len(X) = Len(db.grants) /\ hist' = hist
        BY <1>1, <2>2, <2>4, <2>6, <3>6
      <4>2. CASE req[q].grant = 0
        BY <3>1, <4>1, <4>2 DEF Exchanging
      <4>3. CASE req[q].grant # 0
        <5>1. /\ X[req[q].grant].acct = db.grants[req[q].grant].acct
              /\ db.grants[req[q].grant].used => X[req[q].grant].used
          BY <2>2, <3>2, <3>3, <4>3
        <5>2. QED
          BY <3>1, <4>1, <5>1 DEF Exchanging
      <4>4. QED
        BY <4>2, <4>3
    <3>7. QED
      BY <3>5, <3>6
  <2>9. ASSUME NEW k \in Key PROVE Redeemed(db.keys[k])' /\ db.keys[k].grant # g
    <3>1. Redeemed(db.keys[k]) /\ db.keys[k].grant \in Nat
      BY <1>0, KeyFacts DEF GrantsInv, KeyRow
    <3>2. db.keys[k].grant # 0 => db.keys[k].grant \in 1 .. Len(db.grants)
      BY <1>0, <3>1 DEF Redeemed
    <3>3. db.keys[k].grant # g
      BY <1>0, <2>7, <3>1 DEF Redeemed
    <3>4. QED
      BY <2>2, <2>4, <3>1, <3>2, <3>3 DEF Redeemed
  <2>10. Key' = Key
    BY <2>4 DEF Key
  <2>11. \A q \in Request \ {p} : req[q].pc = "mint" /\ req[q].grant # 0 => req[q].grant # g
    BY <2>7 DEF GrantsInv, Exchanging
  <2>12. \A q, r \in Request :
           (/\ req'[q].pc = "mint" /\ req'[r].pc = "mint"
            /\ req'[q].grant # 0 /\ req'[q].grant = req'[r].grant) => q = r
    BY <2>6, <2>11 DEF GrantsInv
  <2>13. \A q \in Request, k \in Key :
           req'[q].pc = "mint" /\ req'[q].grant # 0 => db.keys[k].grant # req'[q].grant
    BY <2>6, <2>9 DEF GrantsInv
  <2>14. \A h \in 1 .. Len(X) : <<X[h].session, X[h].acct>> \in hist.proofs
    BY <2>2 DEF GrantsInv
  <2>15. \A k, j \in Key : db.keys[k].grant # 0 /\ db.keys[k].grant = db.keys[j].grant => k = j
    BY DEF GrantsInv
  <2>16. GrantsInv'
    BY <1>1, <2>4, <2>8, <2>9, <2>10, <2>12, <2>13, <2>14, <2>15 DEF GrantsInv
  <2>17. QED
    BY <2>5, <2>16
<1>5. QED
  BY <1>3, <1>4

-----------------------------------------------------------------------------
(* Keys *)

Apart == hist.cut \cup hist.crossed

\* A request that verifies with a pending key: nobody has revoked the key under
\* it, unless in one of the ways that KeepsAKey excepts.
Verifying(r) ==
    /\ r.pending => /\ r.op = "verify" /\ r.key \in Key /\ db.keys[r.key].acct = r.acct
                    /\ r.acct \notin Apart => ~ db.keys[r.key].revoked
    /\ r.pc \in {"activate", "revokeOthers"} => r.pending
    /\ r.pc = "revokeOthers" => db.keys[r.key].active

KeysInv == KeepsAKey /\ \A p \in Request : Verifying(req[p])

KeepsLive ==
    \A a \in Account \ Apart :
        (\E k \in Key : db.keys[k].acct = a /\ db.keys[k].active) =>
            (\E k \in Key : /\ db.keys[k].acct = a /\ db.keys[k].active /\ ~ db.keys[k].revoked)

\* KeepsAKey without the operator, whose token is no key.
LEMMA KeepsFacts == (KeepsAKey <=> KeepsLive) /\ (KeepsAKey' <=> KeepsLive')
<1>1. \A a \in Account : a # Operator
  BY IdentityAssumption
<1>2. KeepsAKey <=> KeepsLive
  BY <1>1 DEF KeepsAKey, KeepsLive, Apart, OfAccount, Holds, KeyLive
<1>3. KeepsAKey' <=> KeepsLive'
  BY <1>1 DEF KeepsAKey, KeepsLive, Apart, OfAccount, Holds, KeyLive
<1>4. QED
  BY <1>2, <1>3

\* A quiet step keeps the invariant.
LEMMA KeysStayQuiet ==
  ASSUME KeysInv, KeysQuiet PROVE KeysInv'
<1>1. /\ db'.keys = db.keys /\ hist'.cut = hist.cut /\ hist'.crossed = hist.crossed
      /\ \A q \in Request : KeysCalm(req[q], req'[q])
  BY DEF KeysQuiet
<1>2. Key' = Key /\ Apart' = Apart
  BY <1>1 DEF Key, Apart
<1>3. KeepsAKey'
  BY <1>1, <1>2 DEF KeysInv, KeepsAKey, Apart, OfAccount, Holds, KeyLive
<1>4. ASSUME NEW p \in Request PROVE Verifying(req[p])'
  <2>1. Verifying(req[p]) /\ KeysCalm(req[p], req'[p])
    BY <1>1 DEF KeysInv
  <2>2. QED
    BY <1>1, <1>2, <2>1 DEF Verifying, KeysCalm
<1>5. QED
  BY <1>3, <1>4 DEF KeysInv

\* Keys are revoked: none that a request verifies with, and not the last of an
\* account, or else the account is set apart.
LEMMA KeysRevoked ==
  ASSUME Shape, KeysInv, NEW S, db'.keys = RevokedKeys(S), Apart \subseteq Apart',
         \A q \in Request : KeysCalm(req[q], req'[q]),
         \A q \in Request : req'[q].pending /\ req'[q].acct \notin Apart' => req'[q].key \notin S,
         \A a \in Account \ Apart' :
            \/ \A k \in Key \cap S : db.keys[k].acct # a
            \/ \E k \in Key \ S : /\ db.keys[k].acct = a /\ db.keys[k].active /\ ~ db.keys[k].revoked
  PROVE  KeysInv'
<1>1. /\ Len(db'.keys) = Len(db.keys)
      /\ \A k \in Key : /\ db'.keys[k].acct = db.keys[k].acct
                        /\ db'.keys[k].revoked = (db.keys[k].revoked \/ k \in S)
                        /\ db'.keys[k].active = db.keys[k].active
  BY KeyFacts DEF Shape
<1>2. Key' = Key
  BY <1>1 DEF Key
<1>3. KeepsAKey'
  <2> SUFFICES ASSUME NEW a \in Account \ Apart', NEW j \in Key,
                      db'.keys[j].acct = a, db'.keys[j].active
               PROVE  \E k \in Key : /\ db'.keys[k].acct = a /\ db'.keys[k].active
                                     /\ ~ db'.keys[k].revoked
    BY <1>2, KeepsFacts DEF KeepsLive
  <2>1. CASE \A k \in Key \cap S : db.keys[k].acct # a
    <3>1. a \in Account \ Apart /\ db.keys[j].acct = a /\ db.keys[j].active
      BY <1>1
    <3>2. PICK k \in Key : db.keys[k].acct = a /\ db.keys[k].active /\ ~ db.keys[k].revoked
      BY <3>1, KeepsFacts DEF KeysInv, KeepsLive
    <3>3. k \notin S
      BY <2>1, <3>2
    <3>4. db'.keys[k].acct = a /\ db'.keys[k].active /\ ~ db'.keys[k].revoked
      BY <1>1, <3>2, <3>3
    <3>5. QED
      BY <3>4
  <2>2. CASE \E k \in Key \ S : /\ db.keys[k].acct = a /\ db.keys[k].active /\ ~ db.keys[k].revoked
    <3>1. PICK k \in Key \ S : /\ db.keys[k].acct = a /\ db.keys[k].active /\ ~ db.keys[k].revoked
      BY <2>2
    <3>2. db'.keys[k].acct = a /\ db'.keys[k].active /\ ~ db'.keys[k].revoked
      BY <1>1, <3>1
    <3>3. QED
      BY <3>2
  <2>3. QED
    BY <2>1, <2>2
<1>4. ASSUME NEW p \in Request PROVE Verifying(req[p])'
  <2>1. Verifying(req[p]) /\ KeysCalm(req[p], req'[p])
    BY DEF KeysInv
  <2>2. req'[p].pending =>
          /\ req[p].pending /\ req'[p].op = req[p].op /\ req'[p].key = req[p].key
          /\ req'[p].acct = req[p].acct /\ req[p].key \in Key
    BY <2>1 DEF KeysCalm, Verifying
  <2>3. req'[p].pc \in {"activate", "revokeOthers"} => req'[p] = req[p]
    BY <2>1 DEF KeysCalm
  <2>4. req'[p].pending /\ req'[p].acct \notin Apart' => ~ db'.keys[req'[p].key].revoked
    <3> SUFFICES ASSUME req'[p].pending, req'[p].acct \notin Apart'
                 PROVE  ~ db'.keys[req'[p].key].revoked
      OBVIOUS
    <3>1. ~ db.keys[req[p].key].revoked /\ req[p].key \notin S
      BY <2>1, <2>2 DEF Verifying
    <3>2. QED
      BY <1>1, <2>2, <3>1
  <2>5. QED
    BY <1>1, <1>2, <2>1, <2>2, <2>3, <2>4 DEF Verifying
<1>5. QED
  BY <1>3, <1>4 DEF KeysInv

\* A key is inserted.
LEMMA KeysWithKey ==
  ASSUME Shape, KeysInv, NEW a \in Person, NEW b \in BOOLEAN, NEW g \in Nat,
         db'.keys = WithKey(a, b, g), hist'.cut = hist.cut, hist'.crossed = hist.crossed,
         \A q \in Request : KeysCalm(req[q], req'[q])
  PROVE  KeysInv'
<1>0. Typed /\ Len(db.keys) \in Nat
  BY KeyFacts DEF Shape
<1> DEFINE n == Len(db.keys) + 1
<1>1. PICK row : row = [acct |-> a, active |-> b, revoked |-> FALSE, grant |-> g]
  OBVIOUS
<1>2. /\ Len(db'.keys) = n /\ db'.keys[n] = row /\ row.active = b /\ row.revoked = FALSE
      /\ \A k \in Key : db'.keys[k] = db.keys[k]
  BY <1>0, <1>1, KeyFacts
<1>3. Key \subseteq Key' /\ n \in Key' /\ \A k \in Key' : k \in Key \/ k = n
  BY <1>0, <1>2 DEF Key
<1> HIDE DEF n
<1>4. Apart' = Apart
  BY DEF Apart
<1>5. KeepsAKey'
  <2> SUFFICES ASSUME NEW c \in Account \ Apart, NEW j \in Key',
                      db'.keys[j].acct = c, db'.keys[j].active
               PROVE  \E k \in Key' : /\ db'.keys[k].acct = c /\ db'.keys[k].active
                                      /\ ~ db'.keys[k].revoked
    BY <1>4, KeepsFacts DEF KeepsLive
  <2>1. CASE j = n
    BY <1>2, <1>3, <2>1
  <2>2. CASE j \in Key
    <3>1. PICK k \in Key : db.keys[k].acct = c /\ db.keys[k].active /\ ~ db.keys[k].revoked
      BY <1>2, <2>2, KeepsFacts DEF KeysInv, KeepsLive
    <3>2. k \in Key' /\ db'.keys[k] = db.keys[k]
      BY <1>2, <1>3
    <3>3. QED
      BY <3>1, <3>2
  <2>3. QED
    BY <1>3, <2>1, <2>2
<1>6. ASSUME NEW p \in Request PROVE Verifying(req[p])'
  <2>1. Verifying(req[p]) /\ KeysCalm(req[p], req'[p])
    BY DEF KeysInv
  <2>2. req'[p].pending =>
          /\ req[p].pending /\ req'[p].op = req[p].op /\ req'[p].key = req[p].key
          /\ req'[p].acct = req[p].acct /\ req[p].key \in Key
          /\ db'.keys[req[p].key] = db.keys[req[p].key] /\ req[p].key \in Key'
    BY <1>2, <1>3, <2>1 DEF KeysCalm, Verifying
  <2>3. req'[p].pc \in {"activate", "revokeOthers"} => req'[p] = req[p]
    BY <2>1 DEF KeysCalm
  <2>4. QED
    BY <1>4, <2>1, <2>2, <2>3 DEF Verifying
<1>7. QED
  BY <1>5, <1>6 DEF KeysInv

\* A pending key is taken up while nobody has revoked it.
LEMMA VerifyStartStep ==
  ASSUME Shape, KeysInv, NEW p \in Request, NEW k \in Key, NEW guess \in hist.mailed \cup {0},
         VerifyStart(p, k, guess)
  PROVE  Shape' /\ KeysInv' /\ CodesQuiet /\ GrantsQuiet /\ OrgsQuiet
<1>0. /\ Typed /\ db \in Tables /\ hist \in History /\ guess \in Nat /\ k \in Nat
      /\ db.keys[k] \in KeyRow /\ Len(db.invites) \in Nat
  BY SMTT(30), InviteFacts, KeyFacts DEF Shape, Typed, History, Key
<1>1. PICK a \in Person, pending \in BOOLEAN, verified \in BOOLEAN :
        /\ a = db.keys[k].acct /\ pending = (~ db.keys[k].active)
        /\ verified = (db.accounts[db.keys[k].acct] = "verified")
  BY <1>0 DEF KeyRow
<1>2. PICK r : r = [Blank EXCEPT !.acct = a, !.key = k, !.guess = guess, !.pending = pending,
                                 !.verified = verified, !.pc = "check"]
  OBVIOUS
<1>3. /\ r \in Locals /\ r.invite = 0 /\ r.pending = pending /\ r.at = 0 /\ r.grant = 0
      /\ r.org = 0 /\ r.pc = "check" /\ r.acct = a /\ r.key = k
  <2>1. guess \in Nat /\ k \in Nat
    BY <1>0
  <2>2. QED
    BY ZenonT(30), <2>1, <1>2, BlankFacts DEF Locals, Labels
<1>4. Begin(p, "verify", r) /\ Local /\ ~ db.keys[k].revoked
  BY <1>1, <1>2 DEF VerifyStart
<1>5. /\ req' \in [Request -> Locals] /\ \A q \in Request \ {p} : req'[q] = req[q]
      /\ req[p] = Blank /\ req'[p].pc = "check" /\ req'[p].acct = a /\ req'[p].pending = pending
      /\ req'[p].at = 0 /\ req'[p].invite = 0 /\ req'[p].org = 0 /\ req'[p].grant = 0
      /\ req'[p].op = "verify" /\ req'[p].key = k
  BY <1>0, <1>3, <1>4, BeginFacts DEF Ops
<1>6. Shape' /\ CodesQuiet /\ GrantsQuiet /\ OrgsQuiet
  <2>1. CodesCalm(req[p], req'[p]) /\ GrantsCalm(req[p], req'[p]) /\ OrgsCalm(req[p], req'[p])
    BY <1>5 DEF CodesCalm, GrantsCalm, OrgsCalm
  <2>2. /\ req'[p].invite <= Len(db.invites)
        /\ req'[p].pc \notin {"join", "accept", "insertInvite"}
    BY <1>0, <1>5
  <2>3. QED
    BY <1>4, <1>5, <2>1, <2>2, LocalFacts
<1>7. KeysInv'
  <2>1. db' = db /\ hist' = hist /\ Key' = Key /\ Apart' = Apart
    BY <1>4 DEF Local, Key, Apart
  <2>2. KeepsAKey'
    BY <2>1, KeepsFacts DEF KeysInv, KeepsLive
  <2>3. ASSUME NEW q \in Request PROVE Verifying(req[q])'
    <3>1. CASE q = p
      BY <1>1, <1>4, <1>5, <2>1, <3>1 DEF Verifying
    <3>2. CASE q # p
      BY <1>5, <2>1, <3>2 DEF KeysInv, Verifying
    <3>3. QED
      BY <3>1, <3>2
  <2>4. QED
    BY <2>2, <2>3 DEF KeysInv
<1>8. QED
  BY <1>6, <1>7

\* Its code is spent: the request goes on to activate the key only if it is pending.
LEMMA SpentStep ==
  ASSUME Shape, KeysInv, NEW p \in Request, DeleteOtps(p), db'.keys = db.keys, hist' = hist
  PROVE  KeysInv'
<1>1. Key' = Key /\ Apart' = Apart
  BY DEF Key, Apart
<1>2. KeepsAKey'
  BY <1>1, KeepsFacts DEF KeysInv, KeepsLive
<1>3. CASE Finish(p)
  <2>1. req'[p] = Blank /\ \A q \in Request \ {p} : req'[q] = req[q]
    BY <1>3, FinishFacts DEF Shape
  <2>2. \A q \in Request : KeysCalm(req[q], req'[q])
    BY <2>1, BlankFacts DEF KeysCalm
  <2>3. QED
    BY <2>2, KeysStayQuiet DEF KeysQuiet
<1>4. ASSUME NEW l \in {"grant", "activate"}, Goto(p, l), l = "activate" => req[p].pending
      PROVE  KeysInv'
  <2>1. /\ req'[p].pc = l /\ req'[p].acct = req[p].acct /\ req'[p].key = req[p].key
        /\ req'[p].op = req[p].op /\ req'[p].pending = req[p].pending
        /\ \A q \in Request \ {p} : req'[q] = req[q]
    BY <1>4, GotoFacts DEF Labels, Shape
  <2>2. ASSUME NEW q \in Request PROVE Verifying(req[q])'
    <3>1. Verifying(req[q])
      BY DEF KeysInv
    <3>2. CASE q = p
      BY <1>1, <1>4, <2>1, <3>1, <3>2 DEF Verifying
    <3>3. CASE q # p
      BY <1>1, <2>1, <3>1, <3>3 DEF Verifying
    <3>4. QED
      BY <3>2, <3>3
  <2>3. QED
    BY <1>2, <2>2 DEF KeysInv
<1>5. \/ Finish(p)
      \/ \E l \in {"grant", "activate"} : Goto(p, l) /\ (l = "activate" => req[p].pending)
  BY DEF DeleteOtps
<1>6. QED
  BY <1>3, <1>4, <1>5

\* The statements on keys that leave the grants, codes and orgs alone.
LEMMA KeyRowsQuiet ==
  ASSUME Shape, NEW p \in Request, Write, Finish(p) \/ Goto(p, "revokeOthers"),
         NEW ks \in Seq(KeyRow), db' = [db EXCEPT !.keys = ks], Len(ks) = Len(db.keys),
         \A k \in Key : ks[k].grant = db.keys[k].grant /\ ks[k].acct = db.keys[k].acct,
         hist' \in History, hist'.codes = hist.codes, hist'.proofs = hist.proofs,
         hist'.founded = hist.founded, hist'.crossedOrgs = hist.crossedOrgs,
         hist'.orgRace = hist.orgRace
  PROVE  Shape' /\ CodesQuiet /\ GrantsQuiet /\ OrgsQuiet
<1>0. Typed /\ db \in Tables /\ Len(db.invites) \in Nat
  BY InviteFacts DEF Shape, Typed
<1>1. /\ db' \in Tables /\ db'.otps = db.otps /\ db'.grants = db.grants /\ db'.keys = ks
      /\ db'.orgs = db.orgs /\ db'.members = db.members /\ db'.invites = db.invites
  BY <1>0 DEF Tables
<1>2. Shape' /\ CodesQuiet /\ OrgsQuiet /\ \A q \in Request : GrantsCalm(req[q], req'[q])
  <2>1. CASE Finish(p)
    BY SMTT(30), <1>0, <1>1, <2>1, AnswersFacts DEF Calm
  <2>2. CASE Goto(p, "revokeOthers")
    BY <1>0, <1>1, <2>2, GoesOnFacts DEF Labels
  <2>3. QED
    BY <2>1, <2>2
<1>3. GrantsQuiet
  BY <1>1, <1>2 DEF GrantsQuiet
<1>4. QED
  BY <1>2, <1>3

\* The pending key becomes active: it is not revoked, so its account has a live one.
LEMMA ActivateKeyStep ==
  ASSUME Shape, KeysInv, NEW p \in Request, ActivateKey(p)
  PROVE  Shape' /\ KeysInv' /\ CodesQuiet /\ GrantsQuiet /\ OrgsQuiet
<1>0. Typed /\ db \in Tables /\ hist \in History
  BY DEF Shape, Typed
<1>1. Write /\ hist' = hist /\ Goto(p, "revokeOthers") /\ req[p].pc = "activate"
  BY DEF ActivateKey, At
<1>2. PICK k \in Key : k = req[p].key
  BY <1>1 DEF KeysInv, Verifying
<1>3. PICK ks \in Seq(KeyRow) :
        /\ ks = Activated(k) /\ Len(ks) = Len(db.keys)
        /\ \A j \in Key : /\ ks[j].acct = db.keys[j].acct /\ ks[j].grant = db.keys[j].grant
                          /\ ks[j].revoked = db.keys[j].revoked
                          /\ ks[j].active = (db.keys[j].active \/ j = k)
  BY <1>0, KeyFacts
<1>4. db' = [db EXCEPT !.keys = ks]
  BY <1>2, <1>3 DEF ActivateKey
<1>5. Shape' /\ CodesQuiet /\ GrantsQuiet /\ OrgsQuiet
  BY <1>0, <1>1, <1>3, <1>4, KeyRowsQuiet
<1>6. db'.keys = ks /\ Key' = Key /\ Apart' = Apart
  BY <1>0, <1>1, <1>3, <1>4 DEF Tables, Key, Apart
<1>7. /\ req[p].pending /\ db.keys[k].acct = req[p].acct
      /\ req[p].acct \notin Apart => ~ db.keys[k].revoked
  BY <1>1, <1>2 DEF KeysInv, Verifying
<1>8. KeepsAKey'
  <2> SUFFICES ASSUME NEW a \in Account \ Apart, NEW i \in Key, ks[i].acct = a, ks[i].active
               PROVE  \E j \in Key : ks[j].acct = a /\ ks[j].active /\ ~ ks[j].revoked
    BY <1>6, KeepsFacts DEF KeepsLive
  <2>1. CASE a = req[p].acct
    <3>1. ks[k].acct = a /\ ks[k].active /\ ~ ks[k].revoked
      BY <1>2, <1>3, <1>7, <2>1
    <3>2. QED
      BY <1>2, <3>1
  <2>2. CASE a # req[p].acct
    <3>1. i # k
      BY <1>2, <1>3, <1>7, <2>2
    <3>2. db.keys[i].acct = a /\ db.keys[i].active
      BY <1>3, <3>1
    <3>3. PICK j \in Key : db.keys[j].acct = a /\ db.keys[j].active /\ ~ db.keys[j].revoked
      BY <3>2, KeepsFacts DEF KeysInv, KeepsLive
    <3>4. ks[j].acct = a /\ ks[j].active /\ ~ ks[j].revoked
      BY <1>3, <3>3
    <3>5. QED
      BY <3>4
  <2>3. QED
    BY <2>1, <2>2
<1>9. /\ req'[p].pc = "revokeOthers" /\ req'[p].acct = req[p].acct /\ req'[p].key = req[p].key
      /\ req'[p].op = req[p].op /\ req'[p].pending = req[p].pending
      /\ \A q \in Request \ {p} : req'[q] = req[q]
  BY <1>0, <1>1, GotoFacts DEF Labels
<1>10. ASSUME NEW q \in Request PROVE Verifying(req[q])'
  <2>1. Verifying(req[q])
    BY DEF KeysInv
  <2>2. CASE q = p
    <3>1. /\ req'[q].pending /\ req'[q].op = "verify" /\ req'[q].key = k /\ k \in Key
          /\ ks[k].acct = req'[q].acct /\ ks[k].active
          /\ req'[q].acct \notin Apart => ~ ks[k].revoked
      BY <1>2, <1>3, <1>7, <1>9, <2>1, <2>2 DEF Verifying
    <3>2. QED
      BY <1>6, <3>1 DEF Verifying
  <2>3. CASE q # p
    <3>1. req'[q] = req[q]
      BY <1>9, <2>3
    <3>2. req[q].pending => /\ ks[req[q].key].acct = db.keys[req[q].key].acct
                            /\ ks[req[q].key].revoked = db.keys[req[q].key].revoked
                            /\ db.keys[req[q].key].active => ks[req[q].key].active
      BY <1>3, <2>1 DEF Verifying
    <3>3. QED
      BY <1>6, <2>1, <3>1, <3>2 DEF Verifying
  <2>4. QED
    BY <2>2, <2>3
<1>11. KeysInv'
  BY <1>8, <1>10 DEF KeysInv
<1>12. QED
  BY <1>5, <1>11

\* Every other key of the account is revoked: under a verification of one of
\* them the accounts are set apart.
LEMMA RevokeOtherKeysStep ==
  ASSUME Shape, KeysInv, NEW p \in Request, RevokeOtherKeys(p)
  PROVE  Shape' /\ KeysInv' /\ CodesQuiet /\ GrantsQuiet /\ OrgsQuiet
<1>0. Typed /\ db \in Tables /\ hist \in History /\ req[p] \in Locals
  BY DEF Shape, Typed
<1>1. Write /\ Finish(p) /\ req[p].pc = "revokeOthers"
  BY DEF RevokeOtherKeys, At
<1>2. PICK S : S = Others(req[p].acct, req[p].key)
  OBVIOUS
<1>3. PICK ks \in Seq(KeyRow) :
        /\ ks = RevokedKeys(S) /\ Len(ks) = Len(db.keys)
        /\ \A j \in Key : ks[j].acct = db.keys[j].acct /\ ks[j].grant = db.keys[j].grant
  BY <1>0, KeyFacts
<1>4. db' = [db EXCEPT !.keys = ks]
  BY <1>2, <1>3 DEF RevokeOtherKeys
<1>5. PICK C \in SUBSET Person :
        /\ hist' = [hist EXCEPT !.crossed = C] /\ hist.crossed \subseteq C
        /\ Crossing(p) => req[p].acct \in C
  <2>1. hist.crossed \cup {req[p].acct} \in SUBSET Person /\ hist.crossed \in SUBSET Person
    BY <1>0 DEF History, Locals
  <2>2. CASE Crossing(p)
    BY <2>1, <2>2 DEF RevokeOtherKeys
  <2>3. CASE ~ Crossing(p)
    <3>1. hist' = hist /\ hist = [hist EXCEPT !.crossed = hist.crossed]
      BY <1>0, <2>3 DEF RevokeOtherKeys, History
    <3>2. QED
      BY <2>1, <2>3, <3>1
  <2>4. QED
    BY <2>2, <2>3
<1>6. /\ hist' \in History /\ hist'.codes = hist.codes /\ hist'.cut = hist.cut
      /\ hist'.crossed = C /\ hist'.orgRace = hist.orgRace /\ hist'.proofs = hist.proofs
      /\ hist'.founded = hist.founded /\ hist'.crossedOrgs = hist.crossedOrgs
  BY <1>0, <1>5 DEF History
<1>7. Shape' /\ CodesQuiet /\ GrantsQuiet /\ OrgsQuiet
  BY <1>0, <1>1, <1>3, <1>4, <1>6, KeyRowsQuiet
<1>8. db'.keys = RevokedKeys(S) /\ Apart \subseteq Apart' /\ (Crossing(p) => req[p].acct \in Apart')
  BY <1>0, <1>3, <1>4, <1>5, <1>6 DEF Tables, Apart
<1>9. req'[p] = Blank /\ \A q \in Request \ {p} : req'[q] = req[q]
  BY <1>0, <1>1, FinishFacts
<1>10. \A q \in Request : KeysCalm(req[q], req'[q])
  BY <1>9, BlankFacts DEF KeysCalm
<1>11. /\ req[p].pending /\ req[p].key \in Key /\ db.keys[req[p].key].acct = req[p].acct
       /\ db.keys[req[p].key].active
       /\ req[p].acct \notin Apart => ~ db.keys[req[p].key].revoked
  BY <1>1 DEF KeysInv, Verifying
<1>12. ASSUME NEW q \in Request, req'[q].pending, req'[q].acct \notin Apart' PROVE req'[q].key \notin S
  <2>1. q # p /\ req'[q] = req[q]
    BY <1>9, <1>12, BlankFacts
  <2>2. req[q].pending /\ req[q].op = "verify" /\ db.keys[req[q].key].acct = req[q].acct
    BY <1>12, <2>1 DEF KeysInv, Verifying
  <2>3. SUFFICES ASSUME req[q].acct = req[p].acct, req[q].key # req[p].key PROVE FALSE
    BY <1>2, <2>1, <2>2 DEF Others
  <2>4. Crossing(p)
    BY <2>1, <2>2, <2>3 DEF Crossing
  <2>5. QED
    BY <1>8, <1>12, <2>1, <2>3, <2>4
<1>13. ASSUME NEW a \in Account \ Apart'
       PROVE  \/ \A k \in Key \cap S : db.keys[k].acct # a
              \/ \E k \in Key \ S : /\ db.keys[k].acct = a /\ db.keys[k].active /\ ~ db.keys[k].revoked
  <2>1. CASE a = req[p].acct
    <3>1. /\ req[p].key \in Key \ S /\ db.keys[req[p].key].acct = a /\ db.keys[req[p].key].active
          /\ ~ db.keys[req[p].key].revoked
      BY <1>2, <1>8, <1>11, <2>1 DEF Others
    <3>2. QED
      BY <3>1
  <2>2. CASE a # req[p].acct
    BY <1>2, <2>2 DEF Others
  <2>3. QED
    BY <2>1, <2>2
<1>14. KeysInv'
  BY <1>8, <1>10, <1>12, <1>13, KeysRevoked
<1>15. QED
  BY <1>7, <1>14

\* Keys of one account are revoked at its own or an admin's request: it is set apart.
LEMMA CutStep ==
  ASSUME Shape, KeysInv, NEW p \in Request, RevokeKey(p) \/ RevokeMemberKeys(p)
  PROVE  Shape' /\ KeysInv' /\ CodesQuiet /\ GrantsQuiet /\ OrgsQuiet
<1>0. Typed /\ db \in Tables /\ hist \in History /\ req[p] \in Locals
  BY DEF Shape, Typed
<1>1. Write /\ Finish(p)
  BY DEF RevokeKey, RevokeMemberKeys
<1>2. CASE UNCHANGED <<db, hist>>
  <2>1. db' = db /\ hist' = hist
    BY <1>2
  <2>2. Len(db.invites) \in Nat
    BY <1>0, InviteFacts
  <2>3. Shape' /\ Quiet
    BY <1>0, <1>1, <2>1, <2>2, AnswersFacts DEF Quiet
  <2>4. QED
    BY <2>3, KeysStayQuiet DEF Quiet
<1>3. ASSUME NEW a \in Person, NEW S \in SUBSET Key, \A k \in S : db.keys[k].acct = a,
             db' = [db EXCEPT !.keys = RevokedKeys(S)], hist' = [hist EXCEPT !.cut = @ \cup {a}]
      PROVE  Shape' /\ KeysInv' /\ CodesQuiet /\ GrantsQuiet /\ OrgsQuiet
  <2>1. PICK ks \in Seq(KeyRow) :
          /\ ks = RevokedKeys(S) /\ Len(ks) = Len(db.keys)
          /\ \A j \in Key : ks[j].acct = db.keys[j].acct /\ ks[j].grant = db.keys[j].grant
    BY <1>0, KeyFacts
  <2>2. db' = [db EXCEPT !.keys = ks]
    BY <1>3, <2>1
  <2>3. PICK C \in SUBSET Person : C = hist.cut \cup {a} /\ hist' = [hist EXCEPT !.cut = C]
    <3>1. hist.cut \cup {a} \in SUBSET Person
      BY <1>0 DEF History
    <3>2. QED
      BY <1>3, <3>1
  <2>4. /\ hist' \in History /\ hist'.codes = hist.codes /\ hist'.cut = C
        /\ hist'.crossed = hist.crossed /\ hist'.orgRace = hist.orgRace
        /\ hist'.proofs = hist.proofs
        /\ hist'.founded = hist.founded /\ hist'.crossedOrgs = hist.crossedOrgs
    BY <1>0, <2>3 DEF History
  <2>5. Shape' /\ CodesQuiet /\ GrantsQuiet /\ OrgsQuiet
    BY <1>0, <1>1, <2>1, <2>2, <2>4, KeyRowsQuiet
  <2>6. db'.keys = RevokedKeys(S) /\ Apart \subseteq Apart' /\ a \in Apart'
    BY <1>0, <2>1, <2>2, <2>3, <2>4 DEF Tables, Apart
  <2>7. req'[p] = Blank /\ \A q \in Request \ {p} : req'[q] = req[q]
    BY <1>0, <1>1, FinishFacts
  <2>8. \A q \in Request : KeysCalm(req[q], req'[q])
    BY <2>7, BlankFacts DEF KeysCalm
  <2>9. ASSUME NEW q \in Request, req'[q].pending, req'[q].acct \notin Apart' PROVE req'[q].key \notin S
    <3>1. req'[q] = req[q]
      BY <2>7, <2>9, BlankFacts
    <3>2. req[q].pending /\ db.keys[req[q].key].acct = req[q].acct
      BY <2>9, <3>1 DEF KeysInv, Verifying
    <3>3. QED
      BY <1>3, <2>6, <2>9, <3>1, <3>2
  <2>10. \A c \in Account \ Apart' : \A k \in Key \cap S : db.keys[k].acct # c
    BY <1>3, <2>6
  <2>11. KeysInv'
    BY <2>6, <2>8, <2>9, <2>10, KeysRevoked
  <2>12. QED
    BY <2>5, <2>11
<1>4. CASE RevokeKey(p)
  <2>1. CASE req[p].key \in OfAccount(req[p].acct)
    <3>1. /\ db' = [db EXCEPT !.keys = RevokedKeys({req[p].key})]
          /\ hist' = [hist EXCEPT !.cut = @ \cup {req[p].acct}]
      BY <1>4, <2>1 DEF RevokeKey
    <3>2. /\ {req[p].key} \in SUBSET Key /\ req[p].acct \in Person
          /\ \A k \in {req[p].key} : db.keys[k].acct = req[p].acct
      BY <1>0, <2>1 DEF OfAccount, Locals
    <3>3. QED
      BY <1>3, <3>1, <3>2
  <2>2. CASE req[p].key \notin OfAccount(req[p].acct)
    BY <1>2, <1>4, <2>2 DEF RevokeKey
  <2>3. QED
    BY <2>1, <2>2
<1>5. CASE RevokeMemberKeys(p)
  <2>1. /\ db' = [db EXCEPT !.keys = RevokedKeys(OfAccount(req[p].target))]
        /\ hist' = [hist EXCEPT !.cut = @ \cup {req[p].target}]
    BY <1>5 DEF RevokeMemberKeys
  <2>2. /\ OfAccount(req[p].target) \in SUBSET Key /\ req[p].target \in Person
        /\ \A k \in OfAccount(req[p].target) : db.keys[k].acct = req[p].target
    BY <1>0 DEF OfAccount, Locals
  <2>3. QED
    BY <1>3, <2>1, <2>2
<1>6. QED
  BY <1>4, <1>5

-----------------------------------------------------------------------------
(* Organizations *)

\* Rows and requests name orgs that exist, an account is a member of an org
\* once, and which calls are at which statements.
OrgRows ==
    /\ \A m \in db.members : m.org <= db.orgs
    /\ \A m, n \in db.members : m.org = n.org /\ m.acct = n.acct => m = n
    /\ \A i \in 1 .. Len(db.invites) : db.invites[i].org <= db.orgs
    /\ \A p \in Request : /\ req[p].org <= db.orgs
                          /\ req[p].pc \in {"countAdmins", "change"} => req[p].op = "change"
                          /\ req[p].pc \in {"insertOrg", "founder"} => req[p].op # "change"

\* Until two founders race, the second of two createOrg calls sees the first's org.
OneOrg ==
    ~ hist.orgRace => /\ db.orgs <= 1
                      /\ \A p \in Request : req[p].pc = "insertOrg" => db.orgs = 0

\* A founder who is about to join the org is alone with it.
FounderIsAlone ==
    \A p \in Request :
        req[p].pc = "founder" /\ req[p].org \notin hist.crossedOrgs =>
            /\ \A m \in db.members : m.org # req[p].org
            /\ \A q \in Request : /\ req[q].op = "change" => req[q].org # req[p].org
                                  /\ req[q].pc = "founder" /\ q # p => req[q].org # req[p].org

\* A change that has passed its check leaves another admin.
AnotherAdmin ==
    \A p \in Request :
        req[p].pc = "change" /\ req[p].org \in hist.founded \ hist.crossedOrgs =>
            \E m \in db.members : /\ m.org = req[p].org /\ m.role = "admin"
                                  /\ m.acct # req[p].target

\* AdminLossNeedsOverlap, spelt out.
HasAdmin ==
    \A o \in hist.founded \ hist.crossedOrgs : \E m \in db.members : m.org = o /\ m.role = "admin"

OrgsInv == OrgRows /\ OneOrg /\ FounderIsAlone /\ AnotherAdmin /\ HasAdmin

\* A quiet step keeps it.
LEMMA OrgsStayQuiet ==
  ASSUME Shape, Shape', OrgsInv, OrgsQuiet PROVE OrgsInv'
<1>0. /\ db.orgs \in Nat /\ \A q \in Request : req'[q].org \in Nat /\ req[q].org \in Nat
      /\ Len(db'.invites) \in Nat /\ Len(db.invites) \in Nat
  BY InviteFacts, RowFacts DEF Shape, Typed, Tables, Locals
<1>1. /\ db'.orgs = db.orgs /\ db'.members = db.members /\ hist'.founded = hist.founded
      /\ hist'.crossedOrgs = hist.crossedOrgs /\ hist'.orgRace = hist.orgRace
      /\ \A i \in 1 .. Len(db'.invites) :
           \/ \E q \in Request : db'.invites[i].org = req[q].org
           \/ i <= Len(db.invites) /\ db'.invites[i].org = db.invites[i].org
      /\ \A q \in Request : OrgsCalm(req[q], req'[q])
  BY DEF OrgsQuiet
<1>2. \A q \in Request : req'[q].pc \in {"insertOrg", "founder", "countAdmins", "change"} =>
        req'[q] = req[q]
  BY <1>1 DEF OrgsCalm
<1>3. \A q \in Request : req'[q].op = "change" => req[q].op = "change" /\ req'[q].org = req[q].org
  BY <1>1 DEF OrgsCalm
<1>4. OrgRows'
  <2>1. \A i \in 1 .. Len(db'.invites) : db'.invites[i].org <= db.orgs
    <3> SUFFICES ASSUME NEW i \in 1 .. Len(db'.invites) PROVE db'.invites[i].org <= db.orgs
      OBVIOUS
    <3>1. CASE \E q \in Request : db'.invites[i].org = req[q].org
      BY <3>1 DEF OrgsInv, OrgRows
    <3>2. CASE i <= Len(db.invites) /\ db'.invites[i].org = db.invites[i].org
      BY <1>0, <3>2 DEF OrgsInv, OrgRows
    <3>3. QED
      BY <1>1, <3>1, <3>2
  <2>2. \A q \in Request : req'[q].org <= db.orgs
    <3> SUFFICES ASSUME NEW q \in Request PROVE req'[q].org <= db.orgs
      OBVIOUS
    <3>1. req'[q].org \in {0, req[q].org} \cup OrgIds /\ req[q].org <= db.orgs
      BY <1>1 DEF OrgsCalm, OrgsInv, OrgRows
    <3>2. QED
      BY <1>0, <3>1 DEF OrgIds
  <2>3. \A q \in Request :
          /\ req'[q].pc \in {"countAdmins", "change"} => req'[q].op = "change"
          /\ req'[q].pc \in {"insertOrg", "founder"} => req'[q].op # "change"
    BY <1>2 DEF OrgsInv, OrgRows
  <2>4. QED
    BY <1>1, <2>1, <2>2, <2>3 DEF OrgsInv, OrgRows
<1>5. OneOrg'
  BY <1>1, <1>2 DEF OrgsInv, OneOrg
<1>6. FounderIsAlone'
  BY <1>1, <1>2, <1>3 DEF OrgsInv, FounderIsAlone
<1>7. AnotherAdmin'
  BY <1>1, <1>2 DEF OrgsInv, AnotherAdmin
<1>8. HasAdmin'
  BY <1>1 DEF OrgsInv, HasAdmin
<1>9. QED
  BY <1>4, <1>5, <1>6, <1>7, <1>8 DEF OrgsInv

\* The role an account has is that of its one row.
LEMMA RoleFacts ==
  ASSUME Shape, OrgRows
  PROVE  /\ \A o, a : RoleOf(o, a) # None <=> \E m \in db.members : m.org = o /\ m.acct = a
         /\ \A m \in db.members : RoleOf(m.org, m.acct) = m.role
         /\ None \notin Roles
<1>1. None \notin Roles /\ \A m \in db.members : m.role \in Roles
  BY IdentityAssumption DEF Roles, Shape, Typed, Tables, MemberRow
<1>2. ASSUME NEW o, NEW a, NEW m \in db.members, m.org = o, m.acct = a
      PROVE  RoleOf(o, a) = m.role
  <2>1. (CHOOSE n \in db.members : n.org = o /\ n.acct = a) = m
    BY <1>2 DEF OrgRows
  <2>2. QED
    BY <1>2, <2>1 DEF RoleOf
<1>3. ASSUME NEW o, NEW a, ~ \E m \in db.members : m.org = o /\ m.acct = a
      PROVE  RoleOf(o, a) = None
  BY <1>3 DEF RoleOf
<1>4. QED
  BY <1>1, <1>2, <1>3

\* createOrg begins while there is no org.
LEMMA CreateOrgStartStep ==
  ASSUME Shape, OrgsInv, NEW p \in Request, NEW a \in Caller, CreateOrgStart(p, a)
  PROVE  Shape' /\ OrgsInv' /\ CodesQuiet /\ GrantsQuiet /\ KeysQuiet
<1>0. /\ Typed /\ a \in Person /\ db.orgs \in Nat /\ Len(db.invites) \in Nat
  BY InviteFacts DEF Shape, Typed, Tables, Caller, Person
<1>1. PICK r : r = [Blank EXCEPT !.acct = a, !.pc = "insertOrg"]
  OBVIOUS
<1>2. /\ r \in Locals /\ r.invite = 0 /\ ~ r.pending /\ r.at = 0 /\ r.grant = 0
      /\ r.org = 0 /\ r.pc = "insertOrg"
  <2>1. a \in Person
    BY <1>0
  <2>2. QED
    BY <2>1, <1>1, BlankFacts DEF Locals, Labels
<1>3. Begin(p, "createOrg", r) /\ Local /\ db.orgs = 0
  BY <1>1 DEF CreateOrgStart
<1>4. /\ req' \in [Request -> Locals] /\ \A q \in Request \ {p} : req'[q] = req[q]
      /\ req[p] = Blank /\ req'[p].pc = "insertOrg" /\ ~ req'[p].pending
      /\ req'[p].at = 0 /\ req'[p].invite = 0 /\ req'[p].org = 0 /\ req'[p].grant = 0
      /\ req'[p].op = "createOrg"
  BY <1>0, <1>2, <1>3, BeginFacts DEF Ops
<1>5. Shape' /\ CodesQuiet /\ GrantsQuiet /\ KeysQuiet
  <2>1. CodesCalm(req[p], req'[p]) /\ GrantsCalm(req[p], req'[p]) /\ KeysCalm(req[p], req'[p])
    BY <1>4 DEF CodesCalm, GrantsCalm, KeysCalm
  <2>2. req'[p].invite <= Len(db.invites) /\ req'[p].pc \notin {"join", "accept", "insertInvite"}
    BY <1>0, <1>4
  <2>3. QED
    BY <1>3, <1>4, <2>1, <2>2, LocalFacts
<1>6. OrgsInv'
  <2>1. db' = db /\ hist' = hist
    BY <1>3 DEF Local
  <2>2. OrgRows'
    BY <1>0, <1>4, <2>1 DEF OrgsInv, OrgRows
  <2>3. OneOrg'
    BY <1>3, <1>4, <2>1 DEF OrgsInv, OneOrg
  <2>4. FounderIsAlone'
    BY <1>4, <2>1 DEF OrgsInv, FounderIsAlone
  <2>5. AnotherAdmin'
    BY <1>4, <2>1 DEF OrgsInv, AnotherAdmin
  <2>6. HasAdmin'
    BY <2>1 DEF OrgsInv, HasAdmin
  <2>7. QED
    BY <2>2, <2>3, <2>4, <2>5, <2>6 DEF OrgsInv
<1>7. QED
  BY <1>5, <1>6

\* A member is changed only in an org that has members: no founder is alone with
\* it.  One who is no admin can go without a count.
LEMMA ChangeStartStep ==
  ASSUME Shape, OrgsInv, NEW p \in Request, NEW a \in Caller, NEW o \in OrgIds, NEW m \in Caller,
         NEW role \in Roles \cup {None}, ChangeStart(p, a, o, m, role)
  PROVE  Shape' /\ OrgsInv' /\ CodesQuiet /\ GrantsQuiet /\ KeysQuiet
<1>0. /\ Typed /\ m \in Person /\ db.orgs \in Nat /\ o \in Nat /\ o <= db.orgs
      /\ Len(db.invites) \in Nat
  BY InviteFacts DEF Shape, Typed, Tables, Caller, Person, OrgIds
<1>1. PICK l \in {"countAdmins", "change"} :
        l = IF RoleOf(o, m) = "admin" THEN "countAdmins" ELSE "change"
  OBVIOUS
<1>2. PICK r : r = [Blank EXCEPT !.target = m, !.role = role, !.pc = l, !.org = o]
  OBVIOUS
<1>3. /\ r \in Locals /\ r.invite = 0 /\ ~ r.pending /\ r.at = 0 /\ r.grant = 0
      /\ r.org = o /\ r.pc = l /\ r.target = m
  <2>1. m \in Person /\ o \in Nat /\ l \in Labels
    BY <1>0, <1>1 DEF Labels
  <2>2. QED
    BY <2>1, <1>2, BlankFacts DEF Locals
<1>4. Begin(p, "change", r) /\ Local /\ RoleOf(o, m) # None
  BY <1>1, <1>2 DEF ChangeStart, Admitted
<1>5. /\ req' \in [Request -> Locals] /\ \A q \in Request \ {p} : req'[q] = req[q]
      /\ req[p] = Blank /\ req'[p].pc = l /\ ~ req'[p].pending /\ req'[p].target = m
      /\ req'[p].at = 0 /\ req'[p].invite = 0 /\ req'[p].org = o /\ req'[p].grant = 0
      /\ req'[p].op = "change"
  BY <1>0, <1>3, <1>4, BeginFacts DEF Ops
<1>6. Shape' /\ CodesQuiet /\ GrantsQuiet /\ KeysQuiet
  <2>1. CodesCalm(req[p], req'[p]) /\ GrantsCalm(req[p], req'[p]) /\ KeysCalm(req[p], req'[p])
    BY <1>1, <1>5 DEF CodesCalm, GrantsCalm, KeysCalm
  <2>2. req'[p].invite <= Len(db.invites) /\ req'[p].pc \notin {"join", "accept", "insertInvite"}
    BY <1>0, <1>1, <1>5
  <2>3. QED
    BY <1>4, <1>5, <2>1, <2>2, LocalFacts
<1>7. OrgsInv'
  <2>1. db' = db /\ hist' = hist
    BY <1>4 DEF Local
  <2>2. OrgRows'
    BY <1>0, <1>1, <1>5, <2>1 DEF OrgsInv, OrgRows
  <2>3. OneOrg'
    BY <1>1, <1>5, <2>1 DEF OrgsInv, OneOrg
  <2>4. PICK n \in db.members : n.org = o /\ n.acct = m
    BY <1>4, RoleFacts DEF OrgsInv
  <2>5. FounderIsAlone'
    <3>1. \A q \in Request : req[q].pc = "founder" /\ req[q].org \notin hist.crossedOrgs =>
            req[q].org # o
      BY <2>4 DEF OrgsInv, FounderIsAlone
    <3>2. QED
      BY <1>1, <1>5, <2>1, <3>1 DEF OrgsInv, FounderIsAlone
  <2>6. AnotherAdmin'
    <3> SUFFICES ASSUME NEW q \in Request, req'[q].pc = "change",
                        req'[q].org \in hist.founded \ hist.crossedOrgs
                 PROVE  \E x \in db.members : /\ x.org = req'[q].org /\ x.role = "admin"
                                              /\ x.acct # req'[q].target
      BY <2>1 DEF AnotherAdmin
    <3>1. CASE q = p
      <4>1. RoleOf(o, m) # "admin" /\ o \in hist.founded \ hist.crossedOrgs
        BY <1>1, <1>5, <3>1
      <4>2. PICK x \in db.members : x.org = o /\ x.role = "admin"
        BY <4>1 DEF OrgsInv, HasAdmin
      <4>3. x.acct # m
        BY <4>1, <4>2, RoleFacts DEF OrgsInv
      <4>4. QED
        BY <1>5, <3>1, <4>2, <4>3
    <3>2. CASE q # p
      BY <1>5, <3>2 DEF OrgsInv, AnotherAdmin
    <3>3. QED
      BY <3>1, <3>2
  <2>7. HasAdmin'
    BY <2>1 DEF OrgsInv, HasAdmin
  <2>8. QED
    BY <2>2, <2>3, <2>5, <2>6, <2>7 DEF OrgsInv
<1>8. QED
  BY <1>6, <1>7

\* An admin who is to be changed is not the only one.
LEMMA CountAdminsStep ==
  ASSUME Shape, OrgsInv, NEW p \in Request, CountAdmins(p)
  PROVE  Shape' /\ OrgsInv' /\ CodesQuiet /\ GrantsQuiet /\ KeysQuiet
<1>0. Typed /\ Local /\ req[p].pc = "countAdmins" /\ req[p] \in Locals
  BY DEF Shape, Typed, CountAdmins, At
<1>1. CASE Finish(p)
  <2>1. Shape' /\ Quiet
    BY <1>0, <1>1, FinishFacts, FinishCalm, BlankFacts, LocalFacts, InviteFacts DEF Quiet, Calm
  <2>2. QED
    BY <2>1, OrgsStayQuiet DEF Quiet
<1>2. CASE Goto(p, "change") /\ ~ Cardinality(Admins(req[p].org)) <= 1
  <2>1. /\ req' \in [Request -> Locals] /\ \A q \in Request \ {p} : req'[q] = req[q]
        /\ req'[p].op = req[p].op /\ req'[p].pc = "change" /\ req'[p].acct = req[p].acct
        /\ req'[p].key = req[p].key /\ req'[p].pending = req[p].pending
        /\ req'[p].at = req[p].at /\ req'[p].invite = req[p].invite /\ req'[p].org = req[p].org
        /\ req'[p].target = req[p].target
        /\ req'[p].session = req[p].session /\ req'[p].grant = req[p].grant
    BY <1>0, <1>2, GotoFacts DEF Labels
  <2>2. CodesCalm(req[p], req'[p]) /\ GrantsCalm(req[p], req'[p]) /\ KeysCalm(req[p], req'[p])
    BY <2>1 DEF CodesCalm, GrantsCalm, KeysCalm
  <2>3. req'[p].invite <= Len(db.invites) /\ req'[p].pc \notin {"join", "accept", "insertInvite"}
    BY <2>1 DEF Shape, Invited
  <2>4. Shape' /\ CodesQuiet /\ GrantsQuiet /\ KeysQuiet
    BY <1>0, <2>1, <2>2, <2>3, LocalFacts
  <2>5. db' = db /\ hist' = hist
    BY <1>0 DEF Local
  <2>6. OrgRows'
    BY <1>0, <2>1, <2>5 DEF OrgsInv, OrgRows
  <2>7. OneOrg'
    BY <2>1, <2>5 DEF OrgsInv, OneOrg
  <2>8. FounderIsAlone'
    <3>1. \A q \in Request : /\ req'[q].op = req[q].op /\ req'[q].org = req[q].org
                             /\ req'[q].pc = "founder" => req[q].pc = "founder"
      BY <2>1
    <3>2. QED
      BY <2>5, <3>1 DEF OrgsInv, FounderIsAlone
  <2>9. PICK x \in db.members : x.org = req[p].org /\ x.role = "admin" /\ x.acct # req[p].target
    <3>1. SUFFICES ASSUME \A x \in Admins(req[p].org) : x.acct = req[p].target PROVE FALSE
      BY DEF Admins
    <3>2. \A x, y \in Admins(req[p].org) : x = y
      BY <3>1 DEF OrgsInv, OrgRows, Admins
    <3>3. CASE Admins(req[p].org) = {}
      BY <1>2, <3>3, FS_EmptySet
    <3>4. CASE Admins(req[p].org) # {}
      <4>1. PICK x : Admins(req[p].org) = {x}
        BY <3>2, <3>4
      <4>2. Cardinality({x}) = 1
        BY FS_Singleton
      <4>3. QED
        BY <1>2, <4>1, <4>2
    <3>5. QED
      BY <3>3, <3>4
  <2>10. AnotherAdmin'
    BY <2>1, <2>5, <2>9 DEF OrgsInv, AnotherAdmin
  <2>11. HasAdmin'
    BY <2>5 DEF OrgsInv, HasAdmin
  <2>12. QED
    BY <2>4, <2>6, <2>7, <2>8, <2>10, <2>11 DEF OrgsInv
<1>3. QED
  BY <1>1, <1>2 DEF CountAdmins

\* The row that an account joins with, unless it has one.
LEMMA JoinedFacts ==
  ASSUME Shape, OrgRows, NEW o \in Nat, o <= db.orgs, NEW a \in Person, NEW role \in Roles
  PROVE  /\ Joined(o, a, role) \in SUBSET MemberRow /\ db.members \subseteq Joined(o, a, role)
         /\ \A m \in Joined(o, a, role) : m \in db.members \/ m.org = o
         /\ \A m \in Joined(o, a, role) : m.org <= db.orgs
         /\ \A m, n \in Joined(o, a, role) : m.org = n.org /\ m.acct = n.acct => m = n
         /\ (\A m \in db.members : m.org # o) =>
              \E m \in Joined(o, a, role) : m.org = o /\ m.role = role
<1>0. db.members \in SUBSET MemberRow
  BY DEF Shape, Typed, Tables
<1>1. PICK row : row = [org |-> o, acct |-> a, role |-> role]
  OBVIOUS
<1>a. row \in MemberRow /\ row.org = o /\ row.acct = a /\ row.role = role
  BY <1>1 DEF MemberRow
<1>2. CASE RoleOf(o, a) # None
  <2>1. Joined(o, a, role) = db.members /\ \E m \in db.members : m.org = o
    BY <1>2, RoleFacts DEF Joined
  <2>2. QED
    BY <1>0, <2>1 DEF OrgRows
<1>3. CASE RoleOf(o, a) = None
  <2>1. Joined(o, a, role) = db.members \cup {row}
    BY <1>1, <1>3 DEF Joined
  <2>2. \A m \in db.members : ~ (m.org = o /\ m.acct = a)
    BY <1>3, RoleFacts
  <2>3. \A m, n \in db.members \cup {row} : m.org = n.org /\ m.acct = n.acct => m = n
    BY <1>a, <2>2 DEF OrgRows
  <2>4. QED
    BY <1>0, <1>a, <2>1, <2>3 DEF OrgRows
<1>4. QED
  BY <1>2, <1>3

\* An invited account joins; if the org's founder has yet to, the org is set apart.
LEMMA JoinOrgStep ==
  ASSUME Shape, OrgsInv, NEW p \in Request, JoinOrg(p)
  PROVE  Shape' /\ OrgsInv' /\ CodesQuiet /\ GrantsQuiet /\ KeysQuiet
<1>0. /\ Typed /\ db \in Tables /\ hist \in History /\ req[p] \in Locals /\ OrgRows
      /\ Len(db.invites) \in Nat
  BY InviteFacts DEF Shape, Typed, OrgsInv
<1>1. Write /\ Goto(p, "accept") /\ req[p].pc = "join" /\ req[p].invite # 0
  BY DEF JoinOrg, At, Shape, Invited
<1>2. req[p].invite \in 1 .. Len(db.invites)
  BY <1>0, <1>1 DEF Shape, Invited, Locals
<1>3. PICK o \in Nat, a \in Person, role \in Roles :
        /\ o = db.invites[req[p].invite].org /\ a = req[p].acct /\ o <= db.orgs
        /\ role = db.invites[req[p].invite].role
  BY ZenonT(30), <1>0, <1>2, InviteFacts DEF InviteRow, Locals, OrgRows
<1>4. PICK X \in SUBSET MemberRow :
        /\ X = Joined(o, a, role) /\ db.members \subseteq X
        /\ \A m \in X : m \in db.members \/ m.org = o
        /\ \A m \in X : m.org <= db.orgs
        /\ \A m, n \in X : m.org = n.org /\ m.acct = n.acct => m = n
  BY <1>0, <1>3, JoinedFacts
<1>5. db' = [db EXCEPT !.members = X]
  BY <1>3, <1>4 DEF JoinOrg
<1>6. /\ db' \in Tables /\ db'.otps = db.otps /\ db'.grants = db.grants /\ db'.keys = db.keys
      /\ db'.orgs = db.orgs /\ db'.members = X /\ db'.invites = db.invites
  BY <1>0, <1>5 DEF Tables
<1>7. PICK C \in SUBSET Nat :
        /\ hist' = [hist EXCEPT !.crossedOrgs = C] /\ hist.crossedOrgs \subseteq C
        /\ (\E q \in Request : req[q].pc = "founder" /\ req[q].org = o) => o \in C
  <2>1. hist.crossedOrgs \cup {o} \in SUBSET Nat /\ hist.crossedOrgs \in SUBSET Nat
    BY <1>0 DEF History
  <2>2. CASE \E q \in Request : At(q, "founder") /\ req[q].org = o
    <3>1. hist' = [hist EXCEPT !.crossedOrgs = hist.crossedOrgs \cup {o}]
      BY <1>3, <2>2 DEF JoinOrg
    <3>2. QED
      BY <2>1, <3>1
  <2>3. CASE ~ \E q \in Request : At(q, "founder") /\ req[q].org = o
    <3>1. hist' = hist /\ hist = [hist EXCEPT !.crossedOrgs = hist.crossedOrgs]
      BY <1>0, <1>3, <2>3 DEF JoinOrg, History
    <3>2. QED
      BY <2>1, <2>3, <3>1 DEF At
  <2>4. QED
    BY <2>2, <2>3
<1>8. /\ hist' \in History /\ hist'.codes = hist.codes /\ hist'.cut = hist.cut
      /\ hist'.crossed = hist.crossed /\ hist'.orgRace = hist.orgRace /\ hist'.proofs = hist.proofs
      /\ hist'.founded = hist.founded /\ hist'.crossedOrgs = C
  BY <1>0, <1>7 DEF History
<1>9. Shape' /\ CodesQuiet /\ GrantsQuiet /\ KeysQuiet
  BY <1>0, <1>1, <1>6, <1>8, GoesOnFacts DEF Labels
<1>10. /\ req'[p].op = req[p].op /\ req'[p].pc = "accept" /\ req'[p].org = req[p].org
       /\ \A q \in Request \ {p} : req'[q] = req[q]
  BY <1>0, <1>1, GotoFacts DEF Labels
<1>11. \A q \in Request :
         /\ req'[q].op = req[q].op /\ req'[q].org = req[q].org
         /\ req'[q].pc \in {"insertOrg", "founder", "countAdmins", "change"} => req'[q] = req[q]
  BY <1>10
<1>12. OrgsInv'
  <2>1. OrgRows'
    BY <1>0, <1>4, <1>6, <1>11 DEF OrgRows
  <2>2. OneOrg'
    BY <1>6, <1>8, <1>11 DEF OrgsInv, OneOrg
  <2>3. FounderIsAlone'
    <3> SUFFICES ASSUME NEW q \in Request, req'[q].pc = "founder", req'[q].org \notin C
                 PROVE  /\ \A m \in X : m.org # req'[q].org
                        /\ \A r \in Request :
                             /\ req'[r].op = "change" => req'[r].org # req'[q].org
                             /\ req'[r].pc = "founder" /\ r # q => req'[r].org # req'[q].org
      BY <1>6, <1>8 DEF FounderIsAlone
    <3>1. req'[q] = req[q] /\ req[q].org # o /\ req[q].org \notin hist.crossedOrgs
      BY <1>7, <1>11
    <3>2. QED
      BY <1>4, <1>11, <3>1 DEF OrgsInv, FounderIsAlone
  <2>4. AnotherAdmin'
    BY <1>4, <1>6, <1>7, <1>8, <1>11 DEF OrgsInv, AnotherAdmin
  <2>5. HasAdmin'
    BY <1>4, <1>6, <1>7, <1>8 DEF OrgsInv, HasAdmin
  <2>6. QED
    BY <2>1, <2>2, <2>3, <2>4, <2>5 DEF OrgsInv
<1>13. QED
  BY <1>9, <1>12

\* The org is new: it has no members, and nobody works on it.
LEMMA InsertOrgStep ==
  ASSUME Shape, OrgsInv, NEW p \in Request, InsertOrg(p)
  PROVE  Shape' /\ OrgsInv' /\ CodesQuiet /\ GrantsQuiet /\ KeysQuiet
<1>0. /\ Typed /\ db \in Tables /\ hist \in History /\ req \in [Request -> Locals] /\ OrgRows
      /\ Len(db.invites) \in Nat /\ req[p].pc = "insertOrg" /\ Write
  BY InviteFacts DEF Shape, Typed, OrgsInv, InsertOrg, At
<1>1. PICK n \in Nat : n = db.orgs + 1
  BY <1>0 DEF Tables
<1>2. PICK race \in BOOLEAN :
        race = (hist.orgRace \/ \E q \in Request \ {p} : At(q, "insertOrg"))
  OBVIOUS
<1>3. /\ db' \in Tables /\ db'.otps = db.otps /\ db'.grants = db.grants /\ db'.keys = db.keys
      /\ db'.orgs = n /\ db'.members = db.members /\ db'.invites = db.invites
  <2>1. db' = [db EXCEPT !.orgs = n]
    BY <1>0, <1>1 DEF InsertOrg, Tables
  <2>2. QED
    BY <1>0, <2>1 DEF Tables
<1>4. /\ hist' \in History /\ hist'.codes = hist.codes /\ hist'.cut = hist.cut
      /\ hist'.crossed = hist.crossed /\ hist'.orgRace = race /\ hist'.proofs = hist.proofs
      /\ hist'.founded = hist.founded /\ hist'.crossedOrgs = hist.crossedOrgs
  <2>1. hist' = [hist EXCEPT !.orgRace = race]
    BY <1>0, <1>2 DEF InsertOrg, History
  <2>2. QED
    BY <1>0, <2>1 DEF History
<1>5. PICK r \in Locals : r = req[p]
  BY <1>0
<1>6. PICK s : s = [r EXCEPT !.pc = "founder", !.org = n]
  OBVIOUS
<1>7. /\ s \in Locals /\ s.op = r.op /\ s.pc = "founder" /\ s.acct = r.acct /\ s.key = r.key
      /\ s.pending = r.pending /\ s.at = r.at /\ s.invite = r.invite
      /\ s.org = n /\ s.session = r.session /\ s.grant = r.grant
  BY <1>5, <1>6 DEF Locals, Labels
<1>8. /\ req' \in [Request -> Locals] /\ req'[p] = s
      /\ \A q \in Request \ {p} : req'[q] = req[q]
  <2>1. req' = [req EXCEPT ![p] = s]
    BY <1>1, <1>5, <1>6 DEF InsertOrg
  <2>2. QED
    BY <1>0, <1>7, <2>1
<1>9. Shape' /\ CodesQuiet /\ GrantsQuiet /\ KeysQuiet
  <2>1. CodesCalm(req[p], req'[p]) /\ GrantsCalm(req[p], req'[p]) /\ KeysCalm(req[p], req'[p])
    BY <1>5, <1>7, <1>8 DEF CodesCalm, GrantsCalm, KeysCalm
  <2>2. /\ Len(db.invites) <= Len(db'.invites) /\ req'[p].invite \in {0, req[p].invite}
        /\ req'[p].pc \notin {"join", "accept", "insertInvite"}
    BY <1>0, <1>3, <1>5, <1>7, <1>8
  <2>3. QED
    BY <1>0, <1>3, <1>4, <1>8, <2>1, <2>2, WriteFacts
<1>10. OrgsInv'
  <2>0. /\ db.orgs \in Nat /\ \A m \in db.members : m.org \in Nat /\ m.org <= db.orgs
        /\ \A q \in Request : req[q].org \in Nat /\ req[q].org <= db.orgs
        /\ \A i \in 1 .. Len(db.invites) : db.invites[i].org \in Nat /\ db.invites[i].org <= db.orgs
    <3>1. db.orgs \in Nat /\ \A m \in db.members : m.org \in Nat
      BY <1>0 DEF Tables, MemberRow
    <3>2. \A q \in Request : req[q].org \in Nat
      BY <1>0 DEF Locals
    <3>3. \A i \in 1 .. Len(db.invites) : db.invites[i].org \in Nat
      BY <1>0, InviteFacts DEF InviteRow
    <3>4. QED
      BY <1>0, <3>1, <3>2, <3>3 DEF OrgRows
  <2>1. OrgRows'
    <3>1. /\ \A m \in db.members : m.org <= n
          /\ \A i \in 1 .. Len(db.invites) : db.invites[i].org <= n
      BY <1>1, <2>0
    <3>2. ASSUME NEW q \in Request
          PROVE  /\ req'[q].org <= n
                 /\ req'[q].pc \in {"countAdmins", "change"} => req'[q].op = "change"
                 /\ req'[q].pc \in {"insertOrg", "founder"} => req'[q].op # "change"
      <4>1. CASE q = p
        <5>1. r.op # "change"
          BY <1>0, <1>5 DEF OrgRows
        <5>2. QED
          BY <1>7, <1>8, <4>1, <5>1
      <4>2. CASE q # p
        BY <1>0, <1>1, <1>8, <2>0, <4>2 DEF OrgRows
      <4>3. QED
        BY <4>1, <4>2
    <3>3. QED
      BY <1>0, <1>3, <3>1, <3>2 DEF OrgRows
  <2>2. OneOrg'
    <3> SUFFICES ASSUME ~ race
                 PROVE  n <= 1 /\ \A q \in Request : req'[q].pc = "insertOrg" => n = 0
      BY <1>3, <1>4 DEF OneOrg
    <3>1. ~ hist.orgRace /\ \A q \in Request \ {p} : req[q].pc # "insertOrg"
      BY <1>2 DEF At
    <3>2. db.orgs = 0
      BY <1>0, <3>1 DEF OrgsInv, OneOrg
    <3>3. QED
      BY <1>1, <1>7, <1>8, <3>1, <3>2
  <2>3. FounderIsAlone'
    <3> SUFFICES ASSUME NEW q \in Request, req'[q].pc = "founder", req'[q].org \notin hist.crossedOrgs
                 PROVE  /\ \A m \in db.members : m.org # req'[q].org
                        /\ \A x \in Request :
                             /\ req'[x].op = "change" => req'[x].org # req'[q].org
                             /\ req'[x].pc = "founder" /\ x # q => req'[x].org # req'[q].org
      BY <1>3, <1>4 DEF FounderIsAlone
    <3>1. \A x \in Request : req[x].org # n
      BY <1>1, <2>0
    <3>2. \A m \in db.members : m.org # n
      BY <1>1, <2>0
    <3>3. CASE q = p
      BY <1>0, <1>5, <1>7, <1>8, <3>1, <3>2, <3>3 DEF OrgRows
    <3>4. CASE q # p
      BY <1>5, <1>7, <1>8, <3>1, <3>4 DEF OrgsInv, FounderIsAlone
    <3>5. QED
      BY <3>3, <3>4
  <2>4. \A q \in Request : req'[q].pc = "change" => req'[q] = req[q]
    BY <1>7, <1>8
  <2>5. AnotherAdmin'
    BY <1>3, <1>4, <2>4 DEF OrgsInv, AnotherAdmin
  <2>6. HasAdmin'
    BY <1>3, <1>4 DEF OrgsInv, HasAdmin
  <2>7. QED
    BY <2>1, <2>2, <2>3, <2>5, <2>6 DEF OrgsInv
<1>11. QED
  BY <1>9, <1>10

\* The founder, alone with the org, becomes its admin.
LEMMA InsertFounderStep ==
  ASSUME Shape, OrgsInv, NEW p \in Request, InsertFounder(p)
  PROVE  Shape' /\ OrgsInv' /\ CodesQuiet /\ GrantsQuiet /\ KeysQuiet
<1>0. /\ Typed /\ db \in Tables /\ hist \in History /\ req[p] \in Locals /\ OrgRows
      /\ Len(db.invites) \in Nat /\ req[p].pc = "founder" /\ Write /\ Finish(p)
  BY InviteFacts DEF Shape, Typed, OrgsInv, InsertFounder, At
<1>1. PICK o \in Nat, a \in Person : o = req[p].org /\ a = req[p].acct /\ o <= db.orgs
  BY <1>0 DEF Locals, OrgRows
<1>2. "admin" \in Roles
  BY DEF Roles
<1>3. PICK X \in SUBSET MemberRow :
        /\ X = Joined(o, a, "admin") /\ db.members \subseteq X
        /\ \A m \in X : m \in db.members \/ m.org = o
        /\ \A m \in X : m.org <= db.orgs
        /\ \A m, n \in X : m.org = n.org /\ m.acct = n.acct => m = n
        /\ (\A m \in db.members : m.org # o) => \E m \in X : m.org = o /\ m.role = "admin"
  BY <1>0, <1>1, <1>2, JoinedFacts
<1>4. /\ db' \in Tables /\ db'.otps = db.otps /\ db'.grants = db.grants /\ db'.keys = db.keys
      /\ db'.orgs = db.orgs /\ db'.members = X /\ db'.invites = db.invites
  <2>1. db' = [db EXCEPT !.members = X]
    BY <1>1, <1>3 DEF InsertFounder
  <2>2. QED
    BY <1>0, <2>1 DEF Tables
<1>5. /\ hist' \in History /\ hist'.codes = hist.codes /\ hist'.cut = hist.cut
      /\ hist'.crossed = hist.crossed /\ hist'.orgRace = hist.orgRace /\ hist'.proofs = hist.proofs
      /\ hist'.founded = hist.founded \cup {o} /\ hist'.crossedOrgs = hist.crossedOrgs
  <2>1. PICK A \in SUBSET Nat : A = hist.founded \cup {o} /\ hist' = [hist EXCEPT !.founded = A]
    BY <1>0, <1>1 DEF InsertFounder, History
  <2>2. QED
    BY <1>0, <2>1 DEF History
<1>6. Shape' /\ CodesQuiet /\ GrantsQuiet /\ KeysQuiet
  BY <1>0, <1>4, <1>5, AnswersFacts
<1>7. req'[p] = Blank /\ \A q \in Request \ {p} : req'[q] = req[q]
  BY <1>0, FinishFacts
<1>8. OrgsInv'
  <2>1. OrgRows'
    <3>1. \A q \in Request : req'[q] = req[q] \/ req'[q] = Blank
      BY <1>7
    <3>2. \A q \in Request :
            /\ req'[q].org <= db.orgs
            /\ req'[q].pc \in {"countAdmins", "change"} => req'[q].op = "change"
            /\ req'[q].pc \in {"insertOrg", "founder"} => req'[q].op # "change"
      <4>1. 0 <= db.orgs
        BY <1>0 DEF Tables
      <4>2. QED
        BY <1>0, <3>1, <4>1, BlankFacts DEF OrgRows
    <3>3. \A i \in 1 .. Len(db.invites) : db.invites[i].org <= db.orgs
      BY <1>0 DEF OrgRows
    <3>4. QED
      BY <1>3, <1>4, <3>2, <3>3 DEF OrgRows
  <2>2. OneOrg'
    BY <1>4, <1>5, <1>7, BlankFacts DEF OrgsInv, OneOrg
  <2>3. FounderIsAlone'
    <3> SUFFICES ASSUME NEW q \in Request, req'[q].pc = "founder", req'[q].org \notin hist.crossedOrgs
                 PROVE  /\ \A m \in X : m.org # req'[q].org
                        /\ \A r \in Request :
                             /\ req'[r].op = "change" => req'[r].org # req'[q].org
                             /\ req'[r].pc = "founder" /\ r # q => req'[r].org # req'[q].org
      BY <1>4, <1>5 DEF FounderIsAlone
    <3>1. q # p /\ req'[q] = req[q]
      BY <1>7, BlankFacts
    <3>2. /\ \A m \in db.members : m.org # req[q].org
          /\ \A r \in Request : /\ req[r].op = "change" => req[r].org # req[q].org
                                /\ req[r].pc = "founder" /\ r # q => req[r].org # req[q].org
      BY <3>1 DEF OrgsInv, FounderIsAlone
    <3>3. req[q].org # o
      BY <1>0, <1>1, <3>1, <3>2
    <3>4. \A m \in X : m.org # req[q].org
      BY <1>3, <3>2, <3>3
    <3>5. \A r \in Request : req'[r] = req[r] \/ req'[r] = Blank
      BY <1>7
    <3>6. QED
      BY <3>1, <3>2, <3>4, <3>5, BlankFacts
  <2>4. AnotherAdmin'
    <3> SUFFICES ASSUME NEW q \in Request, req'[q].pc = "change",
                        req'[q].org \in (hist.founded \cup {o}) \ hist.crossedOrgs
                 PROVE  \E m \in X : /\ m.org = req'[q].org /\ m.role = "admin"
                                     /\ m.acct # req'[q].target
      BY <1>4, <1>5 DEF AnotherAdmin
    <3>1. req'[q] = req[q]
      BY <1>7, BlankFacts
    <3>2. req[q].op = "change"
      BY <1>0, <3>1 DEF OrgRows
    <3>3. req[q].org # o
      BY <1>0, <1>1, <3>1, <3>2 DEF OrgsInv, FounderIsAlone
    <3>4. PICK m \in db.members : /\ m.org = req[q].org /\ m.role = "admin"
                                  /\ m.acct # req[q].target
      BY <3>1, <3>3 DEF OrgsInv, AnotherAdmin
    <3>5. QED
      BY <1>3, <3>1, <3>4
  <2>5. HasAdmin'
    <3> SUFFICES ASSUME NEW c \in (hist.founded \cup {o}) \ hist.crossedOrgs
                 PROVE  \E m \in X : m.org = c /\ m.role = "admin"
      BY <1>4, <1>5 DEF HasAdmin
    <3>1. CASE c \in hist.founded
      BY <1>3, <3>1 DEF OrgsInv, HasAdmin
    <3>2. CASE c = o
      <4>1. \A m \in db.members : m.org # o
        BY <1>0, <1>1, <3>2 DEF OrgsInv, FounderIsAlone
      <4>2. QED
        BY <1>3, <3>2, <4>1
    <3>3. QED
      BY <3>1, <3>2
  <2>6. QED
    BY <2>1, <2>2, <2>3, <2>4, <2>5 DEF OrgsInv
<1>9. QED
  BY <1>6, <1>8

\* The members once one of them has another role, or none.
Changed(o, a, role) == IF role = None THEN Without(o, a) ELSE WithRole(o, a, role)

\* What a change of a member leaves of the others.
LEMMA ChangedFacts ==
  ASSUME Shape, OrgRows, NEW o, NEW a, NEW role \in Roles \cup {None}
  PROVE  /\ Changed(o, a, role) \in SUBSET MemberRow
         /\ \A m \in Changed(o, a, role) :
              \E n \in db.members : m.org = n.org /\ m.acct = n.acct
         /\ \A m \in db.members :
              (m.org # o \/ m.acct # a) => m \in Changed(o, a, role)
         /\ \A m, n \in Changed(o, a, role) : m.org = n.org /\ m.acct = n.acct => m = n
<1> DEFINE X == Changed(o, a, role)
<1>0. db.members \in SUBSET MemberRow
  BY DEF Shape, Typed, Tables
<1>1. CASE role = None
  <2>1. X = {m \in db.members : ~ (m.org = o /\ m.acct = a)}
    BY <1>1 DEF Changed, Without
  <2>2. QED
    BY <1>0, <2>1 DEF OrgRows
<1>2. CASE role # None
  <2>1. role \in Roles /\ X = {IF m.org = o /\ m.acct = a THEN [m EXCEPT !.role = role] ELSE m : m \in db.members}
    BY <1>2 DEF Changed, WithRole
  <2> HIDE DEF X
  <2>2. ASSUME NEW m \in db.members
        PROVE  /\ [m EXCEPT !.role = role] \in MemberRow
               /\ [m EXCEPT !.role = role].org = m.org /\ [m EXCEPT !.role = role].acct = m.acct
    <3>1. m \in MemberRow /\ role \in Roles
      BY <1>0, <2>1
    <3>2. QED
      BY <3>1 DEF MemberRow
  <2>3. ASSUME NEW x \in X
        PROVE  \E m \in db.members :
                 /\ x = IF m.org = o /\ m.acct = a THEN [m EXCEPT !.role = role] ELSE m
                 /\ x \in MemberRow /\ x.org = m.org /\ x.acct = m.acct
    <3>1. PICK m \in db.members :
            x = IF m.org = o /\ m.acct = a THEN [m EXCEPT !.role = role] ELSE m
      BY <2>1
    <3>2. x \in MemberRow /\ x.org = m.org /\ x.acct = m.acct
      BY <1>0, <2>2, <3>1
    <3>3. QED
      BY <3>1, <3>2
  <2>4. ASSUME NEW x \in X, NEW y \in X, x.org = y.org, x.acct = y.acct PROVE x = y
    <3>1. PICK m \in db.members :
            /\ x = IF m.org = o /\ m.acct = a THEN [m EXCEPT !.role = role] ELSE m
            /\ x.org = m.org /\ x.acct = m.acct
      BY <2>3
    <3>2. PICK n \in db.members :
            /\ y = IF n.org = o /\ n.acct = a THEN [n EXCEPT !.role = role] ELSE n
            /\ y.org = n.org /\ y.acct = n.acct
      BY <2>3
    <3>3. m = n
      BY <2>4, <3>1, <3>2 DEF OrgRows
    <3>4. QED
      BY <3>1, <3>2, <3>3
  <2>5. \A m \in db.members : m.org # o \/ m.acct # a => m \in X
    BY <2>1
  <2>6. QED
    BY <2>3, <2>4, <2>5 DEF X
<1>3. QED
  BY <1>1, <1>2

\* A change: either another is at work on the org, or it leaves the admin it counted.
LEMMA ChangeMemberStep ==
  ASSUME Shape, OrgsInv, NEW p \in Request, ChangeMember(p)
  PROVE  Shape' /\ OrgsInv' /\ CodesQuiet /\ GrantsQuiet /\ KeysQuiet
<1>0. /\ Typed /\ db \in Tables /\ hist \in History /\ req[p] \in Locals /\ OrgRows
      /\ Len(db.invites) \in Nat /\ req[p].pc = "change" /\ Write
      /\ (Finish(p) \/ Goto(p, "revokeAll"))
  BY InviteFacts DEF Shape, Typed, OrgsInv, ChangeMember, At
<1>1. PICK o \in Nat, a \in Person, role \in Roles \cup {None} :
        o = req[p].org /\ a = req[p].target /\ role = req[p].role
  BY <1>0 DEF Locals
<1>2. PICK X \in SUBSET MemberRow : X = Changed(o, a, role)
  BY <1>0, <1>1, ChangedFacts
<1>3. /\ \A m \in X : \E n \in db.members : m.org = n.org /\ m.acct = n.acct
      /\ \A m \in db.members : (m.org # o \/ m.acct # a) => m \in X
      /\ \A m, n \in X : m.org = n.org /\ m.acct = n.acct => m = n
  BY <1>0, <1>1, <1>2, ChangedFacts
<1>4. /\ db' \in Tables /\ db'.otps = db.otps /\ db'.grants = db.grants /\ db'.keys = db.keys
      /\ db'.orgs = db.orgs /\ db'.members = X /\ db'.invites = db.invites
  <2>1. db' = [db EXCEPT !.members = X]
    BY <1>1, <1>2 DEF ChangeMember, Changed
  <2>2. QED
    BY <1>0, <1>2, <2>1 DEF Tables
<1>5. PICK C \in SUBSET Nat :
        /\ hist' = [hist EXCEPT !.crossedOrgs = C] /\ hist.crossedOrgs \subseteq C
        /\ (\E q \in Request \ {p} : req[q].op = "change" /\ req[q].org = o) => o \in C
  <2>1. hist.crossedOrgs \cup {o} \in SUBSET Nat /\ hist.crossedOrgs \in SUBSET Nat
    BY <1>0 DEF History
  <2>2. CASE \E q \in Request \ {p} : req[q].op = "change" /\ req[q].org = o
    <3>1. hist' = [hist EXCEPT !.crossedOrgs = hist.crossedOrgs \cup {o}]
      BY <1>1, <2>2 DEF ChangeMember
    <3>2. QED
      BY <2>1, <3>1
  <2>3. CASE ~ \E q \in Request \ {p} : req[q].op = "change" /\ req[q].org = o
    <3>1. hist' = hist /\ hist = [hist EXCEPT !.crossedOrgs = hist.crossedOrgs]
      BY <1>0, <1>1, <2>3 DEF ChangeMember, History
    <3>2. QED
      BY <2>1, <2>3, <3>1
  <2>4. QED
    BY <2>2, <2>3
<1>6. /\ hist' \in History /\ hist'.codes = hist.codes /\ hist'.cut = hist.cut
      /\ hist'.crossed = hist.crossed /\ hist'.orgRace = hist.orgRace /\ hist'.proofs = hist.proofs
      /\ hist'.founded = hist.founded /\ hist'.crossedOrgs = C
  BY <1>0, <1>5 DEF History
<1>7. Shape' /\ CodesQuiet /\ GrantsQuiet /\ KeysQuiet
  <2>1. CASE Finish(p)
    BY <1>0, <1>4, <1>6, <2>1, AnswersFacts
  <2>2. CASE Goto(p, "revokeAll")
    BY <1>0, <1>4, <1>6, <2>2, GoesOnFacts DEF Labels
  <2>3. QED
    BY <1>0, <2>1, <2>2
<1>8. /\ \A q \in Request \ {p} : req'[q] = req[q]
      /\ req'[p].pc \in {"idle", "revokeAll"} /\ req'[p].op \in {"idle", req[p].op}
      /\ req'[p].org \in {0, req[p].org}
      /\ req'[p].op = req[p].op => req'[p].org = req[p].org
  <2>0. req[p].op = "change" /\ Blank.op = "idle" /\ Blank.org = 0
    BY <1>0, BlankFacts DEF OrgRows
  <2>1. CASE Finish(p)
    BY <1>0, <2>0, <2>1, FinishFacts, BlankFacts
  <2>2. CASE Goto(p, "revokeAll")
    BY <1>0, <2>2, GotoFacts DEF Labels
  <2>3. QED
    BY <1>0, <2>1, <2>2
<1>9. \A q \in Request :
        /\ req'[q].pc \in {"insertOrg", "founder", "countAdmins", "change"} => q # p /\ req'[q] = req[q]
        /\ req'[q].op = "change" => req[q].op = "change" /\ req'[q].org = req[q].org
  BY <1>8
<1>10. OrgsInv'
  <2>1. OrgRows'
    <3>1. \A m \in X : m.org <= db.orgs
      BY <1>0, <1>3 DEF OrgRows
    <3>2. \A q \in Request : req'[q].org <= db.orgs
      <4>1. 0 <= db.orgs
        BY <1>0 DEF Tables
      <4>2. QED
        BY <1>0, <1>8, <4>1 DEF OrgRows
    <3>3. \A q \in Request :
            /\ req'[q].pc \in {"countAdmins", "change"} => req'[q].op = "change"
            /\ req'[q].pc \in {"insertOrg", "founder"} => req'[q].op # "change"
      BY <1>0, <1>9 DEF OrgRows
    <3>4. \A i \in 1 .. Len(db.invites) : db.invites[i].org <= db.orgs
      BY <1>0 DEF OrgRows
    <3>5. QED
      BY <1>3, <1>4, <3>1, <3>2, <3>3, <3>4 DEF OrgRows
  <2>2. OneOrg'
    BY <1>4, <1>6, <1>9 DEF OrgsInv, OneOrg
  <2>3. FounderIsAlone'
    <3> SUFFICES ASSUME NEW q \in Request, req'[q].pc = "founder", req'[q].org \notin C
                 PROVE  /\ \A m \in X : m.org # req'[q].org
                        /\ \A r \in Request :
                             /\ req'[r].op = "change" => req'[r].org # req'[q].org
                             /\ req'[r].pc = "founder" /\ r # q => req'[r].org # req'[q].org
      BY <1>4, <1>6 DEF FounderIsAlone
    <3>1. req'[q] = req[q] /\ req[q].org \notin hist.crossedOrgs
      BY <1>5, <1>9
    <3>2. /\ \A m \in db.members : m.org # req[q].org
          /\ \A r \in Request : /\ req[r].op = "change" => req[r].org # req[q].org
                                /\ req[r].pc = "founder" /\ r # q => req[r].org # req[q].org
      BY <3>1 DEF OrgsInv, FounderIsAlone
    <3>3. QED
      BY <1>3, <1>9, <3>1, <3>2
  <2>4. AnotherAdmin'
    <3> SUFFICES ASSUME NEW q \in Request, req'[q].pc = "change",
                        req'[q].org \in hist.founded \ C
                 PROVE  \E m \in X : /\ m.org = req'[q].org /\ m.role = "admin"
                                     /\ m.acct # req'[q].target
      BY <1>4, <1>6 DEF AnotherAdmin
    <3>1. q # p /\ req'[q] = req[q]
      BY <1>9
    <3>2. req[q].op = "change" /\ req[q].org # o
      BY <1>0, <1>5, <3>1 DEF OrgRows
    <3>3. PICK m \in db.members : /\ m.org = req[q].org /\ m.role = "admin"
                                  /\ m.acct # req[q].target
      BY <1>5, <3>1 DEF OrgsInv, AnotherAdmin
    <3>4. QED
      BY <1>3, <3>1, <3>2, <3>3
  <2>5. HasAdmin'
    <3> SUFFICES ASSUME NEW c \in hist.founded \ C
                 PROVE  \E m \in X : m.org = c /\ m.role = "admin"
      BY <1>4, <1>6 DEF HasAdmin
    <3>1. CASE c = o
      <4>1. PICK m \in db.members : m.org = o /\ m.role = "admin" /\ m.acct # a
        BY <1>0, <1>1, <1>5, <3>1 DEF OrgsInv, AnotherAdmin
      <4>2. QED
        BY <1>3, <3>1, <4>1
    <3>2. CASE c # o
      <4>1. PICK m \in db.members : m.org = c /\ m.role = "admin"
        BY <1>5 DEF OrgsInv, HasAdmin
      <4>2. QED
        BY <1>3, <3>2, <4>1
    <3>3. QED
      BY <3>1, <3>2
  <2>6. QED
    BY <2>1, <2>2, <2>3, <2>4, <2>5 DEF OrgsInv
<1>11. QED
  BY <1>7, <1>10

-----------------------------------------------------------------------------
(* The whole *)

IdentityInv == Shape /\ CodesInv /\ GrantsInv /\ KeysInv /\ OrgsInv

\* The settled accounts of a scenario, each with its key.
LEMMA SettledFacts ==
  ASSUME IdentityInit
  PROVE  /\ now \in Nat /\ mix \in Scenarios /\ mix.org \in BOOLEAN
         /\ db.accounts \in [Account -> {"none", "unverified", "verified"}]
         /\ db.inboxes \in SUBSET Person /\ db.keys \in Seq(KeyRow) /\ db.otps = {}
         /\ db.orgs \in {0, 1} /\ db.members \in SUBSET MemberRow
         /\ \A m \in db.members : m.org = 1 /\ db.orgs = 1
         /\ \A m, n \in db.members : m = n
         /\ db.orgs = 1 => \E m \in db.members : m.org = 1 /\ m.role = "admin"
         /\ db.invites = <<>> /\ db.sessions = <<>> /\ db.grants = <<>>
         /\ \A k \in Key : db.keys[k].active /\ ~ db.keys[k].revoked /\ db.keys[k].grant = 0
<1> DEFINE settled == mix.settled
           Settled == {settled[i] : i \in DOMAIN settled}
           Row(i) == [acct |-> settled[i], active |-> TRUE, revoked |-> FALSE, grant |-> 0]
<1>1. /\ now = 1 /\ mix \in Scenarios
      /\ db = [accounts |-> [a \in Account |-> IF a \in Settled THEN "verified" ELSE "none"],
               inboxes |-> Settled, keys |-> [i \in DOMAIN settled |-> Row(i)],
               otps |-> {}, orgs |-> IF mix.org THEN 1 ELSE 0,
               members |-> IF mix.org THEN {[org |-> 1, acct |-> settled[1], role |-> "admin"]} ELSE {},
               invites |-> <<>>, sessions |-> <<>>, grants |-> <<>>]
  BY DEF IdentityInit
<1>2. settled \in Seq(Account) /\ mix.org \in BOOLEAN /\ (mix.org => settled # <<>>)
  BY <1>1, ScenarioAssumption
<1>3. /\ Len(settled) \in Nat /\ DOMAIN settled = 1 .. Len(settled)
      /\ \A i \in 1 .. Len(settled) : settled[i] \in Account
  BY <1>2, RowFacts
<1>4. Account \subseteq Person /\ "admin" \in Roles
  BY DEF Person, Roles
<1>5. Settled \in SUBSET Person
  BY <1>3, <1>4
<1>6. db.keys \in Seq(KeyRow) /\ \A k \in Key : db.keys[k] = Row(k)
  <2>1. db.keys = [i \in 1 .. Len(settled) |-> Row(i)]
    BY <1>1, <1>3
  <2>2. \A i \in 1 .. Len(settled) : Row(i) \in KeyRow
    BY <1>3, <1>4 DEF KeyRow
  <2>3. db.keys \in [1 .. Len(settled) -> KeyRow]
    BY <2>1, <2>2
  <2>4. db.keys \in Seq(KeyRow)
    BY <1>3, <2>3, SeqDef
  <2>5. DOMAIN db.keys = 1 .. Len(db.keys)
    BY <2>4, RowFacts
  <2>6. Key = 1 .. Len(settled)
    BY <2>3, <2>5 DEF Key
  <2>7. QED
    BY <2>1, <2>4, <2>6
<1>7. mix.org => settled[1] \in Person
  <2>1. settled # <<>> => Len(settled) # 0
    BY <1>2, EmptySeq
  <2>2. QED
    BY <1>2, <1>3, <1>4, <2>1
<1>8. /\ db.orgs = IF mix.org THEN 1 ELSE 0
      /\ db.members = IF mix.org THEN {[org |-> 1, acct |-> settled[1], role |-> "admin"]} ELSE {}
      /\ db.otps = {} /\ db.invites = <<>> /\ db.sessions = <<>> /\ db.grants = <<>>
      /\ db.inboxes = Settled
      /\ db.accounts = [a \in Account |-> IF a \in Settled THEN "verified" ELSE "none"]
  BY <1>1
<1>9. ASSUME NEW k \in Key
      PROVE  db.keys[k].active /\ ~ db.keys[k].revoked /\ db.keys[k].grant = 0
  <2>1. db.keys[k] = [acct |-> settled[k], active |-> TRUE, revoked |-> FALSE, grant |-> 0]
    BY <1>6
  <2>2. db.keys[k].active = TRUE /\ db.keys[k].revoked = FALSE /\ db.keys[k].grant = 0
    BY <2>1
  <2>3. QED
    BY <2>2
<1>10. db.accounts \in [Account -> {"none", "unverified", "verified"}]
  BY <1>8
<1>11. CASE mix.org
  <2>1. [org |-> 1, acct |-> settled[1], role |-> "admin"] \in MemberRow
    BY <1>4, <1>7, <1>11 DEF MemberRow
  <2>2. db.orgs = 1 /\ db.members = {[org |-> 1, acct |-> settled[1], role |-> "admin"]}
    BY <1>8, <1>11
  <2>3. /\ db.members \in SUBSET MemberRow /\ db.orgs \in {0, 1}
        /\ \A m \in db.members : m.org = 1 /\ db.orgs = 1
        /\ \A m, n \in db.members : m = n
        /\ \E m \in db.members : m.org = 1 /\ m.role = "admin"
    BY <2>1, <2>2
  <2>4. QED
    BY <1>1, <1>2, <1>5, <1>6, <1>8, <1>9, <1>10, <2>3
<1>12. CASE ~ mix.org
  BY <1>1, <1>2, <1>5, <1>6, <1>8, <1>9, <1>10, <1>12
<1>13. QED
  BY <1>11, <1>12

\* A deployment starts with no request at work and every org with its admin.
LEMMA IdentityStarts ==
  ASSUME IdentityInit PROVE IdentityInv
<1>1. /\ req = [p \in Request |-> Blank]
      /\ hist = [codes |-> 0, mailed |-> {}, cut |-> {}, crossed |-> {}, proofs |-> {},
                 founded |-> 1 .. db.orgs, crossedOrgs |-> {}, orgRace |-> FALSE]
      /\ db = [accounts |-> db.accounts, inboxes |-> db.inboxes, keys |-> db.keys,
               otps |-> db.otps, orgs |-> db.orgs, members |-> db.members,
               invites |-> db.invites, sessions |-> db.sessions, grants |-> db.grants]
  BY DEF IdentityInit
<1>2. \A p \in Request : req[p] = Blank
  BY <1>1
<1>3. /\ hist.codes = 0 /\ hist.cut = {} /\ hist.crossed = {} /\ hist.proofs = {}
      /\ hist.founded = 1 .. db.orgs /\ hist.crossedOrgs = {} /\ ~ hist.orgRace
  BY <1>1
<1>4. <<>> \in Seq(InviteRow) /\ <<>> \in Seq(SessionRow) /\ <<>> \in Seq(GrantRow)
  BY EmptySeq
<1>5. Shape
  <2>1. db \in Tables
    <3>1. /\ db.accounts \in [Account -> {"none", "unverified", "verified"}]
          /\ db.inboxes \in SUBSET Person /\ db.keys \in Seq(KeyRow) /\ db.otps \in SUBSET OtpRow
          /\ db.orgs \in Nat /\ db.members \in SUBSET MemberRow
      BY SettledFacts
    <3>2. /\ db.invites \in Seq(InviteRow) /\ db.sessions \in Seq(SessionRow)
          /\ db.grants \in Seq(GrantRow)
      BY <1>4, SettledFacts
    <3>3. QED
      BY <1>1, <3>1, <3>2 DEF Tables
  <2>2. hist \in History
    BY <1>1, SettledFacts DEF History
  <2>3. req \in [Request -> Locals]
    BY <1>1, BlankFacts
  <2>4. Len(db.invites) = 0
    BY SettledFacts, EmptySeq
  <2>5. QED
    BY <1>2, <2>1, <2>2, <2>3, <2>4, BlankFacts, SettledFacts DEF Shape, Typed, Invited
<1>6. CodesInv
  BY <1>2, <1>3, BlankFacts, SettledFacts DEF CodesInv
<1>7. GrantsInv
  <2>1. Len(db.grants) = 0
    BY SettledFacts, EmptySeq
  <2>2. QED
    BY <1>2, <2>1, BlankFacts, SettledFacts DEF GrantsInv, Redeemed, Exchanging
<1>8. KeysInv
  <2>1. KeepsAKey
    BY KeepsFacts, SettledFacts DEF KeepsLive
  <2>2. QED
    BY <1>2, <2>1, BlankFacts DEF KeysInv, Verifying
<1>9. OrgsInv
  <2>1. OrgRows
    <3>1. Len(db.invites) = 0
      BY SettledFacts, EmptySeq
    <3>2. QED
      BY <1>2, <3>1, BlankFacts, SettledFacts DEF OrgRows
  <2>2. OneOrg
    BY <1>2, BlankFacts, SettledFacts DEF OneOrg
  <2>3. FounderIsAlone /\ AnotherAdmin
    BY <1>2, BlankFacts DEF FounderIsAlone, AnotherAdmin
  <2>4. HasAdmin
    <3>1. ASSUME NEW o \in hist.founded
          PROVE  db.orgs = 1 /\ o = 1
      BY <1>3, <3>1, SettledFacts
    <3>2. QED
      BY <3>1, SettledFacts DEF HasAdmin
  <2>5. QED
    BY <2>1, <2>2, <2>3, <2>4 DEF OrgsInv
<1>10. QED
  BY <1>5, <1>6, <1>7, <1>8, <1>9 DEF IdentityInv

\* Whatever a request or the outside does next, the invariant holds again: the
\* step is quiet for the parts it does not work on.
LEMMA IdentityGoesOn ==
  ASSUME IdentityInv, [Next]_vars PROVE IdentityInv'
<1>0. Shape /\ CodesInv /\ GrantsInv /\ KeysInv /\ OrgsInv
  BY DEF IdentityInv
<1>1. ASSUME Shape', Quiet
      PROVE  IdentityInv'
  BY <1>0, <1>1, CodesStayQuiet, GrantsStayQuiet, KeysStayQuiet, OrgsStayQuiet
     DEF Quiet, IdentityInv
<1>2. ASSUME Shape', CodesInv', GrantsQuiet, KeysQuiet, OrgsQuiet
      PROVE  IdentityInv'
  BY <1>0, <1>2, GrantsStayQuiet, KeysStayQuiet, OrgsStayQuiet DEF IdentityInv
<1>3. ASSUME Shape', GrantsInv', CodesQuiet, KeysQuiet, OrgsQuiet
      PROVE  IdentityInv'
  BY <1>0, <1>3, CodesStayQuiet, KeysStayQuiet, OrgsStayQuiet DEF IdentityInv
<1>4. ASSUME Shape', KeysInv', CodesQuiet, GrantsQuiet, OrgsQuiet
      PROVE  IdentityInv'
  BY <1>0, <1>4, CodesStayQuiet, GrantsStayQuiet, OrgsStayQuiet DEF IdentityInv
<1>5. ASSUME Shape', OrgsInv', CodesQuiet, GrantsQuiet, KeysQuiet
      PROVE  IdentityInv'
  BY <1>0, <1>5, CodesStayQuiet, GrantsStayQuiet, KeysStayQuiet DEF IdentityInv
<1>6. ASSUME NEW p \in Request, AccountStep(p)
      PROVE  IdentityInv'
  <2>1. CASE \/ \E a \in Account : SignupStart(p, a)
             \/ CountOtps(p)
             \/ \E a \in Account : CreateKeyStart(p, a)
             \/ \E a \in Account, k \in Key : RevokeKeyStart(p, a, k)
             \/ Abort(p)
    BY <1>0, <1>1, <2>1, ReadsQuiet
  <2>2. CASE InsertAccount(p) \/ EnsureInbox(p) \/ \E sent \in BOOLEAN : MailOtp(p, sent)
    BY <1>0, <1>1, <2>2, RowsQuiet
  <2>3. CASE MarkAccepted(p)
    BY <1>0, <1>1, <2>3, InvitesQuiet
  <2>4. CASE JoinOrg(p)
    BY <1>0, <1>5, <2>4, JoinOrgStep
  <2>5. CASE InsertSignupKey(p) \/ MintKey(p)
    <3>1. /\ Shape' /\ GrantsInv' /\ CodesQuiet /\ OrgsQuiet /\ hist' = hist
          /\ \A q \in Request : KeysCalm(req[q], req'[q])
      BY <1>0, <2>5, InsertKeyStep
    <3>2. PICK b \in BOOLEAN, g \in Nat : db'.keys = WithKey(req[p].acct, b, g)
      BY <1>0, <2>5, InsertKeyStep
    <3>3. req[p].acct \in Person
      BY <1>0 DEF Shape, Typed, Locals
    <3>4. KeysInv'
      BY <1>0, <3>1, <3>2, <3>3, KeysWithKey
    <3>5. QED
      BY <1>0, <3>1, <3>4, CodesStayQuiet, OrgsStayQuiet DEF IdentityInv
  <2>6. CASE InsertOtp(p)
    BY <1>0, <1>2, <2>6, InsertOtpStep
  <2>7. CASE \E k \in Key, guess \in hist.mailed \cup {0} : VerifyStart(p, k, guess)
    BY <1>0, <1>4, <2>7, VerifyStartStep
  <2>8. CASE CheckOtp(p)
    BY <1>0, <1>2, <2>8, CheckOtpStep
  <2>9. CASE MissOtp(p)
    BY <1>0, <1>2, <2>9, MissOtpStep
  <2>10. CASE MarkVerified(p)
    BY <1>0, <1>3, <2>10, MarkVerifiedStep
  <2>11. CASE DeleteOtps(p)
    <3>1. /\ Shape' /\ GrantsInv' /\ CodesQuiet /\ OrgsQuiet
          /\ db'.keys = db.keys /\ hist' = hist
      BY <1>0, <2>11, DeleteOtpsStep
    <3>2. KeysInv'
      BY <1>0, <2>11, <3>1, SpentStep
    <3>3. QED
      BY <1>0, <3>1, <3>2, CodesStayQuiet, OrgsStayQuiet DEF IdentityInv
  <2>12. CASE ActivateKey(p)
    BY <1>0, <1>4, <2>12, ActivateKeyStep
  <2>13. CASE RevokeOtherKeys(p)
    BY <1>0, <1>4, <2>13, RevokeOtherKeysStep
  <2>14. CASE RevokeKey(p)
    BY <1>0, <1>4, <2>14, CutStep
  <2>15. QED
    BY <1>6, <2>1, <2>2, <2>3, <2>4, <2>5, <2>6, <2>7, <2>8, <2>9, <2>10, <2>11, <2>12, <2>13,
       <2>14 DEF AccountStep
<1>7. ASSUME NEW p \in Request, OAuthStep(p)
      PROVE  IdentityInv'
  <2>1. CASE \/ \E s \in 1 .. Len(db.sessions), a \in Account : EmailStart(p, s, a)
             \/ \E s \in 1 .. Len(db.sessions), guess \in hist.mailed \cup {0} :
                  CodeStart(p, s, guess)
    BY <1>0, <1>1, <2>1, ReadsQuiet
  <2>2. CASE BindSession(p) \/ EndSession(p)
    BY <1>0, <1>1, <2>2, RowsQuiet
  <2>3. CASE InsertGrant(p)
    BY <1>0, <1>3, <2>3, InsertGrantStep
  <2>4. CASE \E g \in 1 .. Len(db.grants) : ExchangeStart(p, g)
    BY <1>0, <1>3, <2>4, ExchangeStartStep
  <2>5. CASE ClaimGrant(p)
    BY <1>0, <1>3, <2>5, ClaimGrantStep
  <2>6. QED
    BY <1>7, <2>1, <2>2, <2>3, <2>4, <2>5 DEF OAuthStep
<1>8. ASSUME NEW p \in Request, OrgStep(p)
      PROVE  IdentityInv'
  <2>1. CASE \/ \E a \in Caller, o \in OrgIds, m \in Account, role \in Roles :
                  InviteStart(p, a, o, m, role)
             \/ \E a \in Caller, o \in OrgIds, i \in 1 .. Len(db.invites) :
                  UninviteStart(p, a, o, i)
             \/ \E a \in Caller, o \in OrgIds, m \in Account : ProvisionStart(p, a, o, m)
    BY <1>0, <1>1, <2>1, ReadsQuiet
  <2>2. CASE ProvisionInbox(p)
    BY <1>0, <1>1, <2>2, RowsQuiet
  <2>3. CASE InsertInvite(p) \/ DeleteInvite(p)
    BY <1>0, <1>1, <2>3, InvitesQuiet
  <2>4. CASE \E a \in Caller : CreateOrgStart(p, a)
    BY <1>0, <1>5, <2>4, CreateOrgStartStep
  <2>5. CASE InsertOrg(p)
    BY <1>0, <1>5, <2>5, InsertOrgStep
  <2>6. CASE InsertFounder(p)
    BY <1>0, <1>5, <2>6, InsertFounderStep
  <2>7. CASE \E a \in Caller, o \in OrgIds, m \in Caller, role \in Roles \cup {None} :
               ChangeStart(p, a, o, m, role)
    BY <1>0, <1>5, <2>7, ChangeStartStep
  <2>8. CASE CountAdmins(p)
    BY <1>0, <1>5, <2>8, CountAdminsStep
  <2>9. CASE ChangeMember(p)
    BY <1>0, <1>5, <2>9, ChangeMemberStep
  <2>10. CASE RevokeMemberKeys(p)
    BY <1>0, <1>4, <2>10, CutStep
  <2>11. QED
    BY <1>8, <2>1, <2>2, <2>3, <2>4, <2>5, <2>6, <2>7, <2>8, <2>9, <2>10 DEF OrgStep
<1>9. CASE BeginAuthorization \/ Tick \/ UNCHANGED vars
  BY <1>0, <1>1, <1>9, OutsideQuiet
<1>10. QED
  BY <1>6, <1>7, <1>8, <1>9 DEF Next

\* For any number of accounts and requests, and in every interleaving of the
\* statements of core/accounts.ts, keys.ts, oauth.ts and orgs.ts, each request
\* that has read and not written yet can rely on what the invariant says.
THEOREM IdentityInvariantHolds == Spec => []IdentityInv
<1>1. IdentityInit => IdentityInv
  BY IdentityStarts
<1>2. IdentityInv /\ [Next]_vars => IdentityInv'
  BY IdentityGoesOn
<1>3. QED
  BY <1>1, <1>2, PTL DEF Spec

\* The limit on guesses is compared before a guess is counted, and yet a code
\* takes one guess more per further request at most (accounts.ts:179): those
\* that passed the comparison are part of the count the invariant bounds.
THEOREM GuessesStayBounded == Spec => []GuessesBounded
<1>1. IdentityInv => GuessesBounded
  <2> SUFFICES ASSUME IdentityInv, NEW o \in db.otps
               PROVE  o.attempts <= OtpAttempts + Cardinality(Request) - 1
    BY DEF GuessesBounded
  <2>1. o.attempts + Cardinality(Guessing(o.code)) <= OtpAttempts + Cardinality(Request) - 1
    BY DEF IdentityInv, CodesInv
  <2>2. o.attempts \in Nat
    BY DEF IdentityInv, Shape, Typed, Tables, OtpRow
  <2>3. Cardinality(Guessing(o.code)) \in Nat
    BY GuessingFacts
  <2>4. OtpAttempts \in Nat /\ Cardinality(Request) \in Nat
    BY IdentityAssumption, FS_CardinalityType
  <2>5. QED
    BY <2>1, <2>2, <2>3, <2>4
<1>2. QED
  BY <1>1, IdentityInvariantHolds, PTL

\* An account that has held an active key still has a live one, unless it, an
\* admin or an overlapping verification revoked it: verify revokes the other
\* keys only after its own is active and not revoked (accounts.ts:205).
THEOREM AKeyIsKept == Spec => []KeepsAKey
<1>1. IdentityInv => KeepsAKey
  BY DEF IdentityInv, KeysInv
<1>2. QED
  BY <1>1, IdentityInvariantHolds, PTL

\* However many exchanges of a grant overlap, the one that claims the row is
\* the only one that mints a key of it (oauth.ts:500).
THEOREM GrantsBuyOneKey == Spec => []GrantBuysOneKey
<1>1. IdentityInv => GrantBuysOneKey
  <2> SUFFICES ASSUME IdentityInv, NEW g \in 1 .. Len(db.grants)
               PROVE  Cardinality({k \in Key : db.keys[k].grant = g}) <= 1
    BY DEF GrantBuysOneKey
  <2>0. PICK Bought : Bought = {k \in Key : db.keys[k].grant = g}
    OBVIOUS
  <2>1. g # 0
    BY GrantFacts DEF IdentityInv, Shape
  <2>2. \A k, j \in Bought : k = j
    BY <2>0, <2>1 DEF IdentityInv, GrantsInv
  <2>3. CASE Bought = {}
    <3>1. Cardinality(Bought) = 0
      BY <2>3, FS_EmptySet
    <3>2. QED
      BY <2>0, <3>1
  <2>4. CASE Bought # {}
    <3>1. PICK k : k \in Bought
      BY <2>4
    <3>2. Bought = {k}
      BY <2>2, <3>1
    <3>3. Cardinality(Bought) = 1
      BY <3>2, FS_Singleton
    <3>4. QED
      BY <2>0, <3>3
  <2>5. QED
    BY <2>3, <2>4
<1>2. QED
  BY <1>1, IdentityInvariantHolds, PTL

\* The account of a grant, and of the key it buys, presented its mailed code in
\* the grant's session, whatever the email form does to it (oauth.ts:429).
THEOREM GrantsStayProved == Spec => []GrantsAreProved
<1>1. IdentityInv => GrantsAreProved
  BY DEF IdentityInv, GrantsInv, GrantsAreProved, Redeemed
<1>2. QED
  BY <1>1, IdentityInvariantHolds, PTL

\* An org loses its last admin only when two changes of its members overlap, or
\* its founder joined it before the row that makes a founder an admin: each
\* change that passed the count leaves another admin (orgs.ts:191,290).
THEOREM AdminsAreKept == Spec => []AdminLossNeedsOverlap
<1>1. IdentityInv => AdminLossNeedsOverlap
  BY DEF IdentityInv, OrgsInv, HasAdmin, AdminLossNeedsOverlap, Admins
<1>2. QED
  BY <1>1, IdentityInvariantHolds, PTL

\* A second org comes only of two createOrg calls that both counted none before
\* the first of them inserted (orgs.ts:185).
THEOREM OneOrgWithoutOverlap == Spec => []SecondOrgNeedsOverlap
<1>1. IdentityInv => SecondOrgNeedsOverlap
  BY DEF IdentityInv, OrgsInv, OneOrg, SecondOrgNeedsOverlap, Shape, Typed, Tables
<1>2. QED
  BY <1>1, IdentityInvariantHolds, PTL
=============================================================================
