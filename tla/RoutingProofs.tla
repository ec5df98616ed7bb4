---------------------------- MODULE RoutingProofs ----------------------------
(***************************************************************************)
(* Proofs about Domains and Routes at work together, for any number of     *)
(* callers, records, addresses, rules, faults and runs of the setup.       *)
(*                                                                         *)
(* Three invariants on top of the types: Tidy, what a call about the       *)
(* domain knows of the zone while it is the only one; Apart, what a        *)
(* deletion of the domain and the creation of an inbox on it rely on while *)
(* they do not meet; and Kept, to which rule an inbox owes its mail and    *)
(* what the setup holds of the rows while it works.                        *)
(***************************************************************************)
EXTENDS Routes, TLAPS

DomainRow == [status : {"none", "pending", "verified", "failed"}, tag : BOOLEAN,
              records : SUBSET Rec]

Content == SUBSET {"theirs", "ours"}

Zone == [here : BOOLEAN, routing : BOOLEAN, sending : BOOLEAN, dns : [Rec -> Content]]

InboxRow == [row : BOOLEAN, rule : Nat]

Mode == {"catch_all", "per_inbox"}

Ops == {"none", "add", "verify", "remove", "create", "delete"}

Steps == {"idle", "insert", "onboard", "routing", "check", "write", "settle", "records", "row",
          "rule"}

Place == Address \cup {"none"}

Call == [op : Ops, step : Steps, row : DomainRow, todo : SUBSET Rec, ok : BOOLEAN, clean : BOOLEAN,
         addr : Place, rule : Nat, mode : Mode, crossed : BOOLEAN]

Past == [calls : Nat, faults : Nat, rough : BOOLEAN, met : BOOLEAN, broken : SUBSET Place,
         before : [Rec -> Content]]

Rule == [id : Nat, addr : Address, zone : {"own", "custom"}]

Names == UNION {[S -> Nat] : S \in SUBSET Address}

Plan == [create : SUBSET Address, adopt : Names, remove : SUBSET Rule]

SetupRun == [step : {"idle", "inboxes", "plan", "create", "remove"}, rows : Names, plan : Plan,
             runs : Nat, crossed : BOOLEAN]

DomainTyped ==
    /\ domain \in DomainRow /\ zone \in Zone /\ inboxes \in [Address -> InboxRow]
    /\ calls \in [Caller -> Call] /\ past \in Past
    /\ \A p \in Caller : IF OnInbox(calls[p]) THEN calls[p].addr \in Address ELSE calls[p].rule = 0

RouteTyped ==
    /\ rules \in SUBSET Rule /\ made \in Nat /\ mode \in Mode /\ catchAll \in BOOLEAN
    /\ setup \in SetupRun

Typed == DomainTyped /\ RouteTyped

-----------------------------------------------------------------------------
(* The invariants *)

\* What the domain has left in its zone, and what it found there.
Clean == ~ zone.sending /\ \A r \in Rec : "ours" \in zone.dns[r] => "ours" \in past.before[r]

Full(row) == row.tag /\ row.records = Rec

\* What a call about the domain relies on.
Knows(c) ==
    /\ c.op = "add" => IF c.step = "insert" THEN domain = NoDomain /\ Clean ELSE domain # NoDomain
    /\ c.op = "verify" => domain # NoDomain /\ Full(c.row)
    /\ c.op = "remove" =>
         IF c.step = "row" THEN Clean
         ELSE /\ domain # NoDomain /\ Full(c.row)
              /\ \A r \in Rec \ c.todo : "ours" \in zone.dns[r] => "ours" \in past.before[r]

Tidy ==
    ~ past.rough =>
        /\ \A p, q \in Caller : OnDomain(calls[p]) /\ OnDomain(calls[q]) => p = q
        /\ \A p \in Caller : Knows(calls[p])
        /\ domain # NoDomain /\ (\A p \in Caller : calls[p].op # "add") => Full(domain)
        /\ domain = NoDomain /\ (\A p \in Caller : ~ OnDomain(calls[p])) => Clean

Apart ==
    ~ past.met =>
        /\ \A p, q \in Caller : ~ Meet(calls[p], calls[q])
        /\ \A p \in Caller : calls[p].op = "remove" => \A a \in Custom : ~ inboxes[a].row
        /\ \A p \in Caller : calls[p].op = "create" /\ calls[p].addr \in Custom => domain # NoDomain
        /\ \A a \in Custom : inboxes[a].row => domain # NoDomain

\* A number names a rule of the address that holds it, or one that is gone.
Denotes(n, a) == n <= made /\ \A x \in rules : x.id = n => x.addr = a

RulesAreNamed ==
    /\ \A x \in rules : x.id # 0 /\ x.id <= made
    /\ \A x, y \in rules : x.id = y.id => x = y
    /\ \A a \in Address : Denotes(inboxes[a].rule, a)
    /\ \A p \in Caller : Denotes(calls[p].rule, calls[p].addr)
    /\ \A a \in DOMAIN setup.plan.adopt : Denotes(setup.plan.adopt[a], a)

\* The catch-all is on until a setup has switched the mode, and a call that no
\* setup overlapped works in the mode of the Worker.
ModesHold ==
    /\ mode = "catch_all" => catchAll /\ ~ SettingUp
    /\ \A p \in Caller : OnInbox(calls[p]) /\ ~ calls[p].crossed => ~ SettingUp /\ calls[p].mode = mode

\* A creation that no setup overlapped has made the rule its inbox needs, and
\* nobody else knows that rule.
Creates(p) ==
    calls[p].op = "create" /\ ~ calls[p].crossed =>
        /\ calls[p].step = "rule" => calls[p].rule = 0
        /\ calls[p].rule # 0 =>
             /\ \A a \in Address : inboxes[a].rule # calls[p].rule
             /\ \A q \in Caller \ {p} : calls[q].rule # calls[p].rule
        /\ calls[p].step # "rule" /\ NeedsRule(calls[p]) =>
             \E x \in rules : /\ x.id = calls[p].rule /\ x.addr = calls[p].addr
                              /\ x.zone = ZoneOf(calls[p].addr)

Leaving(a) == \E p \in Caller : InStep(p, "delete", "row") /\ calls[p].addr = a

\* The setup knows every inbox but those that were created meanwhile, removes
\* no rule of one it knows, and has a rule, or the plan of one, for each of the
\* deployment's own.
SetupHolds ==
    /\ setup.step \in {"plan", "create", "remove"} =>
         \A a \in Address : inboxes[a].row => a \in DOMAIN setup.rows \/ a \in past.broken
    /\ setup.step \in {"create", "remove"} =>
         /\ \A x \in setup.plan.remove : x.addr \notin DOMAIN setup.rows
         /\ \A a \in Own : inboxes[a].row =>
              Routed(a) \/ a \in setup.plan.create \/ a \in past.broken \/ Leaving(a)
    /\ setup.step = "remove" => setup.plan.create = {}

Reached ==
    \A a \in Address : inboxes[a].row =>
        Routed(a) \/ (a \in Own /\ catchAll) \/ a \in past.broken \/ Leaving(a)

Kept == RulesAreNamed /\ ModesHold /\ (\A p \in Caller : Creates(p)) /\ SetupHolds /\ Reached

RoutingInv == Typed /\ Tidy /\ Apart /\ Kept

-----------------------------------------------------------------------------
(* Steps of one call *)

\* A caller with no call.
LEMMA FreeFacts ==
    /\ Free \in Call /\ Free.op = "none" /\ Free.step = "idle" /\ Free.rule = 0
    /\ Free.row = NoDomain /\ Free.addr = "none" /\ NoDomain \in DomainRow
    /\ NoDomain.status = "none" /\ NoInbox \in InboxRow /\ ~ NoInbox.row /\ NoInbox.rule = 0
<1>1. NoDomain \in DomainRow /\ NoDomain.status = "none"
  BY DEF NoDomain, DomainRow
<1>2. Free \in Call
  BY <1>1 DEF Free, Call, Ops, Steps, Place, Mode
<1>3. NoInbox \in InboxRow /\ ~ NoInbox.row /\ NoInbox.rule = 0
  BY DEF NoInbox, InboxRow
<1>4. QED
  BY <1>1, <1>2, <1>3 DEF Free

\* A call begins.
LEMMA BeginFacts ==
  ASSUME DomainTyped, NEW p \in Caller, NEW r \in Call, Begins(p, r)
  PROVE  /\ calls' \in [Caller -> Call] /\ calls[p] = Free /\ calls'[p] = r
         /\ \A q \in Caller \ {p} : calls'[q] = calls[q]
         /\ past' \in Past /\ past'.before = past.before /\ past'.broken = past.broken
         /\ ~ past'.rough => /\ ~ past.rough
                             /\ OnDomain(r) => \A q \in Caller : ~ OnDomain(calls[q])
         /\ ~ past'.met => /\ ~ past.met
                           /\ \A q \in Caller : ~ Meet(r, calls[q]) /\ ~ Meet(calls[q], r)
         /\ domain' = domain /\ zone' = zone /\ inboxes' = inboxes
<1>1. /\ calls \in [Caller -> Call] /\ past \in Past
      /\ calls[p] = Free /\ calls' = [calls EXCEPT ![p] = r]
  BY DEF DomainTyped, Begins
<1>2. /\ calls' \in [Caller -> Call] /\ calls'[p] = r
      /\ \A q \in Caller \ {p} : calls'[q] = calls[q]
  BY <1>1
<1>3. /\ past' = [past EXCEPT !.calls = past.calls + 1, !.rough = past'.rough, !.met = past'.met]
      /\ past'.rough = (past.rough \/ \E q \in Caller : OnDomain(r) /\ OnDomain(calls[q]))
      /\ past'.met = (past.met \/ \E q \in Caller : Meet(r, calls[q]) \/ Meet(calls[q], r))
  BY <1>1 DEF Begins, Past
<1>4. PICK rough \in BOOLEAN, met \in BOOLEAN : rough = past'.rough /\ met = past'.met
  BY <1>3
<1>5. past' = [past EXCEPT !.calls = past.calls + 1, !.rough = rough, !.met = met]
  BY <1>3, <1>4
<1>6. past' \in Past /\ past'.before = past.before /\ past'.broken = past.broken
  <2>1. past.calls + 1 \in Nat
    BY <1>1 DEF Past
  <2>2. PICK n \in Nat : n = past.calls + 1
    BY <2>1
  <2>3. past' = [past EXCEPT !.calls = n, !.rough = rough, !.met = met]
    BY <1>5, <2>2
  <2>4. past' \in Past
    BY <1>1, <1>4, <2>2, <2>3 DEF Past
  <2>5. QED
    BY <1>1, <2>3, <2>4 DEF Past
<1>7. domain' = domain /\ zone' = zone /\ inboxes' = inboxes
  BY DEF Begins
<1>8. QED
  BY <1>1, <1>2, <1>3, <1>6, <1>7

\* A call goes on to its next step.
LEMMA GoFacts ==
  ASSUME DomainTyped, NEW p \in Caller, NEW step \in Steps, Goes(p, step)
  PROVE  /\ calls' \in [Caller -> Call] /\ \A q \in Caller \ {p} : calls'[q] = calls[q]
         /\ calls'[p].step = step /\ calls'[p].op = calls[p].op /\ calls'[p].row = calls[p].row
         /\ calls'[p].todo = calls[p].todo /\ calls'[p].addr = calls[p].addr
         /\ calls'[p].rule = calls[p].rule /\ calls'[p].mode = calls[p].mode
         /\ calls'[p].crossed = calls[p].crossed
<1>1. calls \in [Caller -> Call] /\ calls[p] \in Call
  BY DEF DomainTyped
<1>2. PICK c \in Call : c = [calls[p] EXCEPT !.step = step]
  BY <1>1 DEF Call
<1>3. calls' = [calls EXCEPT ![p] = c]
  BY <1>2 DEF Goes
<1>4. /\ c.step = step /\ c.op = calls[p].op /\ c.row = calls[p].row /\ c.todo = calls[p].todo
      /\ c.addr = calls[p].addr /\ c.rule = calls[p].rule /\ c.mode = calls[p].mode
      /\ c.crossed = calls[p].crossed
  BY <1>1, <1>2 DEF Call
<1>5. QED
  BY <1>1, <1>3, <1>4

\* A call ends.
LEMMA EndFacts ==
  ASSUME DomainTyped, NEW p \in Caller, Ends(p)
  PROVE  /\ calls' \in [Caller -> Call] /\ calls'[p] = Free
         /\ \A q \in Caller \ {p} : calls'[q] = calls[q]
BY FreeFacts DEF DomainTyped, Ends

-----------------------------------------------------------------------------
(* Quiet steps *)

\* For the domain: no call about it begins, ends or learns anything.
TidyQuiet ==
    /\ domain' = domain /\ zone'.sending = zone.sending /\ zone'.dns = zone.dns
    /\ past'.before = past.before
    /\ ~ past'.rough => ~ past.rough
    /\ \A q \in Caller : OnDomain(calls'[q]) \/ OnDomain(calls[q]) =>
         /\ calls'[q].op = calls[q].op /\ calls'[q].row = calls[q].row
         /\ calls'[q].op = "remove" => calls'[q].todo = calls[q].todo
         /\ (calls'[q].step = "insert") <=> (calls[q].step = "insert")
         /\ (calls'[q].step = "row") <=> (calls[q].step = "row")

\* For the inboxes on it: neither a deletion nor a creation comes closer.
ApartQuiet ==
    /\ domain' = NoDomain => domain = NoDomain
    /\ ~ past'.met => ~ past.met
    /\ \A a \in Address : inboxes'[a].row => inboxes[a].row
    /\ \A q \in Caller : calls'[q].op \in {"remove", "create"} =>
         calls[q].op = calls'[q].op /\ calls[q].addr = calls'[q].addr

\* For the rules: what is about the domain, and what cuts a call short.
RouteQuiet ==
    /\ UNCHANGED routeVars /\ inboxes' = inboxes /\ past.broken \subseteq past'.broken
    /\ \A q \in Caller : \/ calls'[q] = calls[q]
                         \/ ~ OnInbox(calls'[q]) /\ calls'[q].rule = 0
    /\ \A q \in Caller : InStep(q, "delete", "row") =>
                           calls'[q] = calls[q] \/ calls[q].addr \in past'.broken

\* A quiet step keeps the first.
LEMMA TidyStays ==
  ASSUME Tidy, TidyQuiet PROVE Tidy'
<1> SUFFICES ASSUME ~ past'.rough
             PROVE  /\ \A p, q \in Caller : OnDomain(calls'[p]) /\ OnDomain(calls'[q]) => p = q
                    /\ \A p \in Caller : Knows(calls[p])'
                    /\ (domain' # NoDomain /\ \A p \in Caller : calls'[p].op # "add") => Full(domain')
                    /\ (domain' = NoDomain /\ \A p \in Caller : ~ OnDomain(calls'[p])) => Clean'
  BY DEF Tidy, OnDomain, Full
<1>1. /\ \A p, q \in Caller : OnDomain(calls[p]) /\ OnDomain(calls[q]) => p = q
      /\ \A p \in Caller : Knows(calls[p])
      /\ (domain # NoDomain /\ \A p \in Caller : calls[p].op # "add") => Full(domain)
      /\ (domain = NoDomain /\ \A p \in Caller : ~ OnDomain(calls[p])) => Clean
  BY DEF Tidy, TidyQuiet
<1>2. \A q \in Caller : /\ OnDomain(calls'[q]) <=> OnDomain(calls[q])
                        /\ (calls'[q].op = "add") <=> (calls[q].op = "add")
  BY DEF TidyQuiet, OnDomain
<1>3. Clean <=> Clean'
  BY DEF Clean, TidyQuiet
<1>4. ASSUME NEW p \in Caller PROVE Knows(calls[p])'
  <2>1. CASE OnDomain(calls'[p])
    <3>1. /\ calls'[p].op = calls[p].op /\ calls'[p].row = calls[p].row
          /\ calls'[p].op = "remove" => calls'[p].todo = calls[p].todo
          /\ (calls'[p].step = "insert") <=> (calls[p].step = "insert")
          /\ (calls'[p].step = "row") <=> (calls[p].step = "row")
          /\ domain' = domain /\ zone'.dns = zone.dns /\ past'.before = past.before
      BY <2>1 DEF TidyQuiet
    <3>2. QED
      BY <1>1, <1>3, <3>1 DEF Knows, Full
  <2>2. CASE ~ OnDomain(calls'[p])
    BY <2>2 DEF Knows, OnDomain
  <2>3. QED
    BY <2>1, <2>2
<1>5. domain' = domain
  BY DEF TidyQuiet
<1>6. QED
  BY <1>1, <1>2, <1>3, <1>4, <1>5 DEF Full

\* And the second.
LEMMA ApartStays ==
  ASSUME Apart, ApartQuiet PROVE Apart'
<1>1. Custom \subseteq Address
  BY DEF Address
<1>2. QED
  BY <1>1 DEF Apart, ApartQuiet, Meet

\* And the third.
LEMMA KeptStays ==
  ASSUME Typed, Kept, RouteQuiet PROVE Kept'
<1>1. /\ rules' = rules /\ made' = made /\ mode' = mode /\ catchAll' = catchAll /\ setup' = setup
      /\ inboxes' = inboxes /\ past.broken \subseteq past'.broken
      /\ \A q \in Caller : \/ calls'[q] = calls[q]
                           \/ ~ OnInbox(calls'[q]) /\ calls'[q].rule = 0
      /\ \A q \in Caller : InStep(q, "delete", "row") =>
                             calls'[q] = calls[q] \/ calls[q].addr \in past'.broken
  BY DEF RouteQuiet, routeVars
<1>2. /\ RulesAreNamed /\ ModesHold /\ SetupHolds /\ Reached
      /\ \A p \in Caller : Creates(p)
  BY DEF Kept
<1>3. RulesAreNamed'
  <2>1. ASSUME NEW p \in Caller PROVE Denotes(calls[p].rule, calls[p].addr)'
    <3>1. CASE calls'[p] = calls[p]
      BY <1>1, <1>2, <3>1 DEF RulesAreNamed, Denotes
    <3>2. CASE calls'[p].rule = 0
      BY <1>1, <1>2, <3>2 DEF RulesAreNamed, Denotes, Typed, RouteTyped
    <3>3. QED
      BY <1>1, <3>1, <3>2
  <2>2. QED
    BY <1>1, <1>2, <2>1 DEF RulesAreNamed, Denotes
<1>4. ModesHold'
  BY <1>1, <1>2 DEF ModesHold, SettingUp
<1>5. ASSUME NEW p \in Caller PROVE Creates(p)'
  <2>1. CASE calls'[p] = calls[p]
    BY <1>1, <1>2, <2>1 DEF Creates, NeedsRule
  <2>2. CASE ~ OnInbox(calls'[p])
    BY <2>2 DEF Creates, OnInbox
  <2>3. QED
    BY <1>1, <2>1, <2>2
<1>6. \A a \in Address : /\ Routed(a)' <=> Routed(a)
                         /\ Leaving(a) => Leaving(a)' \/ a \in past'.broken
  BY <1>1 DEF Routed, Leaving, InStep
<1>7. SetupHolds'
  BY <1>1, <1>2, <1>6 DEF SetupHolds, Address
<1>8. Reached'
  BY <1>1, <1>2, <1>6 DEF Reached
<1>9. QED
  BY <1>3, <1>4, <1>5, <1>7, <1>8 DEF Kept

-----------------------------------------------------------------------------
(* The steps of the calls about the domain *)

\* A call about the domain is the only one and knows the zone.
LEMMA TidyFacts ==
  ASSUME Tidy, NEW p \in Caller, OnDomain(calls[p]), ~ past.rough
  PROVE  /\ \A q \in Caller \ {p} : ~ OnDomain(calls[q])
         /\ Knows(calls[p])
         /\ (domain # NoDomain /\ calls[p].op # "add") => Full(domain)
<1>1. /\ \A q, r \in Caller : OnDomain(calls[q]) /\ OnDomain(calls[r]) => q = r
      /\ \A q \in Caller : Knows(calls[q])
      /\ (domain # NoDomain /\ \A q \in Caller : calls[q].op # "add") => Full(domain)
  BY DEF Tidy
<1>2. \A q \in Caller \ {p} : ~ OnDomain(calls[q])
  BY <1>1
<1>3. \A q \in Caller \ {p} : calls[q].op # "add"
  BY <1>2 DEF OnDomain
<1>4. QED
  BY <1>1, <1>2, <1>3

\* A step of a call that is the only one keeps Tidy if it knows what it left.
LEMMA TidyAlone ==
  ASSUME NEW p \in Caller, \A q \in Caller \ {p} : calls'[q] = calls[q],
         ~ past'.rough =>
           /\ \A q \in Caller \ {p} : ~ OnDomain(calls[q])
           /\ OnDomain(calls'[p]) => Knows(calls[p])'
           /\ (domain' # NoDomain /\ calls'[p].op # "add") => Full(domain')
           /\ (domain' = NoDomain /\ ~ OnDomain(calls'[p])) => Clean'
  PROVE  Tidy'
<1> SUFFICES ASSUME ~ past'.rough
             PROVE  /\ \A q, r \in Caller : OnDomain(calls'[q]) /\ OnDomain(calls'[r]) => q = r
                    /\ \A q \in Caller : Knows(calls[q])'
                    /\ (domain' # NoDomain /\ \A q \in Caller : calls'[q].op # "add") => Full(domain')
                    /\ (domain' = NoDomain /\ \A q \in Caller : ~ OnDomain(calls'[q])) => Clean'
  BY DEF Tidy, OnDomain, Full
<1>1. \A q \in Caller \ {p} : calls'[q] = calls[q] /\ ~ OnDomain(calls'[q])
  OBVIOUS
<1>2. ASSUME NEW q \in Caller PROVE Knows(calls[q])'
  <2>1. CASE OnDomain(calls'[q])
    BY <1>1, <2>1
  <2>2. CASE ~ OnDomain(calls'[q])
    BY <2>2 DEF Knows, OnDomain
  <2>3. QED
    BY <2>1, <2>2
<1>3. QED
  BY <1>1, <1>2

\* A step of one call that neither takes nor gives it a rule of an inbox.
LEMMA RouteQuietStep ==
  ASSUME NEW p \in Caller, \A q \in Caller \ {p} : calls'[q] = calls[q], ~ OnInbox(calls[p]),
         calls'[p] = calls[p] \/ (~ OnInbox(calls'[p]) /\ calls'[p].rule = 0),
         past.broken \subseteq past'.broken, inboxes' = inboxes, UNCHANGED routeVars
  PROVE  RouteQuiet
<1>1. \A q \in Caller : InStep(q, "delete", "row") => calls'[q] = calls[q]
  BY DEF InStep, OnInbox
<1>2. QED
  BY <1>1 DEF RouteQuiet

\* A failure is counted.
LEMMA FaultFacts ==
  ASSUME past \in Past, NEW rough \in BOOLEAN, Fault(rough)
  PROVE  /\ past' \in Past /\ past'.before = past.before /\ past'.broken = past.broken
         /\ past'.met = past.met
         /\ ~ past'.rough => ~ past.rough /\ ~ rough
<1>1. past.faults + 1 \in Nat /\ (past.rough \/ rough) \in BOOLEAN
  BY DEF Past
<1>2. PICK n \in Nat, b \in BOOLEAN : n = past.faults + 1 /\ b = (past.rough \/ rough)
  BY <1>1
<1>3. past' = [past EXCEPT !.faults = n, !.rough = b]
  BY <1>2 DEF Fault
<1>4. QED
  BY <1>2, <1>3 DEF Past

\* A call begins that adds the domain, on a clean zone.
LEMMA AddStarts ==
  ASSUME DomainTyped, Tidy, Apart, NEW p \in Caller, AddStart(p), UNCHANGED routeVars
  PROVE  DomainTyped' /\ Tidy' /\ Apart' /\ RouteQuiet
<1>1. PICK r \in Call : r = [Free EXCEPT !.op = "add", !.step = "insert"]
  BY FreeFacts DEF Call, Ops, Steps
<1>2. /\ r.op = "add" /\ r.step = "insert" /\ r.rule = 0
      /\ Begins(p, r) /\ domain = NoDomain
  BY <1>1, FreeFacts DEF AddStart, Call
<1>3. /\ calls' \in [Caller -> Call] /\ calls[p] = Free /\ calls'[p] = r
      /\ \A q \in Caller \ {p} : calls'[q] = calls[q]
      /\ past' \in Past /\ past'.before = past.before /\ past'.broken = past.broken
      /\ ~ past'.rough => ~ past.rough /\ \A q \in Caller : ~ OnDomain(calls[q])
      /\ ~ past'.met => ~ past.met
      /\ domain' = domain /\ zone' = zone /\ inboxes' = inboxes
  BY <1>2, BeginFacts DEF OnDomain
<1>4. DomainTyped'
  BY <1>2, <1>3 DEF DomainTyped, OnInbox
<1>5. Tidy'
  <2>1. ASSUME ~ past'.rough PROVE Knows(calls[p])'
    <3>1. Clean
      BY <1>2, <1>3, <2>1 DEF Tidy
    <3>2. QED
      BY <1>2, <1>3, <3>1 DEF Knows, Clean
  <2>2. QED
    BY <1>2, <1>3, <2>1, TidyAlone DEF OnDomain
<1>6. ApartQuiet
  BY <1>2, <1>3 DEF ApartQuiet
<1>7. RouteQuiet
  BY <1>2, <1>3, FreeFacts, RouteQuietStep DEF OnInbox
<1>8. QED
  BY <1>4, <1>5, <1>6, <1>7, ApartStays

\* Its row is inserted.
LEMMA InsertsDomain ==
  ASSUME DomainTyped, Tidy, Apart, NEW p \in Caller, InsertDomain(p), UNCHANGED routeVars
  PROVE  DomainTyped' /\ Tidy' /\ Apart' /\ RouteQuiet
<1>1. /\ calls \in [Caller -> Call] /\ calls[p] \in Call /\ ~ OnInbox(calls[p]) /\ calls[p].rule = 0
      /\ calls[p].op = "add" /\ calls[p].step = "insert" /\ OnDomain(calls[p])
      /\ zone' = zone /\ inboxes' = inboxes /\ past' = past
  BY DEF DomainTyped, InsertDomain, InStep, OnDomain, OnInbox
<1>2. CASE domain = NoDomain
  <2>1. PICK d \in DomainRow : d = [NoDomain EXCEPT !.status = "pending"]
    BY FreeFacts DEF DomainRow
  <2>2. d.status = "pending" /\ d # NoDomain
    BY <2>1, FreeFacts DEF DomainRow
  <2>3. PICK c \in Call : c = [calls[p] EXCEPT !.step = "onboard", !.row = d]
    BY <1>1 DEF Call, Steps
  <2>4. domain' = d /\ calls' = [calls EXCEPT ![p] = c]
    BY <1>2, <2>1, <2>3 DEF InsertDomain
  <2>5. /\ c.op = "add" /\ c.step = "onboard" /\ c.rule = 0 /\ calls'[p] = c
        /\ calls' \in [Caller -> Call]
        /\ \A q \in Caller \ {p} : calls'[q] = calls[q]
    BY <1>1, <2>3, <2>4 DEF Call
  <2>6. DomainTyped'
    BY <1>1, <2>4, <2>5 DEF DomainTyped, OnInbox
  <2>7. Tidy'
    <3>1. ASSUME ~ past'.rough PROVE Knows(calls[p])' /\ \A q \in Caller \ {p} : ~ OnDomain(calls[q])
      BY <1>1, <2>2, <2>4, <2>5, <3>1, TidyFacts DEF Knows
    <3>2. QED
      BY <2>2, <2>4, <2>5, <3>1, TidyAlone DEF OnDomain
  <2>8. ApartQuiet
    BY <1>1, <2>2, <2>4, <2>5 DEF ApartQuiet
  <2>9. RouteQuiet
    BY <1>1, <2>5, RouteQuietStep DEF OnInbox
  <2>10. QED
    BY <2>6, <2>7, <2>8, <2>9, ApartStays
<1>3. CASE domain # NoDomain
  <2>1. Ends(p) /\ domain' = domain
    BY <1>3 DEF InsertDomain
  <2>2. /\ calls' \in [Caller -> Call] /\ calls'[p] = Free
        /\ \A q \in Caller \ {p} : calls'[q] = calls[q]
    BY <2>1, EndFacts
  <2>3. DomainTyped'
    BY <1>1, <2>1, <2>2, FreeFacts DEF DomainTyped, OnInbox
  <2>4. Tidy'
    <3>1. past'.rough
      BY <1>1, <1>3, TidyFacts DEF Knows
    <3>2. QED
      BY <3>1 DEF Tidy
  <2>5. ApartQuiet
    BY <1>1, <2>1, <2>2, FreeFacts DEF ApartQuiet
  <2>6. RouteQuiet
    BY <1>1, <2>2, FreeFacts, RouteQuietStep DEF OnInbox
  <2>7. QED
    BY <2>3, <2>4, <2>5, <2>6, ApartStays
<1>4. QED
  BY <1>2, <1>3

\* A call begins that verifies it, with its tag and its records in hand.
LEMMA VerifyStarts ==
  ASSUME DomainTyped, Tidy, Apart, NEW p \in Caller, VerifyStart(p), UNCHANGED routeVars
  PROVE  DomainTyped' /\ Tidy' /\ Apart' /\ RouteQuiet
<1>1. domain \in DomainRow /\ zone.here \in BOOLEAN
  BY DEF DomainTyped, Zone
<1>2. PICK b \in BOOLEAN : b = zone.here
  BY <1>1
<1>3. PICK step \in {"onboard", "settle"} : step = IF zone.here THEN "onboard" ELSE "settle"
  OBVIOUS
<1>4. PICK r \in Call : r = [Free EXCEPT !.op = "verify", !.row = domain, !.ok = b, !.step = step]
  BY <1>1, FreeFacts DEF Call, Ops, Steps
<1>5. r.op = "verify" /\ r.rule = 0 /\ r.row = domain /\ r.step # "insert"
  BY <1>1, <1>4, FreeFacts DEF Call
<1>6. Begins(p, r) /\ domain # NoDomain
  BY <1>2, <1>3, <1>4 DEF VerifyStart
<1>7. /\ calls' \in [Caller -> Call] /\ calls[p] = Free /\ calls'[p] = r
      /\ \A q \in Caller \ {p} : calls'[q] = calls[q]
      /\ past' \in Past /\ past'.before = past.before /\ past'.broken = past.broken
      /\ ~ past'.rough => ~ past.rough /\ \A q \in Caller : ~ OnDomain(calls[q])
      /\ ~ past'.met => ~ past.met
      /\ domain' = domain /\ zone' = zone /\ inboxes' = inboxes
  BY <1>5, <1>6, BeginFacts DEF OnDomain
<1>8. DomainTyped'
  BY <1>5, <1>7 DEF DomainTyped, OnInbox
<1>9. Tidy'
  <2>1. ASSUME ~ past'.rough PROVE Full(domain)
    <3>1. ~ past.rough /\ \A q \in Caller : calls[q].op # "add"
      BY <1>7, <2>1 DEF OnDomain
    <3>2. QED
      BY <1>6, <3>1 DEF Tidy
  <2>2. ASSUME ~ past'.rough PROVE Knows(calls[p])' /\ Full(domain')
    BY <1>5, <1>6, <1>7, <2>1, <2>2 DEF Knows, Full
  <2>3. QED
    BY <1>6, <1>7, <2>2, TidyAlone
<1>10. ApartQuiet
  BY <1>5, <1>7 DEF ApartQuiet
<1>11. RouteQuiet
  BY <1>5, <1>7, FreeFacts, RouteQuietStep DEF OnInbox
<1>12. QED
  BY <1>8, <1>9, <1>10, <1>11, ApartStays

\* A call about the domain goes on or ends: what that leaves alone.
LEMMA DomainMoves ==
  ASSUME DomainTyped, Apart, NEW p \in Caller, OnDomain(calls[p]), NEW c \in Call,
         calls' = [calls EXCEPT ![p] = c], c.op = calls[p].op \/ c.op = "none",
         c.rule = 0,
         domain' \in DomainRow, domain' = NoDomain => domain = NoDomain, zone' \in Zone,
         past' \in Past, ~ past'.met => ~ past.met, past.broken \subseteq past'.broken,
         inboxes' = inboxes, UNCHANGED routeVars
  PROVE  /\ calls' \in [Caller -> Call] /\ calls'[p] = c
         /\ \A q \in Caller \ {p} : calls'[q] = calls[q]
         /\ DomainTyped' /\ Apart' /\ RouteQuiet
<1>1. /\ calls' \in [Caller -> Call] /\ calls'[p] = c
      /\ \A q \in Caller \ {p} : calls'[q] = calls[q]
  BY DEF DomainTyped
<1>2. ~ OnInbox(calls[p]) /\ ~ OnInbox(c) /\ c.op # "create"
  BY DEF OnDomain, OnInbox
<1>3. DomainTyped'
  BY <1>1, <1>2 DEF DomainTyped, OnInbox
<1>4. c.op = "remove" => calls[p].op = "remove"
  OBVIOUS
<1>5. Apart'
  <2>1. Custom \subseteq Address
    BY DEF Address
  <2>2. \A q \in Caller : /\ calls'[q].op = "remove" => calls[q].op = "remove"
                          /\ calls'[q].op = "create" => calls'[q] = calls[q]
    BY <1>1, <1>2, <1>4
  <2>3. QED
    BY <2>1, <2>2 DEF Apart, Meet
<1>6. RouteQuiet
  BY <1>1, <1>2, RouteQuietStep
<1>7. QED
  BY <1>1, <1>3, <1>5, <1>6

\* The steps of an attempt to set the domain up.
LEMMA Onboards ==
  ASSUME DomainTyped, Tidy, Apart, NEW p \in Caller, UNCHANGED routeVars,
         OnboardSending(p) \/ EnableRouting(p)
  PROVE  DomainTyped' /\ Tidy' /\ Apart' /\ RouteQuiet
<1>1. /\ calls \in [Caller -> Call] /\ calls[p] \in Call /\ zone \in Zone /\ past \in Past
      /\ domain \in DomainRow /\ domain' = domain /\ inboxes' = inboxes /\ past' = past
      /\ calls[p].op \in {"add", "verify"} /\ calls[p].step \notin {"insert", "row"}
  BY DEF DomainTyped, OnboardSending, EnableRouting, Attempting
<1>2. OnDomain(calls[p]) /\ calls[p].rule = 0
  BY <1>1 DEF OnDomain, DomainTyped, OnInbox
<1>3. PICK step \in {"routing", "check"} : Goes(p, step)
  BY DEF OnboardSending, EnableRouting
<1>4. PICK c \in Call : c = [calls[p] EXCEPT !.step = step]
  BY <1>1 DEF Call, Steps
<1>5. /\ c.step = step /\ c.op = calls[p].op /\ c.row = calls[p].row /\ c.rule = 0
      /\ calls' = [calls EXCEPT ![p] = c]
  BY <1>1, <1>2, <1>3, <1>4 DEF Call, Goes
<1>6. zone' \in Zone /\ zone'.dns = zone.dns
  BY <1>1 DEF OnboardSending, EnableRouting, Zone
<1>7. /\ calls' \in [Caller -> Call] /\ calls'[p] = c
      /\ \A q \in Caller \ {p} : calls'[q] = calls[q]
      /\ DomainTyped' /\ Apart' /\ RouteQuiet
  BY <1>1, <1>2, <1>5, <1>6, DomainMoves
<1>8. Tidy'
  <2>1. ASSUME ~ past'.rough
        PROVE  /\ \A q \in Caller \ {p} : ~ OnDomain(calls[q])
               /\ Knows(calls[p])' /\ domain # NoDomain
               /\ (domain # NoDomain /\ calls[p].op # "add") => Full(domain)
    BY <1>1, <1>2, <1>3, <1>5, <1>7, <2>1, TidyFacts DEF Knows
  <2>2. QED
    BY <1>1, <1>5, <1>7, <2>1, TidyAlone DEF Full
<1>9. QED
  BY <1>7, <1>8

LEMMA ChecksDns ==
  ASSUME DomainTyped, Tidy, Apart, NEW p \in Caller, UNCHANGED routeVars,
         NEW seen \in BOOLEAN, CheckDns(p, seen)
  PROVE  DomainTyped' /\ Tidy' /\ Apart' /\ RouteQuiet
<1>1. /\ calls \in [Caller -> Call] /\ calls[p] \in Call /\ zone \in Zone /\ past \in Past
      /\ domain \in DomainRow
      /\ domain' = domain /\ inboxes' = inboxes /\ past' = past /\ zone' = zone
      /\ calls[p].op \in {"add", "verify"} /\ calls[p].step \notin {"insert", "row"}
  BY DEF DomainTyped, CheckDns, Attempting
<1>2. OnDomain(calls[p]) /\ calls[p].rule = 0
  BY <1>1 DEF OnDomain, DomainTyped, OnInbox
<1>3. PICK b \in BOOLEAN : b = (seen /\ \A r \in Rec : "ours" \in zone.dns[r])
  OBVIOUS
<1>4. PICK c \in Call : c = [calls[p] EXCEPT !.step = "write", !.todo = Rec, !.clean = b]
  BY <1>1 DEF Call, Steps
<1>5. /\ c.step = "write" /\ c.op = calls[p].op /\ c.row = calls[p].row /\ c.rule = 0
      /\ calls' = [calls EXCEPT ![p] = c]
  BY <1>1, <1>2, <1>3, <1>4 DEF Call, CheckDns
<1>6. /\ calls' \in [Caller -> Call] /\ calls'[p] = c
      /\ \A q \in Caller \ {p} : calls'[q] = calls[q]
      /\ DomainTyped' /\ Apart' /\ RouteQuiet
  BY <1>1, <1>2, <1>5, DomainMoves
<1>7. TidyQuiet
  BY <1>1, <1>2, <1>5, <1>6 DEF TidyQuiet
<1>8. QED
  BY <1>6, <1>7, TidyStays

LEMMA WritesRecord ==
  ASSUME DomainTyped, Tidy, Apart, NEW p \in Caller, UNCHANGED routeVars,
         NEW r \in Rec, WriteRecord(p, r)
  PROVE  DomainTyped' /\ Tidy' /\ Apart' /\ RouteQuiet
<1>1. /\ calls \in [Caller -> Call] /\ calls[p] \in Call /\ zone \in Zone /\ past \in Past
      /\ domain \in DomainRow
      /\ domain' = domain /\ inboxes' = inboxes /\ past' = past
      /\ calls[p].op \in {"add", "verify"} /\ calls[p].step \notin {"insert", "row"}
  BY DEF DomainTyped, WriteRecord, Attempting
<1>2. OnDomain(calls[p]) /\ calls[p].rule = 0
  BY <1>1 DEF OnDomain, DomainTyped, OnInbox
<1>3. PICK todo \in SUBSET Rec : todo = calls[p].todo \ {r}
  BY <1>1 DEF Call
<1>4. PICK c \in Call : c = [calls[p] EXCEPT !.todo = todo]
  BY <1>1 DEF Call
<1>5. /\ c.step = calls[p].step /\ c.op = calls[p].op /\ c.row = calls[p].row /\ c.rule = 0
      /\ calls' = [calls EXCEPT ![p] = c]
  BY <1>1, <1>2, <1>3, <1>4 DEF Call, WriteRecord
<1>6. zone' \in Zone
  <2>1. PICK w \in Content : w = Written(r)
    BY <1>1 DEF Written, Zone, Content
  <2>2. zone' = [zone EXCEPT !.dns[r] = w]
    BY <2>1 DEF WriteRecord
  <2>3. QED
    BY <1>1, <2>2 DEF Zone
<1>7. /\ calls' \in [Caller -> Call] /\ calls'[p] = c
      /\ \A q \in Caller \ {p} : calls'[q] = calls[q]
      /\ DomainTyped' /\ Apart' /\ RouteQuiet
  BY <1>1, <1>2, <1>5, <1>6, DomainMoves
<1>8. Tidy'
  <2>1. ASSUME ~ past'.rough
        PROVE  /\ \A q \in Caller \ {p} : ~ OnDomain(calls[q])
               /\ Knows(calls[p])' /\ domain # NoDomain
               /\ (domain # NoDomain /\ calls[p].op # "add") => Full(domain)
    BY <1>1, <1>2, <1>5, <1>7, <2>1, TidyFacts DEF Knows
  <2>2. QED
    BY <1>1, <1>5, <1>7, <2>1, TidyAlone DEF Full
<1>9. QED
  BY <1>7, <1>8

\* An attempt settles; a failed one keeps the tag and the records of the row.
LEMMA Settles ==
  ASSUME DomainTyped, Tidy, Apart, NEW p \in Caller, UNCHANGED routeVars, Settle(p)
  PROVE  DomainTyped' /\ Tidy' /\ Apart' /\ RouteQuiet
<1>1. /\ calls \in [Caller -> Call] /\ calls[p] \in Call /\ zone \in Zone /\ past \in Past
      /\ domain \in DomainRow /\ inboxes' = inboxes /\ zone' = zone
      /\ calls[p].op \in {"add", "verify"} /\ calls[p].step \notin {"insert", "row"}
  BY DEF DomainTyped, Settle, Attempting
<1>2. OnDomain(calls[p]) /\ calls[p].rule = 0
  BY <1>1 DEF OnDomain, DomainTyped, OnInbox
<1>3. PICK d \in DomainRow : d = Settled(calls[p])
  <2>1. calls[p].row \in DomainRow
    BY <1>1 DEF Call
  <2>2. CASE calls[p].ok
    BY <1>1, <2>2 DEF Settled, DomainRow
  <2>3. CASE ~ calls[p].ok
    BY <1>1, <2>1, <2>3 DEF Settled, DomainRow
  <2>4. QED
    BY <2>2, <2>3
<1>4. /\ d # NoDomain
      /\ calls[p].ok \/ (calls[p].op = "verify" /\ Full(calls[p].row)) => Full(d)
  <2>1. calls[p].row \in DomainRow
    BY <1>1 DEF Call
  <2>2. CASE calls[p].ok
    BY <1>1, <1>3, <2>2, FreeFacts DEF Settled, DomainRow, Full
  <2>3. CASE ~ calls[p].ok
    BY <1>1, <1>3, <2>1, <2>3, FreeFacts DEF Settled, DomainRow, Full
  <2>4. QED
    BY <2>2, <2>3
<1>5. domain' = IF domain = NoDomain THEN NoDomain ELSE d
  BY <1>3 DEF Settle
<1>6. /\ past' \in Past /\ past'.broken = past.broken /\ past'.met = past.met
      /\ ~ past'.rough => ~ past.rough /\ (calls[p].op = "add" => calls[p].ok)
  BY <1>1 DEF Settle, Past
<1>7. /\ calls' = [calls EXCEPT ![p] = Free]
      /\ domain' \in DomainRow /\ (domain' = NoDomain => domain = NoDomain)
  BY <1>1, <1>4, <1>5 DEF Settle, Ends
<1>8. /\ calls' \in [Caller -> Call] /\ calls'[p] = Free
      /\ \A q \in Caller \ {p} : calls'[q] = calls[q]
      /\ DomainTyped' /\ Apart' /\ RouteQuiet
  BY <1>1, <1>2, <1>6, <1>7, FreeFacts, DomainMoves
<1>9. Tidy'
  <2>1. ASSUME ~ past'.rough
        PROVE  /\ \A q \in Caller \ {p} : ~ OnDomain(calls[q])
               /\ domain' # NoDomain /\ Full(domain')
    BY <1>1, <1>2, <1>4, <1>5, <1>6, <2>1, TidyFacts DEF Knows
  <2>2. QED
    BY <1>8, <2>1, FreeFacts, TidyAlone DEF OnDomain
<1>10. QED
  BY <1>8, <1>9

\* A call begins that deletes the domain, with the records of its row.
LEMMA RemoveStarts ==
  ASSUME DomainTyped, Tidy, Apart, NEW p \in Caller, RemoveStart(p), UNCHANGED routeVars
  PROVE  DomainTyped' /\ Tidy' /\ Apart' /\ RouteQuiet
<1>1. domain \in DomainRow
  BY DEF DomainTyped
<1>2. PICK r \in Call : r = [Free EXCEPT !.op = "remove", !.step = "records", !.row = domain,
                                         !.todo = domain.records]
  BY <1>1, FreeFacts DEF Call, Ops, Steps, DomainRow
<1>3. /\ r.op = "remove" /\ r.rule = 0 /\ r.row = domain /\ r.step = "records"
      /\ r.todo = domain.records
  BY <1>1, <1>2, FreeFacts DEF Call
<1>4. Begins(p, r) /\ domain # NoDomain /\ \A a \in Custom : ~ inboxes[a].row
  BY <1>2 DEF RemoveStart, Deletable, OnInboxes
<1>5. /\ calls' \in [Caller -> Call] /\ calls[p] = Free /\ calls'[p] = r
      /\ \A q \in Caller \ {p} : calls'[q] = calls[q]
      /\ past' \in Past /\ past'.before = past.before /\ past'.broken = past.broken
      /\ ~ past'.rough => ~ past.rough /\ \A q \in Caller : ~ OnDomain(calls[q])
      /\ ~ past'.met => ~ past.met /\ \A q \in Caller : ~ Meet(r, calls[q]) /\ ~ Meet(calls[q], r)
      /\ domain' = domain /\ zone' = zone /\ inboxes' = inboxes
  BY <1>3, <1>4, BeginFacts DEF OnDomain
<1>6. DomainTyped'
  BY <1>3, <1>5 DEF DomainTyped, OnInbox
<1>7. Tidy'
  <2>1. ASSUME ~ past'.rough PROVE Full(domain)
    <3>1. ~ past.rough /\ \A q \in Caller : calls[q].op # "add"
      BY <1>5, <2>1 DEF OnDomain
    <3>2. QED
      BY <1>4, <3>1 DEF Tidy
  <2>2. ASSUME ~ past'.rough PROVE Knows(calls[p])' /\ Full(domain')
    BY <1>3, <1>4, <1>5, <2>1, <2>2 DEF Knows, Full
  <2>3. QED
    BY <1>4, <1>5, <2>2, TidyAlone
<1>8. Apart'
  BY <1>3, <1>4, <1>5 DEF Apart, Meet
<1>9. RouteQuiet
  BY <1>3, <1>5, FreeFacts, RouteQuietStep DEF OnInbox
<1>10. QED
  BY <1>6, <1>7, <1>8, <1>9

\* It takes a record out of the zone.
LEMMA RemovesRecord ==
  ASSUME DomainTyped, Tidy, Apart, NEW p \in Caller, UNCHANGED routeVars,
         NEW r \in Rec, RemoveRecord(p, r)
  PROVE  DomainTyped' /\ Tidy' /\ Apart' /\ RouteQuiet
<1>1. /\ calls \in [Caller -> Call] /\ calls[p] \in Call /\ zone \in Zone /\ past \in Past
      /\ domain \in DomainRow /\ domain' = domain /\ inboxes' = inboxes /\ past' = past
      /\ calls[p].op = "remove" /\ calls[p].step = "records"
  BY DEF DomainTyped, RemoveRecord, InStep
<1>2. OnDomain(calls[p]) /\ calls[p].rule = 0
  BY <1>1 DEF OnDomain, DomainTyped, OnInbox
<1>3. PICK todo \in SUBSET Rec : todo = calls[p].todo \ {r}
  BY <1>1 DEF Call
<1>4. PICK c \in Call : c = [calls[p] EXCEPT !.todo = todo]
  BY <1>1 DEF Call
<1>5. /\ c.step = "records" /\ c.op = "remove" /\ c.row = calls[p].row /\ c.rule = 0
      /\ c.todo = todo /\ calls' = [calls EXCEPT ![p] = c]
  BY <1>1, <1>2, <1>3, <1>4 DEF Call, RemoveRecord
<1>6. /\ zone' \in Zone /\ zone'.sending = zone.sending /\ "ours" \notin zone'.dns[r]
      /\ \A s \in Rec \ {r} : zone'.dns[s] = zone.dns[s]
  <2>1. PICK w \in Content : w = zone.dns[r] \ {"ours"}
    BY <1>1 DEF Zone, Content
  <2>2. zone' = [zone EXCEPT !.dns[r] = w]
    BY <2>1 DEF RemoveRecord
  <2>3. QED
    BY <1>1, <2>1, <2>2 DEF Zone
<1>7. /\ calls' \in [Caller -> Call] /\ calls'[p] = c
      /\ \A q \in Caller \ {p} : calls'[q] = calls[q]
      /\ DomainTyped' /\ Apart' /\ RouteQuiet
  BY <1>1, <1>2, <1>5, <1>6, DomainMoves
<1>8. Tidy'
  <2>1. ASSUME ~ past'.rough
        PROVE  /\ \A q \in Caller \ {p} : ~ OnDomain(calls[q])
               /\ domain # NoDomain /\ Full(calls[p].row) /\ Full(domain)
               /\ \A s \in Rec \ calls[p].todo :
                    "ours" \in zone.dns[s] => "ours" \in past.before[s]
    BY <1>1, <1>2, <2>1, TidyFacts DEF Knows
  <2>2. ASSUME ~ past'.rough PROVE Knows(calls[p])'
    <3>1. \A s \in Rec \ calls'[p].todo : "ours" \in zone'.dns[s] => "ours" \in past'.before[s]
      BY <1>1, <1>3, <1>5, <1>6, <1>7, <2>1, <2>2
    <3>2. calls'[p].row = calls[p].row /\ calls'[p].op = "remove" /\ calls'[p].step = "records"
      BY <1>5, <1>7
    <3>3. QED
      BY <1>1, <2>1, <2>2, <3>1, <3>2 DEF Knows, Full
  <2>3. QED
    BY <1>1, <1>7, <2>1, <2>2, TidyAlone DEF Full
<1>9. QED
  BY <1>7, <1>8

\* It removes the sending subdomain; now the zone is clean.
LEMMA RemovesSending ==
  ASSUME DomainTyped, Tidy, Apart, NEW p \in Caller, UNCHANGED routeVars, RemoveSending(p)
  PROVE  DomainTyped' /\ Tidy' /\ Apart' /\ RouteQuiet
<1>1. /\ calls \in [Caller -> Call] /\ calls[p] \in Call /\ zone \in Zone /\ past \in Past
      /\ domain \in DomainRow /\ domain' = domain /\ inboxes' = inboxes /\ past' = past
      /\ calls[p].op = "remove" /\ calls[p].step = "records" /\ calls[p].todo = {}
  BY DEF DomainTyped, RemoveSending, InStep
<1>2. OnDomain(calls[p]) /\ calls[p].rule = 0
  BY <1>1 DEF OnDomain, DomainTyped, OnInbox
<1>3. PICK c \in Call : c = [calls[p] EXCEPT !.step = "row"]
  BY <1>1 DEF Call, Steps
<1>4. /\ c.step = "row" /\ c.op = "remove" /\ c.rule = 0
      /\ calls' = [calls EXCEPT ![p] = c]
  BY <1>1, <1>2, <1>3 DEF Call, RemoveSending, Goes
<1>5. /\ zone' \in Zone /\ zone'.dns = zone.dns
      /\ calls[p].row.tag => ~ zone'.sending
  BY <1>1 DEF RemoveSending, Zone
<1>6. /\ calls' \in [Caller -> Call] /\ calls'[p] = c
      /\ \A q \in Caller \ {p} : calls'[q] = calls[q]
      /\ DomainTyped' /\ Apart' /\ RouteQuiet
  BY <1>1, <1>2, <1>4, <1>5, DomainMoves
<1>7. Tidy'
  <2>1. ASSUME ~ past'.rough
        PROVE  /\ \A q \in Caller \ {p} : ~ OnDomain(calls[q])
               /\ domain # NoDomain /\ Full(calls[p].row) /\ Full(domain)
               /\ \A s \in Rec : "ours" \in zone.dns[s] => "ours" \in past.before[s]
    BY <1>1, <1>2, <2>1, TidyFacts DEF Knows
  <2>2. ASSUME ~ past'.rough PROVE Knows(calls[p])'
    <3>1. Clean'
      BY <1>1, <1>5, <2>1, <2>2 DEF Clean, Full
    <3>2. QED
      BY <1>4, <1>6, <3>1 DEF Knows
  <2>3. QED
    BY <1>1, <1>6, <2>1, <2>2, TidyAlone DEF Full
<1>8. QED
  BY <1>6, <1>7

\* Its row goes, and with it nothing that an inbox relies on.
LEMMA RemovesDomain ==
  ASSUME DomainTyped, Tidy, Apart, NEW p \in Caller, UNCHANGED routeVars, RemoveDomain(p)
  PROVE  DomainTyped' /\ Tidy' /\ Apart' /\ RouteQuiet
<1>1. /\ calls[p].op = "remove" /\ calls[p].step = "row" /\ domain' = NoDomain
      /\ zone' = zone /\ inboxes' = inboxes /\ past' = past
  BY DEF RemoveDomain, InStep
<1>2. /\ calls' \in [Caller -> Call] /\ calls'[p] = Free
      /\ \A q \in Caller \ {p} : calls'[q] = calls[q]
  BY EndFacts DEF RemoveDomain
<1>3. DomainTyped'
  BY <1>1, <1>2, FreeFacts DEF DomainTyped, OnInbox
<1>4. Tidy'
  <2>1. ASSUME ~ past'.rough PROVE Clean /\ \A q \in Caller \ {p} : ~ OnDomain(calls[q])
    BY <1>1, <2>1, TidyFacts DEF Knows, OnDomain
  <2>2. ASSUME ~ past'.rough PROVE Clean'
    BY <1>1, <2>1, <2>2 DEF Clean
  <2>3. QED
    BY <1>1, <1>2, <2>1, <2>2, FreeFacts, TidyAlone DEF OnDomain
<1>5. Apart'
  <2>1. Custom \subseteq Address
    BY DEF Address
  <2>2. ASSUME ~ past'.met
        PROVE  /\ \A q, r \in Caller : ~ Meet(calls[q], calls[r])
               /\ \A a \in Custom : ~ inboxes[a].row
    BY <1>1, <2>2 DEF Apart
  <2>3. \A q \in Caller : /\ calls'[q].op = "remove" => calls'[q] = calls[q]
                          /\ calls'[q].op = "create" => calls'[q] = calls[q]
    BY <1>2, FreeFacts
  <2>4. ASSUME ~ past'.met, NEW q \in Caller, calls'[q].op = "create"
        PROVE  calls'[q].addr \notin Custom
    BY <1>1, <2>2, <2>3, <2>4 DEF Meet
  <2>5. QED
    BY <1>1, <2>1, <2>2, <2>3, <2>4 DEF Apart, Meet
<1>6. RouteQuiet
  BY <1>1, <1>2, FreeFacts, RouteQuietStep DEF OnInbox
<1>7. QED
  BY <1>3, <1>4, <1>5, <1>6

\* A request to Cloudflare fails: the attempt goes on to settle.
LEMMA Fails ==
  ASSUME DomainTyped, Tidy, Apart, NEW p \in Caller, UNCHANGED routeVars, AttemptFails(p)
  PROVE  DomainTyped' /\ Tidy' /\ Apart' /\ RouteQuiet
<1>1. /\ calls \in [Caller -> Call] /\ calls[p] \in Call /\ zone \in Zone /\ past \in Past
      /\ domain \in DomainRow /\ domain' = domain /\ inboxes' = inboxes /\ zone' = zone
      /\ calls[p].op \in {"add", "verify"} /\ calls[p].step \notin {"insert", "row"}
      /\ Fault(FALSE)
  BY DEF DomainTyped, AttemptFails, Attempting
<1>2. OnDomain(calls[p]) /\ calls[p].rule = 0
  BY <1>1 DEF OnDomain, DomainTyped, OnInbox
<1>3. /\ past' \in Past /\ past'.before = past.before /\ past'.broken = past.broken
      /\ past'.met = past.met
      /\ ~ past'.rough => ~ past.rough
  BY <1>1, FaultFacts
<1>4. PICK c \in Call : c = [calls[p] EXCEPT !.step = "settle", !.ok = FALSE, !.todo = {}]
  BY <1>1 DEF Call, Steps
<1>5. /\ c.step = "settle" /\ c.op = calls[p].op /\ c.row = calls[p].row /\ c.rule = 0
      /\ calls' = [calls EXCEPT ![p] = c]
  BY <1>1, <1>2, <1>4 DEF Call, AttemptFails
<1>6. /\ calls' \in [Caller -> Call] /\ calls'[p] = c
      /\ \A q \in Caller \ {p} : calls'[q] = calls[q]
      /\ DomainTyped' /\ Apart' /\ RouteQuiet
  BY <1>1, <1>2, <1>3, <1>5, DomainMoves
<1>7. TidyQuiet
  BY <1>1, <1>2, <1>3, <1>5, <1>6 DEF TidyQuiet
<1>8. QED
  BY <1>6, <1>7, TidyStays

\* A call about the domain is cut short.  A cut deletion or verification leaves
\* the row with its tag and its records, for the next deletion to work from.
LEMMA CutsCall ==
  ASSUME DomainTyped, Tidy, Apart, NEW p \in Caller, UNCHANGED routeVars, CallCut(p)
  PROVE  DomainTyped' /\ Tidy' /\ Apart' /\ RouteQuiet
<1>1. /\ zone \in Zone /\ past \in Past /\ domain \in DomainRow
      /\ domain' = domain /\ inboxes' = inboxes /\ zone' = zone
      /\ OnDomain(calls[p]) /\ Fault(calls[p].op = "add") /\ Ends(p)
  BY DEF DomainTyped, CallCut
<1>2. /\ calls' = [calls EXCEPT ![p] = Free]
      /\ calls' \in [Caller -> Call] /\ calls'[p] = Free
      /\ \A q \in Caller \ {p} : calls'[q] = calls[q]
  BY <1>1, EndFacts DEF DomainTyped, Ends
<1>3. /\ past' \in Past /\ past'.before = past.before /\ past'.broken = past.broken
      /\ past'.met = past.met
      /\ ~ past'.rough => ~ past.rough /\ calls[p].op # "add"
  <2>1. PICK rough \in BOOLEAN : rough <=> calls[p].op = "add"
    OBVIOUS
  <2>2. Fault(rough)
    BY <1>1, <2>1
  <2>3. QED
    BY <1>1, <2>1, <2>2, FaultFacts
<1>4. DomainTyped' /\ Apart' /\ RouteQuiet
  BY <1>1, <1>2, <1>3, FreeFacts, DomainMoves
<1>5. Tidy'
  <2>1. ASSUME ~ past'.rough
        PROVE  /\ \A q \in Caller \ {p} : ~ OnDomain(calls[q])
               /\ Knows(calls[p]) /\ calls[p].op \in {"verify", "remove"}
               /\ domain # NoDomain => Full(domain)
    BY <1>1, <1>3, <2>1, TidyFacts DEF OnDomain
  <2>2. ASSUME ~ past'.rough, domain = NoDomain PROVE Clean
    BY <2>1, <2>2 DEF Knows
  <2>3. ASSUME ~ past'.rough, domain' = NoDomain PROVE Clean'
    BY <1>1, <1>3, <2>2, <2>3 DEF Clean
  <2>4. ASSUME ~ past'.rough, domain' # NoDomain PROVE Full(domain')
    BY <1>1, <2>1, <2>4
  <2>5. QED
    BY <1>2, <2>1, <2>3, <2>4, FreeFacts, TidyAlone DEF OnDomain
<1>6. QED
  BY <1>4, <1>5

\* The operator takes the zone away.
LEMMA Withdraws ==
  ASSUME DomainTyped, Tidy, Apart, UNCHANGED routeVars, ZoneWithdrawn
  PROVE  DomainTyped' /\ Tidy' /\ Apart' /\ RouteQuiet
<1>1. /\ zone \in Zone /\ past \in Past /\ domain \in DomainRow
      /\ domain' = domain /\ inboxes' = inboxes /\ calls' = calls /\ Fault(FALSE)
      /\ zone' = [zone EXCEPT !.here = FALSE]
  BY DEF DomainTyped, ZoneWithdrawn
<1>2. zone' \in Zone /\ zone'.dns = zone.dns /\ zone'.sending = zone.sending
  BY <1>1 DEF Zone
<1>3. /\ past' \in Past /\ past'.before = past.before /\ past'.broken = past.broken
      /\ past'.met = past.met
      /\ ~ past'.rough => ~ past.rough
  BY <1>1, FaultFacts
<1>4. DomainTyped'
  BY <1>1, <1>2, <1>3 DEF DomainTyped
<1>5. TidyQuiet /\ ApartQuiet
  BY <1>1, <1>2, <1>3 DEF TidyQuiet, ApartQuiet
<1>6. RouteQuiet
  BY <1>1, <1>3 DEF RouteQuiet
<1>7. QED
  BY <1>4, <1>5, <1>6, TidyStays, ApartStays

\* Every step about the domain.
LEMMA DomainQuiet ==
  ASSUME RoutingInv, UNCHANGED routeVars,
         ZoneWithdrawn \/ \E p \in Caller : DomainStep(p)
  PROVE  DomainTyped' /\ Tidy' /\ Apart' /\ RouteQuiet
<1>1. DomainTyped /\ Tidy /\ Apart
  BY DEF RoutingInv, Typed
<1>2. CASE ZoneWithdrawn
  BY <1>1, <1>2, Withdraws
<1>3. ASSUME NEW p \in Caller, DomainStep(p) PROVE DomainTyped' /\ Tidy' /\ Apart' /\ RouteQuiet
  <2>1. CASE AddStart(p) \/ InsertDomain(p) \/ VerifyStart(p)
    BY <1>1, <2>1, AddStarts, InsertsDomain, VerifyStarts
  <2>2. CASE OnboardSending(p) \/ EnableRouting(p) \/ \E seen \in BOOLEAN : CheckDns(p, seen)
    BY <1>1, <2>2, Onboards, ChecksDns
  <2>3. CASE \E r \in Rec : WriteRecord(p, r) \/ RemoveRecord(p, r)
    BY <1>1, <2>3, WritesRecord, RemovesRecord
  <2>4. CASE Settle(p) \/ RemoveStart(p) \/ RemoveSending(p) \/ RemoveDomain(p)
    BY <1>1, <2>4, Settles, RemoveStarts, RemovesSending, RemovesDomain
  <2>5. CASE AttemptFails(p) \/ CallCut(p)
    BY <1>1, <2>5, Fails, CutsCall
  <2>6. QED
    BY <1>3, <2>1, <2>2, <2>3, <2>4, <2>5 DEF DomainStep
<1>4. QED
  BY <1>2, <1>3

LEMMA DomainKeeps ==
  ASSUME RoutingInv, UNCHANGED routeVars,
         ZoneWithdrawn \/ \E p \in Caller : DomainStep(p)
  PROVE  RoutingInv'
<1>1. DomainTyped' /\ Tidy' /\ Apart' /\ RouteQuiet /\ Typed /\ Kept
  BY DomainQuiet DEF RoutingInv
<1>2. RouteTyped'
  BY DEF RoutingInv, Typed, RouteTyped, routeVars
<1>3. QED
  BY <1>1, <1>2, KeptStays DEF RoutingInv, Typed

-----------------------------------------------------------------------------
(* The steps of the calls on inboxes *)

\* A call on an inbox goes on or ends: what that leaves alone of the domain.
LEMMA InboxMoves ==
  ASSUME Typed, Tidy, NEW p \in Caller, OnInbox(calls[p]), NEW c \in Call,
         calls' = [calls EXCEPT ![p] = c], ~ OnDomain(c),
         IF OnInbox(c) THEN c.addr \in Address ELSE c.rule = 0,
         domain' = domain, zone' = zone, inboxes' \in [Address -> InboxRow],
         past' \in Past, past'.before = past.before, ~ past'.rough => ~ past.rough
  PROVE  /\ calls' \in [Caller -> Call] /\ calls'[p] = c
         /\ \A q \in Caller \ {p} : calls'[q] = calls[q]
         /\ DomainTyped' /\ Tidy'
<1>1. /\ calls' \in [Caller -> Call] /\ calls'[p] = c
      /\ \A q \in Caller \ {p} : calls'[q] = calls[q]
  BY DEF Typed, DomainTyped
<1>2. ~ OnDomain(calls[p]) /\ ~ OnDomain(calls'[p])
  BY <1>1 DEF OnDomain, OnInbox
<1>3. DomainTyped'
  BY <1>1 DEF Typed, DomainTyped, OnInbox
<1>4. TidyQuiet
  BY <1>1, <1>2 DEF TidyQuiet
<1>5. QED
  BY <1>1, <1>3, <1>4, TidyStays

\* A call on an inbox begins, with no rule or with the one its row names.
LEMMA InboxBegins ==
  ASSUME Typed, Tidy, Kept, NEW p \in Caller, NEW r \in Call, BeginsInbox(p, r),
         (r.op = "create" /\ r.rule = 0) \/ (r.op = "delete" /\ r.rule = inboxes[r.addr].rule),
         r.step = "rule", r.addr \in Address
  PROVE  /\ calls'[p].op = r.op /\ calls'[p].addr = r.addr
         /\ \A q \in Caller \ {p} : calls'[q] = calls[q]
         /\ ~ past'.met => /\ ~ past.met
                           /\ \A q \in Caller : r.op = "create" /\ r.addr \in Custom
                                                  => calls[q].op # "remove"
         /\ domain' = domain /\ inboxes' = inboxes
         /\ Typed' /\ Tidy' /\ Kept'
<1>1. /\ DomainTyped /\ RouteTyped /\ calls \in [Caller -> Call] /\ setup \in SetupRun
      /\ mode \in Mode /\ RulesAreNamed /\ ModesHold /\ SetupHolds /\ Reached
      /\ \A q \in Caller : Creates(q)
  BY DEF Typed, DomainTyped, RouteTyped, Kept
<1>2. PICK crossed \in BOOLEAN : crossed = SettingUp
  BY DEF SettingUp
<1>3. PICK c \in Call : c = [r EXCEPT !.mode = mode, !.crossed = crossed]
  BY <1>1 DEF Call
<1>4. /\ c.op = r.op /\ c.step = "rule" /\ c.addr = r.addr /\ c.rule = r.rule /\ c.mode = mode
      /\ c.crossed = crossed
  BY <1>3 DEF Call
<1>5. /\ Begins(p, c) /\ setup' = [setup EXCEPT !.crossed = crossed]
      /\ rules' = rules /\ made' = made /\ mode' = mode /\ catchAll' = catchAll
  BY <1>2, <1>3 DEF BeginsInbox
<1>6. /\ calls' \in [Caller -> Call] /\ calls[p] = Free /\ calls'[p] = c
      /\ \A q \in Caller \ {p} : calls'[q] = calls[q]
      /\ past' \in Past /\ past'.before = past.before /\ past'.broken = past.broken
      /\ ~ past'.rough => ~ past.rough
      /\ ~ past'.met => ~ past.met /\ \A q \in Caller : ~ Meet(c, calls[q]) /\ ~ Meet(calls[q], c)
      /\ domain' = domain /\ zone' = zone /\ inboxes' = inboxes
  BY <1>1, <1>5, BeginFacts
<1>7. /\ setup' \in SetupRun /\ setup'.step = setup.step /\ setup'.rows = setup.rows
      /\ setup'.plan = setup.plan
  BY <1>1, <1>5 DEF SetupRun
<1>8. Typed'
  BY <1>1, <1>4, <1>5, <1>6, <1>7 DEF Typed, DomainTyped, RouteTyped, OnInbox
<1>9. Tidy'
  <2>1. ~ OnDomain(calls[p]) /\ ~ OnDomain(calls'[p])
    BY <1>4, <1>6, FreeFacts DEF OnDomain
  <2>2. TidyQuiet
    BY <1>6, <2>1 DEF TidyQuiet
  <2>3. QED
    BY <2>2, TidyStays
<1>10. RulesAreNamed'
  <2>1. Denotes(c.rule, c.addr)
    <3>1. CASE c.rule = 0
      BY <1>1, <3>1 DEF RulesAreNamed, Denotes, RouteTyped
    <3>2. CASE c.rule = inboxes[c.addr].rule
      BY <1>1, <1>4, <3>2 DEF RulesAreNamed
    <3>3. QED
      BY <1>4, <3>1, <3>2
  <2>2. \A q \in Caller : Denotes(calls'[q].rule, calls'[q].addr)
    BY <1>1, <1>6, <2>1 DEF RulesAreNamed
  <2>3. QED
    BY <1>1, <1>5, <1>6, <1>7, <2>2 DEF RulesAreNamed, Denotes
<1>11. ModesHold'
  BY <1>1, <1>2, <1>4, <1>5, <1>6, <1>7 DEF ModesHold, SettingUp
<1>12. ASSUME NEW q \in Caller PROVE Creates(q)'
  <2>1. CASE q = p
    BY <1>4, <1>6, <2>1 DEF Creates
  <2>2. CASE q # p
    <3>1. calls'[q] = calls[q] /\ Creates(q)
      BY <1>1, <1>6, <2>2
    <3>2. ASSUME calls[q].op = "create", ~ calls[q].crossed, calls[q].rule # 0
          PROVE  \A s \in Caller \ {q} : calls'[s].rule # calls'[q].rule
      BY <1>4, <1>6, <3>1, <3>2 DEF Creates
    <3>3. QED
      BY <1>5, <1>6, <3>1, <3>2 DEF Creates, NeedsRule
  <2>3. QED
    BY <2>1, <2>2
<1>13. \A a \in Address : (Routed(a)' <=> Routed(a)) /\ (Leaving(a)' <=> Leaving(a))
  BY <1>4, <1>5, <1>6, FreeFacts DEF Routed, Leaving, InStep
<1>14. SetupHolds'
  BY <1>1, <1>6, <1>7, <1>13 DEF SetupHolds, Address
<1>15. Reached'
  BY <1>1, <1>5, <1>6, <1>13 DEF Reached
<1>16. Kept'
  BY <1>10, <1>11, <1>12, <1>14, <1>15 DEF Kept
<1>17. ASSUME ~ past'.met
       PROVE  ~ past.met /\ \A q \in Caller : r.op = "create" /\ r.addr \in Custom
                                                => calls[q].op # "remove"
  BY <1>4, <1>6, <1>17 DEF Meet
<1>18. QED
  BY <1>4, <1>6, <1>8, <1>9, <1>16, <1>17

LEMMA CreateStarts ==
  ASSUME RoutingInv, NEW p \in Caller, NEW a \in Address, CreateStart(p, a)
  PROVE  RoutingInv'
<1>1. Typed /\ Tidy /\ Apart /\ Kept
  BY DEF RoutingInv
<1>2. PICK r \in Call : r = [Free EXCEPT !.op = "create", !.step = "rule", !.addr = a]
  BY FreeFacts DEF Call, Ops, Steps, Place
<1>3. r.op = "create" /\ r.step = "rule" /\ r.addr = a /\ r.rule = 0
  BY <1>2, FreeFacts DEF Call
<1>4. BeginsInbox(p, r) /\ (a \in Custom => domain # NoDomain)
  BY <1>2, FreeFacts DEF CreateStart
<1>5. /\ calls'[p].op = "create" /\ calls'[p].addr = a
      /\ \A q \in Caller \ {p} : calls'[q] = calls[q]
      /\ ~ past'.met => ~ past.met /\ \A q \in Caller : a \in Custom => calls[q].op # "remove"
      /\ domain' = domain /\ inboxes' = inboxes
      /\ Typed' /\ Tidy' /\ Kept'
  BY <1>1, <1>3, <1>4, InboxBegins
<1>6. Apart'
  BY <1>1, <1>4, <1>5 DEF Apart, Meet
<1>7. QED
  BY <1>5, <1>6 DEF RoutingInv

LEMMA DeleteStarts ==
  ASSUME RoutingInv, NEW p \in Caller, NEW a \in Address, DeleteStart(p, a)
  PROVE  RoutingInv'
<1>1. /\ Typed /\ Tidy /\ Apart /\ Kept
      /\ domain \in DomainRow /\ inboxes[a] \in InboxRow /\ inboxes[a].rule \in Nat
  BY DEF RoutingInv, Typed, DomainTyped, InboxRow
<1>2. PICK row \in DomainRow : row = IF a \in Custom THEN domain ELSE NoDomain
  BY <1>1, FreeFacts
<1>3. PICK r \in Call : r = [Free EXCEPT !.op = "delete", !.step = "rule", !.addr = a,
                                         !.row = row, !.rule = inboxes[a].rule]
  BY <1>1, FreeFacts DEF Call, Ops, Steps, Place
<1>4. r.op = "delete" /\ r.step = "rule" /\ r.addr = a /\ r.rule = inboxes[a].rule
  BY <1>1, <1>3, FreeFacts DEF Call
<1>5. BeginsInbox(p, r)
  BY <1>2, <1>3 DEF DeleteStart
<1>6. /\ calls'[p].op = "delete" /\ \A q \in Caller \ {p} : calls'[q] = calls[q]
      /\ ~ past'.met => ~ past.met
      /\ domain' = domain /\ inboxes' = inboxes
      /\ Typed' /\ Tidy' /\ Kept'
  BY <1>1, <1>4, <1>5, InboxBegins
<1>7. ApartQuiet
  BY <1>6 DEF ApartQuiet
<1>8. QED
  BY <1>1, <1>6, <1>7, ApartStays DEF RoutingInv

\* The creation of an inbox makes the rule it needs.
LEMMA CreatesRule ==
  ASSUME RoutingInv, NEW p \in Caller, CreateRule(p) PROVE RoutingInv'
<1>1. /\ Typed /\ Tidy /\ Apart /\ Kept /\ DomainTyped /\ RouteTyped
      /\ calls \in [Caller -> Call] /\ calls[p] \in Call /\ made \in Nat /\ rules \subseteq Rule
      /\ RulesAreNamed /\ ModesHold /\ SetupHolds /\ Reached /\ \A q \in Caller : Creates(q)
      /\ calls[p].op = "create" /\ calls[p].step = "rule" /\ calls[p].addr \in Address
      /\ domain' = domain /\ zone' = zone /\ inboxes' = inboxes /\ past' = past
      /\ mode' = mode /\ catchAll' = catchAll /\ setup' = setup
  BY DEF RoutingInv, Typed, DomainTyped, RouteTyped, Kept, CreateRule, InStep, OnInbox
<1>2. PICK n \in Nat : n = IF NeedsRule(calls[p]) THEN made + 1 ELSE calls[p].rule
  BY <1>1 DEF Call
<1>3. PICK c \in Call : c = [calls[p] EXCEPT !.step = "row", !.rule = n]
  BY <1>1 DEF Call, Steps
<1>4. /\ c.op = "create" /\ c.step = "row" /\ c.addr = calls[p].addr /\ c.rule = n
      /\ c.mode = calls[p].mode /\ c.crossed = calls[p].crossed
      /\ calls' = [calls EXCEPT ![p] = c]
  <2>1. CASE NeedsRule(calls[p])
    BY <1>1, <1>2, <1>3, <2>1 DEF CreateRule, NewRule, Call
  <2>2. CASE ~ NeedsRule(calls[p])
    <3>1. c = [calls[p] EXCEPT !.step = "row"]
      BY <1>1, <1>2, <1>3, <2>2 DEF Call
    <3>2. QED
      BY <1>1, <1>2, <1>3, <2>2, <3>1 DEF CreateRule, Goes, Call
  <2>3. QED
    BY <2>1, <2>2
<1>5. /\ calls' \in [Caller -> Call] /\ calls'[p] = c
      /\ \A q \in Caller \ {p} : calls'[q] = calls[q]
      /\ DomainTyped' /\ Tidy'
  BY <1>1, <1>4, InboxMoves DEF OnInbox, OnDomain, DomainTyped
<1>6. ApartQuiet
  BY <1>1, <1>4, <1>5 DEF ApartQuiet
<1>7. PICK x \in Rule : x = [id |-> made + 1, addr |-> c.addr, zone |-> ZoneOf(c.addr)]
  <2>1. made + 1 \in Nat /\ c.addr \in Address /\ ZoneOf(c.addr) \in {"own", "custom"}
    BY <1>1, <1>4 DEF ZoneOf
  <2>2. QED
    BY <2>1 DEF Rule
<1>8. \/ /\ NeedsRule(calls[p]) /\ made' = made + 1 /\ n = made + 1
         /\ rules' = rules \cup {x}
      \/ ~ NeedsRule(calls[p]) /\ made' = made /\ rules' = rules /\ n = calls[p].rule
  <2>1. CASE NeedsRule(calls[p])
    BY <1>1, <1>2, <1>4, <1>7, <2>1 DEF CreateRule, NewRule
  <2>2. CASE ~ NeedsRule(calls[p])
    BY <1>2, <2>2 DEF CreateRule
  <2>3. QED
    BY <2>1, <2>2
<1>9. /\ x.id = made + 1 /\ x.addr = c.addr /\ x.zone = ZoneOf(c.addr)
      /\ rules \subseteq rules' /\ rules' \subseteq rules \cup {x}
      /\ made' \in Nat /\ made <= made' /\ (x \in rules' /\ x \notin rules => made' = made + 1)
  BY <1>1, <1>7, <1>8
<1>10. RouteTyped'
  BY <1>1, <1>9 DEF RouteTyped
<1>11. RulesAreNamed'
  <2>1. /\ \A y \in rules : y.id # 0 /\ y.id <= made /\ y.id \in Nat
        /\ \A y, z \in rules : y.id = z.id => y = z
    BY <1>1 DEF RulesAreNamed, Rule
  <2>2. \A y \in rules' : y.id # 0 /\ y.id <= made'
    BY <1>1, <1>9, <2>1
  <2>3. \A y, z \in rules' : y.id = z.id => y = z
    BY <1>1, <1>9, <2>1
  <2>4. ASSUME NEW k \in Nat, NEW a, Denotes(k, a) PROVE Denotes(k, a)'
    BY <1>1, <1>9, <2>4 DEF Denotes
  <2>5. \A a \in Address : Denotes(inboxes[a].rule, a) /\ inboxes[a].rule \in Nat
    BY <1>1 DEF RulesAreNamed, DomainTyped, InboxRow
  <2>6. \A q \in Caller : Denotes(calls[q].rule, calls[q].addr) /\ calls[q].rule \in Nat
    BY <1>1 DEF RulesAreNamed, Call
  <2>7. \A a \in DOMAIN setup.plan.adopt :
          Denotes(setup.plan.adopt[a], a) /\ setup.plan.adopt[a] \in Nat
    BY <1>1 DEF RulesAreNamed, RouteTyped, SetupRun, Plan, Names
  <2>8. Denotes(c.rule, c.addr)'
    <3>1. CASE NeedsRule(calls[p])
      BY <1>1, <1>4, <1>8, <1>9, <2>1, <3>1 DEF Denotes
    <3>2. CASE ~ NeedsRule(calls[p])
      BY <1>1, <1>4, <1>8, <2>6, <3>2 DEF Denotes
    <3>3. QED
      BY <3>1, <3>2
  <2>9. \A q \in Caller : Denotes(calls[q].rule, calls[q].addr)'
    BY <1>5, <2>4, <2>6, <2>8 DEF Denotes
  <2>10. \A a \in Address : /\ inboxes[a].rule <= made'
                            /\ \A y \in rules' : y.id = inboxes[a].rule => y.addr = a
    BY ZenonT(30), <2>4, <2>5 DEF Denotes
  <2>11. \A a \in DOMAIN setup.plan.adopt :
           /\ setup.plan.adopt[a] <= made'
           /\ \A y \in rules' : y.id = setup.plan.adopt[a] => y.addr = a
    BY <2>4, <2>7 DEF Denotes
  <2>12. QED
    BY <1>1, <2>2, <2>3, <2>9, <2>10, <2>11 DEF RulesAreNamed, Denotes
<1>12. ModesHold'
  BY <1>1, <1>4, <1>5 DEF ModesHold, SettingUp, OnInbox
<1>13. ASSUME NEW q \in Caller PROVE Creates(q)'
  <2>1. CASE q = p
    <3>1. ASSUME ~ c.crossed PROVE calls[p].rule = 0
      BY <1>1, <1>4, <3>1 DEF Creates
    <3>2. CASE NeedsRule(calls[p])
      <4>1. c.rule = made + 1 /\ x \in rules'
        BY <1>4, <1>8, <3>2
      <4>2. /\ \A a \in Address : inboxes'[a].rule # made + 1
            /\ \A s \in Caller \ {p} : calls'[s].rule # made + 1
        BY <1>1, <1>5 DEF RulesAreNamed, Denotes, DomainTyped, InboxRow, Call
      <4>3. QED
        BY <1>4, <1>5, <1>9, <2>1, <4>1, <4>2 DEF Creates, NeedsRule
    <3>3. CASE ~ NeedsRule(calls[p])
      BY <1>4, <1>5, <1>8, <2>1, <3>1, <3>3 DEF Creates, NeedsRule
    <3>4. QED
      BY <3>2, <3>3
  <2>2. CASE q # p
    <3>1. calls'[q] = calls[q] /\ Creates(q) /\ calls[q].rule <= made /\ calls[q].rule \in Nat
      BY <1>1, <1>5, <2>2 DEF RulesAreNamed, Denotes, Call
    <3>2. n # calls[q].rule \/ n = calls[p].rule
      BY <1>1, <1>8, <3>1
    <3>3. ASSUME calls[q].op = "create", ~ calls[q].crossed, calls[q].rule # 0
          PROVE  \A s \in Caller \ {q} : calls'[s].rule # calls'[q].rule
      BY <1>4, <1>5, <2>2, <3>1, <3>2, <3>3 DEF Creates
    <3>4. QED
      BY <1>1, <1>9, <3>1, <3>3 DEF Creates, NeedsRule
  <2>3. QED
    BY <2>1, <2>2
<1>14. \A a \in Address : (Routed(a) => Routed(a)') /\ (Leaving(a)' <=> Leaving(a))
  <2>1. \A q \in Caller : InStep(q, "delete", "row")' => calls'[q] = calls[q]
    BY <1>4, <1>5 DEF InStep
  <2>2. \A q \in Caller : InStep(q, "delete", "row") => calls'[q] = calls[q]
    BY <1>1, <1>5 DEF InStep
  <2>3. QED
    BY <1>9, <2>1, <2>2 DEF Routed, Leaving, InStep
<1>15. SetupHolds'
  BY <1>1, <1>14 DEF SetupHolds, Address
<1>16. Reached'
  BY <1>1, <1>14 DEF Reached
<1>17. QED
  BY <1>1, <1>5, <1>6, <1>10, <1>11, <1>12, <1>13, <1>15, <1>16, ApartStays
  DEF RoutingInv, Typed, Kept

\* What a call on an inbox leaves of what the others know: it gives no number
\* of a rule away but its own, and takes no rule but its own.
LEMMA OthersCreate ==
  ASSUME NEW p \in Caller, \A q \in Caller : Creates(q),
         \A q \in Caller \ {p} : calls'[q] = calls[q],
         ~ (calls'[p].op = "create"),
         calls'[p].rule = 0 \/ calls'[p].rule = calls[p].rule,
         \A a \in Address : \/ inboxes'[a].rule \in {0, calls[p].rule}
                            \/ inboxes'[a] = inboxes[a],
         \A x \in rules : x \in rules' \/ x.id = calls[p].rule,
         \A x \in rules : x.id # 0
  PROVE  \A q \in Caller : Creates(q)'
<1> SUFFICES ASSUME NEW q \in Caller PROVE Creates(q)'
  OBVIOUS
<1>1. CASE q = p
  BY <1>1 DEF Creates
<1>2. CASE q # p
  <2>1. calls'[q] = calls[q] /\ Creates(q)
    BY <1>2
  <2>2. ASSUME calls[q].op = "create", ~ calls[q].crossed, calls[q].rule # 0
        PROVE  /\ \A a \in Address : inboxes'[a].rule # calls[q].rule
               /\ \A s \in Caller \ {q} : calls'[s].rule # calls[q].rule
               /\ calls[p].rule # calls[q].rule
    BY <1>2, <2>1, <2>2 DEF Creates
  <2>3. ASSUME calls[q].op = "create", ~ calls[q].crossed, NEW x \in rules, x.id = calls[q].rule
        PROVE  x \in rules'
    BY <2>2, <2>3
  <2>4. QED
    BY <2>1, <2>2, <2>3 DEF Creates, NeedsRule
<1>3. QED
  BY <1>1, <1>2

\* The row of an inbox is inserted, with its rule.
LEMMA InsertsInbox ==
  ASSUME RoutingInv, NEW p \in Caller, InsertInbox(p) PROVE RoutingInv'
<1> DEFINE a == calls[p].addr
<1>1. /\ Typed /\ Tidy /\ Apart /\ Kept /\ DomainTyped /\ RouteTyped
      /\ calls \in [Caller -> Call] /\ calls[p] \in Call /\ inboxes \in [Address -> InboxRow]
      /\ past \in Past /\ a \in Address /\ calls[p].rule \in Nat
      /\ RulesAreNamed /\ ModesHold /\ SetupHolds /\ Reached /\ \A q \in Caller : Creates(q)
      /\ calls[p].op = "create" /\ calls[p].step = "row" /\ OnInbox(calls[p])
      /\ domain' = domain /\ zone' = zone
      /\ rules' = rules /\ made' = made /\ mode' = mode /\ catchAll' = catchAll /\ setup' = setup
  BY DEF RoutingInv, Typed, DomainTyped, RouteTyped, Kept, InsertInbox, InStep, OnInbox, routeVars,
         Call
<1>2. calls' = [calls EXCEPT ![p] = Free]
  BY DEF InsertInbox, Ends
<1>3. PICK i \in InboxRow : i = [row |-> TRUE, rule |-> calls[p].rule]
  BY <1>1 DEF InboxRow
<1>4. PICK broken \in SUBSET Place : broken = past.broken \cup {a}
  BY <1>1 DEF Past, Place
<1>5. \/ inboxes[a].row /\ inboxes' = inboxes /\ past' = past
      \/ /\ ~ inboxes[a].row /\ inboxes' = [inboxes EXCEPT ![a] = i]
         /\ past' = IF calls[p].crossed THEN [past EXCEPT !.broken = broken] ELSE past
  BY <1>3, <1>4 DEF InsertInbox, Losing
<1>6. /\ inboxes' \in [Address -> InboxRow]
      /\ \A b \in Address \ {a} : inboxes'[b] = inboxes[b]
      /\ inboxes'[a] = inboxes[a] \/ inboxes'[a] = i
  BY <1>1, <1>3, <1>5
<1>7. /\ past' \in Past /\ past'.before = past.before /\ past'.rough = past.rough
      /\ past'.met = past.met /\ past.broken \subseteq past'.broken
      /\ ~ inboxes[a].row /\ calls[p].crossed => a \in past'.broken
  BY <1>1, <1>4, <1>5 DEF Past
<1>8. /\ calls' \in [Caller -> Call] /\ calls'[p] = Free
      /\ \A q \in Caller \ {p} : calls'[q] = calls[q]
      /\ DomainTyped' /\ Tidy'
  BY <1>1, <1>2, <1>6, <1>7, FreeFacts, InboxMoves DEF OnInbox, OnDomain
<1>9. Apart'
  <2>1. ASSUME ~ past'.met, a \in Custom
        PROVE  domain # NoDomain /\ \A q \in Caller : calls[q].op # "remove"
    BY <1>1, <1>7, <2>1 DEF Apart, Meet
  <2>2. \A q \in Caller : calls'[q].op \in {"remove", "create"} => calls'[q] = calls[q]
    BY <1>8, FreeFacts
  <2>3. Custom \subseteq Address
    BY DEF Address
  <2>4. \A b \in Custom : inboxes'[b].row => b = a \/ inboxes[b].row
    BY <1>6, <2>3
  <2>5. QED
    BY <1>1, <1>7, <2>1, <2>2, <2>3, <2>4 DEF Apart, Meet
<1>10. RulesAreNamed'
  <2>1. \A b \in Address : Denotes(inboxes'[b].rule, b)
    <3>1. Denotes(i.rule, a) /\ \A b \in Address : Denotes(inboxes[b].rule, b)
      BY <1>1, <1>3 DEF RulesAreNamed
    <3>2. QED
      BY <1>6, <3>1
  <2>2. \A q \in Caller : Denotes(calls'[q].rule, calls'[q].addr)
    <3>1. Denotes(0, Free.addr)
      BY <1>1 DEF RulesAreNamed, Denotes, RouteTyped
    <3>2. QED
      BY <1>1, <1>8, <3>1, FreeFacts DEF RulesAreNamed
  <2>3. QED
    BY <1>1, <2>1, <2>2 DEF RulesAreNamed, Denotes
<1>11. ModesHold'
  BY <1>1, <1>8, FreeFacts DEF ModesHold, SettingUp, OnInbox
<1>12. \A q \in Caller : Creates(q)'
  <2>1. \A x \in rules : x.id # 0 /\ x \in rules'
    BY <1>1 DEF RulesAreNamed
  <2>2. \A b \in Address : inboxes'[b].rule \in {0, calls[p].rule} \/ inboxes'[b] = inboxes[b]
    BY <1>3, <1>6
  <2>3. QED
    BY <1>1, <1>8, <2>1, <2>2, FreeFacts, OthersCreate
<1>13. \A b \in Address : (Routed(b)' <=> Routed(b)) /\ (Leaving(b)' <=> Leaving(b))
  <2>1. \A q \in Caller : InStep(q, "delete", "row")' => calls'[q] = calls[q]
    BY <1>8, FreeFacts DEF InStep
  <2>2. \A q \in Caller : InStep(q, "delete", "row") => calls'[q] = calls[q]
    BY <1>1, <1>8 DEF InStep
  <2>3. QED
    BY <1>1, <2>1, <2>2 DEF Routed, Leaving, InStep
<1>14. ASSUME ~ inboxes[a].row
       PROVE  /\ a \in past'.broken \/ Routed(a) \/ (a \in Own /\ catchAll)
              /\ a \in past'.broken \/ ~ SettingUp
  <2>1. CASE calls[p].crossed
    BY <1>7, <1>14, <2>1
  <2>2. CASE ~ calls[p].crossed
    <3>1. ~ SettingUp /\ calls[p].mode = mode
      BY <1>1, <2>2 DEF ModesHold
    <3>2. CASE NeedsRule(calls[p])
      BY <1>1, <2>2, <3>1, <3>2 DEF Creates, Routed
    <3>3. CASE ~ NeedsRule(calls[p])
      <4>1. a \in Own /\ mode = "catch_all"
        BY <1>1, <3>1, <3>3 DEF NeedsRule, Address, RouteTyped, Mode
      <4>2. QED
        BY <1>1, <3>1, <4>1 DEF ModesHold
    <3>4. QED
      BY <3>2, <3>3
  <2>3. QED
    BY <2>1, <2>2
<1>15. \A b \in Address : inboxes'[b].row => inboxes[b].row \/ (b = a /\ ~ inboxes[a].row)
  BY <1>6
<1>16. SetupHolds'
  <2>1. CASE ~ SettingUp
    BY <1>1, <2>1 DEF SetupHolds, SettingUp
  <2>2. CASE SettingUp
    <3>1. \A b \in Address : inboxes'[b].row => inboxes[b].row \/ b \in past'.broken
      BY <1>14, <1>15, <2>2
    <3>2. QED
      BY <1>1, <1>7, <1>13, <3>1 DEF SetupHolds, Address
  <2>3. QED
    BY <2>1, <2>2
<1>17. Reached'
  BY <1>1, <1>7, <1>13, <1>14, <1>15 DEF Reached
<1>18. RouteTyped'
  BY <1>1 DEF RouteTyped
<1>19. QED
  BY <1>8, <1>9, <1>10, <1>11, <1>12, <1>16, <1>17, <1>18 DEF RoutingInv, Typed, Kept

\* The deletion of an inbox removes the rule that its row named.
LEMMA DeletesRule ==
  ASSUME RoutingInv, NEW p \in Caller, DeleteRule(p) PROVE RoutingInv'
<1>1. /\ Typed /\ Tidy /\ Apart /\ Kept /\ DomainTyped /\ RouteTyped
      /\ calls \in [Caller -> Call] /\ calls[p] \in Call /\ calls[p].addr \in Address
      /\ RulesAreNamed /\ ModesHold /\ SetupHolds /\ Reached /\ \A q \in Caller : Creates(q)
      /\ calls[p].op = "delete" /\ calls[p].step = "rule" /\ OnInbox(calls[p])
      /\ domain' = domain /\ zone' = zone /\ inboxes' = inboxes /\ past' = past
      /\ made' = made /\ mode' = mode /\ catchAll' = catchAll /\ setup' = setup
  BY DEF RoutingInv, Typed, DomainTyped, RouteTyped, Kept, DeleteRule, InStep, OnInbox
<1>2. Goes(p, "row")
  BY DEF DeleteRule
<1>3. PICK c \in Call : c = [calls[p] EXCEPT !.step = "row"]
  BY <1>1 DEF Call, Steps
<1>4. /\ c.op = "delete" /\ c.step = "row" /\ c.addr = calls[p].addr /\ c.rule = calls[p].rule
      /\ c.mode = calls[p].mode /\ c.crossed = calls[p].crossed
      /\ calls' = [calls EXCEPT ![p] = c]
  BY <1>1, <1>2, <1>3 DEF Call, Goes
<1>5. /\ calls' \in [Caller -> Call] /\ calls'[p] = c
      /\ \A q \in Caller \ {p} : calls'[q] = calls[q]
      /\ DomainTyped' /\ Tidy'
  BY <1>1, <1>4, InboxMoves DEF OnInbox, OnDomain, DomainTyped
<1>6. ApartQuiet
  BY <1>1, <1>4, <1>5 DEF ApartQuiet
<1>7. rules' \subseteq rules /\ \A x \in rules : x \in rules' \/ x.id = calls[p].rule
  BY DEF DeleteRule
<1>8. RouteTyped'
  BY <1>1, <1>7 DEF RouteTyped
<1>9. RulesAreNamed'
  BY <1>1, <1>4, <1>5, <1>7 DEF RulesAreNamed, Denotes
<1>10. ModesHold'
  BY <1>1, <1>4, <1>5 DEF ModesHold, SettingUp, OnInbox
<1>11. \A q \in Caller : Creates(q)'
  BY <1>1, <1>4, <1>5, <1>7, OthersCreate DEF RulesAreNamed
<1>12. \A a \in Address : /\ Leaving(a) => Leaving(a)'
                          /\ Routed(a) => Routed(a)' \/ Leaving(a)'
  <2>1. InStep(p, "delete", "row")' /\ calls'[p].addr = calls[p].addr
    BY <1>4, <1>5 DEF InStep
  <2>2. \A x \in rules : x.id = calls[p].rule => x.addr = calls[p].addr
    BY <1>1 DEF RulesAreNamed, Denotes
  <2>3. \A a \in Address : Leaving(a) => Leaving(a)'
    BY <1>1, <1>5, <2>1 DEF Leaving, InStep
  <2>4. \A a \in Address : Routed(a) => Routed(a)' \/ a = calls[p].addr
    BY <1>7, <2>2 DEF Routed
  <2>5. \A a \in Address : a = calls[p].addr => Leaving(a)'
    BY <2>1 DEF Leaving
  <2>6. QED
    BY <1>1, <2>3, <2>4, <2>5
<1>13. SetupHolds'
  BY <1>1, <1>12 DEF SetupHolds, Address
<1>14. Reached'
  BY <1>1, <1>12 DEF Reached
<1>15. QED
  BY <1>1, <1>5, <1>6, <1>8, <1>9, <1>10, <1>11, <1>13, <1>14, ApartStays
  DEF RoutingInv, Typed, Kept

\* And then the row.
LEMMA DeletesInbox ==
  ASSUME RoutingInv, NEW p \in Caller, DeleteInbox(p) PROVE RoutingInv'
<1> DEFINE a == calls[p].addr
<1>1. /\ Typed /\ Tidy /\ Apart /\ Kept /\ DomainTyped /\ RouteTyped
      /\ calls \in [Caller -> Call] /\ inboxes \in [Address -> InboxRow]
      /\ RulesAreNamed /\ ModesHold /\ SetupHolds /\ Reached /\ \A q \in Caller : Creates(q)
      /\ calls[p].op = "delete" /\ calls[p].step = "row" /\ OnInbox(calls[p]) /\ a \in Address
      /\ domain' = domain /\ zone' = zone /\ past' = past
      /\ rules' = rules /\ made' = made /\ mode' = mode /\ catchAll' = catchAll /\ setup' = setup
  BY DEF RoutingInv, Typed, DomainTyped, RouteTyped, Kept, DeleteInbox, InStep, OnInbox, routeVars
<1>2. /\ inboxes' = [inboxes EXCEPT ![a] = NoInbox] /\ calls' = [calls EXCEPT ![p] = Free]
  BY DEF DeleteInbox, Ends
<1>3. /\ inboxes' \in [Address -> InboxRow] /\ inboxes'[a] = NoInbox
      /\ \A b \in Address \ {a} : inboxes'[b] = inboxes[b]
  BY <1>1, <1>2, FreeFacts
<1>4. /\ calls' \in [Caller -> Call] /\ calls'[p] = Free
      /\ \A q \in Caller \ {p} : calls'[q] = calls[q]
      /\ DomainTyped' /\ Tidy'
  BY <1>1, <1>2, <1>3, FreeFacts, InboxMoves DEF OnInbox, OnDomain, Typed, DomainTyped
<1>5. \A b \in Address : inboxes'[b].row => b # a /\ inboxes[b].row
  BY <1>3, FreeFacts
<1>6. ApartQuiet
  BY <1>1, <1>4, <1>5, FreeFacts DEF ApartQuiet
<1>7. RouteTyped'
  BY <1>1 DEF RouteTyped
<1>8. RulesAreNamed'
  <2>1. \A b : Denotes(0, b)
    BY <1>1 DEF RulesAreNamed, Denotes, RouteTyped
  <2>2. \A b \in Address : Denotes(inboxes'[b].rule, b)
    BY <1>1, <1>3, <2>1, FreeFacts DEF RulesAreNamed
  <2>3. \A q \in Caller : Denotes(calls'[q].rule, calls'[q].addr)
    BY <1>1, <1>4, <2>1, FreeFacts DEF RulesAreNamed
  <2>4. QED
    BY <1>1, <2>2, <2>3 DEF RulesAreNamed, Denotes
<1>9. ModesHold'
  BY <1>1, <1>4, FreeFacts DEF ModesHold, SettingUp, OnInbox
<1>10. \A q \in Caller : Creates(q)'
  <2>1. \A b \in Address : inboxes'[b].rule \in {0, calls[p].rule} \/ inboxes'[b] = inboxes[b]
    BY <1>3, FreeFacts
  <2>2. \A x \in rules : x.id # 0 /\ x \in rules'
    BY <1>1 DEF RulesAreNamed
  <2>3. QED
    BY <1>1, <1>4, <2>1, <2>2, FreeFacts, OthersCreate
<1>11. \A b \in Address \ {a} : (Routed(b)' <=> Routed(b)) /\ (Leaving(b) => Leaving(b)')
  BY <1>1, <1>4 DEF Routed, Leaving, InStep
<1>12. SetupHolds'
  BY <1>1, <1>5, <1>11 DEF SetupHolds, Address
<1>13. Reached'
  BY <1>1, <1>5, <1>11 DEF Reached
<1>14. QED
  BY <1>1, <1>4, <1>6, <1>7, <1>8, <1>9, <1>10, <1>12, <1>13, ApartStays
  DEF RoutingInv, Typed, Kept

\* A call on an inbox is cut short: what it left is on record.
LEMMA CutsInbox ==
  ASSUME RoutingInv, NEW p \in Caller, InboxCut(p) PROVE RoutingInv'
<1>1. /\ Typed /\ Tidy /\ Apart /\ Kept /\ RouteTyped
      /\ past \in Past /\ calls[p].addr \in Address /\ OnInbox(calls[p])
      /\ domain' = domain /\ zone' = zone /\ inboxes' = inboxes /\ UNCHANGED routeVars
      /\ inboxes \in [Address -> InboxRow] /\ calls' = [calls EXCEPT ![p] = Free]
  BY DEF RoutingInv, Typed, DomainTyped, InboxCut, OnInbox, Ends
<1>2. PICK n \in Nat, broken \in SUBSET Place :
        n = past.faults + 1 /\ broken = past.broken \cup {calls[p].addr}
  <2>1. past.faults + 1 \in Nat /\ past.broken \cup {calls[p].addr} \in SUBSET Place
    BY <1>1 DEF Past, Place
  <2>2. QED
    BY <2>1
<1>3. past' = [past EXCEPT !.faults = n, !.broken = broken]
  BY <1>2 DEF InboxCut
<1>4. /\ past' \in Past /\ past'.before = past.before /\ past'.rough = past.rough
      /\ past'.met = past.met /\ past.broken \subseteq past'.broken
      /\ calls[p].addr \in past'.broken
  BY <1>1, <1>2, <1>3 DEF Past
<1>5. /\ calls' \in [Caller -> Call] /\ calls'[p] = Free
      /\ \A q \in Caller \ {p} : calls'[q] = calls[q]
      /\ DomainTyped' /\ Tidy'
  BY <1>1, <1>4, FreeFacts, InboxMoves DEF OnInbox, OnDomain
<1>6. ApartQuiet
  BY <1>1, <1>4, <1>5, FreeFacts DEF ApartQuiet
<1>7. RouteQuiet
  BY <1>1, <1>4, <1>5, FreeFacts DEF RouteQuiet, OnInbox
<1>8. RouteTyped'
  BY <1>1 DEF RouteTyped, routeVars
<1>9. QED
  BY <1>1, <1>5, <1>6, <1>7, <1>8, ApartStays, KeptStays DEF RoutingInv, Typed

LEMMA InboxKeeps ==
  ASSUME RoutingInv, NEW p \in Caller, RouteStep(p) PROVE RoutingInv'
BY CreateStarts, DeleteStarts, CreatesRule, InsertsInbox, DeletesRule, DeletesInbox, CutsInbox
DEF RouteStep

-----------------------------------------------------------------------------
(* The steps of the setup *)

\* A setup takes the calls' own work for granted: whatever it does to the rules,
\* a creation that it did not overlap is not under way.
LEMMA SetupWorks ==
  ASSUME RoutingInv, SettingUp, domain' = domain, zone' = zone, calls' = calls, mode' = mode,
         inboxes' \in [Address -> InboxRow],
         \A a \in Address : inboxes'[a].row = inboxes[a].row,
         past' \in Past, past'.before = past.before, past'.rough = past.rough,
         past'.met = past.met, past'.broken = past.broken
  PROVE  /\ DomainTyped' /\ Tidy' /\ Apart' /\ ModesHold'
         /\ \A p \in Caller : Creates(p)'
         /\ \A a \in Address : Leaving(a)' <=> Leaving(a)
<1>1. Typed /\ DomainTyped /\ Tidy /\ Apart /\ ModesHold
  BY DEF RoutingInv, Typed, Kept
<1>2. DomainTyped'
  BY <1>1 DEF DomainTyped
<1>3. TidyQuiet /\ ApartQuiet
  BY DEF TidyQuiet, ApartQuiet
<1>4. mode # "catch_all" /\ \A p \in Caller : OnInbox(calls[p]) => calls[p].crossed
  BY <1>1 DEF ModesHold
<1>5. ModesHold' /\ \A p \in Caller : Creates(p)'
  BY <1>4 DEF ModesHold, Creates, OnInbox
<1>6. \A a \in Address : Leaving(a)' <=> Leaving(a)
  BY DEF Leaving, InStep
<1>7. QED
  BY <1>1, <1>2, <1>3, <1>5, <1>6, TidyStays, ApartStays

\* The id of a new rule is new, so what an older number names stays named.
LEMMA NewRuleNames ==
  ASSUME RouteTyped, RulesAreNamed, NEW a \in Address, NEW z \in {"own", "custom"}, NewRule(a, z)
  PROVE  /\ made' = made + 1 /\ made' \in Nat /\ rules \subseteq rules' /\ rules' \subseteq Rule
         /\ \A x \in rules' : x.id # 0 /\ x.id <= made'
         /\ \A x, y \in rules' : x.id = y.id => x = y
         /\ \A n \in Nat : \A b : Denotes(n, b) => /\ n <= made'
                                                   /\ \A x \in rules' : x.id = n => x.addr = b
         /\ \A x \in rules' : x.id = made' => x.addr = a
         /\ \E x \in rules' : x.addr = a /\ x.zone = z
<1>1. made \in Nat /\ rules \subseteq Rule /\ made' = made + 1
  BY DEF RouteTyped, NewRule
<1>2. PICK n \in Rule : n = [id |-> made + 1, addr |-> a, zone |-> z]
  <2>1. made + 1 \in Nat
    BY <1>1
  <2>2. QED
    BY <2>1 DEF Rule
<1>3. rules' = rules \cup {n} /\ n.id = made + 1 /\ n.addr = a /\ n.zone = z
  BY <1>2 DEF NewRule
<1>4. \A x \in rules : x.id # 0 /\ x.id <= made /\ x.id \in Nat
  BY <1>1 DEF RulesAreNamed, Rule
<1>5. \A x, y \in rules : x.id = y.id => x = y
  BY DEF RulesAreNamed
<1>6. \A x \in rules' : x.id # 0 /\ x.id <= made'
  BY <1>1, <1>3, <1>4
<1>7. \A x, y \in rules' : x.id = y.id => x = y
  BY <1>1, <1>3, <1>4, <1>5
<1>8. ASSUME NEW k \in Nat, NEW b, Denotes(k, b)
      PROVE  k <= made' /\ \A x \in rules' : x.id = k => x.addr = b
  BY <1>1, <1>3, <1>4, <1>8 DEF Denotes
<1>9. \A x \in rules' : x.id = made' => x.addr = a
  BY <1>1, <1>3, <1>4
<1>10. QED
  BY <1>1, <1>2, <1>3, <1>6, <1>7, <1>8, <1>9

\* The setup redeploys the Worker in the other mode.
LEMMA SetupBegins ==
  ASSUME RoutingInv, SetupMode PROVE RoutingInv'
<1>1. /\ Typed /\ DomainTyped /\ RouteTyped /\ Tidy /\ Apart /\ Kept
      /\ calls \in [Caller -> Call] /\ setup \in SetupRun
      /\ RulesAreNamed /\ ModesHold /\ SetupHolds /\ Reached
      /\ domain' = domain /\ zone' = zone /\ inboxes' = inboxes /\ past' = past
      /\ rules' = rules /\ made' = made /\ mode' = "per_inbox" /\ catchAll' = catchAll
  BY DEF RoutingInv, Typed, DomainTyped, RouteTyped, Kept, SetupMode, Api
<1>2. calls' = [p \in Caller |-> [calls[p] EXCEPT !.crossed = OnInbox(calls[p])]]
  BY DEF SetupMode
<1>3. ASSUME NEW p \in Caller
      PROVE  /\ calls'[p] \in Call /\ calls'[p].op = calls[p].op /\ calls'[p].step = calls[p].step
             /\ calls'[p].row = calls[p].row /\ calls'[p].todo = calls[p].todo
             /\ calls'[p].addr = calls[p].addr /\ calls'[p].rule = calls[p].rule
             /\ calls'[p].mode = calls[p].mode
             /\ OnInbox(calls'[p]) => calls'[p].crossed
  <2>1. PICK b \in BOOLEAN : b = OnInbox(calls[p])
    <3>1. OnInbox(calls[p]) = TRUE \/ OnInbox(calls[p]) = FALSE
      BY DEF OnInbox
    <3>2. QED
      BY <3>1
  <2>2. calls'[p] = [calls[p] EXCEPT !.crossed = b] /\ calls[p] \in Call
    BY <1>1, <1>2, <2>1
  <2>3. QED
    BY <2>1, <2>2 DEF Call, OnInbox
<1>4. calls' \in [Caller -> Call]
  BY <1>2, <1>3
<1>5. DomainTyped'
  BY <1>1, <1>3, <1>4 DEF DomainTyped, OnInbox
<1>6. TidyQuiet /\ ApartQuiet
  BY <1>1, <1>3 DEF TidyQuiet, ApartQuiet, OnDomain
<1>7. /\ setup' \in SetupRun /\ setup'.step = "inboxes" /\ DOMAIN setup'.plan.adopt = {}
  <2>1. PICK crossed \in BOOLEAN : crossed = \E p \in Caller : OnInbox(calls[p])
    OBVIOUS
  <2>2. PICK runs \in Nat : runs = setup.runs + 1
    BY <1>1 DEF SetupRun
  <2>3. setup' = [NoSetup EXCEPT !.step = "inboxes", !.runs = runs, !.crossed = crossed]
    BY <2>1, <2>2 DEF SetupMode
  <2>4. [a \in {} |-> 0] \in Names
    <3>1. [a \in {} |-> 0] \in [{} -> Nat] /\ {} \in SUBSET Address
      OBVIOUS
    <3>2. QED
      BY <3>1 DEF Names
  <2>5. NoPlan \in Plan /\ DOMAIN NoPlan.adopt = {}
    BY <2>4 DEF NoPlan, Plan
  <2>6. QED
    BY <2>3, <2>4, <2>5 DEF NoSetup, SetupRun
<1>8. RouteTyped'
  BY <1>1, <1>7 DEF RouteTyped, Mode
<1>9. RulesAreNamed'
  BY <1>1, <1>3, <1>7 DEF RulesAreNamed, Denotes
<1>10. ModesHold'
  BY <1>1, <1>3 DEF ModesHold, OnInbox
<1>11. \A p \in Caller : Creates(p)'
  BY <1>3 DEF Creates, OnInbox
<1>12. SetupHolds'
  BY <1>7 DEF SetupHolds
<1>13. Reached'
  BY <1>1, <1>3 DEF Reached, Routed, Leaving, InStep
<1>14. QED
  BY <1>1, <1>5, <1>6, <1>8, <1>9, <1>10, <1>11, <1>12, <1>13, TidyStays, ApartStays
  DEF RoutingInv, Typed, Kept

\* A set of numbers of rules, by address.
LEMMA NamesFacts ==
  /\ \A f \in Names : DOMAIN f \subseteq Address /\ \A a \in DOMAIN f : f[a] \in Nat
  /\ \A S \in SUBSET Address : [S -> Nat] \subseteq Names
BY DEF Names

\* It reads the rows.
LEMMA SetupReads ==
  ASSUME RoutingInv, SetupInboxes PROVE RoutingInv'
<1>1. /\ Typed /\ DomainTyped /\ RouteTyped /\ Kept /\ setup \in SetupRun /\ past \in Past
      /\ inboxes \in [Address -> InboxRow] /\ RulesAreNamed /\ Reached /\ SettingUp
      /\ domain' = domain /\ zone' = zone /\ inboxes' = inboxes /\ past' = past /\ calls' = calls
      /\ rules' = rules /\ made' = made /\ mode' = mode /\ catchAll' = catchAll
  BY DEF RoutingInv, Typed, DomainTyped, RouteTyped, Kept, SetupInboxes, Api, SettingUp
<1>2. /\ DomainTyped' /\ Tidy' /\ Apart' /\ ModesHold' /\ \A p \in Caller : Creates(p)'
      /\ \A a \in Address : Leaving(a)' <=> Leaving(a)
  BY <1>1, SetupWorks
<1>3. PICK rows \in Names : rows = [a \in {b \in Address : inboxes[b].row} |-> inboxes[a].rule]
  <2>1. PICK S \in SUBSET Address : S = {b \in Address : inboxes[b].row}
    OBVIOUS
  <2>2. \A a \in S : inboxes[a].rule \in Nat
    BY <1>1 DEF InboxRow
  <2>3. [a \in S |-> inboxes[a].rule] \in [S -> Nat]
    BY <2>2
  <2>4. QED
    BY <2>1, <2>3, NamesFacts
<1>4. setup' = [setup EXCEPT !.step = "plan", !.rows = rows]
  BY <1>3 DEF SetupInboxes
<1>5. /\ setup' \in SetupRun /\ setup'.step = "plan" /\ setup'.rows = rows
      /\ setup'.plan = setup.plan
  BY <1>1, <1>4 DEF SetupRun
<1>6. RouteTyped'
  BY <1>1, <1>5 DEF RouteTyped
<1>7. RulesAreNamed'
  BY <1>1, <1>5 DEF RulesAreNamed, Denotes
<1>8. SetupHolds'
  <2>1. \A a \in Address : inboxes[a].row => a \in DOMAIN rows
    BY <1>3
  <2>2. QED
    BY <1>1, <1>5, <2>1 DEF SetupHolds
<1>9. Reached'
  BY <1>1, <1>2 DEF Reached, Routed
<1>10. QED
  BY <1>2, <1>6, <1>7, <1>8, <1>9 DEF RoutingInv, Typed, Kept

\* It plans: an own address with a row keeps its rule, or one is to be created.
LEMMA SetupPlans ==
  ASSUME RoutingInv, SetupPlan PROVE RoutingInv'
<1>1. /\ Typed /\ DomainTyped /\ RouteTyped /\ Kept /\ setup \in SetupRun /\ past \in Past
      /\ inboxes \in [Address -> InboxRow] /\ rules \subseteq Rule /\ made \in Nat
      /\ RulesAreNamed /\ Reached /\ SetupHolds /\ SettingUp /\ setup.step = "plan"
      /\ domain' = domain /\ zone' = zone /\ inboxes' = inboxes /\ past' = past /\ calls' = calls
      /\ rules' = rules /\ made' = made /\ mode' = mode /\ catchAll' = catchAll
  BY DEF RoutingInv, Typed, DomainTyped, RouteTyped, Kept, SetupPlan, Api, SettingUp
<1>2. /\ DomainTyped' /\ Tidy' /\ Apart' /\ ModesHold' /\ \A p \in Caller : Creates(p)'
      /\ \A a \in Address : Leaving(a)' <=> Leaving(a)
  BY <1>1, SetupWorks
<1>3. PICK found \in SUBSET Rule : found = {x \in rules : x.zone = "own"}
  BY <1>1
<1>4. PICK rows \in Names : rows = setup.rows
  BY <1>1 DEF SetupRun
<1>5. PICK adopt \in Adopted(rows, found) :
        setup' = [setup EXCEPT !.step = "create",
                    !.plan = [create |-> DOMAIN rows \ DOMAIN adopt, adopt |-> adopt,
                              remove |-> {x \in found : x.addr \notin DOMAIN rows}]]
  BY <1>3, <1>4 DEF SetupPlan
<1>6. /\ DOMAIN adopt = {a \in DOMAIN rows : \E x \in found : x.addr = a}
      /\ \A a \in DOMAIN adopt : \E x \in found : x.addr = a /\ x.id = adopt[a]
      /\ adopt \in [DOMAIN adopt -> Nat]
  BY <1>1, <1>5 DEF Adopted
<1>7. DOMAIN rows \subseteq Address /\ adopt \in Names
  BY <1>6, NamesFacts
<1>8. PICK plan \in Plan : plan = [create |-> DOMAIN rows \ DOMAIN adopt, adopt |-> adopt,
                                   remove |-> {x \in found : x.addr \notin DOMAIN rows}]
  BY <1>7 DEF Plan
<1>9. /\ plan.create = DOMAIN rows \ DOMAIN adopt /\ plan.adopt = adopt
      /\ \A x \in plan.remove : x.addr \notin DOMAIN rows
  BY <1>8
<1>10. /\ setup' \in SetupRun /\ setup'.step = "create" /\ setup'.rows = rows
       /\ setup'.plan = plan
  BY <1>1, <1>4, <1>5, <1>8 DEF SetupRun
<1>11. RouteTyped'
  BY <1>1, <1>10 DEF RouteTyped
<1>12. RulesAreNamed'
  <2>1. \A a \in DOMAIN adopt : Denotes(adopt[a], a)
    BY <1>1, <1>3, <1>6 DEF RulesAreNamed, Denotes
  <2>2. QED
    BY <1>1, <1>9, <1>10, <2>1 DEF RulesAreNamed, Denotes
<1>13. SetupHolds'
  <2>1. \A a \in Address : inboxes[a].row => a \in DOMAIN rows \/ a \in past.broken
    BY <1>1, <1>4 DEF SetupHolds
  <2>2. \A a \in Own : a \in DOMAIN adopt => Routed(a)'
    BY <1>1, <1>3, <1>6 DEF Routed, ZoneOf
  <2>3. \A a \in Own : inboxes[a].row => Routed(a)' \/ a \in plan.create \/ a \in past.broken
    BY <1>9, <2>1, <2>2 DEF Address
  <2>4. QED
    BY <1>1, <1>9, <1>10, <2>1, <2>3 DEF SetupHolds
<1>14. Reached'
  BY <1>1, <1>2 DEF Reached, Routed
<1>15. QED
  BY <1>2, <1>11, <1>12, <1>13, <1>14 DEF RoutingInv, Typed, Kept

\* It creates a rule that the plan lacks.
LEMMA SetupCreates ==
  ASSUME RoutingInv, NEW a \in Address, SetupCreate(a) PROVE RoutingInv'
<1>1. /\ Typed /\ DomainTyped /\ RouteTyped /\ Kept /\ setup \in SetupRun /\ past \in Past
      /\ inboxes \in [Address -> InboxRow] /\ calls \in [Caller -> Call]
      /\ RulesAreNamed /\ Reached /\ SetupHolds /\ SettingUp /\ setup.step = "create"
      /\ NewRule(a, "own")
      /\ domain' = domain /\ zone' = zone /\ inboxes' = inboxes /\ past' = past /\ calls' = calls
      /\ mode' = mode /\ catchAll' = catchAll
  BY DEF RoutingInv, Typed, DomainTyped, RouteTyped, Kept, SetupCreate, Api, SettingUp
<1>2. /\ DomainTyped' /\ Tidy' /\ Apart' /\ ModesHold' /\ \A p \in Caller : Creates(p)'
      /\ \A b \in Address : Leaving(b)' <=> Leaving(b)
  BY <1>1, SetupWorks
<1>3. /\ made' \in Nat /\ rules \subseteq rules' /\ rules' \subseteq Rule
      /\ \A x \in rules' : x.id # 0 /\ x.id <= made'
      /\ \A x, y \in rules' : x.id = y.id => x = y
      /\ \A n \in Nat : \A b : Denotes(n, b) => /\ n <= made'
                                                /\ \A x \in rules' : x.id = n => x.addr = b
      /\ \A x \in rules' : x.id = made' => x.addr = a
      /\ \E x \in rules' : x.addr = a /\ x.zone = "own"
  BY <1>1, NewRuleNames
<1>4. PICK plan0 \in Plan : plan0 = setup.plan
  BY <1>1 DEF SetupRun
<1>5. plan0.adopt \in Names /\ plan0.create \subseteq Address
  BY DEF Plan
<1>6. PICK adopt \in Names : adopt = [b \in DOMAIN plan0.adopt \cup {a} |->
                                         IF b = a THEN made' ELSE plan0.adopt[b]]
  <2>1. PICK S \in SUBSET Address : S = DOMAIN plan0.adopt \cup {a}
    BY <1>5, NamesFacts
  <2>2. \A b \in S : (IF b = a THEN made' ELSE plan0.adopt[b]) \in Nat
    BY <1>3, <1>5, <2>1, NamesFacts
  <2>3. [b \in S |-> IF b = a THEN made' ELSE plan0.adopt[b]] \in [S -> Nat]
    BY <2>2
  <2>4. QED
    BY <2>1, <2>3, NamesFacts
<1>7. PICK plan \in Plan : plan = [plan0 EXCEPT !.create = plan0.create \ {a}, !.adopt = adopt]
  BY <1>5 DEF Plan
<1>8. plan.create = plan0.create \ {a} /\ plan.adopt = adopt /\ plan.remove = plan0.remove
  BY <1>7 DEF Plan
<1>9. setup' = [setup EXCEPT !.plan = plan]
  BY <1>1, <1>4, <1>6, <1>7 DEF SetupCreate, SetupRun, Plan
<1>10. /\ setup' \in SetupRun /\ setup'.step = "create" /\ setup'.rows = setup.rows
       /\ setup'.plan = plan
  BY <1>1, <1>9 DEF SetupRun
<1>11. RouteTyped'
  BY <1>1, <1>3, <1>10 DEF RouteTyped
<1>12. RulesAreNamed'
  <2>1. \A b \in Address : /\ inboxes[b].rule <= made'
                           /\ \A x \in rules' : x.id = inboxes[b].rule => x.addr = b
    BY <1>1, <1>3 DEF RulesAreNamed, InboxRow
  <2>2. \A p \in Caller : /\ calls[p].rule <= made'
                          /\ \A x \in rules' : x.id = calls[p].rule => x.addr = calls[p].addr
    BY <1>1, <1>3 DEF RulesAreNamed, Call
  <2>3. ASSUME NEW b \in DOMAIN adopt
        PROVE  adopt[b] <= made' /\ \A x \in rules' : x.id = adopt[b] => x.addr = b
    <3>1. CASE b = a
      BY <1>3, <1>6, <3>1
    <3>2. CASE b # a
      <4>1. /\ b \in DOMAIN plan0.adopt /\ adopt[b] = plan0.adopt[b]
            /\ plan0.adopt[b] \in Nat /\ Denotes(plan0.adopt[b], b)
        BY <1>1, <1>4, <1>5, <1>6, <3>2, NamesFacts DEF RulesAreNamed
      <4>2. QED
        BY <1>3, <4>1
    <3>3. QED
      BY <3>1, <3>2
  <2>4. QED
    BY <1>1, <1>3, <1>8, <1>10, <2>1, <2>2, <2>3 DEF RulesAreNamed, Denotes
<1>13. \A b \in Address : Routed(b) => Routed(b)'
  BY <1>3 DEF Routed
<1>14. a \in Own => Routed(a)'
  BY <1>3 DEF Routed, ZoneOf
<1>15. SetupHolds'
  <2>1. \A b \in Address : inboxes[b].row => b \in DOMAIN setup.rows \/ b \in past.broken
    BY <1>1 DEF SetupHolds
  <2>2. \A x \in plan.remove : x.addr \notin DOMAIN setup.rows
    BY <1>1, <1>4, <1>8 DEF SetupHolds
  <2>3. \A b \in Own : inboxes[b].row =>
          Routed(b)' \/ b \in plan.create \/ b \in past.broken \/ Leaving(b)'
    <3>1. \A b \in Own : inboxes[b].row =>
            Routed(b) \/ b \in plan0.create \/ b \in past.broken \/ Leaving(b)
      BY <1>1, <1>4 DEF SetupHolds
    <3>2. QED
      BY <1>2, <1>8, <1>13, <1>14, <3>1 DEF Address
  <2>4. QED
    BY <1>1, <1>10, <2>1, <2>2, <2>3 DEF SetupHolds
<1>16. Reached'
  BY <1>1, <1>2, <1>13 DEF Reached
<1>17. QED
  BY <1>2, <1>11, <1>12, <1>15, <1>16 DEF RoutingInv, Typed, Kept

\* It writes the numbers into the rows.
LEMMA SetupAdopts ==
  ASSUME RoutingInv, SetupAdopt PROVE RoutingInv'
<1> DEFINE adopt == setup.plan.adopt
<1>1. /\ Typed /\ DomainTyped /\ RouteTyped /\ Kept /\ setup \in SetupRun /\ past \in Past
      /\ inboxes \in [Address -> InboxRow] /\ adopt \in Names
      /\ RulesAreNamed /\ Reached /\ SetupHolds /\ SettingUp /\ setup.step = "create"
      /\ setup.plan.create = {} /\ setup' = [setup EXCEPT !.step = "remove"]
      /\ domain' = domain /\ zone' = zone /\ past' = past /\ calls' = calls
      /\ rules' = rules /\ made' = made /\ mode' = mode /\ catchAll' = catchAll
  BY DEF RoutingInv, Typed, DomainTyped, RouteTyped, Kept, SetupAdopt, SetupGoes, SettingUp,
         SetupRun, Plan
<1>2. ASSUME NEW a \in Address
      PROVE  /\ inboxes'[a] \in InboxRow /\ inboxes'[a].row = inboxes[a].row
             /\ \/ inboxes'[a] = inboxes[a]
                \/ a \in DOMAIN adopt /\ inboxes'[a].rule = adopt[a]
  <2>1. inboxes'[a] = IF a \in {b \in DOMAIN adopt : adopt[b] # setup.rows[b]} /\ inboxes[a].row
                      THEN [inboxes[a] EXCEPT !.rule = adopt[a]] ELSE inboxes[a]
    BY DEF SetupAdopt
  <2>2. inboxes[a] \in InboxRow /\ (a \in DOMAIN adopt => adopt[a] \in Nat)
    BY <1>1, NamesFacts
  <2>3. QED
    BY <2>1, <2>2 DEF InboxRow
<1>3. inboxes' \in [Address -> InboxRow]
  <2>1. inboxes' = [a \in Address |-> inboxes'[a]]
    BY DEF SetupAdopt
  <2>2. QED
    BY <1>2, <2>1
<1>4. /\ DomainTyped' /\ Tidy' /\ Apart' /\ ModesHold' /\ \A p \in Caller : Creates(p)'
      /\ \A a \in Address : Leaving(a)' <=> Leaving(a)
  BY <1>1, <1>2, <1>3, SetupWorks
<1>5. /\ setup' \in SetupRun /\ setup'.step = "remove" /\ setup'.rows = setup.rows
      /\ setup'.plan = setup.plan
  BY <1>1 DEF SetupRun
<1>6. RouteTyped'
  BY <1>1, <1>5 DEF RouteTyped
<1>7. RulesAreNamed'
  <2>1. \A a \in Address : Denotes(inboxes'[a].rule, a)
    BY <1>1, <1>2 DEF RulesAreNamed
  <2>2. QED
    BY <1>1, <1>5, <2>1 DEF RulesAreNamed, Denotes
<1>8. SetupHolds'
  BY <1>1, <1>2, <1>4, <1>5 DEF SetupHolds, Routed, Address
<1>9. Reached'
  BY <1>1, <1>2, <1>4 DEF Reached, Routed
<1>10. QED
  BY <1>4, <1>6, <1>7, <1>8, <1>9 DEF RoutingInv, Typed, Kept

\* It removes a rule of an address that had no row.
LEMMA SetupRemoves ==
  ASSUME RoutingInv, NEW x \in rules, SetupRemove(x) PROVE RoutingInv'
<1>1. /\ Typed /\ DomainTyped /\ RouteTyped /\ Kept /\ setup \in SetupRun /\ past \in Past
      /\ inboxes \in [Address -> InboxRow] /\ rules \subseteq Rule
      /\ RulesAreNamed /\ Reached /\ SetupHolds /\ SettingUp /\ setup.step = "remove"
      /\ x \in setup.plan.remove /\ rules' = rules \ {x}
      /\ domain' = domain /\ zone' = zone /\ inboxes' = inboxes /\ past' = past /\ calls' = calls
      /\ made' = made /\ mode' = mode /\ catchAll' = catchAll
  BY DEF RoutingInv, Typed, DomainTyped, RouteTyped, Kept, SetupRemove, Api, SettingUp
<1>2. /\ DomainTyped' /\ Tidy' /\ Apart' /\ ModesHold' /\ \A p \in Caller : Creates(p)'
      /\ \A a \in Address : Leaving(a)' <=> Leaving(a)
  BY <1>1, SetupWorks
<1>3. PICK plan0 \in Plan : plan0 = setup.plan
  BY <1>1 DEF SetupRun
<1>4. PICK plan \in Plan : plan = [plan0 EXCEPT !.remove = plan0.remove \ {x}]
  BY DEF Plan
<1>5. plan.create = plan0.create /\ plan.adopt = plan0.adopt /\ plan.remove = plan0.remove \ {x}
  BY <1>4 DEF Plan
<1>6. setup' = [setup EXCEPT !.plan = plan]
  BY <1>1, <1>3, <1>4 DEF SetupRemove, SetupRun
<1>7. /\ setup' \in SetupRun /\ setup'.step = "remove" /\ setup'.rows = setup.rows
      /\ setup'.plan = plan
  BY <1>1, <1>6 DEF SetupRun
<1>8. RouteTyped'
  BY <1>1, <1>7 DEF RouteTyped
<1>9. RulesAreNamed'
  BY <1>1, <1>3, <1>5, <1>7 DEF RulesAreNamed, Denotes
<1>10. ASSUME NEW a \in Address, inboxes[a].row, Routed(a) PROVE Routed(a)' \/ a \in past.broken
  <2>1. x.addr \notin DOMAIN setup.rows
    BY <1>1 DEF SetupHolds
  <2>2. a \in DOMAIN setup.rows \/ a \in past.broken
    BY <1>1, <1>10 DEF SetupHolds
  <2>3. QED
    BY <1>1, <1>10, <2>1, <2>2 DEF Routed
<1>11. SetupHolds'
  <2>1. \A a \in Own : inboxes[a].row => Routed(a)' \/ a \in past.broken \/ Leaving(a)
    BY <1>1, <1>10 DEF SetupHolds, Address
  <2>2. QED
    BY <1>1, <1>2, <1>3, <1>5, <1>7, <2>1 DEF SetupHolds, Address
<1>12. Reached'
  BY <1>1, <1>2, <1>10 DEF Reached
<1>13. QED
  BY <1>2, <1>8, <1>9, <1>11, <1>12 DEF RoutingInv, Typed, Kept

\* It ends, and the catch-all with it: or it is cut short.
LEMMA SetupEnds ==
  ASSUME RoutingInv, SetupSwitch \/ SetupCut PROVE RoutingInv'
<1>1. /\ Typed /\ DomainTyped /\ RouteTyped /\ Kept /\ setup \in SetupRun /\ past \in Past
      /\ inboxes \in [Address -> InboxRow]
      /\ RulesAreNamed /\ Reached /\ SetupHolds /\ SettingUp
      /\ setup' = [NoSetup EXCEPT !.runs = setup.runs]
      /\ domain' = domain /\ zone' = zone /\ inboxes' = inboxes /\ calls' = calls
      /\ rules' = rules /\ made' = made /\ mode' = mode
  BY DEF RoutingInv, Typed, DomainTyped, RouteTyped, Kept, SetupSwitch, SetupCut, Api, SettingUp
<1>2. /\ past' \in Past /\ past'.before = past.before /\ past'.rough = past.rough
      /\ past'.met = past.met /\ past'.broken = past.broken
  <2>1. CASE SetupSwitch
    BY <1>1, <2>1 DEF SetupSwitch, Api
  <2>2. CASE SetupCut
    BY <1>1, <2>2 DEF SetupCut, Past
  <2>3. QED
    BY <2>1, <2>2
<1>3. /\ DomainTyped' /\ Tidy' /\ Apart' /\ ModesHold' /\ \A p \in Caller : Creates(p)'
      /\ \A a \in Address : Leaving(a)' <=> Leaving(a)
  BY <1>1, <1>2, SetupWorks
<1>4. /\ setup' \in SetupRun /\ setup'.step = "idle" /\ DOMAIN setup'.plan.adopt = {}
  <2>1. PICK runs \in Nat : runs = setup.runs
    BY <1>1 DEF SetupRun
  <2>2. setup' = [NoSetup EXCEPT !.runs = runs]
    BY <1>1, <2>1
  <2>3. NoPlan \in Plan /\ DOMAIN NoPlan.adopt = {} /\ [a \in {} |-> 0] \in Names
    <3>1. [a \in {} |-> 0] \in [{} -> Nat] /\ {} \in SUBSET Address
      OBVIOUS
    <3>2. [a \in {} |-> 0] \in Names
      BY <3>1 DEF Names
    <3>3. QED
      BY <3>2 DEF NoPlan, Plan
  <2>4. QED
    BY <2>2, <2>3 DEF NoSetup, SetupRun
<1>5. RouteTyped'
  <2>1. catchAll' \in BOOLEAN
    BY <1>1 DEF SetupSwitch, SetupCut, RouteTyped
  <2>2. QED
    BY <1>1, <1>4, <2>1 DEF RouteTyped
<1>6. RulesAreNamed'
  BY <1>1, <1>4 DEF RulesAreNamed, Denotes
<1>7. SetupHolds'
  BY <1>4 DEF SetupHolds
<1>8. Reached'
  <2>1. CASE catchAll' = catchAll
    BY <1>1, <1>2, <1>3, <2>1 DEF Reached, Routed
  <2>2. CASE catchAll' # catchAll
    <3>1. setup.step = "remove"
      BY <2>2 DEF SetupSwitch, SetupCut
    <3>2. \A a \in Own : inboxes[a].row => Routed(a) \/ a \in past.broken \/ Leaving(a)
      BY <1>1, <3>1 DEF SetupHolds
    <3>3. QED
      BY <1>1, <1>2, <1>3, <3>2 DEF Reached, Routed
  <2>3. QED
    BY <2>1, <2>2
<1>9. QED
  BY <1>3, <1>5, <1>6, <1>7, <1>8 DEF RoutingInv, Typed, Kept

LEMMA SetupKeeps ==
  ASSUME RoutingInv, SetupStep PROVE RoutingInv'
BY SetupBegins, SetupReads, SetupPlans, SetupCreates, SetupAdopts, SetupRemoves, SetupEnds
DEF SetupStep

-----------------------------------------------------------------------------
(* The invariant, and what follows from it *)

\* It holds at the start, whatever the zone holds of its owner's.
LEMMA RoutingStarts == Init => RoutingInv
<1> SUFFICES ASSUME Init PROVE RoutingInv
  OBVIOUS
<1>1. /\ calls = [p \in Caller |-> Free] /\ inboxes = [a \in Address |-> NoInbox]
      /\ rules = {} /\ made = 0 /\ mode \in Mode /\ catchAll = (mode = "catch_all")
      /\ setup = NoSetup
  BY DEF Init, DomainInit, RouteInit, Mode
<1>2. /\ \A p \in Caller : calls[p] = Free
      /\ \A a \in Address : inboxes[a] = NoInbox
  BY <1>1
<1>3. /\ domain \in DomainRow /\ zone \in Zone
      /\ domain = NoDomain => ~ zone.sending
      /\ domain # NoDomain => Full(domain)
  <2>1. CASE /\ domain = NoDomain
             /\ zone \in [here : {TRUE}, routing : {FALSE}, sending : {FALSE},
                          dns : [Rec -> {{}, {"theirs"}, {"ours"}}]]
    <3>1. {{}, {"theirs"}, {"ours"}} \subseteq Content
      BY DEF Content
    <3>2. zone \in Zone
      BY <2>1, <3>1 DEF Zone
    <3>3. QED
      BY <2>1, <3>2, FreeFacts
  <2>2. CASE /\ domain = [status |-> "verified", tag |-> TRUE, records |-> Rec]
             /\ zone = [here |-> TRUE, routing |-> TRUE, sending |-> TRUE,
                        dns |-> [r \in Rec |-> {"ours"}]]
    <3>1. [r \in Rec |-> {"ours"}] \in [Rec -> Content]
      BY DEF Content
    <3>2. domain \in DomainRow /\ zone \in Zone /\ Full(domain) /\ domain.status # "none"
      BY <2>2, <3>1 DEF DomainRow, Zone, Full
    <3>3. QED
      BY <3>2, FreeFacts
  <2>3. QED
    BY <2>1, <2>2 DEF Init, DomainInit
<1>4. /\ past \in Past /\ past.broken = {}
      /\ domain = NoDomain => past.before = zone.dns
  <2>1. PICK before \in [Rec -> Content] :
          before = IF domain = NoDomain THEN zone.dns ELSE [r \in Rec |-> {}]
    <3>1. zone.dns \in [Rec -> Content] /\ [r \in Rec |-> {}] \in [Rec -> Content]
      BY <1>3 DEF Zone, Content
    <3>2. QED
      BY <3>1
  <2>2. past = [calls |-> 0, faults |-> 0, rough |-> FALSE, met |-> FALSE, broken |-> {},
                before |-> before]
    BY <2>1 DEF Init, DomainInit
  <2>3. QED
    BY <2>1, <2>2 DEF Past
<1>5. NoSetup \in SetupRun /\ NoSetup.step = "idle" /\ DOMAIN NoSetup.plan.adopt = {}
  <2>1. [a \in {} |-> 0] \in [{} -> Nat] /\ {} \in SUBSET Address
    OBVIOUS
  <2>2. [a \in {} |-> 0] \in Names
    BY <2>1 DEF Names
  <2>3. NoPlan \in Plan /\ DOMAIN NoPlan.adopt = {}
    BY <2>2 DEF NoPlan, Plan
  <2>4. QED
    BY <2>2, <2>3 DEF NoSetup, SetupRun
<1>6. Typed
  <2>1. DomainTyped
    BY <1>1, <1>2, <1>3, <1>4, FreeFacts DEF DomainTyped, OnInbox
  <2>2. RouteTyped
    BY <1>1, <1>5 DEF RouteTyped
  <2>3. QED
    BY <2>1, <2>2 DEF Typed
<1>7. Tidy
  BY <1>2, <1>3, <1>4, FreeFacts DEF Tidy, Knows, Clean, OnDomain
<1>8. Apart
  BY <1>2, FreeFacts DEF Apart, Meet, Address
<1>9. Kept
  <2>1. RulesAreNamed
    BY <1>1, <1>2, <1>5, FreeFacts DEF RulesAreNamed, Denotes
  <2>2. ModesHold
    BY <1>1, <1>2, <1>5, FreeFacts DEF ModesHold, OnInbox, SettingUp
  <2>3. \A p \in Caller : Creates(p)
    BY <1>2, FreeFacts DEF Creates
  <2>4. SetupHolds /\ Reached
    BY <1>1, <1>2, <1>5, FreeFacts DEF SetupHolds, Reached
  <2>5. QED
    BY <2>1, <2>2, <2>3, <2>4 DEF Kept
<1>10. QED
  BY <1>6, <1>7, <1>8, <1>9 DEF RoutingInv

\* And every step keeps it.
LEMMA RoutingGoesOn == RoutingInv /\ [Next]_vars => RoutingInv'
<1> SUFFICES ASSUME RoutingInv, [Next]_vars PROVE RoutingInv'
  OBVIOUS
<1>1. CASE \E p \in Caller : DomainStep(p) /\ UNCHANGED routeVars
  BY <1>1, DomainKeeps
<1>2. CASE ZoneWithdrawn /\ UNCHANGED routeVars
  BY <1>2, DomainKeeps
<1>3. CASE \E p \in Caller : RouteStep(p)
  BY <1>3, InboxKeeps
<1>4. CASE SetupStep
  BY <1>4, SetupKeeps
<1>5. CASE UNCHANGED vars
  <2>1. /\ domain' = domain /\ zone' = zone /\ inboxes' = inboxes /\ calls' = calls /\ past' = past
        /\ UNCHANGED routeVars
    BY <1>5 DEF vars, domainVars
  <2>2. Typed /\ Tidy /\ Apart /\ Kept
    BY DEF RoutingInv
  <2>3. Typed'
    BY <2>1, <2>2 DEF Typed, DomainTyped, RouteTyped, routeVars
  <2>4. TidyQuiet /\ ApartQuiet /\ RouteQuiet
    BY <2>1 DEF TidyQuiet, ApartQuiet, RouteQuiet
  <2>5. QED
    BY <2>2, <2>3, <2>4, TidyStays, ApartStays, KeptStays DEF RoutingInv
<1>6. QED
  BY <1>1, <1>2, <1>3, <1>4, <1>5 DEF Next

THEOREM RoutingInvariantHolds == Spec => []RoutingInv
BY RoutingStarts, RoutingGoesOn, PTL DEF Spec

\* Nothing of a domain stays behind in its zone once its row is gone, but what
\* was there before: unless a first attempt at it failed half-way or was cut
\* short, or two calls about it overlapped.
THEOREM LeftoversHaveAFault == Spec => []LeftoversNeedFault
<1>1. RoutingInv => LeftoversNeedFault
  BY DEF RoutingInv, Tidy, Clean, LeftoversNeedFault
<1>2. QED
  BY <1>1, RoutingInvariantHolds, PTL

\* An inbox is on a domain that exists, unless its creation met the deletion.
THEOREM StrandedInboxesMetADeletion == Spec => []StrandedNeedsOverlap
<1>1. RoutingInv => StrandedNeedsOverlap
  BY DEF RoutingInv, Apart, StrandedNeedsOverlap
<1>2. QED
  BY <1>1, RoutingInvariantHolds, PTL

\* An inbox has its route at every moment, the setup at work or not, unless it
\* is being deleted, a call on it was cut short, or it came while the setup ran.
THEOREM InboxesAreReachable == Spec => []UnreachableNeedsFault
<1>1. RoutingInv => UnreachableNeedsFault
  BY DEF RoutingInv, Kept, Reached, Leaving, UnreachableNeedsFault
<1>2. QED
  BY <1>1, RoutingInvariantHolds, PTL

-----------------------------------------------------------------------------
(* A setup that no call on an inbox overlapped *)

\* An own address has a rule that this number names.
Serves(a, n) == \E x \in rules : x.addr = a /\ x.zone = "own" /\ x.id = n

\* It has every inbox, and until it writes the rules of their rows; a rule on the own zone belongs to one of them or is to
\* go; an own inbox has the rule that the plan gives it, and then its row.
Alone ==
    SettingUp /\ ~ setup.crossed =>
        /\ \A p \in Caller : ~ OnInbox(calls[p])
        /\ setup.step \in {"plan", "create", "remove"} =>
             \A a \in Address : inboxes[a].row <=> a \in DOMAIN setup.rows
        /\ setup.step \in {"plan", "create"} =>
             \A a \in DOMAIN setup.rows : inboxes[a].rule = setup.rows[a]
        /\ setup.step \in {"create", "remove"} =>
             /\ setup.plan.create \subseteq DOMAIN setup.rows
             /\ \A x \in rules : x.zone = "own" =>
                  x.addr \in DOMAIN setup.rows \/ x \in setup.plan.remove
             /\ \A a \in DOMAIN setup.rows :
                  \/ a \in setup.plan.create
                  \/ a \in DOMAIN setup.plan.adopt /\ Serves(a, setup.plan.adopt[a])
        /\ setup.step = "remove" =>
             \A a \in Own : inboxes[a].row => Serves(a, inboxes[a].rule)

\* Where no rule, row or plan changes, and no call on an inbox begins.
LEMMA AloneStays ==
  ASSUME Alone, rules' = rules, setup' = setup, inboxes' = inboxes,
         \A p \in Caller : calls'[p] = calls[p] \/ ~ OnInbox(calls'[p])
  PROVE  Alone'
<1>1. \A a, n : Serves(a, n)' <=> Serves(a, n)
  BY DEF Serves
<1>2. \A p \in Caller : OnInbox(calls'[p]) => OnInbox(calls[p])
  OBVIOUS
<1>3. QED
  BY <1>1, <1>2 DEF Alone, SettingUp, Address

LEMMA AloneInPlan ==
  ASSUME RoutingInv, Alone, SetupPlan PROVE Alone'
<1>1. /\ setup \in SetupRun /\ setup.rows \in Names /\ setup.step = "plan" /\ SettingUp
      /\ inboxes' = inboxes /\ calls' = calls /\ rules' = rules
  BY DEF RoutingInv, Typed, RouteTyped, SetupPlan, SetupRun, SettingUp, Api
<1>2. PICK found : found = {x \in rules : x.zone = "own"}
  OBVIOUS
<1>3. PICK adopt \in Adopted(setup.rows, found) :
        setup' = [setup EXCEPT !.step = "create",
                    !.plan = [create |-> DOMAIN setup.rows \ DOMAIN adopt, adopt |-> adopt,
                              remove |-> {x \in found : x.addr \notin DOMAIN setup.rows}]]
  BY <1>2 DEF SetupPlan
<1>4. /\ setup'.step = "create" /\ setup'.rows = setup.rows /\ setup'.crossed = setup.crossed
      /\ setup'.plan.create = DOMAIN setup.rows \ DOMAIN adopt /\ setup'.plan.adopt = adopt
      /\ setup'.plan.remove = {x \in found : x.addr \notin DOMAIN setup.rows}
  BY <1>1, <1>3 DEF SetupRun
<1>5. \A a \in DOMAIN adopt : \E x \in found : x.addr = a /\ x.id = adopt[a]
  BY DEF Adopted
<1>6. \A a \in DOMAIN adopt : Serves(a, adopt[a])'
  BY <1>1, <1>2, <1>5 DEF Serves
<1>7. \A x \in rules' : x.zone = "own" =>
        x.addr \in DOMAIN setup.rows \/ x \in setup'.plan.remove
  BY <1>1, <1>2, <1>4
<1>8. \A a \in DOMAIN setup.rows : a \in setup'.plan.create \/ a \in DOMAIN adopt
  BY <1>4
<1>9. QED
  BY <1>1, <1>4, <1>6, <1>7, <1>8 DEF Alone, SettingUp, Serves, Address

LEMMA AloneInCreate ==
  ASSUME RoutingInv, Alone, NEW a \in Address, SetupCreate(a) PROVE Alone'
<1>1. /\ RouteTyped /\ RulesAreNamed /\ NewRule(a, "own")
      /\ setup \in SetupRun /\ setup.plan \in Plan /\ setup.step = "create" /\ SettingUp
      /\ a \in setup.plan.create /\ inboxes' = inboxes /\ calls' = calls
  BY DEF RoutingInv, Typed, RouteTyped, Kept, SetupCreate, SetupRun, SettingUp, Api
<1>2. /\ rules \subseteq rules' /\ \A x \in rules' : x \in rules \/ x.addr = a
      /\ \E x \in rules' : x.addr = a /\ x.zone = "own" /\ x.id = made'
  <2>1. PICK n : n = [id |-> made + 1, addr |-> a, zone |-> "own"]
    OBVIOUS
  <2>2. rules' = rules \cup {n} /\ made' = made + 1
    BY <1>1, <2>1 DEF NewRule
  <2>3. n.id = made' /\ n.addr = a /\ n.zone = "own"
    BY <2>1, <2>2
  <2>4. QED
    BY <2>2, <2>3
<1>3. PICK create, adopt : /\ create = setup.plan.create \ {a}
                           /\ adopt = [b \in DOMAIN setup.plan.adopt \cup {a} |->
                                         IF b = a THEN made' ELSE setup.plan.adopt[b]]
  OBVIOUS
<1>4. setup' = [setup EXCEPT !.plan = [setup.plan EXCEPT !.create = create, !.adopt = adopt]]
  BY <1>1, <1>3 DEF SetupCreate, SetupRun, Plan
<1>5. /\ setup'.step = "create" /\ setup'.rows = setup.rows /\ setup'.crossed = setup.crossed
      /\ setup'.plan.create = create /\ setup'.plan.adopt = adopt
      /\ setup'.plan.remove = setup.plan.remove
  BY <1>1, <1>4 DEF SetupRun, Plan
<1>6. \A b, n : Serves(b, n) => Serves(b, n)'
  BY <1>2 DEF Serves
<1>7. a \in DOMAIN adopt /\ Serves(a, adopt[a])'
  BY <1>2, <1>3 DEF Serves
<1>8. \A b \in DOMAIN setup.plan.adopt : b \in DOMAIN adopt /\ (b # a => adopt[b] = setup.plan.adopt[b])
  BY <1>3
<1>9. ASSUME ~ setup'.crossed
      PROVE  /\ \A p \in Caller : ~ OnInbox(calls'[p])
             /\ \A b \in Address : inboxes'[b].row <=> b \in DOMAIN setup.rows
             /\ \A b \in DOMAIN setup.rows : inboxes'[b].rule = setup.rows[b]
             /\ create \subseteq DOMAIN setup.rows
             /\ \A x \in rules' : x.zone = "own" =>
                  x.addr \in DOMAIN setup.rows \/ x \in setup.plan.remove
             /\ \A b \in DOMAIN setup.rows :
                  b \in create \/ (b \in DOMAIN adopt /\ Serves(b, adopt[b])')
  <2>1. /\ \A p \in Caller : ~ OnInbox(calls[p])
        /\ \A b \in Address : inboxes[b].row <=> b \in DOMAIN setup.rows
        /\ \A b \in DOMAIN setup.rows : inboxes[b].rule = setup.rows[b]
        /\ setup.plan.create \subseteq DOMAIN setup.rows
        /\ \A x \in rules : x.zone = "own" =>
             x.addr \in DOMAIN setup.rows \/ x \in setup.plan.remove
        /\ \A b \in DOMAIN setup.rows :
             \/ b \in setup.plan.create
             \/ b \in DOMAIN setup.plan.adopt /\ Serves(b, setup.plan.adopt[b])
    BY <1>1, <1>5, <1>9 DEF Alone
  <2>2. a \in DOMAIN setup.rows
    BY <1>1, <2>1
  <2>3. \A x \in rules' : x \in rules \/ x.addr = a
    BY <1>2
  <2>4. \A b \in DOMAIN setup.rows :
          b \in create \/ (b \in DOMAIN adopt /\ Serves(b, adopt[b])')
    BY <1>3, <1>6, <1>7, <1>8, <2>1
  <2>5. QED
    BY <1>1, <1>3, <2>1, <2>2, <2>3, <2>4
<1>10. QED
  BY <1>1, <1>5, <1>9 DEF Alone, Serves

LEMMA AloneInAdopt ==
  ASSUME RoutingInv, Alone, SetupAdopt PROVE Alone'
<1>1. /\ setup \in SetupRun /\ inboxes \in [Address -> InboxRow] /\ setup.plan.adopt \in Names
      /\ SettingUp /\ setup.step = "create" /\ setup.plan.create = {}
      /\ setup' = [setup EXCEPT !.step = "remove"] /\ calls' = calls /\ rules' = rules
  BY DEF RoutingInv, Typed, DomainTyped, RouteTyped, SetupAdopt, SetupGoes, SettingUp, SetupRun, Plan
<1>2. /\ setup'.step = "remove" /\ setup'.rows = setup.rows /\ setup'.plan = setup.plan
      /\ setup'.crossed = setup.crossed
  BY <1>1 DEF SetupRun
<1>3. ASSUME NEW a \in Address
      PROVE  /\ inboxes'[a].row = inboxes[a].row
             /\ inboxes[a].row /\ a \in DOMAIN setup.plan.adopt
                  => \/ inboxes'[a].rule = setup.plan.adopt[a]
                     \/ inboxes'[a] = inboxes[a] /\ setup.plan.adopt[a] = setup.rows[a]
  <2>1. inboxes'[a] = IF /\ a \in {b \in DOMAIN setup.plan.adopt :
                                     setup.plan.adopt[b] # setup.rows[b]}
                         /\ inboxes[a].row
                      THEN [inboxes[a] EXCEPT !.rule = setup.plan.adopt[a]] ELSE inboxes[a]
    BY DEF SetupAdopt
  <2>2. inboxes[a] \in InboxRow
    BY <1>1
  <2>3. QED
    BY <2>1, <2>2 DEF InboxRow
<1>4. \A b, n : Serves(b, n) <=> Serves(b, n)'
  BY <1>1 DEF Serves
<1>5. Own \subseteq Address
  BY DEF Address
<1>6. ASSUME ~ setup'.crossed, NEW a \in Own, inboxes'[a].row PROVE Serves(a, inboxes[a].rule)'
  <2>1. /\ a \in DOMAIN setup.plan.adopt /\ Serves(a, setup.plan.adopt[a]) /\ inboxes[a].row
        /\ inboxes[a].rule = setup.rows[a]
    BY <1>1, <1>2, <1>3, <1>5, <1>6 DEF Alone
  <2>2. inboxes'[a].rule = setup.plan.adopt[a]
    BY <1>3, <1>5, <2>1
  <2>3. QED
    BY <1>1, <2>1, <2>2 DEF Serves
<1>7. QED
  BY <1>1, <1>2, <1>3, <1>4, <1>6 DEF Alone, Serves

LEMMA AloneInRemove ==
  ASSUME RoutingInv, Alone, NEW x \in rules, SetupRemove(x) PROVE Alone'
<1>1. /\ setup \in SetupRun /\ setup.plan \in Plan /\ SettingUp /\ setup.step = "remove"
      /\ x \in setup.plan.remove /\ rules' = rules \ {x} /\ SetupHolds
      /\ inboxes \in [Address -> InboxRow] /\ inboxes' = inboxes /\ calls' = calls
  BY DEF RoutingInv, Typed, DomainTyped, RouteTyped, Kept, SetupRemove, Api, SettingUp, SetupRun
<1>2. PICK remove : remove = setup.plan.remove \ {x}
  OBVIOUS
<1>3. setup' = [setup EXCEPT !.plan = [setup.plan EXCEPT !.remove = remove]]
  BY <1>1, <1>2 DEF SetupRemove, SetupRun, Plan
<1>4. /\ setup'.step = "remove" /\ setup'.rows = setup.rows /\ setup'.crossed = setup.crossed
      /\ setup'.plan.create = setup.plan.create /\ setup'.plan.adopt = setup.plan.adopt
      /\ setup'.plan.remove = remove
  BY <1>1, <1>3 DEF SetupRun, Plan
<1>5. x.addr \notin DOMAIN setup.rows
  BY <1>1 DEF SetupHolds
<1>6. \A a \in DOMAIN setup.rows : \A n : Serves(a, n) => Serves(a, n)'
  BY <1>1, <1>5 DEF Serves
<1>7. Own \subseteq Address
  BY DEF Address
<1>8. ASSUME ~ setup'.crossed
      PROVE  /\ \A p \in Caller : ~ OnInbox(calls'[p])
             /\ \A a \in Address : inboxes'[a].row <=> a \in DOMAIN setup.rows
             /\ setup.plan.create \subseteq DOMAIN setup.rows
             /\ \A y \in rules' : y.zone = "own" => y.addr \in DOMAIN setup.rows \/ y \in remove
             /\ \A a \in DOMAIN setup.rows :
                  \/ a \in setup.plan.create
                  \/ a \in DOMAIN setup.plan.adopt /\ Serves(a, setup.plan.adopt[a])'
             /\ \A a \in Own : inboxes'[a].row => Serves(a, inboxes[a].rule)'
  <2>1. /\ \A p \in Caller : ~ OnInbox(calls[p])
        /\ \A a \in Address : inboxes[a].row <=> a \in DOMAIN setup.rows
        /\ setup.plan.create \subseteq DOMAIN setup.rows
        /\ \A y \in rules : y.zone = "own" =>
             y.addr \in DOMAIN setup.rows \/ y \in setup.plan.remove
        /\ \A a \in DOMAIN setup.rows :
             \/ a \in setup.plan.create
             \/ a \in DOMAIN setup.plan.adopt /\ Serves(a, setup.plan.adopt[a])
        /\ \A a \in Own : inboxes[a].row => Serves(a, inboxes[a].rule)
    BY <1>1, <1>4, <1>8 DEF Alone
  <2>2. \A y \in rules' : y.zone = "own" => y.addr \in DOMAIN setup.rows \/ y \in remove
    BY <1>1, <1>2, <2>1
  <2>3. \A a \in Own : inboxes[a].row => Serves(a, inboxes[a].rule)'
    BY <1>1, <1>6, <1>7, <2>1 DEF Serves
  <2>4. \A a \in DOMAIN setup.rows :
          \/ a \in setup.plan.create
          \/ a \in DOMAIN setup.plan.adopt /\ Serves(a, setup.plan.adopt[a])'
    BY <1>4, <1>6, <2>1 DEF Serves
  <2>5. QED
    BY <1>1, <2>1, <2>2, <2>3, <2>4
<1>9. QED
  BY <1>1, <1>4, <1>8 DEF Alone, Serves

LEMMA AloneGoesOn == RoutingInv /\ Alone /\ [Next]_vars => Alone'
<1> SUFFICES ASSUME RoutingInv, Alone, [Next]_vars PROVE Alone'
  OBVIOUS
<1>1. CASE (ZoneWithdrawn \/ \E p \in Caller : DomainStep(p)) /\ UNCHANGED routeVars
  <2>1. RouteQuiet
    BY <1>1, DomainQuiet
  <2>2. QED
    BY <2>1, AloneStays DEF RouteQuiet, routeVars
<1>2. ASSUME NEW p \in Caller, RouteStep(p) PROVE Alone'
  <2>1. CASE \E a \in Address : CreateStart(p, a) \/ DeleteStart(p, a)
    <3>1. setup' = [setup EXCEPT !.crossed = SettingUp] /\ setup \in SetupRun
      BY <2>1 DEF RoutingInv, Typed, RouteTyped, CreateStart, DeleteStart, BeginsInbox
    <3>2. setup'.step = setup.step /\ setup'.crossed = SettingUp
      BY <3>1 DEF SetupRun
    <3>3. QED
      BY <3>2 DEF Alone, SettingUp
  <2>2. CASE CreateRule(p) \/ InsertInbox(p) \/ DeleteRule(p) \/ DeleteInbox(p) \/ InboxCut(p)
    <3>1. OnInbox(calls[p]) /\ setup' = setup
      BY <2>2 DEF CreateRule, InsertInbox, DeleteRule, DeleteInbox, InboxCut, InStep, OnInbox,
                  routeVars
    <3>2. QED
      BY <3>1 DEF Alone, SettingUp
  <2>3. QED
    BY <1>2, <2>1, <2>2 DEF RouteStep
<1>3. CASE SetupMode
  <2>1. calls \in [Caller -> Call] /\ setup \in SetupRun
    BY DEF RoutingInv, Typed, DomainTyped, RouteTyped
  <2>2. /\ setup'.step = "inboxes"
        /\ setup'.crossed = \E p \in Caller : OnInbox(calls[p])
    BY <1>3 DEF SetupMode, NoSetup
  <2>3. \A p \in Caller : calls'[p].op = calls[p].op
    <3>1. calls' = [p \in Caller |-> [calls[p] EXCEPT !.crossed = OnInbox(calls[p])]]
      BY <1>3 DEF SetupMode
    <3>2. QED
      BY <2>1, <3>1 DEF Call
  <2>4. QED
    BY <2>2, <2>3 DEF Alone, OnInbox
<1>4. CASE SetupInboxes
  <2>1. /\ setup \in SetupRun /\ SettingUp /\ inboxes' = inboxes /\ calls' = calls
    BY <1>4 DEF RoutingInv, Typed, RouteTyped, SetupInboxes, SettingUp, Api
  <2>2. /\ setup'.step = "plan" /\ setup'.crossed = setup.crossed
        /\ DOMAIN setup'.rows = {a \in Address : inboxes[a].row}
        /\ \A a \in DOMAIN setup'.rows : setup'.rows[a] = inboxes[a].rule
    BY <1>4, <2>1 DEF SetupInboxes, SetupRun
  <2>3. QED
    BY <2>1, <2>2 DEF Alone, Address
<1>5. CASE SetupPlan
  BY <1>5, AloneInPlan
<1>6. CASE SetupAdopt
  BY <1>6, AloneInAdopt
<1>7. CASE SetupSwitch \/ SetupCut
  BY <1>7 DEF Alone, SetupSwitch, SetupCut, SettingUp, NoSetup
<1>8. ASSUME NEW a \in Address, SetupCreate(a) PROVE Alone'
  BY <1>8, AloneInCreate
<1>9. ASSUME NEW x \in rules, SetupRemove(x) PROVE Alone'
  BY <1>9, AloneInRemove
<1>10. CASE UNCHANGED vars
  BY <1>10, AloneStays DEF vars, domainVars, routeVars
<1>11. QED
  BY <1>1, <1>2, <1>3, <1>4, <1>5, <1>6, <1>7, <1>8, <1>9, <1>10 DEF Next, SetupStep

\* A setup that no call on an inbox overlapped leaves no rule without an inbox
\* and no own inbox without a rule that its row knows, whatever went before.
THEOREM SetupsReconcile == Spec => SetupReconciles
<1>1. Init => Alone
  BY DEF Init, RouteInit, NoSetup, Alone, SettingUp
<1>2. RoutingInv /\ Alone /\ [Next]_vars =>
        [SetupSwitch /\ ~setup.crossed =>
          /\ \A x \in rules : x.zone = "own" => inboxes[x.addr].row
          /\ \A a \in Own : inboxes[a].row =>
                \E x \in rules : x.addr = a /\ x.zone = "own" /\ x.id = inboxes[a].rule]_vars
  <2> SUFFICES ASSUME RoutingInv, Alone, SetupSwitch, ~ setup.crossed
               PROVE  /\ \A x \in rules : x.zone = "own" => inboxes[x.addr].row
                      /\ \A a \in Own : inboxes[a].row =>
                            \E x \in rules : x.addr = a /\ x.zone = "own" /\ x.id = inboxes[a].rule
    OBVIOUS
  <2>1. SettingUp /\ setup.step = "remove" /\ setup.plan.remove = {}
    BY DEF SetupSwitch, SettingUp
  <2>2. rules \subseteq Rule
    BY DEF RoutingInv, Typed, RouteTyped
  <2>3. QED
    BY <2>1, <2>2 DEF Alone, Serves, Rule
<1>3. QED
  BY <1>1, <1>2, RoutingStarts, RoutingGoesOn, AloneGoesOn, PTL DEF Spec, SetupReconciles
=============================================================================
