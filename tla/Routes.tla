------------------------------- MODULE Routes -------------------------------
(***************************************************************************)
(* core/inboxes.ts, core/routing.ts and the routing steps of the setup     *)
(* (scripts/lib/routing.ts, scripts/lib/steps/routing.ts): the inbox rows, *)
(* the Email Routing rules that bring them their mail, and the setup that  *)
(* reconciles the two while the API is in use.  The contents of an inbox   *)
(* are those of Mailbox.                                                   *)
(***************************************************************************)
EXTENDS Domains

CONSTANTS
    Own,          \* the addresses on the deployment's own domain
    InboxLimit,   \* INBOX_LIMIT
    MaxRules,     \* bound: rules ever created
    MaxSetups     \* bound: runs of the setup

ASSUME RouteAssumption == InboxLimit \in Nat /\ MaxRules \in Nat /\ MaxSetups \in Nat

VARIABLES
    rules,      \* the rules that target the Worker: [id, addr, zone]
    made,       \* rules created so far
    mode,       \* ROUTING_MODE of the deployed Worker
    catchAll,   \* the catch-all of the own zone is on
    setup       \* the run of the setup

routeVars == <<rules, made, mode, catchAll, setup>>

Address == Own \cup Custom
ZoneOf(a) == IF a \in Own THEN "own" ELSE "custom"
NoPlan == [create |-> {}, adopt |-> [a \in {} |-> 0], remove |-> {}]
NoSetup == [step |-> "idle", rows |-> [a \in {} |-> 0], plan |-> NoPlan, runs |-> 0, crossed |-> FALSE]

RouteInit ==
    /\ inboxes = [a \in Address |-> NoInbox]
    /\ rules = {} /\ made = 0
    /\ mode \in {"catch_all", "per_inbox"}
    /\ catchAll = (mode = "catch_all")
    /\ setup = NoSetup

OnInbox(r) == r.op \in {"create", "delete"}
SettingUp == setup.step # "idle"

\* A call on inboxes, which keeps the environment it began with.
BeginsInbox(p, r) ==
    /\ Begins(p, [r EXCEPT !.mode = mode, !.crossed = SettingUp])
    /\ setup' = [setup EXCEPT !.crossed = SettingUp]
    /\ UNCHANGED <<rules, made, mode, catchAll>>

\* createRule: the API call answers with the id of the new rule.
NewRule(a, z) ==
    /\ made < MaxRules
    /\ made' = made + 1
    /\ rules' = rules \cup {[id |-> made + 1, addr |-> a, zone |-> z]}

Losing(p) == past' = [past EXCEPT !.broken = @ \cup {calls[p].addr}]
-----------------------------------------------------------------------------
(* createInbox *)

\* resolveInboxDomain, countInboxes and getInbox.
CreateStart(p, a) ==
    /\ a \in Custom => domain.status = "verified"
    /\ Cardinality({b \in Address : inboxes[b].row}) < InboxLimit
    /\ ~inboxes[a].row
    /\ BeginsInbox(p, [Free EXCEPT !.op = "create", !.step = "rule", !.addr = a])

\* Mutant: the mode alone decides.
NeedsRuleByMode(r) == r.mode = "per_inbox"

\* createRoutingRule: a custom domain always has one.
NeedsRule(r) == r.addr \in Custom \/ r.mode = "per_inbox"

CreateRule(p) ==
    LET r == calls[p]
    IN /\ InStep(p, "create", "rule")
       /\ IF ~NeedsRule(r)
          THEN Goes(p, "row") /\ UNCHANGED <<rules, made>>
          ELSE /\ NewRule(r.addr, ZoneOf(r.addr))
               /\ calls' = [calls EXCEPT ![p].step = "row", ![p].rule = made']
       /\ UNCHANGED <<domain, zone, inboxes, past, mode, catchAll, setup>>

\* The address is the key of the row; a request that comes second throws.
InsertInbox(p) ==
    LET r == calls[p]
    IN /\ InStep(p, "create", "row")
       /\ IF inboxes[r.addr].row THEN UNCHANGED <<inboxes, past>>
          ELSE /\ inboxes' = [inboxes EXCEPT ![r.addr] = [row |-> TRUE, rule |-> r.rule]]
               /\ IF r.crossed THEN Losing(p) ELSE UNCHANGED past
       /\ Ends(p)
       /\ UNCHANGED <<domain, zone, routeVars>>
-----------------------------------------------------------------------------
(* deleteInbox *)

DeleteStart(p, a) ==
    /\ inboxes[a].row
    /\ BeginsInbox(p, [Free EXCEPT !.op = "delete", !.step = "rule", !.addr = a,
                                   !.row = IF a \in Custom THEN domain ELSE NoDomain,
                                   !.rule = inboxes[a].rule])

\* Without the row of its domain, an address is taken to be of the own zone.
DeleteRule(p) ==
    LET r == calls[p]
        z == IF r.row = NoDomain THEN "own" ELSE "custom"
    IN /\ InStep(p, "delete", "rule")
       /\ rules' = IF z = "own" /\ r.mode # "per_inbox" THEN rules
                   ELSE {x \in rules : x.id # r.rule \/ x.zone # z}
       /\ Goes(p, "row")
       /\ UNCHANGED <<domain, zone, inboxes, past, made, mode, catchAll, setup>>

DeleteInbox(p) ==
    /\ InStep(p, "delete", "row")
    /\ inboxes' = [inboxes EXCEPT ![calls[p].addr] = NoInbox]
    /\ Ends(p)
    /\ UNCHANGED <<domain, zone, past, routeVars>>

\* The worker is killed, or a statement or a request to Cloudflare throws.
InboxCut(p) ==
    /\ OnInbox(calls[p]) /\ past.faults < MaxFaults
    /\ past' = [past EXCEPT !.faults = @ + 1, !.broken = @ \cup {calls[p].addr}]
    /\ Ends(p)
    /\ UNCHANGED <<domain, zone, inboxes, routeVars>>
-----------------------------------------------------------------------------
(* pnpm run setup --routing per_inbox *)

SetupGoes(step) == setup' = [setup EXCEPT !.step = step]

Api == <<domain, zone, inboxes, past>>

\* runRoutingMode redeploys the Worker with the mode; requests that are under
\* way keep the one they began with.
SetupMode ==
    /\ ~SettingUp /\ setup.runs < MaxSetups
    /\ mode' = "per_inbox"
    /\ calls' = [p \in Caller |-> [calls[p] EXCEPT !.crossed = OnInbox(calls[p])]]
    /\ setup' = [NoSetup EXCEPT !.step = "inboxes", !.runs = setup.runs + 1,
                                !.crossed = \E p \in Caller : OnInbox(calls[p])]
    /\ UNCHANGED <<Api, rules, made, catchAll>>

\* readInboxes reads every row, the custom domains' included.
SetupInboxes ==
    LET addresses == {a \in Address : inboxes[a].row}
    IN /\ setup.step = "inboxes"
       /\ setup' = [setup EXCEPT !.step = "plan", !.rows = [a \in addresses |-> inboxes[a].rule]]
       /\ UNCHANGED <<Api, calls, rules, made, mode, catchAll>>

\* Mutant: a row that names a rule keeps it.
AdoptedIfNone(rows, found) ==
    {f \in [{a \in DOMAIN rows : \E x \in found : x.addr = a} -> 1 .. made] :
        \A a \in DOMAIN f : IF rows[a] # 0 THEN f[a] = rows[a]
                            ELSE \E x \in found : x.addr = a /\ x.id = f[a]}

\* byAddress keeps one of the rules of an address, here any.
Adopted(rows, found) ==
    {f \in [{a \in DOMAIN rows : \E x \in found : x.addr = a} -> 1 .. made] :
        \A a \in DOMAIN f : \E x \in found : x.addr = a /\ x.id = f[a]}

\* planRouting, from the rows and the rules of the own zone.
SetupPlan ==
    LET found == {x \in rules : x.zone = "own"}
        rows == setup.rows
    IN /\ setup.step = "plan"
       /\ \E adopt \in Adopted(rows, found) :
            setup' = [setup EXCEPT !.step = "create",
                        !.plan = [create |-> DOMAIN rows \ DOMAIN adopt,
                                  adopt |-> adopt,
                                  remove |-> {x \in found : x.addr \notin DOMAIN rows}]]
       /\ UNCHANGED <<Api, calls, rules, made, mode, catchAll>>

SetupCreate(a) ==
    LET adopt == setup.plan.adopt
    IN /\ setup.step = "create" /\ a \in setup.plan.create
       /\ NewRule(a, "own")
       /\ setup' = [setup EXCEPT !.plan.create = @ \ {a},
                      !.plan.adopt = [b \in DOMAIN adopt \cup {a} |->
                                        IF b = a THEN made' ELSE adopt[b]]]
       /\ UNCHANGED <<Api, calls, mode, catchAll>>

\* writeRuleIds: one batch of updates by address, of the rows that were read with another rule.
SetupAdopt ==
    LET adopt == setup.plan.adopt
        differ == {a \in DOMAIN adopt : adopt[a] # setup.rows[a]}
    IN /\ setup.step = "create" /\ setup.plan.create = {}
       /\ inboxes' = [a \in Address |-> IF a \in differ /\ inboxes[a].row
                                        THEN [inboxes[a] EXCEPT !.rule = adopt[a]] ELSE inboxes[a]]
       /\ SetupGoes("remove")
       /\ UNCHANGED <<domain, zone, past, calls, rules, made, mode, catchAll>>

SetupRemove(x) ==
    /\ setup.step = "remove" /\ x \in setup.plan.remove
    /\ rules' = rules \ {x}
    /\ setup' = [setup EXCEPT !.plan.remove = @ \ {x}]
    /\ UNCHANGED <<Api, calls, made, mode, catchAll>>

\* The catch-all, when it is on, is disabled last.
SetupSwitch ==
    /\ setup.step = "remove" /\ setup.plan.remove = {}
    /\ catchAll' = FALSE
    /\ setup' = [NoSetup EXCEPT !.runs = setup.runs]
    /\ UNCHANGED <<Api, calls, rules, made, mode>>

SetupCut ==
    /\ SettingUp /\ past.faults < MaxFaults
    /\ past' = [past EXCEPT !.faults = @ + 1]
    /\ setup' = [NoSetup EXCEPT !.runs = setup.runs]
    /\ UNCHANGED <<domain, zone, inboxes, calls, rules, made, mode, catchAll>>

RouteStep(p) ==
    \/ \E a \in Address : CreateStart(p, a) \/ DeleteStart(p, a)
    \/ CreateRule(p) \/ InsertInbox(p) \/ DeleteRule(p) \/ DeleteInbox(p) \/ InboxCut(p)

SetupStep ==
    \/ SetupMode \/ SetupInboxes \/ SetupPlan \/ SetupAdopt \/ SetupSwitch \/ SetupCut
    \/ \E a \in Address : SetupCreate(a)
    \/ \E x \in rules : SetupRemove(x)
-----------------------------------------------------------------------------
vars == <<domainVars, routeVars>>

Init == DomainInit /\ RouteInit

Next ==
    \/ \E p \in Caller : DomainStep(p) /\ UNCHANGED routeVars
    \/ ZoneWithdrawn /\ UNCHANGED routeVars
    \/ \E p \in Caller : RouteStep(p)
    \/ SetupStep

Spec == Init /\ [][Next]_vars
-----------------------------------------------------------------------------
Routed(a) == \E x \in rules : x.addr = a /\ x.zone = ZoneOf(a)

(* docs/architecture.md:190 and 205: an inbox never exists without its     *)
(* route, and no address is unreachable while the setup switches the mode. *)
(* That fails only in the course of the inbox's own deletion, when a call  *)
(* on it was cut short, or when it was created while the setup ran.        *)
UnreachableNeedsFault ==
    \A a \in Address :
        inboxes[a].row =>
            \/ Routed(a)
            \/ a \in Own /\ catchAll
            \/ a \in past.broken
            \/ \E p \in Caller : InStep(p, "delete", "row") /\ calls[p].addr = a

(* A run of the setup that no call on an inbox overlapped leaves no rule   *)
(* without an inbox and no inbox of the deployment's domain without a rule *)
(* that its row knows, whatever went wrong before (routing.ts:70).         *)
SetupReconciles ==
    [][SetupSwitch /\ ~setup.crossed =>
        /\ \A x \in rules : x.zone = "own" => inboxes[x.addr].row
        /\ \A a \in Own : inboxes[a].row =>
              \E x \in rules : x.addr = a /\ x.zone = "own" /\ x.id = inboxes[a].rule]_vars

(* docs/architecture.md:245: an inbox on a custom domain has its own rule  *)
(* on that domain's zone; its row names it, for deleteInbox to remove.     *)
RowNamesRuleOfItsZone ==
    \A a \in Custom :
        inboxes[a].row /\ a \notin past.broken /\ (\A p \in Caller : calls[p].op # "delete")
            => \E x \in rules : x.id = inboxes[a].rule /\ x.zone = "custom"
=============================================================================
