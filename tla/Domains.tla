------------------------------ MODULE Domains ------------------------------
(***************************************************************************)
(* core/domains.ts: a custom domain, its row and what the calls about it   *)
(* leave in its Cloudflare zone through the client of lib/cloudflare.ts.   *)
(* Each call to Cloudflare is a step and may fail.  One domain stands for  *)
(* all: nothing in the code relates two of them but the limit on their     *)
(* number.  The inboxes are those of Routes; deleteDomain counts them.     *)
(***************************************************************************)
EXTENDS Naturals, FiniteSets

CONSTANTS
    Caller,        \* API requests
    Rec,           \* the DNS records Cloudflare wants for the domain
    Replaceable,   \* those of them an older one makes room for: CNAME, SPF, DMARC
    Custom,        \* the addresses on the custom domain
    MaxCalls,      \* bound: calls begun
    MaxFaults      \* bound: calls that fail, workers killed, zones withdrawn

ASSUME DomainAssumption ==
    /\ Replaceable \subseteq Rec
    /\ MaxCalls \in Nat /\ MaxFaults \in Nat

VARIABLES
    domain,    \* the row
    zone,      \* what Cloudflare holds for the domain
    inboxes,   \* the inbox rows, see Routes
    calls,     \* the request of each caller
    past       \* history: calls begun, faults, what the zone held, what went wrong

domainVars == <<domain, zone, inboxes, calls, past>>

NoDomain == [status |-> "none", tag |-> FALSE, records |-> {}]
NoInbox == [row |-> FALSE, rule |-> 0]
Free == [op |-> "none", step |-> "idle", row |-> NoDomain, todo |-> {}, ok |-> TRUE, clean |-> FALSE,
         addr |-> "none", rule |-> 0, mode |-> "catch_all", crossed |-> FALSE]

\* No domain yet, in a zone that may hold records of its owner or have Email
\* Routing on already, or a verified one.
DomainInit ==
    /\ \/ /\ domain = NoDomain
          /\ zone \in [here : {TRUE}, routing : {FALSE}, sending : {FALSE},
                       dns : [Rec -> {{}, {"theirs"}, {"ours"}}]]
       \/ /\ domain = [status |-> "verified", tag |-> TRUE, records |-> Rec]
          /\ zone = [here |-> TRUE, routing |-> TRUE, sending |-> TRUE, dns |-> [r \in Rec |-> {"ours"}]]
    /\ calls = [p \in Caller |-> Free]
    /\ past = [calls |-> 0, faults |-> 0, rough |-> FALSE, met |-> FALSE, broken |-> {},
               before |-> IF domain = NoDomain THEN zone.dns ELSE [r \in Rec |-> {}]]

OnDomain(r) == r.op \in {"add", "verify", "remove"}
InStep(p, op, step) == calls[p].op = op /\ calls[p].step = step
Meet(r, s) == r.op = "remove" /\ s.op = "create" /\ s.addr \in Custom
OnInboxes == {a \in Custom : inboxes[a].row}

Goes(p, step) == calls' = [calls EXCEPT ![p].step = step]
Ends(p) == calls' = [calls EXCEPT ![p] = Free]

Begins(p, r) ==
    /\ calls[p] = Free /\ past.calls < MaxCalls
    /\ calls' = [calls EXCEPT ![p] = r]
    /\ past' = [past EXCEPT !.calls = @ + 1,
                  !.rough = @ \/ \E q \in Caller : OnDomain(r) /\ OnDomain(calls[q]),
                  !.met = @ \/ \E q \in Caller : Meet(r, calls[q]) \/ Meet(calls[q], r)]
    /\ UNCHANGED <<domain, zone, inboxes>>
-----------------------------------------------------------------------------
(* addDomain and verifyDomain *)

\* The name is free, the limit not reached, and one of the names above it a zone.
AddStart(p) ==
    /\ domain = NoDomain /\ zone.here
    /\ Begins(p, [Free EXCEPT !.op = "add", !.step = "insert"])

\* The name is the key: of two requests, one throws.
InsertDomain(p) ==
    /\ InStep(p, "add", "insert")
    /\ IF domain = NoDomain
       THEN /\ domain' = [NoDomain EXCEPT !.status = "pending"]
            /\ calls' = [calls EXCEPT ![p].step = "onboard", ![p].row = domain']
       ELSE Ends(p) /\ UNCHANGED domain
    /\ UNCHANGED <<zone, inboxes, past>>

\* A zone that is gone settles the domain as failed at once.
VerifyStart(p) ==
    /\ domain # NoDomain
    /\ Begins(p, [Free EXCEPT !.op = "verify", !.row = domain, !.ok = zone.here,
                              !.step = IF zone.here THEN "onboard" ELSE "settle"])

Attempting(p, step) == calls[p].op \in {"add", "verify"} /\ calls[p].step = step

\* onboardSending reuses the subdomain there is.
OnboardSending(p) ==
    /\ Attempting(p, "onboard")
    /\ zone' = [zone EXCEPT !.sending = TRUE]
    /\ Goes(p, "routing")
    /\ UNCHANGED <<domain, inboxes, past>>

EnableRouting(p) ==
    /\ Attempting(p, "routing")
    /\ zone' = [zone EXCEPT !.routing = TRUE]
    /\ Goes(p, "check")
    /\ UNCHANGED <<domain, inboxes, past>>

\* dnsCheck of both statuses: what the zone misses is an error, and Cloudflare
\* may report one for a record that it has not seen yet.
CheckDns(p, seen) ==
    /\ Attempting(p, "check")
    /\ calls' = [calls EXCEPT ![p].step = "write", ![p].todo = Rec,
                              ![p].clean = seen /\ \A r \in Rec : "ours" \in zone.dns[r]]
    /\ UNCHANGED <<domain, zone, inboxes, past>>

\* writeRecord leaves a record alone that is right already.
Written(r) ==
    IF "ours" \in zone.dns[r] THEN zone.dns[r]
    ELSE {"ours"} \cup IF r \in Replaceable THEN {} ELSE zone.dns[r]

WriteRecord(p, r) ==
    /\ Attempting(p, "write") /\ r \in calls[p].todo
    /\ zone' = [zone EXCEPT !.dns[r] = Written(r)]
    /\ calls' = [calls EXCEPT ![p].todo = @ \ {r}]
    /\ UNCHANGED <<domain, inboxes, past>>

\* Mutant: a failed attempt forgets the records of the one before it.
SettledForgetting(r) ==
    IF r.ok
    THEN [status |-> IF r.op = "verify" /\ r.clean THEN "verified" ELSE "pending",
          tag |-> TRUE, records |-> Rec]
    ELSE [NoDomain EXCEPT !.status = "failed"]

\* onboardedUpdate and failedUpdate; the second keeps the tag and the records.
Settled(r) ==
    IF r.ok
    THEN [status |-> IF r.op = "verify" /\ r.clean THEN "verified" ELSE "pending",
          tag |-> TRUE, records |-> Rec]
    ELSE [r.row EXCEPT !.status = "failed"]

\* updateDomain writes by name and throws when the row is gone.
Settle(p) ==
    /\ \/ Attempting(p, "settle")
       \/ Attempting(p, "write") /\ calls[p].todo = {}
    /\ domain' = IF domain = NoDomain THEN NoDomain ELSE Settled(calls[p])
    /\ past' = IF calls[p].op = "add" /\ ~calls[p].ok THEN [past EXCEPT !.rough = TRUE] ELSE past
    /\ Ends(p)
    /\ UNCHANGED <<zone, inboxes>>
-----------------------------------------------------------------------------
(* deleteDomain *)

\* Mutant: the inboxes of the domain are not counted.
DeletableAlways == domain # NoDomain

Deletable == domain # NoDomain /\ OnInboxes = {}

RemoveStart(p) ==
    /\ Deletable
    /\ Begins(p, [Free EXCEPT !.op = "remove", !.step = "records", !.row = domain,
                              !.todo = domain.records])

\* A record is found by its content; one that is not there is passed.
RemoveRecord(p, r) ==
    /\ InStep(p, "remove", "records") /\ r \in calls[p].todo
    /\ zone' = [zone EXCEPT !.dns[r] = @ \ {"ours"}]
    /\ calls' = [calls EXCEPT ![p].todo = @ \ {r}]
    /\ UNCHANGED <<domain, inboxes, past>>

RemoveSending(p) ==
    /\ InStep(p, "remove", "records") /\ calls[p].todo = {}
    /\ zone' = IF calls[p].row.tag THEN [zone EXCEPT !.sending = FALSE] ELSE zone
    /\ Goes(p, "row")
    /\ UNCHANGED <<domain, inboxes, past>>

RemoveDomain(p) ==
    /\ InStep(p, "remove", "row")
    /\ domain' = NoDomain
    /\ Ends(p)
    /\ UNCHANGED <<zone, inboxes, past>>
-----------------------------------------------------------------------------
(* Faults *)

Fault(rough) ==
    /\ past.faults < MaxFaults
    /\ past' = [past EXCEPT !.faults = @ + 1, !.rough = @ \/ rough]

\* A request to Cloudflare fails, with or without its effect: attempt catches
\* it and settles as failed.
AttemptFails(p) ==
    /\ \E step \in {"onboard", "routing", "check", "write"} : Attempting(p, step)
    /\ calls' = [calls EXCEPT ![p].step = "settle", ![p].ok = FALSE, ![p].todo = {}]
    /\ Fault(FALSE)
    /\ UNCHANGED <<domain, zone, inboxes>>

\* deleteDomain throws, or the worker is killed in one of the three calls.
CallCut(p) ==
    /\ OnDomain(calls[p])
    /\ Fault(calls[p].op = "add") /\ Ends(p)
    /\ UNCHANGED <<domain, zone, inboxes>>

\* The operator takes the zone out of the account.
ZoneWithdrawn ==
    /\ zone.here
    /\ zone' = [zone EXCEPT !.here = FALSE]
    /\ Fault(FALSE)
    /\ UNCHANGED <<domain, inboxes, calls>>

DomainStep(p) ==
    \/ AddStart(p) \/ InsertDomain(p) \/ VerifyStart(p)
    \/ OnboardSending(p) \/ EnableRouting(p)
    \/ \E seen \in BOOLEAN : CheckDns(p, seen)
    \/ \E r \in Rec : WriteRecord(p, r) \/ RemoveRecord(p, r)
    \/ Settle(p) \/ RemoveStart(p) \/ RemoveSending(p) \/ RemoveDomain(p)
    \/ AttemptFails(p) \/ CallCut(p)
-----------------------------------------------------------------------------
(* docs/api.md:740: deleting a domain takes out the DNS records it wrote   *)
(* and its sending subdomain.  Nothing of a domain stays behind once its   *)
(* row is gone, however often a deletion or a verification was cut short   *)
(* before, unless a first attempt at it failed half-way or was cut short,  *)
(* or two calls about it overlapped (domains.ts:284).                      *)
LeftoversNeedFault ==
    domain = NoDomain /\ ~past.rough /\ (\A p \in Caller : ~OnDomain(calls[p]))
        => /\ ~zone.sending
           /\ \A r \in Rec : "ours" \in zone.dns[r] => "ours" \in past.before[r]

(* docs/architecture.md:249: a domain is not deleted while an inbox is on  *)
(* it, so an inbox is never stranded.  One is only when its creation and   *)
(* the deletion were under way at the same time (domains.ts:280).          *)
StrandedNeedsOverlap ==
    ~past.met => \A a \in Custom : inboxes[a].row => domain # NoDomain
=============================================================================
