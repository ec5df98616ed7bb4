------------------------------ MODULE Webhooks ------------------------------
(***************************************************************************)
(* core/webhooks.ts: an account's webhooks, the jobs an event puts on the  *)
(* queue, and the consumer that posts them.  The queue is external: it     *)
(* hands a job out again until the consumer acknowledges it, at most       *)
(* MaxRetries times after the first.  URLs, secrets, signatures and the    *)
(* length of the delays are left out.                                      *)
(***************************************************************************)
EXTENDS Naturals, FiniteSets

CONSTANTS
    Hook,          \* the webhooks that may be created
    Report,        \* the messages that events are about
    Editor,        \* the clients that create, change and delete webhooks
    MaxHooks,      \* WEBHOOK_MAX_PER_ACCOUNT
    MaxRetries,    \* max_retries of the queue
    MaxEdits       \* bound: edits made

ASSUME WebhookAssumption ==
    /\ MaxHooks \in Nat \ {0} /\ MaxRetries \in Nat /\ MaxEdits \in Nat

VARIABLES
    hooks,     \* the rows
    gone,      \* the messages that were deleted
    due,       \* the events that have still to happen
    jobs,      \* the jobs of the queue
    edits,     \* the edit under way of each client
    past       \* history: rows as asked for, overlaps, posts, edits made

hookVars == <<hooks, gone, due, jobs, edits, past>>

Event == {"message.received", "message.sent", "message.bounced"}
First == CHOOSE w \in Hook : TRUE
NoRow == [row |-> FALSE, events |-> {}, active |-> FALSE]
Still == [step |-> "idle", hook |-> First, next |-> NoRow, fields |-> {}]

\* The account has a webhook for every event, and emails arrive or are sent.
HookInit ==
    /\ hooks = [w \in Hook |-> IF w = First THEN [row |-> TRUE, events |-> Event, active |-> TRUE] ELSE NoRow]
    /\ gone = {}
    /\ due \in {{<<m, e>> : m \in Report, e \in happened} :
                 happened \in {{"message.received"}, {"message.sent"}}}
    /\ jobs = {}
    /\ edits = [c \in Editor |-> Still]
    /\ past = [asked |-> hooks, crossed |-> {}, late |-> {}, twice |-> {}, edits |-> 0, made |-> {First}]

Rows == {w \in Hook : hooks[w].row}
Live(w) == hooks[w].row /\ hooks[w].active
-----------------------------------------------------------------------------
(* The rows *)

EditBegins(c, e) ==
    /\ edits[c] = Still /\ past.edits < MaxEdits
    /\ edits' = [edits EXCEPT ![c] = e]
    /\ past' = [past EXCEPT !.edits = @ + 1]
    /\ UNCHANGED <<hooks, gone, due, jobs>>

EditEnds(c) == edits' = [edits EXCEPT ![c] = Still] /\ UNCHANGED <<gone, due, jobs>>

\* createWebhook, with the limit read before the row is inserted.
CreateStart(c, w, events) ==
    /\ w \notin past.made /\ Cardinality(Rows) < MaxHooks
    /\ \A d \in Editor : edits[d].step = "create" => edits[d].hook # w
    /\ EditBegins(c, [Still EXCEPT !.step = "create", !.hook = w,
                       !.next = [row |-> TRUE, events |-> events, active |-> TRUE]])

CreateEnd(c) ==
    LET e == edits[c]
    IN /\ e.step = "create"
       /\ hooks' = [hooks EXCEPT ![e.hook] = e.next]
       /\ past' = [past EXCEPT !.asked[e.hook] = e.next, !.made = @ \cup {e.hook}]
       /\ EditEnds(c)

\* updateWebhook reads the row, keeps the fields the input leaves out, and
\* writes all of them.
UpdateStart(c, w, events, active, fields) ==
    /\ w \in Rows /\ fields # {}
    /\ EditBegins(c, [step |-> "update", hook |-> w, fields |-> fields,
                       next |-> [row |-> TRUE,
                                 events |-> IF "events" \in fields THEN events ELSE hooks[w].events,
                                 active |-> IF "active" \in fields THEN active ELSE hooks[w].active]])

\* Mutant: an upsert, which brings a deleted webhook back.
UpsertedRow(w, next) == next

UpdatedRow(w, next) == IF hooks[w].row THEN next ELSE NoRow

\* History: a row with the fields an update asked for.
Asked(row, e) ==
    IF ~row.row THEN row
    ELSE [row EXCEPT !.events = IF "events" \in e.fields THEN e.next.events ELSE @,
                     !.active = IF "active" \in e.fields THEN e.next.active ELSE @]

UpdateEnd(c) ==
    LET e == edits[c]
        w == e.hook
        others == {d \in Editor \ {c} : edits[d].step = "update" /\ edits[d].hook = w}
    IN /\ e.step = "update"
       /\ hooks' = [hooks EXCEPT ![w] = UpdatedRow(w, e.next)]
       /\ past' = [past EXCEPT
             !.asked[w] = Asked(@, e),
             !.crossed = IF others # {} THEN @ \cup {w} ELSE @]
       /\ EditEnds(c)

Delete(w) ==
    /\ w \in Rows
    /\ hooks' = [hooks EXCEPT ![w] = NoRow]
    /\ past' = [past EXCEPT !.asked[w] = NoRow]
    /\ UNCHANGED <<gone, due, jobs, edits>>
-----------------------------------------------------------------------------
(* emitEvent, deliverJob and deliverBatch *)

Emitted(m, event) ==
    {[hook |-> w, mail |-> m, event |-> event, attempts |-> 1, loaded |-> FALSE] :
        w \in {v \in Hook : Live(v) /\ event \in hooks[v].events}}

\* Mutant: a repeated ingest emits its event again.
EmitAgain(m, event, taken) ==
    /\ <<m, event>> \in due
    /\ jobs' = IF taken THEN jobs \cup Emitted(m, event) ELSE jobs
    /\ UNCHANGED <<hooks, gone, due, edits, past>>

\* The rows are listed and the jobs sent; a queue that takes none is logged.
Emit(m, event, taken) ==
    /\ <<m, event>> \in due
    /\ due' = due \ {<<m, event>>}
    /\ jobs' = IF taken THEN jobs \cup Emitted(m, event) ELSE jobs
    /\ UNCHANGED <<hooks, gone, edits, past>>

DeleteReport(m) ==
    /\ m \notin gone
    /\ gone' = gone \cup {m}
    /\ UNCHANGED <<hooks, due, jobs, edits, past>>

Settle(j) == jobs' = jobs \ {j}

\* Mutant: a retry goes to the endpoint it went to before.
DeliverableOnce(j) == j.attempts > 1 \/ (Live(j.hook) /\ j.mail \notin gone)

Deliverable(j) == Live(j.hook) /\ j.mail \notin gone

\* The webhook and the message are read; the job is dropped when one is gone.
Load(j) ==
    /\ j \in jobs /\ ~j.loaded
    /\ IF Deliverable(j) THEN jobs' = (jobs \ {j}) \cup {[j EXCEPT !.loaded = TRUE]}
                         ELSE Settle(j)
    /\ UNCHANGED <<hooks, gone, due, edits, past>>

\* Mutant: a failed job is retried for ever.
RetriesLeftAlways(j) == TRUE

RetriesLeft(j) == j.attempts <= MaxRetries

\* The POST reaches the endpoint or not; a 2xx acknowledges the job.  Any other
\* answer, a timeout, or a consumer that dies before its acknowledgement makes
\* the queue hand it out again.
Post(j, reached, answered) ==
    LET key == <<j.hook, j.mail, j.event>>
        late == reached /\ ~hooks[j.hook].row
    IN /\ j \in jobs /\ j.loaded
       /\ answered => reached
       /\ jobs' = (jobs \ {j}) \cup
            IF ~answered /\ RetriesLeft(j)
            THEN {[j EXCEPT !.loaded = FALSE, !.attempts = IF @ <= MaxRetries THEN @ + 1 ELSE @]}
            ELSE {}
       /\ past' = [past EXCEPT !.twice = IF late /\ key \in past.late THEN @ \cup {key} ELSE @,
                               !.late = IF late THEN @ \cup {key} ELSE @]
       /\ UNCHANGED <<hooks, gone, due, edits>>

Consume == \E j \in jobs : Load(j) \/ \E reached, answered \in BOOLEAN : Post(j, reached, answered)

HookNext ==
    \/ \E c \in Editor, w \in Hook, events \in {{"message.received"}, Event} :
         \/ CreateStart(c, w, events)
         \/ \E active \in BOOLEAN, fields \in SUBSET {"events", "active"} :
              UpdateStart(c, w, events, active, fields)
    \/ \E c \in Editor : CreateEnd(c) \/ UpdateEnd(c)
    \/ \E w \in Hook : Delete(w)
    \/ \E m \in Report : DeleteReport(m) \/ \E event \in Event, taken \in BOOLEAN : Emit(m, event, taken)
    \/ Consume

\* The webhooks on their own, without the fairness that QueueDrains needs.
HookSpec == HookInit /\ [][HookNext]_hookVars
-----------------------------------------------------------------------------
(* An update writes every field of the row it read.  A webhook holds what  *)
(* was last asked for in each field, and stays deleted once deleted,       *)
(* unless two updates of it overlapped (webhooks.ts:171).                  *)
LostUpdateNeedsOverlap == \A w \in Hook \ past.crossed : hooks[w] = past.asked[w]

(* docs/api.md:695: a delivery for a webhook that has since been deleted   *)
(* is discarded rather than retried.  A post in flight may reach its       *)
(* endpoint after the deletion, a second one of the same delivery does not *)
(* (webhooks.ts:252).                                                      *)
NoRetryAfterDelete == past.twice = {}

(* Every job leaves the queue, delivered, discarded or given up on, though *)
(* endpoints fail and consumers die (webhooks.ts:289).                     *)
QueueDrains == [](jobs # {} => <>(jobs = {}))
-----------------------------------------------------------------------------
(* The queue as deliveries with tries left, for the promise of HookDelivery. *)

Deliveries == Hook \X Report \X Event

KeyOf(j) == <<j.hook, j.mail, j.event>>

\* A job in the queue is a delivery that may be tried MaxRetries + 1 times in all.
TriesLeft(k) ==
    LET tries == {j \in jobs : KeyOf(j) = k}
    IN IF tries = {} THEN 0 ELSE MaxRetries + 2 - (CHOOSE j \in tries : TRUE).attempts

Queue == INSTANCE HookDelivery WITH
    Delivery <- Deliveries,
    Tries    <- MaxRetries + 1,
    awaited  <- {k \in Deliveries : <<k[2], k[3]>> \in due},
    left     <- [k \in Deliveries |-> TriesLeft(k)]

(* However endpoints answer and consumers die, an event is delivered to a     *)
(* webhook in at most MaxRetries + 1 tries, and never again once over.        *)
QueueSpec == Queue!Spec

(* Every post uses up a try of its delivery (webhooks.ts:289): a loaded job   *)
(* leaves the queue, or comes back with fewer tries left.                     *)
PostsUseTries ==
    [][\A j \in jobs : j.loaded /\ j \notin jobs' =>
          TriesLeft(KeyOf(j))' < TriesLeft(KeyOf(j))]_hookVars
=============================================================================
