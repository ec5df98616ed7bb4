------------------------------ MODULE LongPoll ------------------------------
(***************************************************************************)
(* wait_for_message: the requests that wait for mail in one inbox, the     *)
(* emails that arrive in it, and the Durable Object InboxWaiter that wakes *)
(* the first when one of the second is stored.  An email takes its         *)
(* created_at long before its row is inserted, and the row is inserted     *)
(* before the object is told; a message may be deleted at any time after,  *)
(* told or not.  A client asks for the mail after the newest *)
(* it was given, or, with no since, after the time of its request.         *)
(***************************************************************************)
EXTENDS Naturals, FiniteSets

CONSTANTS
    Mail,          \* the emails that arrive
    Client,        \* clients, each with one request at a time
    Timeout,       \* how long a request waits
    WaitBatch,     \* WAIT_BATCH, the rows of one answer
    MaxTime,       \* bound: the clock
    MaxAsks,       \* bound: requests of a client
    MaxBreaks      \* bound: evictions of the object and notifications lost

ASSUME LongPollAssumption ==
    /\ IsFiniteSet(Mail) /\ Timeout \in Nat \ {0} /\ WaitBatch \in Nat \ {0}
    /\ MaxTime \in Nat /\ MaxAsks \in Nat /\ MaxBreaks \in Nat

VARIABLES
    clock,
    email,     \* [step, at, gone]: what ingestInbound has done, its created_at,
               \* and whether its row was deleted
    waiter,    \* [last, pending]: the fields of InboxWaiter
    poll,      \* the request of each client
    breaks,
    news       \* history: what the clients were given, and what came too late

pollVars == <<clock, email, waiter, poll, breaks, news>>

Quiet == [step |-> "idle", since |-> 0, deadline |-> 0, asks |-> 0]

PollInit ==
    /\ clock = 1
    /\ email = [m \in Mail |-> [step |-> "due", at |-> 0, gone |-> FALSE]]
    /\ waiter = [last |-> 0, pending |-> {}]
    /\ poll = [c \in Client |-> Quiet]
    /\ breaks = 0
    /\ news = [given |-> [c \in Client |-> {}], start |-> [c \in Client |-> 0],
               seen |-> [c \in Client |-> 0], late |-> {}, full |-> {}, early |-> {}, strays |-> {}]

Landed == {m \in Mail : email[m].step \in {"stored", "told"}}
Stored == {m \in Landed : ~email[m].gone}
Busy(c) == poll[c].step # "idle"
At(c, step) == poll[c].step = step
Move(c, step) == poll' = [poll EXCEPT ![c].step = step]

PollTick == clock < MaxTime /\ clock' = clock + 1 /\ UNCHANGED <<email, waiter, poll, breaks, news>>
-----------------------------------------------------------------------------
(* ingestInbound, as far as the waiting requests see it *)

Accept(m) ==
    /\ email[m].step = "due"
    /\ email' = [email EXCEPT ![m].step = "taken", ![m].at = clock]
    /\ UNCHANGED <<clock, waiter, poll, breaks, news>>

Insert(m) ==
    /\ email[m].step = "taken"
    /\ email' = [email EXCEPT ![m].step = "stored"]
    /\ news' = [news EXCEPT !.late = @ \cup
                  {<<c, m>> : c \in {d \in Client : news.seen[d] >= email[m].at}}]
    /\ UNCHANGED <<clock, waiter, poll, breaks>>

\* deleteMessage, or the delete of its thread: the object is not told.
DeleteMail(m) ==
    /\ m \in Stored
    /\ email' = [email EXCEPT ![m].gone = TRUE]
    /\ UNCHANGED <<clock, waiter, poll, breaks, news>>

\* Mutant: what was told to nobody is forgotten.
ForgetsAt(at) == IF waiter.pending = {} THEN waiter.last ELSE at

LastNotifiedAt(at) == IF at > waiter.last THEN at ELSE waiter.last

\* notify: every parked request is woken, whatever it waits for.
Tell(m) ==
    LET at == email[m].at
    IN /\ email[m].step = "stored"
       /\ email' = [email EXCEPT ![m].step = "told"]
       /\ waiter' = [last |-> LastNotifiedAt(at), pending |-> {}]
       /\ poll' = [c \in Client |-> IF c \in waiter.pending
                                    THEN [poll[c] EXCEPT !.step = "relist"] ELSE poll[c]]
       /\ news' = [news EXCEPT !.strays = @ \cup {c \in waiter.pending : poll[c].since >= at}]
       /\ UNCHANGED <<clock, breaks>>

\* The call to the object throws, which notifyInbox swallows.
TellLost(m) ==
    /\ email[m].step = "stored" /\ breaks < MaxBreaks
    /\ email' = [email EXCEPT ![m].step = "told"]
    /\ breaks' = breaks + 1
    /\ UNCHANGED <<clock, waiter, poll, news>>

\* The object is evicted or restarted: its fields are lost, and a wait that was
\* parked in it throws, so that the request falls back to polling.
Evict ==
    /\ breaks < MaxBreaks
    /\ breaks' = breaks + 1
    /\ waiter' = [last |-> 0, pending |-> {}]
    /\ poll' = [c \in Client |-> IF c \in waiter.pending
                                 THEN [poll[c] EXCEPT !.step = "poll"] ELSE poll[c]]
    /\ UNCHANGED <<clock, email, news>>
-----------------------------------------------------------------------------
(* waitForMessage *)

\* Mutant: the newest rows come first.
PagesNewestFirst(since) ==
    LET found == {m \in Stored : email[m].at > since}
    IN {S \in SUBSET found :
          /\ \A m \in S, n \in found \ S : email[m].at >= email[n].at
          /\ Cardinality(S) = IF Cardinality(found) < WaitBatch THEN Cardinality(found) ELSE WaitBatch}

\* listMessagesSince: the oldest rows after since, by created_at and then by id
\* (here any order), at most WAIT_BATCH of them.
Pages(since) ==
    LET found == {m \in Stored : email[m].at > since}
    IN {S \in SUBSET found :
          /\ \A m \in S, n \in found \ S : email[m].at <= email[n].at
          /\ Cardinality(S) = IF Cardinality(found) < WaitBatch THEN Cardinality(found) ELSE WaitBatch}

Newest(S, least) == CHOOSE t \in {least} \cup {email[m].at : m \in S} :
                        \A m \in S : t >= email[m].at /\ t >= least

\* Why a request comes back: it was woken for a message that is not newer than its
\* since, or a newer one was told and then deleted.
Withdrawn(c) ==
    \E m \in Mail : email[m].step = "told" /\ email[m].gone /\ email[m].at > poll[c].since

Cause(c) == IF c \in news.strays THEN "stray" ELSE IF Withdrawn(c) THEN "deleted" ELSE "nothing"

\* The client goes on from the newest created_at of a page.
Answer(c, S) ==
    /\ poll' = [poll EXCEPT ![c] = [Quiet EXCEPT !.asks = poll[c].asks]]
    /\ news' = [news EXCEPT
          !.given[c] = @ \cup S,
          !.seen[c] = Newest(S, @),
          !.full = IF Cardinality(S) = WaitBatch THEN @ \cup {<<c, Newest(S, 0)>>} ELSE @,
          !.early = IF S = {} /\ clock < poll[c].deadline THEN @ \cup {Cause(c)} ELSE @,
          !.strays = @ \ {c}]
    /\ UNCHANGED <<clock, email, waiter, breaks>>

\* The bound keeps the deadline of every request within reach of the clock.
Ask(c, since) ==
    /\ ~Busy(c) /\ poll[c].asks < MaxAsks /\ clock + Timeout <= MaxTime
    /\ poll' = [poll EXCEPT ![c] = [step |-> "list", since |-> since, asks |-> @.asks + 1,
                                    deadline |-> clock + Timeout]]
    /\ news' = IF news.seen[c] = 0
               THEN [news EXCEPT !.start[c] = since, !.seen[c] = since] ELSE news
    /\ UNCHANGED <<clock, email, waiter, breaks>>

List(c) ==
    /\ At(c, "list")
    /\ \E S \in Pages(poll[c].since) :
         IF S = {} THEN Move(c, "call") /\ UNCHANGED <<clock, email, waiter, breaks, news>>
         ELSE Answer(c, S)

\* InboxWaiter.wait: what it remembers is compared before the request is parked.
Park(c) ==
    /\ At(c, "call")
    /\ IF waiter.last > poll[c].since
       THEN Move(c, "relist") /\ UNCHANGED waiter
       ELSE Move(c, "parked") /\ waiter' = [waiter EXCEPT !.pending = @ \cup {c}]
    /\ UNCHANGED <<clock, email, breaks, news>>

\* There is no binding, or the call throws.
ParkFails(c) ==
    /\ At(c, "call") /\ breaks < MaxBreaks
    /\ breaks' = breaks + 1
    /\ Move(c, "poll")
    /\ UNCHANGED <<clock, email, waiter, news>>

\* Mutants: a timer that never resolves, and one that fires at once.
NeverDue(c) == clock > poll[c].deadline + Timeout
DueAtOnce(c) == TRUE

Due(c) == clock >= poll[c].deadline

Timer(c) ==
    /\ At(c, "parked") /\ Due(c)
    /\ waiter' = [waiter EXCEPT !.pending = @ \ {c}]
    /\ Move(c, "relist")
    /\ UNCHANGED <<clock, email, breaks, news>>

Relist(c) == At(c, "relist") /\ \E S \in Pages(poll[c].since) : Answer(c, S)

\* pollForMessages: an empty table and time left mean another round.
PollRound(c) ==
    /\ At(c, "poll")
    /\ \E S \in Pages(poll[c].since) :
         /\ S # {} \/ Due(c)
         /\ Answer(c, S)

Arrivals == \E m \in Mail : Accept(m) \/ Insert(m) \/ Tell(m) \/ TellLost(m) \/ DeleteMail(m)
WaitStep(c) == List(c) \/ Park(c) \/ ParkFails(c) \/ Timer(c) \/ Relist(c) \/ PollRound(c)

PollNext ==
    \/ PollTick \/ Arrivals \/ Evict
    \/ \E c \in Client :
         \/ Ask(c, IF news.seen[c] = 0 THEN clock ELSE news.seen[c])
         \/ WaitStep(c)

\* The long poll on its own, without the fairness that Answered needs.
PollSpec == PollInit /\ [][PollNext]_pollVars
-----------------------------------------------------------------------------
(* What the object remembers makes up for the gap between the first query  *)
(* and the call that parks the request: without an eviction or a lost      *)
(* call, no request is parked behind a notification that it was waiting    *)
(* for (waiter.ts:31).                                                     *)
ParkedMissesNothing ==
    breaks = 0 =>
        \A c \in waiter.pending, m \in Mail :
            email[m].step = "told" => email[m].at <= poll[c].since

(* A client that asks again from the newest created_at it was given gets   *)
(* every message after its start that is still there, with two exceptions: *)
(* a message inserted when the client had already passed its created_at,   *)
(* and one that shares its created_at with the last of a full page         *)
(* (inbound.ts:157).                                                       *)
SkipsOnlyStragglers ==
    \A c \in Client, m \in Stored :
        /\ email[m].at > news.start[c] /\ email[m].at <= news.seen[c]
        /\ m \notin news.given[c]
        => <<c, m>> \in news.late \/ <<c, email[m].at>> \in news.full

(* A request ends before its deadline with nothing only when it was woken  *)
(* for a message that does not count as newer than its since, or when a    *)
(* newer message that the object was told of has been deleted, before the  *)
(* second query or, as lastNotifiedAt outlives it, before the request.     *)
(* Whatever was told and is still there is in the answer                   *)
(* (waiter.ts:31, messages.ts:339).                                        *)
EmptyNeedsCause == "nothing" \notin news.early

(* docs/api.md:488: wait "blocks until a message with `created_at` greater *)
(* than `since` arrives, or until `timeout`".                              *)
BlocksUntilDeadline == news.early = {}

(* Every request is answered, whatever becomes of the object and of its    *)
(* notifications (waiter.ts:37, messages.ts:303).                          *)
Answered == \A c \in Client : Busy(c) ~> ~Busy(c)
=============================================================================
