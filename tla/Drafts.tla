------------------------------- MODULE Drafts -------------------------------
(***************************************************************************)
(* The draft lifecycle: src/core/drafts.ts over the statements of          *)
(* src/db/drafts.ts.                                                       *)
(*                                                                         *)
(* A draft is a row of the D1 table drafts plus the attachment objects R2  *)
(* holds at drf/{draft_id}/{n}.  API requests create, update, delete and   *)
(* send drafts; the one-minute cron drains the due ones.  Every await of   *)
(* the code is a point where another worker may run, so each D1 statement  *)
(* and each R2 operation is an action of its own, and a worker may be      *)
(* killed between any two of them.                                         *)
(*                                                                         *)
(* A body is abstracted to the call that wrote its text, the number of its *)
(* attachments and the call that uploaded their bytes; addresses, the      *)
(* validation of a body and the error texts are left out: a call that      *)
(* validation refuses changes nothing and is a call that never starts.     *)
(***************************************************************************)
EXTENDS Naturals, Sequences

CONSTANTS
  Drafts,       \* draft ids, numbers so that ORDER BY draft_id means something
  Requests,     \* API workers, each serving one call at a time
  Crons,        \* overlapping runs of the cron trigger
  UserOps,      \* the calls the users make: create, update, delete, send
  MaxFiles,     \* bound: attachments per draft
  MaxTime,      \* bound: the clock, and the latest send_at
  MaxCalls,     \* bound: API calls ever started
  MaxKills,     \* bound: workers killed
  DrainBatch    \* DRAIN_BATCH, the drafts one run takes

ASSUME DraftsAssumption ==
  /\ Drafts \subseteq Nat
  /\ Requests \cap Crons = {}
  /\ UserOps \subseteq {"create", "update", "delete", "send"}
  /\ MaxFiles \in Nat
  /\ MaxTime \in Nat
  /\ MaxCalls \in Nat
  /\ MaxKills \in Nat
  /\ DrainBatch \in Nat \ {0}

VARIABLES
  \* The program's state.
  drafts,       \* the D1 table: the row of each draft, NoRow when there is none
  bucket,       \* R2: the call whose bytes drf/{d}/{n} holds, 0 when absent
  pc,           \* what each worker does next, "idle" between calls
  call,         \* the local variables of each worker's call
  clock,        \* now()
  calls,        \* API calls started, which also numbers what they write
  kills,        \* workers killed
  \* What an observer records: the code never reads these.
  taken,        \* draft ids handed out, newId never repeats one
  openings,     \* the statuses the row of each draft was opened with, in order
  mails,        \* the emails handed to the transport
  stored,       \* positions in mails of those persistOutbound stored
  lost          \* drafts whose worker was killed holding their claim

program == <<drafts, bucket, pc, call, clock, calls, kills>>
history == <<taken, openings, mails, stored, lost>>
vars    == <<drafts, bucket, pc, call, clock, calls, kills,
             taken, openings, mails, stored, lost>>

-----------------------------------------------------------------------------
(* Data *)

Workers == Requests \cup Crons

\* The statuses an update, a delete or a send accepts.
OpenStatuses == {"draft", "scheduled", "failed"}

Statuses == OpenStatuses \cup {"sending", "sent"}

Slots == 0 .. (MaxFiles - 1)

Body == [text : Nat, count : 0 .. MaxFiles, bytes : Nat]

NoBody == [text |-> 0, count |-> 0, bytes |-> 0]

Row == [status : Statuses \cup {"none"}, sendAt : 0 .. MaxTime, body : Body, sent : Nat]

NoRow == [status |-> "none", sendAt |-> 0, body |-> NoBody, sent |-> 0]

Job == [draft : Drafts, body : Body]

Mail == [draft : Drafts, opening : Nat, op : {"send", "drain"},
         body : Body, files : [Slots -> Nat]]

Call == [op : {"none", "create", "update", "delete", "send", "drain"},
         draft : Drafts \cup {0}, body : Body, timed : BOOLEAN, sendAt : 0 .. MaxTime,
         oldCount : 0 .. MaxFiles, next : 0 .. MaxFiles, files : [Slots -> Nat],
         opening : Nat, msg : Nat, doomed : SUBSET Slots, queue : Seq(Job)]

NoFiles == [i \in Slots |-> 0]

NoCall == [op |-> "none", draft |-> 0, body |-> NoBody, timed |-> FALSE, sendAt |-> 0,
           oldCount |-> 0, next |-> 0, files |-> NoFiles, opening |-> 0, msg |-> 0,
           doomed |-> {}, queue |-> << >>]

Labels == {"idle", "put", "insert", "write", "reread", "prune", "remove", "purge",
           "claim", "load", "dispatch", "persist", "mark", "sweep", "fail"}

\* A worker inside deleteObjects.
Removing == {"prune", "purge", "sweep"}

\* A worker that won the claim and has not written its outcome to the row yet.
Claiming == {"load", "dispatch", "persist", "mark", "fail"}

\* A worker that won the claim and has not handed the email over yet.
Unsent == {"load", "dispatch"}

StatusFor(sendAt) == IF sendAt = 0 THEN "draft" ELSE "scheduled"

FutureOrNull(sendAt, at) == IF sendAt > at THEN sendAt ELSE 0

-----------------------------------------------------------------------------
(* The statements of src/db/drafts.ts, one atomic D1 write each *)

Opens(d, status) == openings' = [openings EXCEPT ![d] = Append(@, status)]

InsertDraft(d, body, sendAt, status) ==
  /\ drafts' = [drafts EXCEPT ![d] =
                  [status |-> status, sendAt |-> sendAt, body |-> body, sent |-> 0]]
  /\ Opens(d, status)

\* No condition on the status the row has by now.
UpdateDraftRow(d, body, sendAt, status) ==
  /\ drafts' = [drafts EXCEPT ![d].body = body, ![d].sendAt = sendAt, ![d].status = status]
  /\ Opens(d, status)

DeleteDraftRow(d) == drafts' = [drafts EXCEPT ![d] = NoRow]

\* Mutant: an UPDATE that forgot its condition on the status.
ClaimableAnyStatus(d, from) == drafts[d].status # "none" /\ from # {}

Claimable(d, from) == drafts[d].status \in from

\* Mutant: the claim looks at the status and does not write it.
ClaimByLooking(d, from) == Claimable(d, from) /\ UNCHANGED drafts

ClaimDraft(d, from) ==
  /\ Claimable(d, from)
  /\ drafts' = [drafts EXCEPT ![d].status = "sending"]

\* The two marks name the draft only: they write whatever status the row has by
\* now, and nothing when the row is gone.
MarkDraftSent(d, msg) ==
  IF drafts[d].status = "none"
  THEN UNCHANGED drafts
  ELSE drafts' = [drafts EXCEPT ![d].status = "sent", ![d].sent = msg]

MarkDraftFailed(d) ==
  IF drafts[d].status = "none"
  THEN UNCHANGED <<drafts, openings>>
  ELSE /\ drafts' = [drafts EXCEPT ![d].status = "failed"]
       /\ Opens(d, "failed")

Due(at) == {d \in Drafts : /\ drafts[d].status = "scheduled"
                           /\ drafts[d].sendAt # 0
                           /\ drafts[d].sendAt <= at}

DueBefore(c, d) == \/ drafts[c].sendAt < drafts[d].sendAt
                   \/ drafts[c].sendAt = drafts[d].sendAt /\ c < d

\* q is what the SELECT returns: due drafts with the bodies they have now,
\* oldest send_at first, all of them unless the LIMIT cuts the list.
ListDueDrafts(at, limit, q) ==
  LET listed == {q[i].draft : i \in DOMAIN q} IN
  /\ \A i \in DOMAIN q : q[i].body = drafts[q[i].draft].body
  /\ \A i, j \in DOMAIN q : i < j => DueBefore(q[i].draft, q[j].draft)
  /\ \A d \in Due(at) \ listed : \A c \in listed : DueBefore(c, d)
  /\ Len(q) = limit \/ listed = Due(at)

-----------------------------------------------------------------------------
Init ==
  /\ drafts = [d \in Drafts |-> NoRow]
  /\ bucket = [d \in Drafts |-> NoFiles]
  /\ pc = [p \in Workers |-> "idle"]
  /\ call = [p \in Workers |-> NoCall]
  /\ clock = 0
  /\ calls = 0
  /\ kills = 0
  /\ taken = {}
  /\ openings = [d \in Drafts |-> << >>]
  /\ mails = << >>
  /\ stored = {}
  /\ lost = {}

Goto(p, label) == pc' = [pc EXCEPT ![p] = label]

Start(p, label, locals) ==
  /\ pc[p] = "idle"
  /\ Goto(p, label)
  /\ call' = [call EXCEPT ![p] = locals]

DrainCall(q) ==
  [NoCall EXCEPT !.op = "drain", !.draft = Head(q).draft, !.body = Head(q).body,
                 !.queue = Tail(q)]

\* Mutant: the loop over the list carries the position in the attachments over.
EndJobKeepingNext(p) ==
  IF call[p].queue = << >>
  THEN /\ Goto(p, "idle")
       /\ call' = [call EXCEPT ![p] = NoCall]
  ELSE /\ Goto(p, "claim")
       /\ call' = [call EXCEPT ![p] = [DrainCall(@.queue) EXCEPT !.next = call[p].next]]

\* A request ends; a drain goes on to the next draft of its list.
EndJob(p) ==
  IF call[p].queue = << >>
  THEN /\ Goto(p, "idle")
       /\ call' = [call EXCEPT ![p] = NoCall]
  ELSE /\ Goto(p, "claim")
       /\ call' = [call EXCEPT ![p] = DrainCall(call[p].queue)]

-----------------------------------------------------------------------------
(* deleteObjects: R2 takes a list of keys and is atomic per key only *)

Remove(p, label, slots) ==
  /\ Goto(p, label)
  /\ call' = [call EXCEPT ![p].doomed = slots]

\* One key of the list, in no particular order.
RemoveObject(p) ==
  LET c == call[p] IN
  /\ pc[p] \in Removing
  /\ \E i \in c.doomed :
       /\ bucket' = [bucket EXCEPT ![c.draft][i] = 0]
       /\ call' = [call EXCEPT ![p].doomed = @ \ {i}]
  /\ UNCHANGED <<drafts, pc, clock, calls, kills, history>>

RemovalDone(p) ==
  /\ pc[p] \in Removing
  /\ call[p].doomed = {}
  /\ EndJob(p)
  /\ UNCHANGED <<drafts, bucket, clock, calls, kills, history>>

-----------------------------------------------------------------------------
(* createDraft: the objects first, then the row *)

MayCall(op) ==
  /\ op \in UserOps
  /\ calls < MaxCalls
  /\ calls' = calls + 1

CreateCall(rev, d, n, at) ==
  [NoCall EXCEPT !.op = "create", !.draft = d, !.sendAt = at,
                 !.body = [text |-> rev, count |-> n, bytes |-> rev]]

CreateStart(p) ==
  /\ MayCall("create")
  /\ \E d \in Drafts \ taken, n \in 0 .. MaxFiles, at \in 0 .. MaxTime :
       /\ at = 0 \/ at > clock
       /\ taken' = taken \cup {d}
       /\ Start(p, IF n = 0 THEN "insert" ELSE "put", CreateCall(calls + 1, d, n, at))
  /\ UNCHANGED <<drafts, bucket, clock, kills, openings, mails, stored, lost>>

\* Mutant: one put too many.
PutObjectTooMany(p) ==
  LET c == call[p] IN
  /\ pc[p] = "put"
  /\ bucket' = [bucket EXCEPT ![c.draft][c.next] = c.body.bytes]
  /\ call' = [call EXCEPT ![p].next = c.next + 1]
  /\ Goto(p, IF c.next < c.body.count THEN "put"
             ELSE IF c.op = "create" THEN "insert" ELSE "write")
  /\ UNCHANGED <<drafts, clock, calls, kills, history>>

\* One put of putAttachments.
PutObject(p) ==
  LET c == call[p] IN
  /\ pc[p] = "put"
  /\ bucket' = [bucket EXCEPT ![c.draft][c.next] = c.body.bytes]
  /\ call' = [call EXCEPT ![p].next = c.next + 1]
  /\ Goto(p, IF c.next + 1 < c.body.count THEN "put"
             ELSE IF c.op = "create" THEN "insert" ELSE "write")
  /\ UNCHANGED <<drafts, clock, calls, kills, history>>

CreateInsert(p) ==
  LET c == call[p] IN
  /\ pc[p] = "insert"
  /\ InsertDraft(c.draft, c.body, c.sendAt, StatusFor(c.sendAt))
  /\ EndJob(p)
  /\ UNCHANGED <<bucket, clock, calls, kills, taken, mails, stored, lost>>

-----------------------------------------------------------------------------
(* updateDraft *)

\* Fields the input leaves out keep the values of the row as read at the start.
UpdateCall(rev, d, n, replacing, at, timed) ==
  LET row == drafts[d] IN
  [NoCall EXCEPT !.op = "update", !.draft = d, !.oldCount = row.body.count,
                 !.timed = timed, !.sendAt = IF timed THEN at ELSE row.sendAt,
                 !.body = [text  |-> rev,
                           count |-> IF replacing THEN n ELSE row.body.count,
                           bytes |-> IF replacing THEN rev ELSE row.body.bytes]]

\* The row is read and its status checked here, long before the row is written.
UpdateStart(p) ==
  /\ MayCall("update")
  /\ \E d \in Drafts, n \in 0 .. MaxFiles, at \in 0 .. MaxTime, replacing, timed \in BOOLEAN :
       /\ drafts[d].status \in OpenStatuses
       /\ Start(p, IF replacing /\ n > 0 THEN "put" ELSE "write",
                UpdateCall(calls + 1, d, n, replacing, at, timed))
  /\ UNCHANGED <<drafts, bucket, clock, kills, history>>

\* The UPDATE, with the send_at resolved against the clock of this moment.
UpdateWrite(p) ==
  LET c  == call[p]
      at == IF c.timed THEN c.sendAt ELSE FutureOrNull(c.sendAt, clock)
  IN
  /\ pc[p] = "write"
  /\ c.timed /\ c.sendAt # 0 => c.sendAt > clock
  /\ drafts[c.draft].status # "none"
  /\ UpdateDraftRow(c.draft, c.body, at, StatusFor(at))
  /\ Goto(p, "reread")
  /\ UNCHANGED <<bucket, call, clock, calls, kills, taken, mails, stored, lost>>

\* badRequest for a send_at that is not in the future, which is found out after
\* the objects were put, and notFound for a row deleted since it was read.
UpdateRefused(p) ==
  LET c == call[p] IN
  /\ pc[p] = "write"
  /\ \/ c.timed /\ c.sendAt # 0 /\ c.sendAt <= clock
     \/ drafts[c.draft].status = "none"
  /\ EndJob(p)
  /\ UNCHANGED <<drafts, bucket, clock, calls, kills, history>>

\* The SELECT after the UPDATE: a row deleted in between makes the call notFound.
\* The staleKeys are what the replaced list had beyond the new one.
UpdateReread(p) ==
  LET c == call[p] IN
  /\ pc[p] = "reread"
  /\ IF drafts[c.draft].status # "none" /\ c.oldCount > c.body.count
     THEN Remove(p, "prune", c.body.count .. (c.oldCount - 1))
     ELSE EndJob(p)
  /\ UNCHANGED <<drafts, bucket, clock, calls, kills, history>>

-----------------------------------------------------------------------------
(* deleteDraft *)

\* A call that goes by the row of the draft as read at its start.
RowCall(op, d) == [NoCall EXCEPT !.op = op, !.draft = d, !.body = drafts[d].body]

DeleteStart(p) ==
  /\ MayCall("delete")
  /\ \E d \in Drafts :
       /\ drafts[d].status \notin {"none", "sending"}
       /\ Start(p, "remove", RowCall("delete", d))
  /\ UNCHANGED <<drafts, bucket, clock, kills, history>>

\* The DELETE, which a row already gone turns into notFound; then the objects of
\* the body read at the start.
DeleteRemove(p) ==
  LET c == call[p] IN
  /\ pc[p] = "remove"
  /\ IF drafts[c.draft].status = "none"
     THEN EndJob(p) /\ UNCHANGED drafts
     ELSE DeleteDraftRow(c.draft) /\ Remove(p, "purge", 0 .. (c.body.count - 1))
  /\ UNCHANGED <<bucket, clock, calls, kills, history>>

-----------------------------------------------------------------------------
(* sendDraft and drainDueDrafts: claim, dispatch, write the outcome *)

SendStart(p) ==
  /\ MayCall("send")
  /\ \E d \in Drafts :
       /\ drafts[d].status \in OpenStatuses
       /\ Start(p, "claim", RowCall("send", d))
  /\ UNCHANGED <<drafts, bucket, clock, kills, history>>

\* A cron run lists the due drafts; a run that finds none changes nothing.
DrainStart(p) ==
  /\ \E n \in 1 .. DrainBatch :
       \E q \in [1 .. n -> {[draft |-> d, body |-> drafts[d].body] : d \in Due(clock)}] :
         /\ ListDueDrafts(clock, DrainBatch, q)
         /\ Start(p, "claim", DrainCall(q))
  /\ UNCHANGED <<drafts, bucket, clock, calls, kills, history>>

\* Mutant: the drain claims whatever a user may send.
ClaimFromOpen(op) == IF op \in {"send", "drain"} THEN OpenStatuses ELSE {}

ClaimFrom(op) == IF op = "send" THEN OpenStatuses ELSE {"scheduled"}

ClaimWon(p) ==
  LET c == call[p] IN
  /\ pc[p] = "claim"
  /\ ClaimDraft(c.draft, ClaimFrom(c.op))
  /\ call' = [call EXCEPT ![p].opening = Len(openings[c.draft])]
  /\ Goto(p, IF c.next < c.body.count THEN "load" ELSE "dispatch")
  /\ UNCHANGED <<bucket, clock, calls, kills, history>>

ClaimMissed(p) ==
  LET c == call[p] IN
  /\ pc[p] = "claim"
  /\ ~ Claimable(c.draft, ClaimFrom(c.op))
  /\ EndJob(p)
  /\ UNCHANGED <<drafts, bucket, clock, calls, kills, history>>

\* One get of loadAttachments, by the list of the body read before the claim; a
\* missing object is skipped without a word.
LoadObject(p) ==
  LET c == call[p] IN
  /\ pc[p] = "load"
  /\ call' = [call EXCEPT ![p] = [c EXCEPT !.files[c.next] = bucket[c.draft][c.next],
                                          !.next = c.next + 1]]
  /\ Goto(p, IF c.next + 1 < c.body.count THEN "load" ELSE "dispatch")
  /\ UNCHANGED <<drafts, bucket, clock, calls, kills, history>>

\* dispatch: sendMessage or replyToMessage pass their gates and send.
DispatchMail(p) ==
  LET c == call[p] IN
  /\ pc[p] = "dispatch"
  /\ mails' = Append(mails, [draft |-> c.draft, opening |-> c.opening, op |-> c.op,
                             body |-> c.body, files |-> c.files])
  /\ call' = [call EXCEPT ![p].msg = Len(mails) + 1]
  /\ Goto(p, "persist")
  /\ UNCHANGED <<drafts, bucket, clock, calls, kills, taken, openings, stored, lost>>

\* Mutant: a draft the transport refused is put back for the next run.
DispatchRefusedForRetry(p) ==
  /\ pc[p] \in Unsent
  /\ drafts' = [drafts EXCEPT ![call[p].draft].status =
                  IF @ = "sending" THEN "scheduled" ELSE @]
  /\ EndJob(p)
  /\ UNCHANGED <<bucket, clock, calls, kills, history>>

\* Mutant: an error that nobody catches.
DispatchRefusedSilently(p) ==
  /\ pc[p] \in Unsent
  /\ EndJob(p)
  /\ UNCHANGED <<drafts, bucket, clock, calls, kills, history>>

\* An error before the email is out: a get that throws, a deleted inbox or
\* parent, a quota, a suppressed recipient, a transport that refuses.
DispatchRefused(p) ==
  /\ pc[p] \in Unsent
  /\ Goto(p, "fail")
  /\ UNCHANGED <<drafts, bucket, call, clock, calls, kills, history>>

\* persistOutbound stores the message and the rest of its rows.
PersistDone(p) ==
  /\ pc[p] = "persist"
  /\ stored' = stored \cup {call[p].msg}
  /\ Goto(p, "mark")
  /\ UNCHANGED <<drafts, bucket, call, clock, calls, kills, taken, openings, mails, lost>>

\* Mutant: a failure to store the message is swallowed.
PersistSwallows(p) ==
  /\ pc[p] = "persist"
  /\ Goto(p, "mark")
  /\ UNCHANGED <<drafts, bucket, call, clock, calls, kills, history>>

\* Mutant: a failure to store the message sends it again.
PersistRetries(p) ==
  /\ pc[p] = "persist"
  /\ Goto(p, "dispatch")
  /\ UNCHANGED <<drafts, bucket, call, clock, calls, kills, history>>

\* persistOutbound throws, before or after it inserted the message row.
PersistThrows(p) ==
  /\ pc[p] = "persist"
  /\ stored' \in {stored, stored \cup {call[p].msg}}
  /\ Goto(p, "fail")
  /\ UNCHANGED <<drafts, bucket, call, clock, calls, kills, taken, openings, mails, lost>>

MarkSent(p) ==
  LET c == call[p] IN
  /\ pc[p] = "mark"
  /\ MarkDraftSent(c.draft, c.msg)
  /\ IF c.body.count > 0 THEN Remove(p, "sweep", 0 .. (c.body.count - 1)) ELSE EndJob(p)
  /\ UNCHANGED <<bucket, clock, calls, kills, history>>

\* drainOne has the mark and the removal of the objects inside its try: when
\* either throws, the draft whose email is out is marked failed, with as many of
\* its objects gone as the removal got to.
DrainThrowsLate(p) ==
  /\ pc[p] \in {"mark", "sweep"}
  /\ call[p].op = "drain"
  /\ Goto(p, "fail")
  /\ UNCHANGED <<drafts, bucket, call, clock, calls, kills, history>>

\* Mutant: a failed send drops its attachments like a sent one.
MarkFailedSweeping(p) ==
  /\ pc[p] = "fail"
  /\ MarkDraftFailed(call[p].draft)
  /\ bucket' = [bucket EXCEPT ![call[p].draft] = NoFiles]
  /\ EndJob(p)
  /\ UNCHANGED <<clock, calls, kills, taken, mails, stored, lost>>

MarkFailed(p) ==
  /\ pc[p] = "fail"
  /\ MarkDraftFailed(call[p].draft)
  /\ EndJob(p)
  /\ UNCHANGED <<bucket, clock, calls, kills, taken, mails, stored, lost>>

-----------------------------------------------------------------------------
\* The Worker of a call is killed, or an await outside every try throws: nothing
\* the call had left to do happens.
Kill(p) ==
  /\ pc[p] # "idle"
  /\ kills < MaxKills
  /\ kills' = kills + 1
  /\ lost' = IF pc[p] \in Claiming THEN lost \cup {call[p].draft} ELSE lost
  /\ Goto(p, "idle")
  /\ call' = [call EXCEPT ![p] = NoCall]
  /\ UNCHANGED <<drafts, bucket, clock, calls, taken, openings, mails, stored>>

Tick ==
  /\ clock < MaxTime
  /\ clock' = clock + 1
  /\ UNCHANGED <<drafts, bucket, pc, call, calls, kills, history>>

\* A call begins.
Begin(p) ==
  \/ p \in Requests /\ (CreateStart(p) \/ UpdateStart(p) \/ DeleteStart(p) \/ SendStart(p))
  \/ p \in Crons /\ DrainStart(p)

\* A call under way takes its next step.
Step(p) ==
  \/ PutObject(p) \/ CreateInsert(p)
  \/ UpdateWrite(p) \/ UpdateRefused(p) \/ UpdateReread(p)
  \/ DeleteRemove(p) \/ RemoveObject(p) \/ RemovalDone(p)
  \/ ClaimWon(p) \/ ClaimMissed(p) \/ LoadObject(p)
  \/ DispatchMail(p) \/ DispatchRefused(p) \/ PersistDone(p) \/ PersistThrows(p)
  \/ MarkSent(p) \/ DrainThrowsLate(p) \/ MarkFailed(p)

Next == Tick \/ \E p \in Workers : Begin(p) \/ Step(p) \/ Kill(p)

Spec == Init /\ [][Next]_vars

\* The runtime carries a call it has started through to its end, and the trigger
\* fires every minute, so a drain keeps starting while there is work.
Fairness ==
  /\ \A p \in Workers : WF_vars(Step(p))
  /\ \A p \in Crons : WF_vars(DrainStart(p))

FairSpec == Spec /\ Fairness

-----------------------------------------------------------------------------
(* Properties *)

\* Every variable stays within its type.
TypeOK ==
  /\ drafts \in [Drafts -> Row]
  /\ bucket \in [Drafts -> [Slots -> Nat]]
  /\ pc \in [Workers -> Labels]
  /\ call \in [Workers -> Call]
  /\ clock \in 0 .. MaxTime
  /\ calls \in 0 .. MaxCalls
  /\ kills \in 0 .. MaxKills
  /\ taken \subseteq Drafts
  /\ openings \in [Drafts -> Seq(OpenStatuses)]
  /\ mails \in Seq(Mail)
  /\ stored \subseteq Nat
  /\ lost \subseteq Drafts

\* A row is claimed at most once each time a write opens it, and a claim hands
\* over at most one email: however the requests and the overlapping drains
\* interleave, two emails of a draft are always two openings apart
\* (claimDraft in sendDraft and drainOne).
OneMailPerOpening ==
  \A i, j \in 1 .. Len(mails) :
    /\ mails[i].draft = mails[j].draft
    /\ mails[i].opening = mails[j].opening
    => i = j

\* The drain only sends what a create or an update scheduled: a draft that failed
\* is never retried on its own, however often the cron runs over it.
DrainOnlySendsScheduled ==
  \A i \in 1 .. Len(mails) :
    mails[i].op = "drain" => openings[mails[i].draft][mails[i].opening] = "scheduled"

\* A row says "sending" only while the worker that claimed it under its present
\* opening is alive, or was killed: no other path leaves a draft stuck.
SendingIsHeld ==
  \A d \in Drafts :
    drafts[d].status = "sending" =>
      \/ d \in lost
      \/ \E p \in Workers : /\ pc[p] \in Claiming
                            /\ call[p].draft = d
                            /\ call[p].opening = Len(openings[d])

\* A sent draft names a message that went out for this very draft and is stored.
SentIsStored ==
  \A d \in Drafts :
    drafts[d].status = "sent" =>
      /\ drafts[d].sent \in stored \cap (1 .. Len(mails))
      /\ mails[drafts[d].sent].draft = d

\* A stored email of d that a drain handed over: the one way an email that is out
\* leaves its draft open, for a removal that throws is then marked failed.
DrainedAmong(d, mailings) ==
  \E i \in mailings \cap stored : mails[i].draft = d /\ mails[i].op = "drain"

\* While a draft can still be sent, every attachment its body lists is in R2, so a
\* failed send can be repeated whole; only a draft that a drain has already mailed
\* and stored may have lost some, to the removal that follows a successful send
\* (no update replacing attachments in play).
OpenDraftHasFiles ==
  \A d \in Drafts :
    drafts[d].status \in OpenStatuses =>
      \/ \A i \in Slots : i < drafts[d].body.count => bucket[d][i] # 0
      \/ DrainedAmong(d, 1 .. Len(mails))

\* An email carries exactly the attachments the body it was built from lists:
\* loadAttachments finds every object, with the bytes that body was written with,
\* unless a drain mailed and stored the draft before.  So the first email of a
\* draft is never short of a file.
MailCarriesFiles ==
  \A i \in 1 .. Len(mails) :
    \/ \A s \in Slots :
         s < mails[i].body.count => mails[i].files[s] = mails[i].body.bytes
    \/ DrainedAmong(mails[i].draft, 1 .. (i - 1))

\* A drain never claims a draft whose send_at is still to come (drainOne claims by
\* the status alone).
NeverEarly ==
  [][\A p \in Crons :
       pc[p] = "claim" /\ pc'[p] \in Unsent => drafts[call[p].draft].sendAt <= clock]_vars

\* A draft that is being sent or was sent is never updated.
ClosedIsNotUpdated ==
  [][\A d \in Drafts :
       drafts[d].status \in {"sending", "sent"} => drafts'[d].status \notin {"draft", "scheduled"}]_vars

\* A draft that is being sent is never deleted.
SendingIsNotDeleted ==
  [][\A d \in Drafts : drafts[d].status = "sending" => drafts'[d].status # "none"]_vars

\* A failed draft is one whose send failed: no email of it went out.
FailedWasNotSent ==
  \A d \in Drafts :
    drafts[d].status = "failed" => \A i \in 1 .. Len(mails) : mails[i].draft # d

\* Every draft that falls due is taken by a drain or moved out of its way by the
\* user, however many drafts compete for the DrainBatch of a run.
DueIsTaken == \A d \in Drafts : d \in Due(clock) ~> d \notin Due(clock)

\* Unless its worker is killed, a claimed draft leaves "sending".
ClaimIsResolved ==
  \A d \in Drafts : drafts[d].status = "sending" ~> drafts[d].status # "sending"

-----------------------------------------------------------------------------
(* The inductive invariant behind OneMailPerOpening, DrainOnlySendsScheduled, *)
(* SendingIsHeld and SentIsStored                                             *)

\* The local variables a label relies on are set.
FitsLabel(c, label) ==
  /\ label # "idle" => c.draft \in Drafts
  /\ label \in {"put", "load"} => c.next < c.body.count
  /\ label \in {"claim", "sweep"} \cup Claiming => c.op \in {"send", "drain"}

CallFitsLabel == \A p \in Workers : FitsLabel(call[p], pc[p])

\* An open row carries the status it was last opened with.
RowFitsOpening ==
  \A d \in Drafts :
    drafts[d].status \in OpenStatuses =>
      /\ openings[d] # << >>
      /\ openings[d][Len(openings[d])] = drafts[d].status

Used(d, opening) ==
  \E i \in 1 .. Len(mails) : mails[i].draft = d /\ mails[i].opening = opening

Holds(p, d, opening) ==
  pc[p] \in Unsent /\ call[p].draft = d /\ call[p].opening = opening

\* A claim in hand is of an opening that has happened, has not been used, and is
\* not in another worker's hand; the opening of an open row is in nobody's hand.
ClaimsAreFresh ==
  /\ \A p \in Workers :
       pc[p] \in Unsent =>
         /\ call[p].opening \in 1 .. Len(openings[call[p].draft])
         /\ ~ Used(call[p].draft, call[p].opening)
         /\ \A q \in Workers : Holds(q, call[p].draft, call[p].opening) => p = q
         /\ call[p].op = "drain" =>
              openings[call[p].draft][call[p].opening] = "scheduled"
  /\ \A d \in Drafts :
       drafts[d].status \in OpenStatuses =>
         /\ ~ Used(d, Len(openings[d]))
         /\ \A p \in Workers : ~ Holds(p, d, Len(openings[d]))
  /\ \A i \in 1 .. Len(mails) : mails[i].opening \in 1 .. Len(openings[mails[i].draft])

\* The message a worker is about to name in the row went out for its draft.
MessageInHand ==
  \A p \in Workers :
    pc[p] \in {"persist", "mark"} =>
      /\ call[p].msg \in 1 .. Len(mails)
      /\ mails[call[p].msg].draft = call[p].draft
      /\ pc[p] = "mark" => call[p].msg \in stored

ClaimInvariant ==
  /\ TypeOK
  /\ CallFitsLabel
  /\ RowFitsOpening
  /\ ClaimsAreFresh
  /\ MessageInHand
  /\ OneMailPerOpening
  /\ DrainOnlySendsScheduled
  /\ SendingIsHeld
  /\ SentIsStored

-----------------------------------------------------------------------------
\* The permits of DraftDelivery: an open row is one, and so is a claim whose email
\* is not out yet.
Permits ==
  {<<d, Len(openings[d])>> : d \in {e \in Drafts : drafts[e].status \in OpenStatuses}}
    \cup {<<call[p].draft, call[p].opening>> : p \in {w \in Workers : pc[w] \in Unsent}}

Delivery ==
  INSTANCE DraftDelivery WITH
    granted   <- [d \in Drafts |-> Len(openings[d])],
    permits   <- Permits,
    delivered <- [i \in DOMAIN mails |-> <<mails[i].draft, mails[i].opening>>]

\* The draft lifecycle implements DraftDelivery.
DeliverySpec == Delivery!Spec
=============================================================================
