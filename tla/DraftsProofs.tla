---------------------------- MODULE DraftsProofs ----------------------------
(***************************************************************************)
(* Proofs about Drafts, for any number of drafts, requests and cron runs   *)
(* and any bounds.  ClaimInvariant is inductive: a claim is the only way   *)
(* to an email, it takes the row out of its open statuses in the same      *)
(* statement that tests them, and only a write opens the row again.        *)
(***************************************************************************)
EXTENDS Drafts, SequenceTheorems, TLAPS

USE DraftsAssumption

-----------------------------------------------------------------------------
(* Types *)

\* The constant records are of their types.
LEMMA ConstantTypes ==
  /\ NoBody \in Body
  /\ NoFiles \in [Slots -> Nat]
  /\ NoRow \in Row
  /\ NoCall \in Call
<1>1. NoBody \in Body
  BY DEF NoBody, Body
<1>2. NoFiles \in [Slots -> Nat]
  BY DEF NoFiles
<1>3. NoRow \in Row
  BY <1>1 DEF NoRow, Row
<1>4. NoCall \in Call
  BY <1>1, <1>2 DEF NoCall, Call
<1>5. QED
  BY <1>1, <1>2, <1>3, <1>4

\* The next call of a drain is a call.
LEMMA DrainCallType ==
  ASSUME NEW q \in Seq(Job), q # << >>
  PROVE  /\ DrainCall(q) \in Call
         /\ DrainCall(q).op = "drain"
         /\ DrainCall(q).draft \in Drafts
<1>1. Head(q) \in Job /\ Tail(q) \in Seq(Job)
  OBVIOUS
<1>2. QED
  BY <1>1, ConstantTypes DEF DrainCall, NoCall, Call, Job

Typed == TypeOK /\ CallFitsLabel

TypedLocals ==
  /\ pc \in [Workers -> Labels]
  /\ call \in [Workers -> Call]
  /\ CallFitsLabel

\* A worker that moves to a label its new local variables fit keeps the locals typed.
LEMMA MoveFacts ==
  ASSUME TypedLocals, NEW p \in Workers, NEW c \in Call, NEW label \in Labels,
         FitsLabel(c, label),
         pc' = [pc EXCEPT ![p] = label],
         call' = [call EXCEPT ![p] = c]
  PROVE  TypedLocals'
<1>1. pc' \in [Workers -> Labels] /\ call' \in [Workers -> Call]
  BY DEF TypedLocals
<1>2. ASSUME NEW q \in Workers
      PROVE  FitsLabel(call'[q], pc'[q])
  <2>1. CASE q = p
    BY <2>1 DEF TypedLocals
  <2>2. CASE q # p
    <3>1. pc'[q] = pc[q] /\ call'[q] = call[q]
      BY <2>2 DEF TypedLocals
    <3>2. QED
      BY <3>1 DEF TypedLocals, CallFitsLabel
  <2>3. QED
    BY <2>1, <2>2
<1>3. QED
  BY <1>1, <1>2 DEF TypedLocals, CallFitsLabel

\* A call that begins gets its locals and leaves those of the others alone.
LEMMA StartFacts ==
  ASSUME TypedLocals, NEW p \in Workers, NEW c \in Call, NEW label \in Labels,
         FitsLabel(c, label), Start(p, label, c)
  PROVE  TypedLocals'
BY MoveFacts DEF Start, Goto

\* A step that only moves on keeps the locals typed.
LEMMA GotoFacts ==
  ASSUME TypedLocals, NEW p \in Workers, NEW label \in Labels,
         FitsLabel(call[p], label), Goto(p, label), UNCHANGED call
  PROVE  TypedLocals'
<1>1. call' = [call EXCEPT ![p] = call[p]]
  BY DEF TypedLocals
<1>2. QED
  BY <1>1, MoveFacts DEF Goto, TypedLocals

\* Locals with other keys to remove are locals of the same draft.
LEMMA DoomedType ==
  ASSUME NEW c \in Call, NEW slots \in SUBSET Slots
  PROVE  LET d == [c EXCEPT !.doomed = slots] IN
         /\ d \in Call
         /\ d.op = c.op /\ d.draft = c.draft /\ d.body = c.body /\ d.next = c.next
         /\ d.msg = c.msg /\ d.opening = c.opening /\ d.queue = c.queue
         /\ \A label : FitsLabel(c, label) => FitsLabel(d, label)
BY DEF Call, FitsLabel

\* A removal begins with the keys it is given.
LEMMA RemoveFacts ==
  ASSUME TypedLocals, NEW p \in Workers, NEW label \in Labels, NEW slots \in SUBSET Slots,
         FitsLabel(call[p], label), Remove(p, label, slots)
  PROVE  TypedLocals'
<1>1. PICK c \in Call : c = call[p]
  BY DEF TypedLocals
<1>2. PICK d \in Call : d = [c EXCEPT !.doomed = slots]
  BY DoomedType
<1>3. call' = [call EXCEPT ![p] = d] /\ pc' = [pc EXCEPT ![p] = label]
  BY <1>1, <1>2 DEF Remove, Goto
<1>4. FitsLabel(d, label)
  BY <1>1, <1>2, DoomedType
<1>5. QED
  BY <1>3, <1>4, MoveFacts

\* The end of a job keeps the locals typed and takes no claim in hand.
LEMMA EndJobFacts ==
  ASSUME TypedLocals, NEW p \in Workers, EndJob(p)
  PROVE  /\ TypedLocals'
         /\ pc'[p] \in {"idle", "claim"}
<1>1. call[p].queue \in Seq(Job)
  BY DEF TypedLocals, Call
<1>2. CASE call[p].queue = << >>
  <2>1. FitsLabel(NoCall, "idle")
    BY DEF FitsLabel, Claiming
  <2>2. QED
    BY <1>2, <2>1, ConstantTypes, MoveFacts DEF EndJob, Goto, TypedLocals, Labels
<1>3. CASE call[p].queue # << >>
  <2>1. DrainCall(call[p].queue) \in Call /\ FitsLabel(DrainCall(call[p].queue), "claim")
    BY <1>1, <1>3, DrainCallType DEF FitsLabel, Claiming
  <2>2. QED
    BY <1>3, <2>1, MoveFacts DEF EndJob, Goto, TypedLocals, Labels
<1>4. QED
  BY <1>2, <1>3

\* A call counted keeps the count within its bound.
LEMMA MayCallFacts ==
  ASSUME TypeOK, NEW op, MayCall(op)
  PROVE  calls' \in 0 .. MaxCalls /\ calls' \in Nat
<1>1. calls \in 0 .. MaxCalls /\ calls < MaxCalls /\ calls' = calls + 1
  BY DEF MayCall, TypeOK
<1>2. QED
  BY <1>1

\* The locals each call starts with are a call.
LEMMA CreateCallType ==
  ASSUME NEW rev \in Nat, NEW d \in Drafts, NEW n \in 0 .. MaxFiles, NEW at \in 0 .. MaxTime
  PROVE  /\ CreateCall(rev, d, n, at) \in Call
         /\ CreateCall(rev, d, n, at).draft = d
         /\ CreateCall(rev, d, n, at).next = 0
         /\ CreateCall(rev, d, n, at).body.count = n
<1>1. [text |-> rev, count |-> n, bytes |-> rev] \in Body
  BY DEF Body
<1>2. QED
  BY <1>1, ConstantTypes DEF CreateCall, NoCall, Call

\* The locals of an update are of their type.
LEMMA UpdateCallType ==
  ASSUME TypeOK, NEW rev \in Nat, NEW d \in Drafts, NEW n \in 0 .. MaxFiles,
         NEW replacing \in BOOLEAN, NEW at \in 0 .. MaxTime, NEW timed \in BOOLEAN
  PROVE  /\ UpdateCall(rev, d, n, replacing, at, timed) \in Call
         /\ UpdateCall(rev, d, n, replacing, at, timed).draft = d
         /\ UpdateCall(rev, d, n, replacing, at, timed).next = 0
         /\ replacing => UpdateCall(rev, d, n, replacing, at, timed).body.count = n
<1>1. /\ drafts[d].body.count \in 0 .. MaxFiles
      /\ drafts[d].body.bytes \in Nat
      /\ drafts[d].sendAt \in 0 .. MaxTime
  BY DEF TypeOK, Row, Body
<1> DEFINE body == [text  |-> rev,
                    count |-> IF replacing THEN n ELSE drafts[d].body.count,
                    bytes |-> IF replacing THEN rev ELSE drafts[d].body.bytes]
           when == IF timed THEN at ELSE drafts[d].sendAt
<1>2. body \in Body /\ (replacing => body.count = n)
  BY <1>1 DEF Body
<1>3. when \in 0 .. MaxTime
  BY <1>1
<1> HIDE DEF body, when
<1>4. UpdateCall(rev, d, n, replacing, at, timed)
        = [NoCall EXCEPT !.op = "update", !.draft = d, !.oldCount = drafts[d].body.count,
                         !.timed = timed, !.sendAt = when, !.body = body]
  BY DEF UpdateCall, body, when
<1>5. UpdateCall(rev, d, n, replacing, at, timed)
        = [op |-> "update", draft |-> d, body |-> body, timed |-> timed, sendAt |-> when,
           oldCount |-> drafts[d].body.count, next |-> 0, files |-> NoFiles,
           opening |-> 0, msg |-> 0, doomed |-> {},
           queue |-> << >>]
  BY <1>4 DEF NoCall
<1>6. QED
  BY <1>1, <1>2, <1>3, <1>5, ConstantTypes DEF Call

\* The locals of a delete or a send are of their type.
LEMMA RowCallType ==
  ASSUME TypeOK, NEW d \in Drafts, NEW op \in {"delete", "send"}
  PROVE  /\ RowCall(op, d) \in Call
         /\ RowCall(op, d).draft = d
         /\ RowCall(op, d).op = op
<1>1. drafts[d].body \in Body
  BY DEF TypeOK, Row
<1>2. QED
  BY <1>1, ConstantTypes DEF RowCall, NoCall, Call

\* The first step of each call.
LEMMA TypedBegin ==
  ASSUME Typed, NEW p \in Workers, Begin(p)
  PROVE  Typed'
<1> USE DEF Typed
<1>0. TypedLocals
  BY DEF TypedLocals, TypeOK
<1>1. CASE CreateStart(p)
  <2>1. PICK d \in Drafts \ taken, n \in 0 .. MaxFiles, at \in 0 .. MaxTime :
          /\ taken' = taken \cup {d}
          /\ Start(p, IF n = 0 THEN "insert" ELSE "put", CreateCall(calls + 1, d, n, at))
    BY <1>1 DEF CreateStart
  <2>2. calls' \in 0 .. MaxCalls /\ calls + 1 \in Nat
    BY <1>1, MayCallFacts DEF CreateStart, MayCall
  <2> DEFINE c == CreateCall(calls + 1, d, n, at)
             label == IF n = 0 THEN "insert" ELSE "put"
  <2>3. c \in Call /\ c.draft = d /\ c.next = 0 /\ c.body.count = n
    BY <2>2, CreateCallType
  <2> HIDE DEF c
  <2>4. label \in Labels /\ FitsLabel(c, label)
    BY <2>3 DEF Labels, FitsLabel, Claiming
  <2>5. TypedLocals'
    BY <1>0, <2>1, <2>3, <2>4, StartFacts DEF c
  <2>6. QED
    BY <1>1, <2>1, <2>2, <2>5 DEF CreateStart, TypedLocals, TypeOK
<1>2. CASE UpdateStart(p)
  <2>1. PICK d \in Drafts, n \in 0 .. MaxFiles, at \in 0 .. MaxTime,
             replacing \in BOOLEAN, timed \in BOOLEAN :
          Start(p, IF replacing /\ n > 0 THEN "put" ELSE "write",
                UpdateCall(calls + 1, d, n, replacing, at, timed))
    BY <1>2 DEF UpdateStart
  <2>2. calls' \in 0 .. MaxCalls /\ calls + 1 \in Nat
    BY <1>2, MayCallFacts DEF UpdateStart, MayCall
  <2> DEFINE c == UpdateCall(calls + 1, d, n, replacing, at, timed)
             label == IF replacing /\ n > 0 THEN "put" ELSE "write"
  <2>3. c \in Call /\ c.draft = d /\ c.next = 0 /\ (replacing => c.body.count = n)
    BY <2>2, UpdateCallType
  <2> HIDE DEF c
  <2>4. label \in Labels /\ FitsLabel(c, label)
    BY <2>3 DEF Labels, FitsLabel, Claiming
  <2>5. TypedLocals'
    BY <1>0, <2>1, <2>3, <2>4, StartFacts DEF c
  <2>6. QED
    BY <1>2, <2>2, <2>5 DEF UpdateStart, TypedLocals, TypeOK, history
<1>3. CASE DeleteStart(p) \/ SendStart(p)
  <2>1. PICK d \in Drafts, op \in {"delete", "send"} :
          Start(p, IF op = "delete" THEN "remove" ELSE "claim", RowCall(op, d))
    BY <1>3 DEF DeleteStart, SendStart
  <2>2. calls' \in 0 .. MaxCalls
    BY <1>3, MayCallFacts DEF DeleteStart, SendStart
  <2> DEFINE c == RowCall(op, d)
             label == IF op = "delete" THEN "remove" ELSE "claim"
  <2>3. c \in Call /\ c.draft = d /\ c.op = op
    BY RowCallType
  <2> HIDE DEF c
  <2>4. label \in Labels /\ FitsLabel(c, label)
    BY <2>3 DEF Labels, FitsLabel, Claiming
  <2>5. TypedLocals'
    BY <1>0, <2>1, <2>3, <2>4, StartFacts DEF c
  <2>6. QED
    BY <1>3, <2>2, <2>5 DEF DeleteStart, SendStart, TypedLocals, TypeOK, history
<1>4. CASE DrainStart(p)
  <2>1. PICK n \in 1 .. DrainBatch :
          \E q \in [1 .. n -> {[draft |-> d, body |-> drafts[d].body] : d \in Due(clock)}] :
            Start(p, "claim", DrainCall(q))
    BY <1>4 DEF DrainStart
  <2>2. PICK q \in [1 .. n -> {[draft |-> d, body |-> drafts[d].body] : d \in Due(clock)}] :
          Start(p, "claim", DrainCall(q))
    BY <2>1
  <2>3. \A d \in Due(clock) : [draft |-> d, body |-> drafts[d].body] \in Job
    BY DEF Due, Job, TypeOK, Row
  <2>4. q \in Seq(Job) /\ q # << >>
    <3>1. n \in Nat \ {0} /\ q \in [1 .. n -> Job]
      BY <2>3
    <3>2. q \in Seq(Job) /\ Len(q) = n
      BY <3>1
    <3>3. QED
      BY <3>1, <3>2
  <2> DEFINE c == DrainCall(q)
  <2>5. c \in Call /\ c.op = "drain" /\ c.draft \in Drafts
    BY <2>4, DrainCallType
  <2> HIDE DEF c
  <2>6. "claim" \in Labels /\ FitsLabel(c, "claim")
    BY <2>5 DEF Labels, FitsLabel, Claiming
  <2>7. TypedLocals'
    BY <1>0, <2>2, <2>5, <2>6, StartFacts DEF c
  <2>8. QED
    BY <1>4, <2>7 DEF DrainStart, TypedLocals, TypeOK, history
<1>5. QED
  BY <1>1, <1>2, <1>3, <1>4 DEF Begin

\* Append keeps the record of openings typed.
LEMMA OpensType ==
  ASSUME TypeOK, NEW d \in Drafts, NEW status \in OpenStatuses, Opens(d, status)
  PROVE  openings' \in [Drafts -> Seq(OpenStatuses)]
BY DEF Opens, TypeOK

\* The bucket stays typed when objects of a draft are put or dropped.
LEMMA BucketType ==
  ASSUME TypeOK, NEW d \in Drafts, NEW files \in [Slots -> Nat],
         bucket' = [bucket EXCEPT ![d] = files]
  PROVE  bucket' \in [Drafts -> [Slots -> Nat]]
BY DEF TypeOK

\* The table stays typed when the row of a draft becomes another row.
LEMMA RowType ==
  ASSUME TypeOK, NEW d \in Drafts, NEW row \in Row, drafts' = [drafts EXCEPT ![d] = row]
  PROVE  drafts' \in [Drafts -> Row]
BY DEF TypeOK

\* The statements of src/db/drafts.ts keep the table and the openings typed.
LEMMA StatementTypes ==
  ASSUME TypeOK, NEW d \in Drafts, NEW body \in Body, NEW sendAt \in 0 .. MaxTime, NEW msg \in Nat
  PROVE  /\ InsertDraft(d, body, sendAt, StatusFor(sendAt)) =>
              /\ drafts' \in [Drafts -> Row]
              /\ openings' \in [Drafts -> Seq(OpenStatuses)]
         /\ UpdateDraftRow(d, body, sendAt, StatusFor(sendAt)) =>
              /\ drafts' \in [Drafts -> Row]
              /\ openings' \in [Drafts -> Seq(OpenStatuses)]
         /\ DeleteDraftRow(d) => drafts' \in [Drafts -> Row]
         /\ \A from : ClaimDraft(d, from) => drafts' \in [Drafts -> Row]
         /\ MarkDraftSent(d, msg) => drafts' \in [Drafts -> Row]
         /\ MarkDraftFailed(d) =>
              /\ drafts' \in [Drafts -> Row]
              /\ openings' \in [Drafts -> Seq(OpenStatuses)]
<1>1. StatusFor(sendAt) \in OpenStatuses
  BY DEF StatusFor, OpenStatuses
<1>2. drafts \in [Drafts -> Row] /\ drafts[d] \in Row
  BY DEF TypeOK
<1>3. ASSUME InsertDraft(d, body, sendAt, StatusFor(sendAt))
      PROVE  drafts' \in [Drafts -> Row] /\ openings' \in [Drafts -> Seq(OpenStatuses)]
  <2>1. [status |-> StatusFor(sendAt), sendAt |-> sendAt, body |-> body, sent |-> 0] \in Row
    BY <1>1 DEF Row, Statuses
  <2>2. QED
    BY <1>1, <1>3, <2>1, RowType, OpensType DEF InsertDraft
<1>4. ASSUME UpdateDraftRow(d, body, sendAt, StatusFor(sendAt))
      PROVE  drafts' \in [Drafts -> Row] /\ openings' \in [Drafts -> Seq(OpenStatuses)]
  <2>1. drafts' \in [Drafts -> Row]
    BY <1>1, <1>2, <1>4 DEF UpdateDraftRow, Row, Statuses
  <2>2. QED
    BY <1>1, <1>4, <2>1, OpensType DEF UpdateDraftRow
<1>5. ASSUME DeleteDraftRow(d)
      PROVE  drafts' \in [Drafts -> Row]
  BY <1>5, RowType, ConstantTypes DEF DeleteDraftRow
<1>6. ASSUME NEW from, ClaimDraft(d, from)
      PROVE  drafts' \in [Drafts -> Row]
  BY <1>2, <1>6 DEF ClaimDraft, Row, Statuses
<1>7. ASSUME MarkDraftSent(d, msg)
      PROVE  drafts' \in [Drafts -> Row]
  BY <1>2, <1>7 DEF MarkDraftSent, Row, Statuses
<1>8. ASSUME MarkDraftFailed(d)
      PROVE  drafts' \in [Drafts -> Row] /\ openings' \in [Drafts -> Seq(OpenStatuses)]
  <2>1. "failed" \in OpenStatuses
    BY DEF OpenStatuses
  <2>2. drafts' \in [Drafts -> Row]
    BY <1>2, <1>8 DEF MarkDraftFailed, Row, Statuses, OpenStatuses
  <2>3. CASE UNCHANGED openings
    BY <2>2, <2>3 DEF TypeOK
  <2>4. CASE Opens(d, "failed")
    BY <2>1, <2>2, <2>4, OpensType
  <2>5. QED
    BY <1>8, <2>3, <2>4 DEF MarkDraftFailed
<1>9. QED
  BY <1>3, <1>4, <1>5, <1>6, <1>7, <1>8

\* The keys of a list of attachments, or of its tail.
LEMMA SlotRanges ==
  ASSUME NEW m \in 0 .. MaxFiles, NEW n \in 0 .. MaxFiles
  PROVE  (m .. (n - 1)) \in SUBSET Slots /\ (0 .. (n - 1)) \in SUBSET Slots
BY DraftsAssumption DEF Slots

\* The next step of a call under way.
LEMMA TypedStep ==
  ASSUME Typed, NEW p \in Workers, Step(p)
  PROVE  Typed'
<1> USE DEF Typed
<1> DEFINE c == call[p]
<1>0. /\ TypedLocals
      /\ c \in Call
      /\ FitsLabel(c, pc[p])
      /\ pc[p] \in Labels
  BY DEF TypedLocals, TypeOK, CallFitsLabel
<1>1. /\ c.body \in Body
      /\ c.body.count \in 0 .. MaxFiles
      /\ c.body.bytes \in Nat
      /\ c.sendAt \in 0 .. MaxTime
      /\ c.next \in 0 .. MaxFiles
      /\ c.oldCount \in 0 .. MaxFiles
      /\ c.files \in [Slots -> Nat]
      /\ c.opening \in Nat
      /\ c.msg \in Nat
  BY <1>0 DEF Call, Body
<1>2. CASE PutObject(p)
  <2>1. c.draft \in Drafts /\ c.next < c.body.count /\ c.next \in Slots
    BY SMTT(30), <1>0, <1>1, <1>2 DEF PutObject, FitsLabel, Slots
  <2> DEFINE d == [c EXCEPT !.next = c.next + 1]
             label == IF c.next + 1 < c.body.count THEN "put"
                      ELSE IF c.op = "create" THEN "insert" ELSE "write"
  <2>2. c.next + 1 \in 0 .. MaxFiles
    BY <1>1, <2>1
  <2>3. d \in Call /\ d.draft = c.draft /\ d.body = c.body /\ d.next = c.next + 1
    BY <1>0, <2>2 DEF Call
  <2>4. label \in Labels /\ FitsLabel(d, label)
    BY <2>1, <2>3 DEF Labels, FitsLabel, Claiming
  <2>5. call' = [call EXCEPT ![p] = d] /\ pc' = [pc EXCEPT ![p] = label]
    BY <1>2 DEF PutObject, Goto
  <2> HIDE DEF d, label
  <2>6. TypedLocals'
    BY <1>0, <2>3, <2>4, <2>5, MoveFacts
  <2>7. bucket' \in [Drafts -> [Slots -> Nat]]
    BY <1>1, <1>2, <2>1 DEF PutObject, TypeOK
  <2>8. QED
    BY <1>2, <2>6, <2>7 DEF PutObject, TypedLocals, TypeOK, history
<1>3. CASE CreateInsert(p)
  <2>1. c.draft \in Drafts
    BY <1>0, <1>3 DEF CreateInsert, FitsLabel
  <2>2. drafts' \in [Drafts -> Row] /\ openings' \in [Drafts -> Seq(OpenStatuses)]
    BY <1>1, <1>3, <2>1, StatementTypes DEF CreateInsert
  <2>3. TypedLocals'
    BY <1>0, <1>3, EndJobFacts DEF CreateInsert
  <2>4. QED
    BY <1>3, <2>2, <2>3 DEF CreateInsert, TypedLocals, TypeOK
<1>4. CASE UpdateWrite(p)
  <2>1. c.draft \in Drafts
    BY <1>0, <1>4 DEF UpdateWrite, FitsLabel
  <2> DEFINE at == IF c.timed THEN c.sendAt ELSE FutureOrNull(c.sendAt, clock)
  <2>2. at \in 0 .. MaxTime
    BY <1>1 DEF FutureOrNull
  <2>3. UpdateDraftRow(c.draft, c.body, at, StatusFor(at))
    BY <1>4 DEF UpdateWrite
  <2> HIDE DEF at
  <2>4. drafts' \in [Drafts -> Row] /\ openings' \in [Drafts -> Seq(OpenStatuses)]
    BY <1>1, <2>1, <2>2, <2>3, StatementTypes
  <2>5. "reread" \in Labels /\ FitsLabel(c, "reread")
    BY <2>1 DEF Labels, FitsLabel, Claiming
  <2>6. TypedLocals'
    BY <1>0, <1>4, <2>5, GotoFacts DEF UpdateWrite
  <2>7. QED
    BY <1>4, <2>4, <2>6 DEF UpdateWrite, TypedLocals, TypeOK
<1>5. CASE UpdateRefused(p) \/ ClaimMissed(p) \/ RemovalDone(p)
  <2>1. TypedLocals'
    BY <1>0, <1>5, EndJobFacts DEF UpdateRefused, ClaimMissed, RemovalDone
  <2>2. QED
    BY <1>5, <2>1 DEF UpdateRefused, ClaimMissed, RemovalDone, TypedLocals, TypeOK, history
<1>6. CASE UpdateReread(p)
  <2>1. c.draft \in Drafts
    BY <1>0, <1>6 DEF UpdateReread, FitsLabel
  <2>2. "prune" \in Labels /\ FitsLabel(c, "prune")
    BY <2>1 DEF Labels, FitsLabel, Claiming
  <2>3. TypedLocals'
    BY <1>0, <1>1, <1>6, <2>2, EndJobFacts, RemoveFacts, SlotRanges DEF UpdateReread
  <2>4. QED
    BY <1>6, <2>3 DEF UpdateReread, TypedLocals, TypeOK, history
<1>7. CASE RemoveObject(p)
  <2>1. c.draft \in Drafts
    BY <1>0, <1>7 DEF RemoveObject, Removing, FitsLabel
  <2>2. PICK i \in c.doomed : /\ bucket' = [bucket EXCEPT ![c.draft][i] = 0]
                              /\ call' = [call EXCEPT ![p].doomed = @ \ {i}]
    BY <1>7 DEF RemoveObject
  <2>3. c.doomed \in SUBSET Slots
    BY <1>0 DEF Call
  <2>4. bucket' \in [Drafts -> [Slots -> Nat]]
    BY <2>1, <2>2, <2>3 DEF TypeOK
  <2>5. PICK d \in Call : d = [c EXCEPT !.doomed = c.doomed \ {i}]
    BY <1>0, <2>3, DoomedType
  <2>6. FitsLabel(d, pc[p])
    BY <1>0, <2>3, <2>5, DoomedType
  <2>7. call' = [call EXCEPT ![p] = d] /\ pc' = [pc EXCEPT ![p] = pc[p]]
    BY <1>7, <2>2, <2>5 DEF RemoveObject, TypeOK
  <2> HIDE DEF c
  <2>8. TypedLocals'
    BY <1>0, <2>6, <2>7, MoveFacts
  <2>9. QED
    BY <1>7, <2>4, <2>8 DEF RemoveObject, TypedLocals, TypeOK, history
<1>8. CASE DeleteRemove(p)
  <2>1. c.draft \in Drafts
    BY <1>0, <1>8 DEF DeleteRemove, FitsLabel
  <2>2. drafts' \in [Drafts -> Row]
    BY <1>1, <1>8, <2>1, StatementTypes DEF DeleteRemove, TypeOK
  <2>3. "purge" \in Labels /\ FitsLabel(c, "purge")
    BY <2>1 DEF Labels, FitsLabel, Claiming
  <2>4. TypedLocals'
    BY <1>0, <1>1, <1>8, <2>3, EndJobFacts, RemoveFacts, SlotRanges DEF DeleteRemove
  <2>5. QED
    BY <1>8, <2>2, <2>4 DEF DeleteRemove, TypedLocals, TypeOK, history
<1>9. CASE ClaimWon(p)
  <2>1. c.draft \in Drafts /\ c.op \in {"send", "drain"} /\ c.next \in 0 .. MaxFiles
    BY <1>0, <1>1, <1>9 DEF ClaimWon, FitsLabel
  <2>2. drafts' \in [Drafts -> Row]
    BY <1>1, <1>9, <2>1, StatementTypes DEF ClaimWon
  <2>3. Len(openings[c.draft]) \in Nat
    BY <2>1 DEF TypeOK
  <2> DEFINE d == [c EXCEPT !.opening = Len(openings[c.draft])]
             label == IF c.next < c.body.count THEN "load" ELSE "dispatch"
  <2>4. d \in Call /\ d.draft = c.draft /\ d.op = c.op /\ d.next = c.next /\ d.body = c.body
    BY <1>0, <2>3 DEF Call
  <2>5. call' = [call EXCEPT ![p] = d] /\ pc' = [pc EXCEPT ![p] = label]
    BY <1>9 DEF ClaimWon, Goto
  <2>6. label \in Labels /\ FitsLabel(d, label)
    BY <2>1, <2>4 DEF Labels, FitsLabel
  <2> HIDE DEF d, label
  <2>7. TypedLocals'
    BY <1>0, <2>4, <2>5, <2>6, MoveFacts
  <2>8. QED
    BY <1>9, <2>2, <2>7 DEF ClaimWon, TypedLocals, TypeOK, history
<1>10. CASE LoadObject(p)
  <2>1. /\ c.draft \in Drafts /\ c.next < c.body.count /\ c.op \in {"send", "drain"}
        /\ c.next \in Slots
    BY SMTT(30), <1>0, <1>1, <1>10 DEF LoadObject, FitsLabel, Claiming, Slots
  <2> DEFINE files == [c.files EXCEPT ![c.next] = bucket[c.draft][c.next]]
             d == [c EXCEPT !.files[c.next] = bucket[c.draft][c.next], !.next = c.next + 1]
             label == IF c.next + 1 < c.body.count THEN "load" ELSE "dispatch"
  <2>2. c.next + 1 \in 0 .. MaxFiles
    BY <1>1, <2>1
  <2>3. files \in [Slots -> Nat]
    <3>1. bucket[c.draft] \in [Slots -> Nat]
      BY <2>1 DEF TypeOK
    <3>2. bucket[c.draft][c.next] \in Nat
      BY <2>1, <3>1
    <3>3. c.files \in [Slots -> Nat]
      BY <1>1
    <3> HIDE DEF c, Typed
    <3>4. QED
      BY <3>2, <3>3
  <2>4. call' = [call EXCEPT ![p] = d] /\ pc' = [pc EXCEPT ![p] = label]
    BY <1>10 DEF LoadObject, Goto
  <2> HIDE DEF files
  <2>5. d \in Call /\ d.draft = c.draft /\ d.op = c.op /\ d.next = c.next + 1 /\ d.body = c.body
    BY <1>0, <2>2, <2>3 DEF Call, files
  <2>6. label \in Labels /\ FitsLabel(d, label)
    BY <2>1, <2>5 DEF Labels, FitsLabel
  <2> HIDE DEF d, label
  <2>7. TypedLocals'
    BY <1>0, <2>4, <2>5, <2>6, MoveFacts
  <2>8. QED
    BY <1>10, <2>7 DEF LoadObject, TypedLocals, TypeOK, history
<1>11. CASE DispatchMail(p)
  <2>1. c.draft \in Drafts /\ c.op \in {"send", "drain"}
    BY <1>0, <1>11 DEF DispatchMail, FitsLabel, Claiming
  <2>2. [draft |-> c.draft, opening |-> c.opening, op |-> c.op,
         body |-> c.body, files |-> c.files] \in Mail
    BY <1>1, <2>1 DEF Mail
  <2>3. mails' \in Seq(Mail)
    BY <1>11, <2>2 DEF DispatchMail, TypeOK
  <2> DEFINE d == [c EXCEPT !.msg = Len(mails) + 1]
  <2>4. Len(mails) + 1 \in Nat
    BY DEF TypeOK
  <2>5. d \in Call /\ d.draft = c.draft /\ d.op = c.op
    BY <1>0, <2>4 DEF Call
  <2>6. call' = [call EXCEPT ![p] = d] /\ pc' = [pc EXCEPT ![p] = "persist"]
    BY <1>11 DEF DispatchMail, Goto
  <2>7. "persist" \in Labels /\ FitsLabel(d, "persist")
    BY <2>1, <2>5 DEF Labels, FitsLabel
  <2> HIDE DEF d
  <2>8. TypedLocals'
    BY <1>0, <2>5, <2>6, <2>7, MoveFacts
  <2>9. QED
    BY <1>11, <2>3, <2>8 DEF DispatchMail, TypedLocals, TypeOK
<1>12. CASE DispatchRefused(p) \/ PersistDone(p) \/ PersistThrows(p) \/ DrainThrowsLate(p)
  <2>1. c.draft \in Drafts /\ c.op \in {"send", "drain"}
    BY <1>0, <1>12
    DEF DispatchRefused, PersistDone, PersistThrows, DrainThrowsLate, FitsLabel, Claiming, Unsent
  <2>2. /\ "fail" \in Labels /\ FitsLabel(c, "fail")
        /\ "mark" \in Labels /\ FitsLabel(c, "mark")
    BY <2>1 DEF Labels, FitsLabel
  <2>3. TypedLocals'
    BY <1>0, <1>12, <2>2, GotoFacts
    DEF DispatchRefused, PersistDone, PersistThrows, DrainThrowsLate, history
  <2>4. stored' \subseteq Nat
    BY <1>1, <1>12
    DEF DispatchRefused, PersistDone, PersistThrows, DrainThrowsLate, history, TypeOK
  <2>5. QED
    BY <1>12, <2>3, <2>4
    DEF DispatchRefused, PersistDone, PersistThrows, DrainThrowsLate, TypedLocals, TypeOK, history
<1>13. CASE MarkSent(p)
  <2>1. c.draft \in Drafts /\ c.op \in {"send", "drain"}
    BY <1>0, <1>13 DEF MarkSent, FitsLabel, Claiming
  <2>2. drafts' \in [Drafts -> Row]
    BY <1>1, <1>13, <2>1, StatementTypes DEF MarkSent
  <2>3. "sweep" \in Labels /\ FitsLabel(c, "sweep")
    BY <2>1 DEF Labels, FitsLabel
  <2>4. TypedLocals'
    BY <1>0, <1>1, <1>13, <2>3, EndJobFacts, RemoveFacts, SlotRanges DEF MarkSent
  <2>5. QED
    BY <1>13, <2>2, <2>4 DEF MarkSent, TypedLocals, TypeOK, history
<1>14. CASE MarkFailed(p)
  <2>1. c.draft \in Drafts
    BY <1>0, <1>14 DEF MarkFailed, FitsLabel
  <2>2. drafts' \in [Drafts -> Row] /\ openings' \in [Drafts -> Seq(OpenStatuses)]
    BY <1>1, <1>14, <2>1, StatementTypes DEF MarkFailed
  <2>3. TypedLocals'
    BY <1>0, <1>14, EndJobFacts DEF MarkFailed
  <2>4. QED
    BY <1>14, <2>2, <2>3 DEF MarkFailed, TypedLocals, TypeOK
<1>15. QED
  BY <1>2, <1>3, <1>4, <1>5, <1>6, <1>7, <1>8, <1>9, <1>10, <1>11, <1>12, <1>13, <1>14
  DEF Step

\* A kill keeps the types.
LEMMA TypedKill ==
  ASSUME Typed, NEW p \in Workers, Kill(p)
  PROVE  Typed'
<1>1. TypedLocals /\ FitsLabel(NoCall, "idle") /\ "idle" \in Labels
  BY DEF Typed, TypedLocals, TypeOK, FitsLabel, Claiming, Labels
<1>2. TypedLocals'
  BY <1>1, ConstantTypes, MoveFacts DEF Kill, Goto
<1>3. kills' \in 0 .. MaxKills
  BY DEF Kill, Typed, TypeOK
<1>4. lost' \subseteq Drafts
  BY DEF Kill, Typed, TypeOK, CallFitsLabel, FitsLabel
<1>5. QED
  BY <1>2, <1>3, <1>4 DEF Kill, Typed, TypedLocals, TypeOK

\* The initial state is typed.
LEMMA TypedInit == Init => Typed
<1>1. SUFFICES ASSUME Init PROVE Typed
  OBVIOUS
<1>2. TypeOK
  BY <1>1, ConstantTypes DEF Init, TypeOK, Labels
<1>3. CallFitsLabel
  BY <1>1 DEF Init, CallFitsLabel, FitsLabel, Claiming
<1>4. QED
  BY <1>2, <1>3 DEF Typed

\* Every step keeps the types.
LEMMA TypedNext == Typed /\ [Next]_vars => Typed'
<1>1. SUFFICES ASSUME Typed, [Next]_vars PROVE Typed'
  OBVIOUS
<1>2. CASE UNCHANGED vars
  BY <1>1, <1>2 DEF vars, Typed, TypeOK, CallFitsLabel
<1>3. CASE Tick
  BY <1>1, <1>3 DEF Tick, Typed, TypeOK, CallFitsLabel, history
<1>4. CASE \E p \in Workers : Begin(p) \/ Step(p) \/ Kill(p)
  BY <1>1, <1>4, TypedBegin, TypedStep, TypedKill
<1>5. QED
  BY <1>1, <1>2, <1>3, <1>4 DEF Next

\* Every variable of the draft lifecycle keeps its type.
THEOREM TypeCorrect == Spec => []TypeOK
<1>1. Typed => TypeOK
  BY DEF Typed
<1>2. QED
  BY <1>1, TypedInit, TypedNext, PTL DEF Spec

-----------------------------------------------------------------------------
(* What each step does to the claims, rows and emails: the kinds of step *)

Others(p) == \A q \in Workers \ {p} : pc'[q] = pc[q] /\ call'[q] = call[q]

\* p has no claim, takes none, and writes no row and no email.
QuietStep(p) ==
  /\ pc[p] \notin Claiming
  /\ pc'[p] \notin Claiming
  /\ UNCHANGED <<drafts, openings, mails, stored, lost>>

\* Some write opens the row of d with a status.
OpensRow(d, status) ==
  /\ drafts'[d].status = status
  /\ \A e \in Drafts \ {d} : drafts'[e] = drafts[e]
  /\ openings' = [openings EXCEPT ![d] = Append(openings[d], status)]

\* p writes a row that says draft or scheduled.
WriteStep(p) ==
  /\ pc[p] \notin Claiming
  /\ pc'[p] \notin Claiming
  /\ \E d \in Drafts : \E status \in {"draft", "scheduled"} : OpensRow(d, status)
  /\ UNCHANGED <<mails, stored, lost>>

\* p deletes a row.
RemoveStep(p) ==
  /\ pc[p] \notin Claiming
  /\ pc'[p] \notin Claiming
  /\ \E d \in Drafts : /\ drafts'[d].status = "none"
                       /\ \A e \in Drafts \ {d} : drafts'[e] = drafts[e]
  /\ UNCHANGED <<openings, mails, stored, lost>>

\* p wins the claim on its draft.
ClaimStep(p) ==
  LET d == call[p].draft IN
  /\ d \in Drafts
  /\ pc[p] \notin Claiming
  /\ pc'[p] \in Unsent
  /\ drafts[d].status \in OpenStatuses
  /\ call[p].op = "drain" => drafts[d].status = "scheduled"
  /\ drafts'[d].status = "sending"
  /\ \A e \in Drafts \ {d} : drafts'[e] = drafts[e]
  /\ call'[p].draft = d
  /\ call'[p].op = call[p].op
  /\ call'[p].opening = Len(openings[d])
  /\ UNCHANGED <<openings, mails, stored, lost>>

\* p reads an object for the email of its claim.
LoadStep(p) ==
  /\ pc[p] \in Unsent
  /\ pc'[p] \in Unsent
  /\ call'[p].draft = call[p].draft
  /\ call'[p].op = call[p].op
  /\ call'[p].opening = call[p].opening
  /\ UNCHANGED <<drafts, openings, mails, stored, lost>>

\* p hands the email of its claim over.
MailStep(p) ==
  /\ pc[p] = "dispatch"
  /\ pc'[p] = "persist"
  /\ call'[p].draft = call[p].draft
  /\ call'[p].opening = call[p].opening
  /\ call'[p].msg = Len(mails) + 1
  /\ \E m \in Mail : /\ m.draft = call[p].draft
                     /\ m.opening = call[p].opening
                     /\ m.op = call[p].op
                     /\ mails' = Append(mails, m)
  /\ UNCHANGED <<drafts, openings, stored, lost>>

\* p has its message stored, or gives the claim up for lost.
OutcomeStep(p) ==
  /\ \/ pc[p] = "persist" /\ pc'[p] = "mark" /\ call[p].msg \in stored'
     \/ pc[p] \in Claiming \cup {"sweep"} /\ pc'[p] = "fail"
  /\ call'[p] = call[p]
  /\ stored \subseteq stored'
  /\ UNCHANGED <<drafts, openings, mails, lost>>

\* p writes the success of its claim to the row, if there still is one.
SentStep(p) ==
  LET d == call[p].draft IN
  /\ d \in Drafts
  /\ pc[p] = "mark"
  /\ pc'[p] \notin Claiming
  /\ \/ drafts[d].status = "none" /\ UNCHANGED drafts
     \/ /\ drafts'[d].status = "sent"
        /\ drafts'[d].sent = call[p].msg
        /\ \A e \in Drafts \ {d} : drafts'[e] = drafts[e]
  /\ UNCHANGED <<openings, mails, stored, lost>>

\* p writes the failure of its claim to the row, if there still is one.
FailedStep(p) ==
  LET d == call[p].draft IN
  /\ d \in Drafts
  /\ pc[p] = "fail"
  /\ pc'[p] \notin Claiming
  /\ \/ drafts[d].status = "none" /\ UNCHANGED <<drafts, openings>>
     \/ OpensRow(d, "failed")
  /\ UNCHANGED <<mails, stored, lost>>

\* p is killed.
KillStep(p) ==
  /\ pc'[p] \notin Claiming
  /\ lost' = IF pc[p] \in Claiming THEN lost \cup {call[p].draft} ELSE lost
  /\ UNCHANGED <<drafts, openings, mails, stored>>

KindOfStep(p) ==
  \/ QuietStep(p) \/ WriteStep(p) \/ RemoveStep(p) \/ ClaimStep(p) \/ LoadStep(p)
  \/ MailStep(p) \/ OutcomeStep(p) \/ SentStep(p) \/ FailedStep(p) \/ KillStep(p)

\* The end of a job is a worker's own business, and leaves it without a claim.
LEMMA EndJobKind ==
  ASSUME Typed, NEW p \in Workers, EndJob(p)
  PROVE  Others(p) /\ pc'[p] \notin Claiming
<1>1. TypedLocals
  BY DEF Typed, TypedLocals, TypeOK
<1>2. Others(p)
  BY <1>1 DEF EndJob, Goto, TypedLocals, Others
<1>3. QED
  BY <1>1, <1>2, EndJobFacts DEF Claiming

\* Every step of a worker is of one of the kinds.
LEMMA KindsOfSteps ==
  ASSUME Typed, NEW p \in Workers, Begin(p) \/ Step(p) \/ Kill(p)
  PROVE  Others(p) /\ KindOfStep(p)
<1>0. /\ pc \in [Workers -> Labels]
      /\ call \in [Workers -> Call]
      /\ drafts \in [Drafts -> Row]
      /\ FitsLabel(call[p], pc[p])
      /\ call[p] \in Call
  BY DEF Typed, TypeOK, CallFitsLabel
<1>1. CASE Begin(p)
  <2>1. Others(p) /\ QuietStep(p)
    BY <1>0, <1>1
    DEF Begin, CreateStart, UpdateStart, DeleteStart, SendStart, DrainStart, Start, Goto,
        Others, QuietStep, Claiming, history
  <2>2. QED
    BY <2>1 DEF KindOfStep
<1>2. CASE \/ PutObject(p) \/ UpdateRefused(p) \/ UpdateReread(p) \/ ClaimMissed(p)
           \/ RemoveObject(p) \/ RemovalDone(p)
  <2>1. Others(p) /\ QuietStep(p)
    BY <1>0, <1>2, EndJobKind
    DEF PutObject, UpdateRefused, UpdateReread, ClaimMissed, RemoveObject, RemovalDone,
        Remove, Removing, Goto, Others, QuietStep, Claiming, history
  <2>2. QED
    BY <2>1 DEF KindOfStep
<1>3. CASE CreateInsert(p)
  <2>1. call[p].draft \in Drafts /\ StatusFor(call[p].sendAt) \in {"draft", "scheduled"}
    BY <1>0, <1>3 DEF CreateInsert, FitsLabel, StatusFor
  <2>2. OpensRow(call[p].draft, StatusFor(call[p].sendAt))
    BY <1>0, <1>3, <2>1 DEF CreateInsert, InsertDraft, Opens, OpensRow
  <2>3. Others(p) /\ WriteStep(p)
    BY <1>3, <2>1, <2>2, EndJobKind DEF CreateInsert, WriteStep, Claiming
  <2>4. QED
    BY <2>3 DEF KindOfStep
<1>4. CASE UpdateWrite(p)
  <2> DEFINE at == IF call[p].timed THEN call[p].sendAt ELSE FutureOrNull(call[p].sendAt, clock)
  <2>1. call[p].draft \in Drafts /\ StatusFor(at) \in {"draft", "scheduled"}
    BY <1>0, <1>4 DEF UpdateWrite, FitsLabel, StatusFor
  <2>2. UpdateDraftRow(call[p].draft, call[p].body, at, StatusFor(at))
    BY <1>4 DEF UpdateWrite
  <2> HIDE DEF at
  <2>3. OpensRow(call[p].draft, StatusFor(at))
    BY <1>0, <2>1, <2>2 DEF UpdateDraftRow, Opens, OpensRow, Row
  <2>4. Others(p) /\ WriteStep(p)
    BY <1>0, <1>4, <2>1, <2>3 DEF UpdateWrite, Goto, Others, WriteStep, Claiming
  <2>5. QED
    BY <2>4 DEF KindOfStep
<1>5. CASE DeleteRemove(p)
  <2>1. call[p].draft \in Drafts
    BY <1>0, <1>5 DEF DeleteRemove, FitsLabel
  <2>2. CASE drafts[call[p].draft].status = "none"
    <3>1. Others(p) /\ QuietStep(p)
      BY <1>5, <2>2, EndJobKind DEF DeleteRemove, QuietStep, Claiming, history
    <3>2. QED
      BY <3>1 DEF KindOfStep
  <2>3. CASE drafts[call[p].draft].status # "none"
    <3>1. drafts' = [drafts EXCEPT ![call[p].draft] = NoRow]
      BY <1>5, <2>3 DEF DeleteRemove, DeleteDraftRow
    <3>2. \E d \in Drafts : /\ drafts'[d].status = "none"
                            /\ \A e \in Drafts \ {d} : drafts'[e] = drafts[e]
      BY <1>0, <2>1, <3>1 DEF NoRow
    <3>3. Others(p) /\ pc[p] = "remove" /\ pc'[p] = "purge"
      BY <1>0, <1>5, <2>3 DEF DeleteRemove, Remove, Goto, Others
    <3>4. RemoveStep(p)
      BY <1>5, <3>2, <3>3 DEF DeleteRemove, RemoveStep, Claiming, history
    <3>5. QED
      BY <3>3, <3>4 DEF KindOfStep
  <2>4. QED
    BY <2>2, <2>3
<1>6. CASE ClaimWon(p)
  <2>1. call[p].draft \in Drafts /\ call[p].op \in {"send", "drain"}
    BY <1>0, <1>6 DEF ClaimWon, FitsLabel
  <2>2. /\ drafts[call[p].draft].status \in OpenStatuses
        /\ call[p].op = "drain" => drafts[call[p].draft].status = "scheduled"
    BY <1>6, <2>1 DEF ClaimWon, ClaimDraft, Claimable, ClaimFrom, OpenStatuses
  <2>3. /\ drafts'[call[p].draft].status = "sending"
        /\ \A e \in Drafts \ {call[p].draft} : drafts'[e] = drafts[e]
    BY <1>0, <1>6, <2>1 DEF ClaimWon, ClaimDraft, Row
  <2>4. /\ call'[p].draft = call[p].draft
        /\ call'[p].op = call[p].op
        /\ call'[p].opening = Len(openings[call[p].draft])
    BY <1>0, <1>6 DEF ClaimWon, Call
  <2>5. Others(p) /\ pc[p] = "claim" /\ pc'[p] \in Unsent
    BY <1>0, <1>6 DEF ClaimWon, Goto, Others, Unsent
  <2>6. ClaimStep(p)
    BY <1>6, <2>1, <2>2, <2>3, <2>4, <2>5 DEF ClaimWon, ClaimStep, Claiming, history
  <2>7. QED
    BY <2>5, <2>6 DEF KindOfStep
<1>7. CASE LoadObject(p)
  <2>1. /\ call'[p].draft = call[p].draft
        /\ call'[p].op = call[p].op
        /\ call'[p].opening = call[p].opening
    BY <1>0, <1>7 DEF LoadObject, Call
  <2>2. Others(p) /\ LoadStep(p)
    BY <1>0, <1>7, <2>1 DEF LoadObject, Goto, Others, LoadStep, Unsent, history
  <2>3. QED
    BY <2>2 DEF KindOfStep
<1>8. CASE DispatchMail(p)
  <2> DEFINE m == [draft |-> call[p].draft, opening |-> call[p].opening, op |-> call[p].op,
                   body |-> call[p].body, files |-> call[p].files]
  <2>1. m \in Mail
    BY <1>0, <1>8 DEF DispatchMail, FitsLabel, Claiming, Mail, Call
  <2>2. /\ call'[p].draft = call[p].draft
        /\ call'[p].opening = call[p].opening
        /\ call'[p].msg = Len(mails) + 1
    BY <1>0, <1>8 DEF DispatchMail, Call
  <2>3. Others(p) /\ pc[p] = "dispatch" /\ pc'[p] = "persist"
    BY <1>0, <1>8 DEF DispatchMail, Goto, Others
  <2>4. mails' = Append(mails, m)
    BY <1>8 DEF DispatchMail
  <2>5. MailStep(p)
    BY <1>8, <2>1, <2>2, <2>3, <2>4 DEF DispatchMail, MailStep
  <2>6. QED
    BY <2>3, <2>5 DEF KindOfStep
<1>9. CASE DispatchRefused(p) \/ PersistDone(p) \/ PersistThrows(p) \/ DrainThrowsLate(p)
  <2>1. Others(p) /\ OutcomeStep(p)
    BY <1>0, <1>9
    DEF DispatchRefused, PersistDone, PersistThrows, DrainThrowsLate, Goto, Others,
        OutcomeStep, Unsent, Claiming, history
  <2>2. QED
    BY <2>1 DEF KindOfStep
<1>10. CASE MarkSent(p)
  <2>1. call[p].draft \in Drafts
    BY <1>0, <1>10 DEF MarkSent, FitsLabel
  <2>2. Others(p) /\ pc[p] = "mark" /\ pc'[p] \notin Claiming
    BY <1>0, <1>10, EndJobKind DEF MarkSent, Remove, Goto, Others, Claiming
  <2>3. \/ drafts[call[p].draft].status = "none" /\ UNCHANGED drafts
        \/ /\ drafts'[call[p].draft].status = "sent"
           /\ drafts'[call[p].draft].sent = call[p].msg
           /\ \A e \in Drafts \ {call[p].draft} : drafts'[e] = drafts[e]
    BY <1>0, <1>10, <2>1 DEF MarkSent, MarkDraftSent, Row
  <2>4. SentStep(p)
    BY <1>10, <2>1, <2>2, <2>3 DEF MarkSent, SentStep, history
  <2>5. QED
    BY <2>2, <2>4 DEF KindOfStep
<1>11. CASE MarkFailed(p)
  <2>1. call[p].draft \in Drafts
    BY <1>0, <1>11 DEF MarkFailed, FitsLabel
  <2>2. Others(p) /\ pc[p] = "fail" /\ pc'[p] \notin Claiming
    BY <1>11, EndJobKind DEF MarkFailed
  <2>3. \/ drafts[call[p].draft].status = "none" /\ UNCHANGED <<drafts, openings>>
        \/ OpensRow(call[p].draft, "failed")
    BY <1>0, <1>11, <2>1 DEF MarkFailed, MarkDraftFailed, Opens, OpensRow, Row
  <2>4. FailedStep(p)
    BY <1>11, <2>1, <2>2, <2>3 DEF MarkFailed, FailedStep
  <2>5. QED
    BY <2>2, <2>4 DEF KindOfStep
<1>12. CASE Kill(p)
  <2>1. Others(p) /\ KillStep(p)
    BY <1>0, <1>12 DEF Kill, Goto, Others, KillStep, Claiming
  <2>2. QED
    BY <2>1 DEF KindOfStep
<1>13. QED
  BY <1>1, <1>2, <1>3, <1>4, <1>5, <1>6, <1>7, <1>8, <1>9, <1>10, <1>11, <1>12 DEF Step

-----------------------------------------------------------------------------
(* The inductive invariant *)

Shapes ==
  /\ openings \in [Drafts -> Seq(OpenStatuses)]
  /\ mails \in Seq(Mail)
  /\ \A p \in Workers : call[p] \in Call /\ (pc[p] # "idle" => call[p].draft \in Drafts)

\* The part of the types the arguments below use.
LEMMA ShapesHold == Typed => Shapes
BY DEF Typed, TypeOK, CallFitsLabel, FitsLabel, Shapes

\* Opening a row leaves the openings of other drafts and the earlier ones alone.
LEMMA OpensRowFacts ==
  ASSUME Shapes, NEW d \in Drafts, NEW status \in OpenStatuses, OpensRow(d, status)
  PROVE  /\ openings'[d] = Append(openings[d], status)
         /\ Len(openings'[d]) = Len(openings[d]) + 1
         /\ openings'[d][Len(openings'[d])] = status
         /\ \A i \in 1 .. Len(openings[d]) : openings'[d][i] = openings[d][i]
         /\ \A e \in Drafts \ {d} : openings'[e] = openings[e] /\ drafts'[e] = drafts[e]
         /\ drafts'[d].status = status
<1>1. openings[d] \in Seq(OpenStatuses)
  BY DEF Shapes
<1>2. openings'[d] = Append(openings[d], status)
  BY DEF OpensRow, Shapes
<1>3. \A e \in Drafts \ {d} : openings'[e] = openings[e] /\ drafts'[e] = drafts[e]
  BY DEF OpensRow, Shapes
<1>4. QED
  BY <1>1, <1>2, <1>3 DEF OpensRow

\* A row that opens is opened with its status.
LEMMA RowFitsOpeningStep ==
  ASSUME Typed, Typed', RowFitsOpening, NEW p \in Workers, KindOfStep(p)
  PROVE  RowFitsOpening'
<1>1. Shapes /\ Shapes'
  BY ShapesHold DEF Shapes, Typed, TypeOK, CallFitsLabel, FitsLabel
<1>2. ASSUME NEW d \in Drafts, NEW status \in OpenStatuses, OpensRow(d, status)
      PROVE  RowFitsOpening'
  <2>1. SUFFICES ASSUME NEW e \in Drafts, drafts'[e].status \in OpenStatuses
                 PROVE  openings'[e] # << >> /\ openings'[e][Len(openings'[e])] = drafts'[e].status
    BY DEF RowFitsOpening
  <2>2. CASE e = d
    BY <1>1, <1>2, <2>2, OpensRowFacts DEF Shapes
  <2>3. CASE e # d
    <3>1. openings'[e] = openings[e] /\ drafts'[e] = drafts[e]
      BY <1>1, <1>2, <2>3, OpensRowFacts
    <3>2. QED
      BY <2>1, <3>1 DEF RowFitsOpening
  <2>4. QED
    BY <2>2, <2>3
<1>3. CASE WriteStep(p) \/ FailedStep(p)
  BY <1>2, <1>3 DEF WriteStep, FailedStep, RowFitsOpening, OpenStatuses
<1>4. CASE \/ QuietStep(p) \/ LoadStep(p) \/ MailStep(p) \/ OutcomeStep(p) \/ KillStep(p)
  BY <1>4 DEF QuietStep, LoadStep, MailStep, OutcomeStep, KillStep, RowFitsOpening
<1>5. CASE RemoveStep(p) \/ ClaimStep(p) \/ SentStep(p)
  BY <1>5 DEF RemoveStep, ClaimStep, SentStep, RowFitsOpening, OpenStatuses
<1>6. QED
  BY <1>3, <1>4, <1>5 DEF KindOfStep

\* The message in hand is the one the transport took, and is stored before the mark.
LEMMA MessageInHandStep ==
  ASSUME Typed, Typed', MessageInHand, NEW p \in Workers, Others(p), KindOfStep(p)
  PROVE  MessageInHand'
<1>1. mails \in Seq(Mail)
  BY DEF Typed, TypeOK
<1>2. SUFFICES ASSUME NEW q \in Workers, pc'[q] \in {"persist", "mark"}
               PROVE  /\ call'[q].msg \in 1 .. Len(mails')
                      /\ mails'[call'[q].msg].draft = call'[q].draft
                      /\ pc'[q] = "mark" => call'[q].msg \in stored'
  BY DEF MessageInHand
<1>3. CASE MailStep(p)
  <2>1. PICK m \in Mail : m.draft = call[p].draft /\ mails' = Append(mails, m)
    BY <1>3 DEF MailStep
  <2>2. /\ Len(mails') = Len(mails) + 1
        /\ mails'[Len(mails) + 1] = m
        /\ \A i \in 1 .. Len(mails) : mails'[i] = mails[i]
    BY <1>1, <2>1
  <2>3. QED
    BY <1>1, <1>2, <1>3, <2>1, <2>2 DEF MailStep, MessageInHand, Others
<1>4. CASE OutcomeStep(p)
  <2>1. CASE q # p
    BY <1>2, <1>4, <2>1 DEF OutcomeStep, MessageInHand, Others
  <2>2. CASE q = p
    <3>1. pc[p] = "persist" /\ pc'[p] = "mark" /\ call[p].msg \in stored'
      BY <1>2, <1>4, <2>2 DEF OutcomeStep
    <3>2. call'[p] = call[p] /\ mails' = mails
      BY <1>4 DEF OutcomeStep
    <3>3. QED
      BY <2>2, <3>1, <3>2 DEF MessageInHand
  <2>3. QED
    BY <2>1, <2>2
<1>5. CASE \/ QuietStep(p) \/ WriteStep(p) \/ RemoveStep(p) \/ ClaimStep(p) \/ LoadStep(p)
           \/ SentStep(p) \/ FailedStep(p) \/ KillStep(p)
  <2>1. q # p /\ UNCHANGED <<mails, stored>>
    BY <1>2, <1>5
    DEF QuietStep, WriteStep, RemoveStep, ClaimStep, LoadStep, SentStep, FailedStep, KillStep,
        Claiming, Unsent
  <2>2. QED
    BY <1>2, <2>1 DEF MessageInHand, Others
<1>6. QED
  BY <1>3, <1>4, <1>5 DEF KindOfStep

\* A row becomes sent with the message in hand, which is stored.
LEMMA SentIsStoredStep ==
  ASSUME Typed, Typed', MessageInHand, SentIsStored,
         NEW p \in Workers, Others(p), KindOfStep(p)
  PROVE  SentIsStored'
<1>1. mails \in Seq(Mail)
  BY DEF Typed, TypeOK
<1>2. CASE MailStep(p)
  <2>1. PICK m \in Mail : mails' = Append(mails, m)
    BY <1>2 DEF MailStep
  <2>2. /\ Len(mails') = Len(mails) + 1
        /\ \A i \in 1 .. Len(mails) : mails'[i] = mails[i]
    BY <1>1, <2>1
  <2>3. QED
    BY <1>1, <1>2, <2>2 DEF MailStep, SentIsStored
<1>3. CASE SentStep(p)
  BY <1>3 DEF SentStep, SentIsStored, MessageInHand
<1>4. CASE \/ QuietStep(p) \/ LoadStep(p) \/ OutcomeStep(p) \/ KillStep(p)
  BY <1>4 DEF QuietStep, LoadStep, OutcomeStep, KillStep, SentIsStored
<1>5. CASE WriteStep(p) \/ RemoveStep(p) \/ ClaimStep(p) \/ FailedStep(p)
  BY <1>5 DEF WriteStep, RemoveStep, ClaimStep, FailedStep, OpensRow, SentIsStored
<1>6. QED
  BY <1>2, <1>3, <1>4, <1>5 DEF KindOfStep

HeldOrLost(d) ==
  \/ d \in lost
  \/ \E p \in Workers : /\ pc[p] \in Claiming
                        /\ call[p].draft = d
                        /\ call[p].opening = Len(openings[d])

\* A row becomes sending in the hand of the worker that claimed it, and every way out of
\* that hand writes the row or is a kill.
LEMMA SendingIsHeldStep ==
  ASSUME Typed, Typed', SendingIsHeld, NEW p \in Workers, Others(p), KindOfStep(p)
  PROVE  SendingIsHeld'
<1>1. SUFFICES ASSUME NEW d \in Drafts, drafts'[d].status = "sending"
               PROVE  HeldOrLost(d)'
  BY DEF SendingIsHeld, HeldOrLost
<1>2. drafts[d].status = "sending" => HeldOrLost(d)
  BY DEF SendingIsHeld, HeldOrLost
<1>3. ASSUME pc[p] \notin Claiming, UNCHANGED lost, drafts'[d] = drafts[d],
             openings'[d] = openings[d]
      PROVE  HeldOrLost(d)'
  BY <1>1, <1>2, <1>3 DEF HeldOrLost, Others
<1>4. CASE QuietStep(p)
  BY <1>3, <1>4 DEF QuietStep
<1>5. CASE WriteStep(p)
  <2>1. PICK e \in Drafts, status \in {"draft", "scheduled"} : OpensRow(e, status)
    BY <1>5 DEF WriteStep
  <2>2. e # d
    BY <1>1, <2>1 DEF OpensRow
  <2>3. openings'[d] = openings[d] /\ drafts'[d] = drafts[d]
    BY <2>1, <2>2 DEF OpensRow, Typed, TypeOK
  <2>4. QED
    BY <1>3, <1>5, <2>3 DEF WriteStep
<1>6. CASE RemoveStep(p)
  BY <1>1, <1>3, <1>6 DEF RemoveStep
<1>7. CASE ClaimStep(p)
  <2>1. CASE d = call[p].draft
    BY <1>7, <2>1 DEF ClaimStep, HeldOrLost, Claiming, Unsent
  <2>2. CASE d # call[p].draft
    BY <1>3, <1>7, <2>2 DEF ClaimStep
  <2>3. QED
    BY <2>1, <2>2
<1>8. CASE LoadStep(p) \/ MailStep(p) \/ OutcomeStep(p)
  <2>1. /\ pc'[p] \in Claiming
        /\ call'[p].draft = call[p].draft
        /\ call'[p].opening = call[p].opening
        /\ UNCHANGED <<drafts, openings, lost>>
    BY <1>8 DEF LoadStep, MailStep, OutcomeStep, Claiming, Unsent
  <2>2. QED
    BY <1>1, <1>2, <2>1 DEF HeldOrLost, Others
<1>9. CASE SentStep(p)
  <2>1. UNCHANGED <<openings, lost>> /\ drafts'[d] = drafts[d] /\ call[p].draft # d
    BY <1>1, <1>9 DEF SentStep
  <2>2. QED
    BY <1>1, <1>2, <2>1 DEF HeldOrLost, Others
<1>10. CASE FailedStep(p)
  <2>1. UNCHANGED lost /\ drafts'[d] = drafts[d] /\ call[p].draft # d
    BY <1>1, <1>10 DEF FailedStep, OpensRow
  <2>2. openings'[d] = openings[d]
    BY <1>10, <2>1 DEF FailedStep, OpensRow, Typed, TypeOK
  <2>3. QED
    BY <1>1, <1>2, <2>1, <2>2 DEF HeldOrLost, Others
<1>11. CASE KillStep(p)
  <2>1. lost \subseteq lost' /\ (pc[p] \in Claiming => call[p].draft \in lost')
    BY <1>11 DEF KillStep
  <2>2. UNCHANGED <<drafts, openings>>
    BY <1>11 DEF KillStep
  <2>3. QED
    BY <1>1, <1>2, <2>1, <2>2 DEF HeldOrLost, Others
<1>12. QED
  BY <1>4, <1>5, <1>6, <1>7, <1>8, <1>9, <1>10, <1>11 DEF KindOfStep

-----------------------------------------------------------------------------
(* Claims are fresh *)

\* The three conjuncts of ClaimsAreFresh.
HeldIsFresh ==
  \A p \in Workers :
    pc[p] \in Unsent =>
      /\ call[p].opening \in 1 .. Len(openings[call[p].draft])
      /\ ~ Used(call[p].draft, call[p].opening)
      /\ \A q \in Workers : Holds(q, call[p].draft, call[p].opening) => p = q
      /\ call[p].op = "drain" => openings[call[p].draft][call[p].opening] = "scheduled"

OpenIsFresh ==
  \A d \in Drafts :
    drafts[d].status \in OpenStatuses =>
      /\ ~ Used(d, Len(openings[d]))
      /\ \A p \in Workers : ~ Holds(p, d, Len(openings[d]))

UsedHappened ==
  \A i \in 1 .. Len(mails) : mails[i].opening \in 1 .. Len(openings[mails[i].draft])

\* ClaimsAreFresh in its parts.
LEMMA FreshParts == ClaimsAreFresh <=> HeldIsFresh /\ OpenIsFresh /\ UsedHappened
BY DEF ClaimsAreFresh, HeldIsFresh, OpenIsFresh, UsedHappened

\* A step that opens the row of d.
LEMMA FreshOpening ==
  ASSUME Typed, Typed', ClaimsAreFresh, NEW p \in Workers, Others(p),
         pc'[p] \notin Unsent, UNCHANGED mails,
         NEW d \in Drafts, NEW status \in OpenStatuses, OpensRow(d, status)
  PROVE  ClaimsAreFresh'
<1>1. Shapes /\ HeldIsFresh /\ OpenIsFresh /\ UsedHappened
  BY ShapesHold, FreshParts
<1>2. ASSUME NEW e \in Drafts
      PROVE  /\ Len(openings[e]) \in Nat
             /\ Len(openings'[e]) = IF e = d THEN Len(openings[e]) + 1 ELSE Len(openings[e])
             /\ 1 .. Len(openings[e]) \subseteq 1 .. Len(openings'[e])
             /\ \A i \in 1 .. Len(openings[e]) : openings'[e][i] = openings[e][i]
             /\ e # d => drafts'[e] = drafts[e]
  <2>1. openings[e] \in Seq(OpenStatuses) /\ Len(openings[e]) \in Nat
    BY <1>1 DEF Shapes
  <2>2. CASE e = d
    BY SMTT(30), <1>1, <2>1, <2>2, OpensRowFacts
  <2>3. CASE e # d
    BY <1>1, <2>1, <2>3, OpensRowFacts
  <2>4. QED
    BY <2>2, <2>3
<1>3. \A i \in 1 .. Len(mails) : mails[i].draft \in Drafts
  <2>1. \A i \in 1 .. Len(mails) : mails[i] \in Mail
    BY <1>1 DEF Shapes
  <2>2. QED
    BY <2>1 DEF Mail
<1>4. \A q \in Workers : pc'[q] \in Unsent => /\ pc[q] \in Unsent
                                              /\ call'[q] = call[q]
                                              /\ call[q].draft \in Drafts
  BY <1>1 DEF Others, Shapes, Unsent
<1>5. UsedHappened'
  BY <1>1, <1>2, <1>3 DEF UsedHappened
<1>6. HeldIsFresh'
  <2>1. SUFFICES ASSUME NEW q \in Workers, pc'[q] \in Unsent,
                        NEW e, e = call[q].draft, NEW o, o = call[q].opening
        PROVE  /\ o \in 1 .. Len(openings'[e])
               /\ \A i \in 1 .. Len(mails) : mails[i].draft = e => mails[i].opening # o
               /\ \A r \in Workers :
                    pc'[r] \in Unsent /\ call[r].draft = e /\ call[r].opening = o => q = r
               /\ call[q].op = "drain" => openings'[e][o] = "scheduled"
    BY <1>4 DEF HeldIsFresh, Used, Holds
  <2>2. /\ o \in 1 .. Len(openings[e])
        /\ ~ Used(e, o)
        /\ \A r \in Workers : Holds(r, e, o) => q = r
        /\ call[q].op = "drain" => openings[e][o] = "scheduled"
    BY <1>1, <1>4, <2>1 DEF HeldIsFresh
  <2>3. o \in 1 .. Len(openings'[e]) /\ openings'[e][o] = openings[e][o]
    BY ZenonT(30), <1>2, <1>4, <2>1, <2>2
  <2>4. QED
    BY <1>4, <2>2, <2>3 DEF Used, Holds
<1>7. OpenIsFresh'
  <2>1. SUFFICES ASSUME NEW e \in Drafts, drafts'[e].status \in OpenStatuses, NEW n,
                        n = Len(openings'[e])
        PROVE  /\ \A i \in 1 .. Len(mails) : mails[i].draft = e => mails[i].opening # n
               /\ \A q \in Workers : pc'[q] \in Unsent /\ call[q].draft = e => call[q].opening # n
    BY <1>4 DEF OpenIsFresh, Used, Holds
  <2>2. CASE e = d
    <3>1. n = Len(openings[e]) + 1 /\ Len(openings[e]) \in Nat
      BY <1>2, <2>1, <2>2
    <3>2. \A i \in 1 .. Len(mails) : mails[i].draft = e => mails[i].opening # n
      BY <1>1, <3>1 DEF UsedHappened
    <3>3. \A q \in Workers : pc'[q] \in Unsent /\ call[q].draft = e => call[q].opening # n
      BY <1>1, <1>4, <3>1 DEF HeldIsFresh
    <3>4. QED
      BY <3>2, <3>3
  <2>3. CASE e # d
    <3>1. n = Len(openings[e]) /\ drafts'[e] = drafts[e]
      BY <1>2, <2>1, <2>3
    <3>2. ~ Used(e, n) /\ \A q \in Workers : ~ Holds(q, e, n)
      BY <1>1, <2>1, <3>1 DEF OpenIsFresh
    <3>3. QED
      BY <1>4, <3>2 DEF Used, Holds
  <2>4. QED
    BY <2>2, <2>3
<1>8. QED
  BY <1>5, <1>6, <1>7 DEF ClaimsAreFresh, HeldIsFresh, OpenIsFresh, UsedHappened

\* A step that opens no row, takes no claim and sends no email.
LEMMA FreshKept ==
  ASSUME Typed, ClaimsAreFresh, UNCHANGED <<openings, mails>>,
         \A q \in Workers : pc'[q] \in Unsent => /\ pc[q] \in Unsent
                                                 /\ call'[q].draft = call[q].draft
                                                 /\ call'[q].op = call[q].op
                                                 /\ call'[q].opening = call[q].opening,
         \A d \in Drafts : drafts'[d].status \in OpenStatuses => drafts[d].status \in OpenStatuses
  PROVE  ClaimsAreFresh'
<1>1. HeldIsFresh /\ OpenIsFresh /\ UsedHappened
  BY FreshParts
<1>2. UsedHappened'
  BY <1>1 DEF UsedHappened
<1>3. HeldIsFresh'
  BY <1>1 DEF HeldIsFresh, Used, Holds
<1>4. OpenIsFresh'
  BY <1>1 DEF OpenIsFresh, Used, Holds
<1>5. QED
  BY <1>2, <1>3, <1>4 DEF ClaimsAreFresh, HeldIsFresh, OpenIsFresh, UsedHappened

\* The claim takes over the opening of an open row.
LEMMA FreshClaim ==
  ASSUME Typed, RowFitsOpening, ClaimsAreFresh, NEW p \in Workers, Others(p), ClaimStep(p)
  PROVE  ClaimsAreFresh'
<1>1. Shapes /\ HeldIsFresh /\ OpenIsFresh /\ UsedHappened
  BY ShapesHold, FreshParts
<1>2. PICK d \in Drafts : d = call[p].draft
  BY DEF ClaimStep
<1>3. PICK o : o = Len(openings[d])
  OBVIOUS
<1>4. /\ pc[p] \notin Unsent
      /\ pc'[p] \in Unsent
      /\ call'[p].draft = d
      /\ call'[p].op = call[p].op
      /\ call'[p].opening = o
      /\ drafts[d].status \in OpenStatuses
      /\ call[p].op = "drain" => drafts[d].status = "scheduled"
      /\ UNCHANGED <<openings, mails>>
  BY <1>2, <1>3 DEF ClaimStep, Claiming, Unsent
<1>5. \A e \in Drafts :
        drafts'[e].status \in OpenStatuses => e # d /\ drafts'[e] = drafts[e]
  BY <1>2 DEF ClaimStep, OpenStatuses
<1>6. /\ o \in 1 .. Len(openings[d])
      /\ openings[d][o] = drafts[d].status
  <2>1. openings[d] \in Seq(OpenStatuses) /\ openings[d] # << >>
    BY <1>1, <1>4 DEF Shapes, RowFitsOpening
  <2>2. QED
    BY <1>3, <1>4, <2>1 DEF RowFitsOpening
<1>7. ~ Used(d, o) /\ \A q \in Workers : ~ Holds(q, d, o)
  BY <1>1, <1>3, <1>4 DEF OpenIsFresh
<1>8. \A q \in Workers \ {p} : pc'[q] = pc[q] /\ call'[q] = call[q]
  BY DEF Others
<1>9. UsedHappened'
  BY <1>1, <1>4 DEF UsedHappened
<1>10. HeldIsFresh'
  <2>1. SUFFICES ASSUME NEW q \in Workers, pc'[q] \in Unsent,
                        NEW e, e = call'[q].draft, NEW n, n = call'[q].opening
        PROVE  /\ n \in 1 .. Len(openings[e])
               /\ ~ Used(e, n)
               /\ \A r \in Workers :
                    pc'[r] \in Unsent /\ call'[r].draft = e /\ call'[r].opening = n => q = r
               /\ call'[q].op = "drain" => openings[e][n] = "scheduled"
    BY <1>4 DEF HeldIsFresh, Used, Holds
  <2>2. CASE q = p
    BY <1>4, <1>6, <1>7, <1>8, <2>1, <2>2 DEF Holds
  <2>3. CASE q # p
    <3>1. /\ n \in 1 .. Len(openings[e])
          /\ ~ Used(e, n)
          /\ \A r \in Workers : Holds(r, e, n) => q = r
          /\ call[q].op = "drain" => openings[e][n] = "scheduled"
      BY <1>1, <1>8, <2>1, <2>3 DEF HeldIsFresh
    <3>2. ~ (e = d /\ n = o)
      BY <1>7, <1>8, <2>1, <2>3 DEF Holds
    <3>3. QED
      BY <1>4, <1>8, <2>3, <3>1, <3>2 DEF Holds
  <2>4. QED
    BY <2>2, <2>3
<1>11. OpenIsFresh'
  BY <1>1, <1>4, <1>5, <1>8 DEF OpenIsFresh, Used, Holds
<1>12. QED
  BY <1>9, <1>10, <1>11 DEF ClaimsAreFresh, HeldIsFresh, OpenIsFresh, UsedHappened

\* The email uses the opening of the claim up.
LEMMA FreshMail ==
  ASSUME Typed, ClaimsAreFresh, NEW p \in Workers, Others(p), MailStep(p)
  PROVE  ClaimsAreFresh'
<1>1. Shapes /\ HeldIsFresh /\ OpenIsFresh /\ UsedHappened
  BY ShapesHold, FreshParts
<1>2. PICK m \in Mail : /\ m.draft = call[p].draft
                        /\ m.opening = call[p].opening
                        /\ mails' = Append(mails, m)
  BY DEF MailStep
<1>3. /\ Len(mails') = Len(mails) + 1
      /\ Len(mails) \in Nat
      /\ mails'[Len(mails) + 1] = m
      /\ \A i \in 1 .. Len(mails) : mails'[i] = mails[i]
  BY <1>1, <1>2 DEF Shapes
<1>4. /\ m.opening \in 1 .. Len(openings[m.draft])
      /\ \A q \in Workers : Holds(q, m.draft, m.opening) => q = p
  BY <1>1, <1>2 DEF HeldIsFresh, MailStep, Unsent
<1>5. \A e, n : Used(e, n)' => Used(e, n) \/ (e = m.draft /\ n = m.opening)
  BY <1>3 DEF Used
<1>6. \A q \in Workers : pc'[q] \in Unsent => /\ q # p
                                              /\ pc[q] \in Unsent
                                              /\ call'[q] = call[q]
  BY DEF MailStep, Others, Unsent
<1>7. UNCHANGED <<drafts, openings>> /\ Holds(p, m.draft, m.opening)
  BY <1>2 DEF MailStep, Holds, Unsent
<1>8. UsedHappened'
  BY <1>1, <1>3, <1>4, <1>7 DEF UsedHappened
<1>9. HeldIsFresh'
  <2>1. SUFFICES ASSUME NEW q \in Workers, pc'[q] \in Unsent,
                        NEW e, e = call[q].draft, NEW n, n = call[q].opening
        PROVE  /\ n \in 1 .. Len(openings[e])
               /\ ~ Used(e, n)'
               /\ \A r \in Workers : Holds(r, e, n)' => q = r
               /\ call[q].op = "drain" => openings[e][n] = "scheduled"
    BY <1>6, <1>7 DEF HeldIsFresh, Used, Holds
  <2>2. /\ n \in 1 .. Len(openings[e])
        /\ ~ Used(e, n)
        /\ \A r \in Workers : Holds(r, e, n) => q = r
        /\ call[q].op = "drain" => openings[e][n] = "scheduled"
    BY <1>1, <1>6, <2>1 DEF HeldIsFresh
  <2>3. ~ (e = m.draft /\ n = m.opening)
    BY <1>6, <1>7, <2>1, <2>2
  <2>4. QED
    BY <1>5, <1>6, <2>2, <2>3 DEF Holds
<1>10. OpenIsFresh'
  <2>1. SUFFICES ASSUME NEW e \in Drafts, drafts[e].status \in OpenStatuses,
                        NEW n, n = Len(openings[e])
        PROVE  ~ Used(e, n)' /\ \A q \in Workers : ~ Holds(q, e, n)'
    BY <1>7 DEF OpenIsFresh, Used, Holds
  <2>2. ~ Used(e, n) /\ \A q \in Workers : ~ Holds(q, e, n)
    BY <1>1, <2>1 DEF OpenIsFresh
  <2>3. ~ (e = m.draft /\ n = m.opening)
    BY <1>7, <2>2
  <2>4. QED
    BY <1>5, <1>6, <2>2, <2>3 DEF Holds
<1>11. QED
  BY <1>8, <1>9, <1>10 DEF ClaimsAreFresh, HeldIsFresh, OpenIsFresh, UsedHappened

\* Every kind of step keeps the claims fresh.
LEMMA ClaimsAreFreshStep ==
  ASSUME Typed, Typed', RowFitsOpening, ClaimsAreFresh,
         NEW p \in Workers, Others(p), KindOfStep(p)
  PROVE  ClaimsAreFresh'
<1>1. CASE ClaimStep(p)
  BY <1>1, FreshClaim
<1>2. CASE MailStep(p)
  BY <1>2, FreshMail
<1>3. ASSUME NEW d \in Drafts, NEW status \in OpenStatuses, OpensRow(d, status),
             pc'[p] \notin Claiming, UNCHANGED mails
      PROVE  ClaimsAreFresh'
  BY <1>3, FreshOpening DEF Claiming, Unsent
<1>4. CASE WriteStep(p)
  BY <1>3, <1>4 DEF WriteStep, OpenStatuses
<1>5. CASE FailedStep(p) /\ openings' # openings
  BY <1>3, <1>5 DEF FailedStep, OpenStatuses
<1>6. CASE \/ QuietStep(p) \/ RemoveStep(p) \/ LoadStep(p) \/ OutcomeStep(p) \/ SentStep(p)
           \/ KillStep(p) \/ (FailedStep(p) /\ openings' = openings)
  <2>1. UNCHANGED <<openings, mails>>
    BY <1>6
    DEF QuietStep, RemoveStep, LoadStep, OutcomeStep, SentStep, KillStep, FailedStep
  <2>2. \A q \in Workers : pc'[q] \in Unsent => /\ pc[q] \in Unsent
                                                /\ call'[q].draft = call[q].draft
                                                /\ call'[q].op = call[q].op
                                                /\ call'[q].opening = call[q].opening
    BY <1>6
    DEF QuietStep, RemoveStep, LoadStep, OutcomeStep, SentStep, KillStep, FailedStep, Others,
        Claiming, Unsent
  <2>3. \A d \in Drafts : drafts'[d].status \in OpenStatuses => drafts[d].status \in OpenStatuses
    <3>1. CASE FailedStep(p) /\ openings' = openings
      <4>1. ASSUME NEW d \in Drafts, OpensRow(d, "failed")
            PROVE  FALSE
        <5>1. Len(openings'[d]) = Len(openings[d]) + 1 /\ Len(openings[d]) \in Nat
          BY <4>1, ShapesHold, OpensRowFacts DEF Shapes, OpenStatuses
        <5>2. QED
          BY <3>1, <5>1
      <4>2. QED
        BY <3>1, <4>1 DEF FailedStep
    <3>2. CASE \/ QuietStep(p) \/ RemoveStep(p) \/ LoadStep(p) \/ OutcomeStep(p)
               \/ SentStep(p) \/ KillStep(p)
      BY <3>2
      DEF QuietStep, RemoveStep, LoadStep, OutcomeStep, SentStep, KillStep, OpenStatuses
    <3>3. QED
      BY <1>6, <3>1, <3>2
  <2>4. QED
    BY <2>1, <2>2, <2>3, FreshKept
<1>7. QED
  BY <1>1, <1>2, <1>4, <1>5, <1>6 DEF KindOfStep

-----------------------------------------------------------------------------
(* The emails *)

\* An email uses an opening no email used before.
LEMMA OneMailPerOpeningStep ==
  ASSUME Typed, ClaimsAreFresh, OneMailPerOpening, NEW p \in Workers, MailStep(p)
  PROVE  OneMailPerOpening'
<1>1. mails \in Seq(Mail) /\ HeldIsFresh
  BY FreshParts DEF Typed, TypeOK
<1>2. PICK m \in Mail : /\ m.draft = call[p].draft
                        /\ m.opening = call[p].opening
                        /\ mails' = Append(mails, m)
  BY DEF MailStep
<1>3. /\ Len(mails) \in Nat
      /\ Len(mails') = Len(mails) + 1
      /\ mails'[Len(mails) + 1] = m
      /\ \A i \in 1 .. Len(mails) : mails'[i] = mails[i]
  BY <1>1, <1>2
<1>4. \A i \in 1 .. Len(mails) : ~ (mails[i].draft = m.draft /\ mails[i].opening = m.opening)
  BY <1>1, <1>2 DEF HeldIsFresh, Used, MailStep, Unsent
<1>5. \A i \in 1 .. Len(mails') : i \in 1 .. Len(mails) \/ i = Len(mails) + 1
  BY <1>3
<1>6. QED
  BY <1>3, <1>4, <1>5 DEF OneMailPerOpening

\* The email of a drain uses an opening that said scheduled.
LEMMA DrainOnlySendsScheduledStep ==
  ASSUME Typed, ClaimsAreFresh, DrainOnlySendsScheduled, NEW p \in Workers, MailStep(p)
  PROVE  DrainOnlySendsScheduled'
<1>1. mails \in Seq(Mail) /\ HeldIsFresh
  BY FreshParts DEF Typed, TypeOK
<1>2. PICK m \in Mail : /\ m.draft = call[p].draft
                        /\ m.opening = call[p].opening
                        /\ m.op = call[p].op
                        /\ mails' = Append(mails, m)
  BY DEF MailStep
<1>3. /\ Len(mails) \in Nat
      /\ Len(mails') = Len(mails) + 1
      /\ mails'[Len(mails) + 1] = m
      /\ \A i \in 1 .. Len(mails) : mails'[i] = mails[i]
  BY <1>1, <1>2
<1>4. m.op = "drain" => openings[m.draft][m.opening] = "scheduled"
  BY <1>1, <1>2 DEF HeldIsFresh, MailStep, Unsent
<1>5. \A i \in 1 .. Len(mails') : i \in 1 .. Len(mails) \/ i = Len(mails) + 1
  BY <1>3
<1>6. QED
  BY <1>3, <1>4, <1>5 DEF DrainOnlySendsScheduled, MailStep

\* Opening a row rewrites no opening an email used.
LEMMA MailsKept ==
  ASSUME Typed, ClaimsAreFresh, OneMailPerOpening, DrainOnlySendsScheduled,
         NEW p \in Workers, KindOfStep(p), ~ MailStep(p)
  PROVE  OneMailPerOpening' /\ DrainOnlySendsScheduled'
<1>1. UNCHANGED mails
  BY DEF KindOfStep, QuietStep, WriteStep, RemoveStep, ClaimStep, LoadStep, OutcomeStep,
         SentStep, FailedStep, KillStep
<1>2. OneMailPerOpening'
  BY <1>1 DEF OneMailPerOpening
<1>3. CASE UNCHANGED openings
  BY <1>1, <1>2, <1>3 DEF DrainOnlySendsScheduled
<1>4. ASSUME NEW d \in Drafts, NEW status \in OpenStatuses, OpensRow(d, status)
      PROVE  DrainOnlySendsScheduled'
  <2>1. Shapes /\ UsedHappened
    BY ShapesHold, FreshParts
  <2>2. \A e \in Drafts : \A i \in 1 .. Len(openings[e]) : openings'[e][i] = openings[e][i]
    BY <1>4, <2>1, OpensRowFacts
  <2>3. \A i \in 1 .. Len(mails) : mails[i] \in Mail
    BY <2>1 DEF Shapes
  <2>4. \A i \in 1 .. Len(mails) : /\ mails[i].draft \in Drafts
                                   /\ mails[i].opening \in 1 .. Len(openings[mails[i].draft])
    BY <2>1, <2>3 DEF UsedHappened, Mail
  <2>5. QED
    BY ZenonT(30), <1>1, <2>2, <2>4 DEF DrainOnlySendsScheduled
<1>5. CASE WriteStep(p) \/ FailedStep(p)
  BY <1>2, <1>3, <1>4, <1>5 DEF WriteStep, FailedStep, OpenStatuses
<1>6. CASE \/ QuietStep(p) \/ RemoveStep(p) \/ ClaimStep(p) \/ LoadStep(p) \/ OutcomeStep(p)
           \/ SentStep(p) \/ KillStep(p)
  BY <1>3, <1>6
  DEF QuietStep, RemoveStep, ClaimStep, LoadStep, OutcomeStep, SentStep, KillStep
<1>7. QED
  BY <1>2, <1>5, <1>6 DEF KindOfStep

-----------------------------------------------------------------------------
(* The invariant holds of every behaviour *)

\* The initial state satisfies the invariant.
LEMMA ClaimInvariantInit == Init => ClaimInvariant
<1>1. SUFFICES ASSUME Init PROVE ClaimInvariant
  OBVIOUS
<1>2. TypeOK /\ CallFitsLabel
  BY <1>1, TypedInit DEF Typed
<1>3. /\ \A d \in Drafts : drafts[d].status = "none"
      /\ \A p \in Workers : pc[p] = "idle"
      /\ mails = << >> /\ Len(mails) = 0
  BY <1>1 DEF Init, NoRow
<1>4. RowFitsOpening /\ SendingIsHeld /\ SentIsStored
  BY <1>3 DEF RowFitsOpening, SendingIsHeld, SentIsStored, OpenStatuses
<1>5. ClaimsAreFresh /\ MessageInHand
  BY <1>3 DEF ClaimsAreFresh, MessageInHand, OpenStatuses, Unsent
<1>6. OneMailPerOpening /\ DrainOnlySendsScheduled
  BY <1>3 DEF OneMailPerOpening, DrainOnlySendsScheduled
<1>7. QED
  BY <1>2, <1>4, <1>5, <1>6 DEF ClaimInvariant

\* Every step keeps the invariant.
LEMMA ClaimInvariantNext == ClaimInvariant /\ [Next]_vars => ClaimInvariant'
<1>1. SUFFICES ASSUME ClaimInvariant, [Next]_vars PROVE ClaimInvariant'
  OBVIOUS
<1>2. Typed /\ Typed'
  BY <1>1, TypedNext DEF ClaimInvariant, Typed
<1>3. CASE \E p \in Workers : Begin(p) \/ Step(p) \/ Kill(p)
  <2>1. PICK p \in Workers : Others(p) /\ KindOfStep(p)
    BY <1>2, <1>3, KindsOfSteps
  <2>2. RowFitsOpening'
    BY <1>1, <1>2, <2>1, RowFitsOpeningStep DEF ClaimInvariant
  <2>3. ClaimsAreFresh'
    BY <1>1, <1>2, <2>1, ClaimsAreFreshStep DEF ClaimInvariant
  <2>4. MessageInHand'
    BY <1>1, <1>2, <2>1, MessageInHandStep DEF ClaimInvariant
  <2>5. SentIsStored'
    BY <1>1, <1>2, <2>1, SentIsStoredStep DEF ClaimInvariant
  <2>6. SendingIsHeld'
    BY <1>1, <1>2, <2>1, SendingIsHeldStep DEF ClaimInvariant
  <2>7. OneMailPerOpening' /\ DrainOnlySendsScheduled'
    BY <1>1, <1>2, <2>1, OneMailPerOpeningStep, DrainOnlySendsScheduledStep, MailsKept
    DEF ClaimInvariant
  <2>8. QED
    BY <1>2, <2>2, <2>3, <2>4, <2>5, <2>6, <2>7 DEF ClaimInvariant, Typed
<1>4. CASE UNCHANGED <<drafts, pc, call, openings, mails, stored, lost>>
  BY <1>1, <1>2, <1>4
  DEF ClaimInvariant, Typed, RowFitsOpening, ClaimsAreFresh, Used, Holds, MessageInHand,
      OneMailPerOpening, DrainOnlySendsScheduled, SendingIsHeld, SentIsStored
<1>5. CASE Tick
  BY <1>4, <1>5 DEF Tick, history
<1>6. CASE UNCHANGED vars
  BY <1>4, <1>6 DEF vars
<1>7. QED
  BY <1>1, <1>3, <1>5, <1>6 DEF Next

\* The inductive invariant holds of every behaviour of the draft lifecycle.
THEOREM ClaimInvariantHolds == Spec => []ClaimInvariant
BY ClaimInvariantInit, ClaimInvariantNext, PTL DEF Spec

\* However the requests and the drains interleave and wherever a worker is killed,
\* a draft is emailed at most once each time a write opens its row (claimDraft).
THEOREM OneMail == Spec => []OneMailPerOpening
<1>1. ClaimInvariant => OneMailPerOpening
  BY DEF ClaimInvariant
<1>2. QED
  BY <1>1, ClaimInvariantHolds, PTL

\* The cron only ever sends what a create or an update scheduled (drainOne).
THEOREM DrainSendsScheduled == Spec => []DrainOnlySendsScheduled
<1>1. ClaimInvariant => DrainOnlySendsScheduled
  BY DEF ClaimInvariant
<1>2. QED
  BY <1>1, ClaimInvariantHolds, PTL

\* A row stays at "sending" only while its worker lives or after it was killed
\* (markDraftSent and markDraftFailed close every other path).
THEOREM SendingHeld == Spec => []SendingIsHeld
<1>1. ClaimInvariant => SendingIsHeld
  BY DEF ClaimInvariant
<1>2. QED
  BY <1>1, ClaimInvariantHolds, PTL

\* A sent row names a stored message that went out for it (markDraftSent).
THEOREM SentStored == Spec => []SentIsStored
<1>1. ClaimInvariant => SentIsStored
  BY DEF ClaimInvariant
<1>2. QED
  BY <1>1, ClaimInvariantHolds, PTL

-----------------------------------------------------------------------------
(* The draft lifecycle implements DraftDelivery *)

Granted == [d \in Drafts |-> Len(openings[d])]

Delivered == [i \in DOMAIN mails |-> <<mails[i].draft, mails[i].opening>>]

\* A permit is in hand when its row is open or a worker holds it.
LEMMA PermitsAre ==
  ASSUME Typed
  PROVE  \A d, n : <<d, n>> \in Permits <=>
           \/ d \in Drafts /\ drafts[d].status \in OpenStatuses /\ n = Len(openings[d])
           \/ \E q \in Workers : Holds(q, d, n)
BY DEF Permits, Holds

\* No draft has a permit to begin with.
LEMMA DeliveryInit == Init => Delivery!Init
<1>1. SUFFICES ASSUME Init PROVE Delivery!Init
  OBVIOUS
<1>2. Permits = {}
  BY <1>1 DEF Init, Permits, NoRow, OpenStatuses, Unsent
<1>3. Granted = [d \in Drafts |-> 0] /\ Delivered = << >>
  BY <1>1 DEF Init, Granted, Delivered
<1>4. QED
  BY <1>2, <1>3 DEF Delivery!Init, Granted, Delivered

\* A step that opens no row and sends no email withdraws permits at most.
LEMMA DeliveryKept ==
  ASSUME Typed, Typed', NEW p \in Workers, Others(p), KindOfStep(p), ~ MailStep(p),
         openings' = openings
  PROVE  Delivery!Withdraw
<1>1. UNCHANGED mails
  BY DEF KindOfStep, QuietStep, WriteStep, RemoveStep, ClaimStep, LoadStep, OutcomeStep,
         SentStep, FailedStep, KillStep
<1>2. ASSUME NEW d \in Drafts, NEW status \in OpenStatuses, OpensRow(d, status)
      PROVE  FALSE
  <2>1. Len(openings'[d]) = Len(openings[d]) + 1 /\ Len(openings[d]) \in Nat
    BY <1>2, ShapesHold, OpensRowFacts DEF Shapes
  <2>2. QED
    BY <2>1
<1>3. CASE ClaimStep(p)
  <2>1. PICK d \in Drafts : d = call[p].draft
    BY <1>3 DEF ClaimStep
  <2>2. /\ drafts[d].status \in OpenStatuses
        /\ call'[p].draft = d
        /\ call'[p].opening = Len(openings[d])
        /\ \A e \in Drafts : drafts'[e].status \in OpenStatuses => drafts'[e] = drafts[e]
    BY <1>3, <2>1 DEF ClaimStep, OpenStatuses
  <2>3. ASSUME NEW e, NEW n, <<e, n>> \in Permits'
        PROVE  <<e, n>> \in Permits
    <3>1. \/ e \in Drafts /\ drafts'[e].status \in OpenStatuses /\ n = Len(openings[e])
          \/ \E q \in Workers : Holds(q, e, n)'
      BY <2>3 DEF Permits, Holds
    <3>2. CASE e \in Drafts /\ drafts'[e].status \in OpenStatuses /\ n = Len(openings[e])
      BY <2>2, <3>2, PermitsAre
    <3>3. ASSUME NEW q \in Workers, Holds(q, e, n)' PROVE <<e, n>> \in Permits
      <4>1. CASE q = p
        BY <2>2, <3>3, <4>1, PermitsAre DEF Holds
      <4>2. CASE q # p
        <5>1. Holds(q, e, n)
          BY <3>3, <4>2 DEF Holds, Others
        <5>2. QED
          BY <5>1, PermitsAre
      <4>3. QED
        BY <4>1, <4>2
    <3>4. QED
      BY <3>1, <3>2, <3>3
  <2>4. \A x \in Permits' : \E e, n : x = <<e, n>>
    BY DEF Permits
  <2>5. Permits' \subseteq Permits
    BY <2>3, <2>4
  <2>6. QED
    BY <1>1, <2>5 DEF Delivery!Withdraw
<1>4. CASE ~ ClaimStep(p)
  <2>1. \A d \in Drafts : drafts'[d].status \in OpenStatuses => drafts[d].status \in OpenStatuses
    BY <1>2, <1>4
    DEF KindOfStep, QuietStep, WriteStep, RemoveStep, LoadStep, OutcomeStep, SentStep,
        FailedStep, KillStep, OpenStatuses
  <2>2. \A q \in Workers : pc'[q] \in Unsent => /\ pc[q] \in Unsent
                                                /\ call'[q].draft = call[q].draft
                                                /\ call'[q].opening = call[q].opening
    BY <1>4
    DEF KindOfStep, QuietStep, WriteStep, RemoveStep, LoadStep, OutcomeStep, SentStep,
        FailedStep, KillStep, Others, Claiming, Unsent
  <2>3. Permits' \subseteq Permits
    BY <2>1, <2>2 DEF Permits
  <2>4. QED
    BY <1>1, <2>3 DEF Delivery!Withdraw
<1>5. QED
  BY <1>3, <1>4

\* A step that opens the row of d grants a permit.
LEMMA DeliveryGrants ==
  ASSUME Typed, Typed', NEW p \in Workers, Others(p), pc'[p] \notin Unsent, UNCHANGED mails,
         NEW d \in Drafts, NEW status \in OpenStatuses, OpensRow(d, status)
  PROVE  Delivery!Grant(d)
<1>1. Shapes
  BY ShapesHold
<1>2. /\ Len(openings'[d]) = Len(openings[d]) + 1
      /\ drafts'[d].status \in OpenStatuses
      /\ \A e \in Drafts \ {d} : openings'[e] = openings[e] /\ drafts'[e] = drafts[e]
  BY <1>1, OpensRowFacts
<1>3. Granted' = [Granted EXCEPT ![d] = @ + 1] /\ Granted[d] + 1 = Len(openings'[d])
  BY <1>2 DEF Granted
<1>4. \A q \in Workers : pc'[q] \in Unsent => pc[q] \in Unsent /\ call'[q] = call[q]
  BY DEF Others
<1>5. <<d, Len(openings'[d])>> \in Permits'
  BY <1>2 DEF Permits
<1>6. Permits' \subseteq Permits \cup {<<d, Len(openings'[d])>>}
  BY <1>2, <1>4 DEF Permits
<1>7. Delivered' = Delivered
  BY DEF Delivered
<1>8. QED
  BY <1>3, <1>5, <1>6, <1>7 DEF Delivery!Grant, Granted, Delivered

\* The email of a claim uses its permit up.
LEMMA DeliveryDelivers ==
  ASSUME Typed, Typed', ClaimsAreFresh, NEW p \in Workers, Others(p), MailStep(p)
  PROVE  \E permit \in Permits : Delivery!Deliver(permit)
<1>1. Shapes /\ HeldIsFresh /\ OpenIsFresh
  BY ShapesHold, FreshParts
<1>2. PICK m \in Mail : /\ m.draft = call[p].draft
                        /\ m.opening = call[p].opening
                        /\ mails' = Append(mails, m)
  BY DEF MailStep
<1>3. /\ UNCHANGED <<drafts, openings>>
      /\ pc[p] \in Unsent
      /\ Holds(p, m.draft, m.opening)
  BY <1>2 DEF MailStep, Holds, Unsent
<1>4. \A q \in Workers : pc'[q] \in Unsent <=> q # p /\ pc[q] \in Unsent
  BY DEF MailStep, Others, Unsent
<1>5. \A q \in Workers \ {p} : call'[q] = call[q]
  BY DEF Others
<1>6. <<m.draft, m.opening>> \in Permits
  BY <1>2, <1>3 DEF Permits, Holds
<1>7. \A q \in Workers \ {p} : ~ Holds(q, m.draft, m.opening)
  BY <1>1, <1>2, <1>3 DEF HeldIsFresh
<1>8. \A d \in Drafts : drafts[d].status \in OpenStatuses =>
                          <<d, Len(openings[d])>> # <<m.draft, m.opening>>
  BY <1>1, <1>3 DEF OpenIsFresh
<1>9. Permits' = Permits \ {<<m.draft, m.opening>>}
  <2>1. ASSUME NEW x \in Permits'
        PROVE  x \in Permits /\ x # <<m.draft, m.opening>>
    <3>1. CASE \E d \in Drafts : drafts[d].status \in OpenStatuses /\ x = <<d, Len(openings[d])>>
      BY <1>8, <3>1 DEF Permits
    <3>2. ASSUME NEW q \in Workers, pc'[q] \in Unsent, x = <<call'[q].draft, call'[q].opening>>
          PROVE  x \in Permits /\ x # <<m.draft, m.opening>>
      <4>1. q # p /\ pc[q] \in Unsent /\ x = <<call[q].draft, call[q].opening>>
        BY <1>4, <1>5, <3>2
      <4>2. x # <<m.draft, m.opening>>
        BY <1>7, <4>1 DEF Holds
      <4>3. QED
        BY <4>1, <4>2 DEF Permits
    <3>3. QED
      BY <1>3, <2>1, <3>1, <3>2 DEF Permits
  <2>2. Permits \ {<<m.draft, m.opening>>} \subseteq Permits'
    BY <1>2, <1>3, <1>4, <1>5 DEF Permits, Holds
  <2>3. QED
    BY <2>1, <2>2
<1>10. Delivered' = Append(Delivered, <<m.draft, m.opening>>)
  <2>1. /\ Len(mails) \in Nat
        /\ DOMAIN mails = 1 .. Len(mails)
        /\ DOMAIN mails' = 1 .. (Len(mails) + 1)
        /\ mails'[Len(mails) + 1] = m
        /\ \A i \in 1 .. Len(mails) : mails'[i] = mails[i]
    BY <1>1, <1>2 DEF Shapes
  <2> DEFINE pair(i) == <<mails[i].draft, mails[i].opening>>
             pairs   == {pair(i) : i \in DOMAIN mails}
  <2>2. Delivered \in Seq(pairs) /\ Len(Delivered) = Len(mails)
    BY <2>1 DEF Delivered
  <2> HIDE DEF pair, pairs
  <2>3. Append(Delivered, <<m.draft, m.opening>>) =
          [i \in 1 .. (Len(mails) + 1) |->
             IF i = Len(mails) + 1 THEN <<m.draft, m.opening>> ELSE Delivered[i]]
    BY <2>1, <2>2
  <2>4. \A i \in 1 .. Len(mails) : Delivered[i] = <<mails[i].draft, mails[i].opening>>
    BY <2>1 DEF Delivered
  <2>5. Delivered' = [i \in 1 .. (Len(mails) + 1) |-> <<mails'[i].draft, mails'[i].opening>>]
    BY <2>1 DEF Delivered
  <2>6. \A i \in 1 .. (Len(mails) + 1) :
          <<mails'[i].draft, mails'[i].opening>> =
            IF i = Len(mails) + 1 THEN <<m.draft, m.opening>> ELSE Delivered[i]
    <3>1. \A i \in 1 .. (Len(mails) + 1) : i \in 1 .. Len(mails) \/ i = Len(mails) + 1
      BY <2>1
    <3>2. QED
      BY <2>1, <2>4, <3>1
  <2>7. QED
    BY <2>3, <2>5, <2>6
<1>11. QED
  BY <1>3, <1>6, <1>9, <1>10 DEF Delivery!Deliver, Granted, Delivered

\* Every step grants, uses or withdraws permits, or stutters.
LEMMA DeliveryNext ==
  ClaimInvariant /\ ClaimInvariant' /\ [Next]_vars => [Delivery!Next]_(Delivery!vars)
<1>1. SUFFICES ASSUME ClaimInvariant, ClaimInvariant', [Next]_vars
               PROVE  [Delivery!Next]_(Delivery!vars)
  OBVIOUS
<1>2. Typed /\ Typed' /\ ClaimsAreFresh
  BY <1>1 DEF ClaimInvariant, Typed
<1>3. CASE \E p \in Workers : Begin(p) \/ Step(p) \/ Kill(p)
  <2>1. PICK p \in Workers : Others(p) /\ KindOfStep(p)
    BY <1>2, <1>3, KindsOfSteps
  <2>2. CASE MailStep(p)
    BY <1>2, <2>1, <2>2, DeliveryDelivers DEF Delivery!Next
  <2>3. ASSUME NEW d \in Drafts, NEW status \in OpenStatuses, OpensRow(d, status),
               pc'[p] \notin Claiming, UNCHANGED mails
        PROVE  Delivery!Next
    BY <1>2, <2>1, <2>3, DeliveryGrants DEF Delivery!Next, Claiming, Unsent
  <2>4. CASE ~ MailStep(p) /\ openings' = openings
    BY <1>2, <2>1, <2>4, DeliveryKept DEF Delivery!Next
  <2>5. CASE ~ MailStep(p) /\ openings' # openings
    <3>1. WriteStep(p) \/ FailedStep(p)
      BY <2>1, <2>5
      DEF KindOfStep, QuietStep, RemoveStep, ClaimStep, LoadStep, OutcomeStep, SentStep, KillStep
    <3>2. QED
      BY <2>3, <2>5, <3>1 DEF WriteStep, FailedStep, OpenStatuses
  <2>6. QED
    BY <2>2, <2>4, <2>5
<1>4. CASE UNCHANGED <<drafts, pc, call, openings, mails>>
  BY <1>4 DEF Delivery!vars, Permits
<1>5. CASE Tick
  BY <1>4, <1>5 DEF Tick, history
<1>6. CASE UNCHANGED vars
  BY <1>4, <1>6 DEF vars
<1>7. QED
  BY <1>1, <1>3, <1>5, <1>6 DEF Next

\* The draft lifecycle implements DraftDelivery: every email uses up a permit of its
\* own, which some write of the row granted.
THEOREM DraftsDeliver == Spec => DeliverySpec
BY ClaimInvariantHolds, DeliveryInit, DeliveryNext, PTL DEF Spec, DeliverySpec, Delivery!Spec
-----------------------------------------------------------------------------
(* The attachments of a draft that is only created and sent.  They stay until *)
(* the draft is stored as sent; a drain whose removal throws then leaves it   *)
(* open, mailed and short of files.  While an update or a delete may be under *)
(* way both properties fail, as it drops objects the row, or a sender that    *)
(* read the row earlier, still lists                                          *)

Making == {"put", "insert"}

\* A worker that won the claim and may still need, or drop, the objects.
Holding == Claiming \cup {"sweep"}

HasFiles(d) ==
  \A i \in Slots : i < drafts[d].body.count => bucket[d][i] = drafts[d].body.bytes

\* A drain handed over an email of d that is stored.
Mailed(d) == DrainedAmong(d, 1 .. Len(mails))

\* The row a job was read from is there and has the body it had.
JobFits(d, body) == drafts[d].status # "none" /\ body = drafts[d].body

\* A creator owns its draft before there is a row, and has put the objects it passed.
MakesFiles(p) ==
  LET c == call[p] IN
  /\ c.op = "create" /\ c.queue = << >> /\ c.body.bytes # 0
  /\ c.draft \in taken /\ drafts[c.draft].status = "none"
  /\ \A i \in Slots :
       i < (IF pc[p] = "put" THEN c.next ELSE c.body.count) => bucket[c.draft][i] = c.body.bytes

\* The message p named is an email of its draft, and once stored by a drain it is
\* what the draft was mailed with.
MailsFiles(p) ==
  LET c == call[p] IN
  /\ pc[p] \in {"persist", "mark"} =>
       /\ c.msg \in 1 .. Len(mails)
       /\ mails[c.msg].draft = c.draft /\ mails[c.msg].op = c.op
  /\ pc[p] = "mark" => c.msg \in stored
  /\ pc[p] = "sweep" /\ c.op = "drain" => Mailed(c.draft)

\* A claim in hand keeps the row out of the open statuses and, until the removal,
\* the objects in R2, unless the draft was mailed before.
HoldsFiles(p) ==
  LET c == call[p] IN
  /\ drafts[c.draft].status \in {"sending", "sent"}
  /\ pc[p] = "sweep" => drafts[c.draft].status = "sent"
  /\ pc[p] # "sweep" => HasFiles(c.draft) \/ Mailed(c.draft)
  /\ pc[p] \in Unsent =>
       \/ \A i \in Slots :
            i < (IF pc[p] = "load" THEN c.next ELSE c.body.count) => c.files[i] = c.body.bytes
       \/ Mailed(c.draft)

WorkerFiles(p) ==
  /\ pc[p] \in {"idle", "claim"} \cup Making \cup Holding
  /\ pc[p] \in Making => MakesFiles(p)
  /\ pc[p] \in Holding => HoldsFiles(p) /\ MailsFiles(p)
  /\ pc[p] = "claim" => call[p].next = 0
  /\ pc[p] \in {"claim"} \cup Holding => JobFits(call[p].draft, call[p].body)
  /\ \A i \in 1 .. Len(call[p].queue) : JobFits(call[p].queue[i].draft, call[p].queue[i].body)

\* No two creators, and no two claims in hand, are of the same draft.
OwnersDiffer ==
  \A p, q \in Workers :
    /\ p # q
    /\ \/ pc[p] \in Making /\ pc[q] \in Making
       \/ pc[p] \in Holding /\ pc[q] \in Holding
    => call[p].draft # call[q].draft

RowsHaveFiles ==
  \A d \in Drafts :
    drafts[d].status # "none" =>
      /\ d \in taken
      /\ drafts[d].body.bytes # 0
      /\ drafts[d].status # "sent" => HasFiles(d) \/ Mailed(d)

FilesInvariant ==
  /\ Typed
  /\ \A p \in Workers : WorkerFiles(p)
  /\ OwnersDiffer
  /\ RowsHaveFiles
  /\ MailCarriesFiles

\* No step of such a draft takes a row away or rewrites its body.
RowsStay ==
  \A d \in Drafts :
    drafts[d].status # "none" =>
      drafts'[d].status # "none" /\ drafts'[d].body = drafts[d].body

\* What was mailed, and what was stored, stays.
MailsStay ==
  /\ stored \subseteq stored'
  /\ \A i \in 1 .. Len(mails) : i \in 1 .. Len(mails') /\ mails'[i] = mails[i]

LEMMA MailsStayInNext ==
  ASSUME Typed, [Next]_vars
  PROVE  MailsStay
<1>1. CASE \E p \in Workers : Begin(p) \/ Step(p) \/ Kill(p)
  <2>1. PICK p \in Workers : KindOfStep(p)
    BY <1>1, KindsOfSteps
  <2>2. CASE MailStep(p)
    <3>1. PICK m \in Mail : mails' = Append(mails, m)
      BY <2>2 DEF MailStep
    <3>2. stored' = stored /\ mails \in Seq(Mail)
      BY <2>2 DEF MailStep, Typed, TypeOK
    <3>3. QED
      BY <3>1, <3>2 DEF MailsStay
  <2>3. CASE ~ MailStep(p)
    <3>1. UNCHANGED mails /\ stored \subseteq stored'
      BY <2>1, <2>3
      DEF KindOfStep, QuietStep, WriteStep, RemoveStep, ClaimStep, LoadStep, OutcomeStep,
          SentStep, FailedStep, KillStep
    <3>2. QED
      BY <3>1 DEF MailsStay
  <2>4. QED
    BY <2>2, <2>3
<1>2. CASE Tick \/ UNCHANGED vars
  BY <1>2 DEF Tick, vars, history, MailsStay
<1>3. QED
  BY <1>1, <1>2 DEF Next

\* A draft once mailed stays so, and the emails that are out stay whole or preceded.
LEMMA MailedStays ==
  ASSUME MailsStay, NEW d, Mailed(d)
  PROVE  Mailed(d)'
BY DEF MailsStay, Mailed, DrainedAmong

LEMMA MailsStillCarry ==
  ASSUME MailsStay, MailCarriesFiles,
         NEW i \in 1 .. Len(mails), Len(mails) \in Nat
  PROVE  \/ \A s \in Slots :
              s < mails'[i].body.count => mails'[i].files[s] = mails'[i].body.bytes
         \/ DrainedAmong(mails[i].draft, 1 .. (i - 1))'
<1>1. mails'[i] = mails[i] /\ \A j \in 1 .. (i - 1) : j \in 1 .. Len(mails)
  BY DEF MailsStay
<1>2. CASE DrainedAmong(mails[i].draft, 1 .. (i - 1))
  BY <1>1, <1>2 DEF MailsStay, DrainedAmong
<1>3. QED
  BY <1>1, <1>2 DEF MailCarriesFiles

LEMMA MailsCarryOn ==
  ASSUME Typed, MailsStay, MailCarriesFiles, UNCHANGED mails
  PROVE  MailCarriesFiles'
<1>1. Len(mails) \in Nat
  BY DEF Typed, TypeOK
<1>2. QED
  BY <1>1, MailsStillCarry DEF MailCarriesFiles

LEMMA HoldingFacts ==
  /\ Making \cap Holding = {} /\ "idle" \notin Making \cup Holding
  /\ "claim" \notin Making \cup Holding /\ Unsent \subseteq Holding /\ Claiming \subseteq Holding
BY DEF Making, Holding, Claiming, Unsent

\* What the types say of a worker under way.
LEMMA UnderWay ==
  ASSUME Typed, NEW p \in Workers
  PROVE  /\ pc \in [Workers -> Labels] /\ call \in [Workers -> Call]
         /\ call[p].body \in Body /\ call[p].next \in 0 .. MaxFiles
         /\ call[p].queue \in Seq(Job)
         /\ pc[p] # "idle" => call[p].draft \in Drafts
         /\ pc[p] = "put" => call[p].next < call[p].body.count
         /\ pc[p] = "load" => call[p].next < call[p].body.count
<1>1. call[p] \in Call /\ FitsLabel(call[p], pc[p])
  BY DEF Typed, TypeOK, CallFitsLabel
<1>2. QED
  BY <1>1 DEF Typed, TypeOK, Call, FitsLabel

\* A worker that does not move keeps its part of the invariant when the rows stay,
\* and the row and the objects it owns do too.
LEMMA FilesKept ==
  ASSUME FilesInvariant, RowsStay, MailsStay, taken \subseteq taken',
         NEW q \in Workers, pc'[q] = pc[q], call'[q] = call[q],
         pc[q] \in Making \cup Holding =>
           /\ drafts'[call[q].draft] = drafts[call[q].draft]
           /\ bucket'[call[q].draft] = bucket[call[q].draft]
  PROVE  WorkerFiles(q)'
<1>1. WorkerFiles(q) /\ Typed
  BY DEF FilesInvariant
<1>2. /\ call[q].queue \in Seq(Job)
      /\ pc[q] # "idle" => call[q].draft \in Drafts
  BY <1>1, UnderWay
<1>3. pc[q] \in Making => MakesFiles(q)'
  BY <1>1 DEF WorkerFiles, MakesFiles
<1>4. pc[q] \in Holding => HoldsFiles(q)'
  BY <1>1, MailedStays DEF WorkerFiles, HoldsFiles, HasFiles
<1>8. pc[q] \in Holding => MailsFiles(q)'
  BY <1>1, MailedStays DEF WorkerFiles, MailsFiles, MailsStay
<1>5. pc[q] \in {"claim"} \cup Holding => JobFits(call[q].draft, call[q].body)'
  <2>1. pc[q] \in {"claim"} \cup Holding => pc[q] # "idle"
    BY HoldingFacts
  <2>2. QED
    BY <1>1, <1>2, <2>1 DEF WorkerFiles, JobFits, RowsStay
<1>6. ASSUME NEW i \in 1 .. Len(call[q].queue)
      PROVE  JobFits(call[q].queue[i].draft, call[q].queue[i].body)'
  <2>1. call[q].queue[i] \in Job
    BY <1>2
  <2>2. call[q].queue[i].draft \in Drafts
    BY <2>1 DEF Job
  <2>3. QED
    BY <1>1, <2>2 DEF WorkerFiles, JobFits, RowsStay
<1>7. QED
  BY <1>1, <1>3, <1>4, <1>5, <1>6, <1>8 DEF WorkerFiles

\* After the end of a job p is idle or on to the next draft of its list.
LEMMA FilesEndJob ==
  ASSUME FilesInvariant, RowsStay, NEW p \in Workers, EndJob(p)
  PROVE  /\ WorkerFiles(p)'
         /\ pc'[p] \notin Making \cup Holding
         /\ Others(p)
<1>0. /\ WorkerFiles(p) /\ Typed /\ call[p].queue \in Seq(Job)
      /\ pc \in [Workers -> Labels] /\ call \in [Workers -> Call]
  BY UnderWay DEF FilesInvariant
<1>1. pc'[p] \in {"idle", "claim"} /\ Others(p)
  BY <1>0, EndJobFacts, EndJobKind DEF Typed, TypedLocals, TypeOK
<1>2. CASE call[p].queue = << >>
  <2>1. pc'[p] = "idle" /\ call'[p].queue = << >>
    BY <1>0, <1>2 DEF EndJob, Goto, NoCall
  <2>2. QED
    BY <1>1, <2>1, HoldingFacts DEF WorkerFiles
<1>3. CASE call[p].queue # << >>
  <2>1. PICK q \in Seq(Job) : q = call[p].queue
    BY <1>0
  <2>2. q[1] \in Job /\ Tail(q) \in Seq(Job) /\ Len(q) >= 1 /\ Len(Tail(q)) = Len(q) - 1
    BY <1>3, <2>1
  <2>3. call'[p] = DrainCall(q) /\ pc'[p] = "claim"
    BY <1>0, <1>3, <2>1 DEF EndJob, Goto
  <2>4. /\ call'[p].draft = q[1].draft /\ call'[p].body = q[1].body /\ call'[p].next = 0
        /\ call'[p].queue = Tail(q)
    BY <1>3, <2>1, <2>3 DEF DrainCall, NoCall
  <2>5. ASSUME NEW i \in 1 .. Len(q)
        PROVE  drafts'[q[i].draft].status # "none" /\ q[i].body = drafts'[q[i].draft].body
    <3>1. q[i] \in Job
      BY <2>1
    <3>2. q[i].draft \in Drafts
      BY <3>1 DEF Job
    <3>3. JobFits(q[i].draft, q[i].body)
      BY <1>0, <2>1 DEF WorkerFiles
    <3>4. QED
      BY <3>2, <3>3 DEF JobFits, RowsStay
  <2>6. drafts'[q[1].draft].status # "none" /\ q[1].body = drafts'[q[1].draft].body
    BY <2>1, <2>2, <2>5
  <2>7. ASSUME NEW i \in 1 .. Len(Tail(q))
        PROVE  /\ drafts'[Tail(q)[i].draft].status # "none"
               /\ Tail(q)[i].body = drafts'[Tail(q)[i].draft].body
    <3>1. i + 1 \in 1 .. Len(q) /\ Tail(q)[i] = q[i + 1]
      BY <1>3, <2>1, <2>2
    <3>2. QED
      BY <2>5, <3>1
  <2>8. QED
    BY <1>1, <2>3, <2>4, <2>6, <2>7, HoldingFacts DEF WorkerFiles, JobFits
<1>4. QED
  BY <1>1, <1>2, <1>3, HoldingFacts

\* p comes into no ownership.
GainsNothing(p) ==
  /\ pc'[p] \in Making => pc[p] \in Making /\ call'[p].draft = call[p].draft
  /\ pc'[p] \in Holding => pc[p] \in Holding /\ call'[p].draft = call[p].draft

LEMMA OwnersStillDiffer ==
  ASSUME OwnersDiffer, NEW p \in Workers, Others(p), GainsNothing(p)
  PROVE  OwnersDiffer'
<1>1. \A q \in Workers : /\ pc'[q] \in Making => pc[q] \in Making /\ call'[q].draft = call[q].draft
                         /\ pc'[q] \in Holding => pc[q] \in Holding /\ call'[q].draft = call[q].draft
  BY DEF Others, GainsNothing
<1>2. QED
  BY <1>1 DEF OwnersDiffer

\* A step that writes no row, no object and no email only has p's part to restore.
LEMMA FilesQuiet ==
  ASSUME FilesInvariant, Typed', MailsStay, NEW p \in Workers, Others(p), GainsNothing(p), WorkerFiles(p)',
         UNCHANGED <<drafts, bucket, taken, mails>>
  PROVE  FilesInvariant'
<1>1. RowsStay /\ taken \subseteq taken'
  BY DEF RowsStay
<1>2. \A q \in Workers : WorkerFiles(q)'
  <2>1. ASSUME NEW q \in Workers, q # p PROVE WorkerFiles(q)'
    BY <1>1, <2>1, FilesKept DEF Others
  <2>2. QED
    BY <2>1
<1>3. OwnersDiffer'
  BY OwnersStillDiffer DEF FilesInvariant
<1>4. RowsHaveFiles'
  BY MailedStays DEF FilesInvariant, RowsHaveFiles, HasFiles
<1>5. MailCarriesFiles'
  BY MailsCarryOn DEF FilesInvariant
<1>6. QED
  BY <1>2, <1>3, <1>4, <1>5 DEF FilesInvariant

\* A create takes a draft nobody has.
LEMMA FilesCreateStart ==
  ASSUME FilesInvariant, Typed', MailsStay, NEW p \in Workers, CreateStart(p)
  PROVE  FilesInvariant'
<1>0. /\ Typed /\ pc \in [Workers -> Labels] /\ call \in [Workers -> Call] /\ calls \in Nat
      /\ \A q \in Workers : WorkerFiles(q)
  BY DEF FilesInvariant, Typed, TypeOK
<1>1. PICK d \in Drafts \ taken, n \in 0 .. MaxFiles, at \in 0 .. MaxTime :
        /\ taken' = taken \cup {d}
        /\ Start(p, IF n = 0 THEN "insert" ELSE "put", CreateCall(calls + 1, d, n, at))
  BY DEF CreateStart
<1>2. /\ UNCHANGED <<drafts, bucket, mails>> /\ taken \subseteq taken' /\ d \in taken'
  BY <1>1 DEF CreateStart
<1>3. PICK c : c = CreateCall(calls + 1, d, n, at)
  OBVIOUS
<1>4. /\ c.op = "create" /\ c.queue = << >> /\ c.draft = d /\ c.next = 0
      /\ c.body.bytes # 0 /\ c.body.count = n
  BY <1>0, <1>3 DEF CreateCall, NoCall
<1>5. /\ pc'[p] = (IF n = 0 THEN "insert" ELSE "put") /\ call'[p] = c /\ Others(p)
  BY <1>0, <1>1, <1>3 DEF Start, Goto, Others
<1>6. drafts[d].status = "none"
  BY <1>1 DEF FilesInvariant, RowsHaveFiles
<1>7. RowsStay
  BY <1>2 DEF RowsStay
<1>8. WorkerFiles(p)'
  <2>1. pc'[p] \in Making /\ pc'[p] \notin {"claim"} \cup Holding
    BY <1>5 DEF Making, Holding, Claiming
  <2>2. MakesFiles(p)'
    <3>1. \A i \in Slots : ~ (i < 0)
      BY DEF Slots
    <3>2. QED
      BY <1>2, <1>4, <1>5, <1>6, <3>1 DEF MakesFiles
  <2>3. QED
    BY <1>4, <1>5, <2>1, <2>2 DEF WorkerFiles, Making
<1>9. ASSUME NEW q \in Workers PROVE WorkerFiles(q)'
  <2>1. CASE q # p
    BY <1>2, <1>5, <1>7, <2>1, FilesKept DEF Others
  <2>2. QED
    BY <1>8, <2>1
<1>10. OwnersDiffer'
  <2>1. \A q \in Workers : pc[q] \in Making => call[q].draft # d
    BY <1>0, <1>1 DEF WorkerFiles, MakesFiles
  <2>2. \A q \in Workers \ {p} : pc'[q] = pc[q] /\ call'[q] = call[q]
    BY <1>5 DEF Others
  <2>3. pc'[p] \notin Holding /\ call'[p].draft = d
    BY <1>4, <1>5 DEF Holding, Claiming
  <2>4. QED
    BY <2>1, <2>2, <2>3 DEF FilesInvariant, OwnersDiffer
<1>11. RowsHaveFiles'
  BY <1>2, MailedStays DEF FilesInvariant, RowsHaveFiles, HasFiles
<1>12. MailCarriesFiles'
  BY <1>2, MailsCarryOn DEF FilesInvariant
<1>13. QED
  BY <1>9, <1>10, <1>11, <1>12 DEF FilesInvariant

\* A send, or a cron run, goes by the rows it read.
LEMMA FilesSendStart ==
  ASSUME FilesInvariant, Typed', MailsStay, NEW p \in Workers, SendStart(p) \/ DrainStart(p)
  PROVE  FilesInvariant'
<1>0. /\ Typed /\ pc \in [Workers -> Labels] /\ call \in [Workers -> Call]
  BY DEF FilesInvariant, Typed, TypeOK
<1>1. UNCHANGED <<drafts, bucket, taken, mails>>
  BY DEF SendStart, DrainStart, history
<1>2. CASE SendStart(p)
  <2>1. PICK d \in Drafts : drafts[d].status \in OpenStatuses /\ Start(p, "claim", RowCall("send", d))
    BY <1>2 DEF SendStart
  <2>2. PICK c : c = RowCall("send", d)
    OBVIOUS
  <2>3. c.queue = << >> /\ c.draft = d /\ c.next = 0 /\ c.body = drafts[d].body
    BY <2>2 DEF RowCall, NoCall
  <2>4. pc'[p] = "claim" /\ call'[p] = c /\ Others(p)
    BY <1>0, <2>1, <2>2 DEF Start, Goto, Others
  <2>5. drafts'[d].status # "none"
    BY <1>1, <2>1 DEF OpenStatuses
  <2>6. WorkerFiles(p)'
    BY <1>1, <2>3, <2>4, <2>5, HoldingFacts DEF WorkerFiles, JobFits
  <2>7. QED
    BY <1>1, <2>4, <2>6, FilesQuiet, HoldingFacts DEF GainsNothing
<1>3. CASE DrainStart(p)
  <2>1. PICK n \in 1 .. DrainBatch :
          \E q \in [1 .. n -> {[draft |-> d, body |-> drafts[d].body] : d \in Due(clock)}] :
            Start(p, "claim", DrainCall(q))
    BY <1>3 DEF DrainStart
  <2>2. PICK q \in [1 .. n -> {[draft |-> d, body |-> drafts[d].body] : d \in Due(clock)}] :
          Start(p, "claim", DrainCall(q))
    BY <2>1
  <2>3. ASSUME NEW i \in 1 .. n
        PROVE  /\ q[i] \in Job /\ drafts[q[i].draft].status # "none"
               /\ q[i].body = drafts[q[i].draft].body
    <3>1. PICK d \in Due(clock) : q[i] = [draft |-> d, body |-> drafts[d].body]
      BY <2>2
    <3>2. d \in Drafts /\ drafts[d].body \in Body /\ drafts[d].status = "scheduled"
      BY <1>0, <3>1 DEF Due, Typed, TypeOK, Row
    <3>3. QED
      BY <3>1, <3>2 DEF Job
  <2>4. q \in Seq(Job) /\ Len(q) = n /\ n >= 1
    <3>1. n \in Nat \ {0} /\ q \in [1 .. n -> Job]
      BY <2>2, <2>3
    <3>2. QED
      BY <3>1
  <2>5. /\ Tail(q) \in Seq(Job) /\ Len(Tail(q)) = n - 1
        /\ \A i \in 1 .. (n - 1) : Tail(q)[i] = q[i + 1] /\ i + 1 \in 1 .. n
        /\ Head(q) = q[1] /\ 1 \in 1 .. n
    BY <2>4
  <2>6. PICK c : c = DrainCall(q)
    OBVIOUS
  <2>7. /\ c.queue = Tail(q) /\ c.draft = q[1].draft /\ c.next = 0 /\ c.body = q[1].body
    BY <2>5, <2>6 DEF DrainCall, NoCall
  <2>8. pc'[p] = "claim" /\ call'[p] = c /\ Others(p)
    BY <1>0, <2>2, <2>6 DEF Start, Goto, Others
  <2>9. JobFits(call[p].draft, call[p].body)'
    BY <1>1, <2>3, <2>5, <2>7, <2>8 DEF JobFits
  <2>10. \A i \in 1 .. (n - 1) : /\ drafts'[Tail(q)[i].draft].status # "none"
                                 /\ Tail(q)[i].body = drafts'[Tail(q)[i].draft].body
    BY <1>1, <2>3, <2>5
  <2>11. WorkerFiles(p)'
    <3>1. call'[p].queue = Tail(q) /\ Len(Tail(q)) = n - 1 /\ call'[p].next = 0
      BY <2>5, <2>7, <2>8
    <3>2. \A i \in 1 .. Len(call'[p].queue) :
            /\ drafts'[call'[p].queue[i].draft].status # "none"
            /\ call'[p].queue[i].body = drafts'[call'[p].queue[i].draft].body
      BY <2>10, <3>1
    <3>3. QED
      BY <2>8, <2>9, <3>1, <3>2, HoldingFacts DEF WorkerFiles, JobFits
  <2>12. QED
    BY <1>1, <2>8, <2>11, FilesQuiet, HoldingFacts DEF GainsNothing
<1>4. QED
  BY <1>2, <1>3

\* A step that changes no row, no object and no email: the end of a call that missed
\* its claim, an outcome passed on, a kill.
LEMMA FilesMovesOn ==
  ASSUME FilesInvariant, Typed', MailsStay, NEW p \in Workers,
         \/ ClaimMissed(p) \/ RemovalDone(p) \/ DispatchRefused(p) \/ PersistDone(p)
         \/ PersistThrows(p) \/ DrainThrowsLate(p) \/ Kill(p)
  PROVE  FilesInvariant'
<1>0. /\ Typed /\ pc \in [Workers -> Labels] /\ call \in [Workers -> Call] /\ WorkerFiles(p)
  BY DEF FilesInvariant, Typed, TypeOK
<1>1. UNCHANGED <<drafts, bucket, taken, mails>> /\ RowsStay
  BY DEF ClaimMissed, RemovalDone, DispatchRefused, PersistDone, PersistThrows,
         DrainThrowsLate, Kill, history, RowsStay
<1>2. CASE ClaimMissed(p) \/ RemovalDone(p)
  BY <1>1, <1>2, FilesEndJob, FilesQuiet DEF ClaimMissed, RemovalDone, GainsNothing
<1>3. CASE DispatchRefused(p) \/ PersistDone(p) \/ PersistThrows(p) \/ DrainThrowsLate(p)
  <2>1. /\ pc[p] \in Holding /\ pc'[p] \in {"fail", "mark"} /\ call'[p] = call[p] /\ Others(p)
    BY <1>0, <1>3
    DEF DispatchRefused, PersistDone, PersistThrows, DrainThrowsLate, Goto, Others, Unsent,
        Holding, Claiming, history
  <2>2. pc'[p] \in Holding /\ pc'[p] \notin Making \cup Unsent \cup {"idle", "claim", "sweep"}
    BY <2>1 DEF Holding, Claiming, Making, Unsent
  <2>6. HoldsFiles(p) /\ MailsFiles(p)
    BY <1>0, <2>1 DEF WorkerFiles
  <2>7. HasFiles(call[p].draft) \/ Mailed(call[p].draft)
    <3>1. CASE pc[p] = "sweep"
      BY <1>3, <2>6, <3>1 DEF MailsFiles, DrainThrowsLate, DispatchRefused, PersistDone,
         PersistThrows, Unsent
    <3>2. CASE pc[p] # "sweep"
      BY <2>6, <3>2 DEF HoldsFiles
    <3>3. QED
      BY <3>1, <3>2
  <2>3. HoldsFiles(p)'
    BY <1>1, <2>1, <2>2, <2>6, <2>7, MailedStays DEF HoldsFiles, HasFiles
  <2>8. MailsFiles(p)'
    <3>1. CASE pc'[p] = "fail"
      BY <3>1 DEF MailsFiles
    <3>2. CASE pc'[p] = "mark"
      <4>1. PersistDone(p)
        BY <1>0, <1>3, <3>2 DEF DispatchRefused, PersistThrows, DrainThrowsLate, Goto
      <4>2. call[p].msg \in stored' /\ pc[p] = "persist"
        BY <4>1 DEF PersistDone
      <4>3. QED
        BY <1>1, <2>1, <2>6, <3>2, <4>2 DEF MailsFiles
    <3>3. QED
      BY <2>1, <3>1, <3>2
  <2>4. WorkerFiles(p)'
    BY <1>0, <1>1, <2>1, <2>2, <2>3, <2>8 DEF WorkerFiles, JobFits
  <2>5. QED
    BY <1>1, <2>1, <2>2, <2>4, FilesQuiet DEF GainsNothing
<1>4. CASE Kill(p)
  <2>1. pc'[p] = "idle" /\ call'[p] = NoCall /\ Others(p)
    BY <1>0, <1>4 DEF Kill, Goto, Others
  <2>2. WorkerFiles(p)'
    BY <2>1, HoldingFacts DEF WorkerFiles, NoCall
  <2>3. QED
    BY <1>1, <2>1, <2>2, FilesQuiet, HoldingFacts DEF GainsNothing
<1>5. QED
  BY <1>2, <1>3, <1>4

\* One object more of a draft that has no row yet.
LEMMA FilesPutObject ==
  ASSUME FilesInvariant, Typed', MailsStay, NEW p \in Workers, PutObject(p)
  PROVE  FilesInvariant'
<1>0. /\ Typed /\ pc \in [Workers -> Labels] /\ call \in [Workers -> Call] /\ call[p] \in Call
      /\ WorkerFiles(p) /\ pc[p] = "put" /\ pc[p] \in Making /\ MakesFiles(p)
      /\ bucket \in [Drafts -> [Slots -> Nat]]
  BY DEF FilesInvariant, Typed, TypeOK, WorkerFiles, PutObject, Making
<1>1. PICK c \in Call : c = call[p]
  BY <1>0
<1>2. /\ c.draft \in Drafts /\ c.next \in 0 .. MaxFiles /\ c.next < c.body.count
      /\ c.body.count \in Nat
  BY <1>0, <1>1, UnderWay DEF Body
<1>3. PICK e : e = [c EXCEPT !.next = c.next + 1]
  OBVIOUS
<1>4. /\ e.op = c.op /\ e.draft = c.draft /\ e.body = c.body /\ e.queue = c.queue
      /\ e.next = c.next + 1
  BY <1>1, <1>3 DEF Call
<1>5. /\ call'[p] = e /\ Others(p)
      /\ pc'[p] = (IF c.next + 1 < c.body.count THEN "put" ELSE "insert")
  BY <1>0, <1>1, <1>3 DEF PutObject, Goto, Others, MakesFiles
<1>6. UNCHANGED <<drafts, taken, mails>> /\ RowsStay
  BY DEF PutObject, history, RowsStay
<1>7. /\ \A d \in Drafts : d # c.draft => bucket'[d] = bucket[d]
      /\ \A i \in Slots : bucket'[c.draft][i] =
                            IF i = c.next THEN c.body.bytes ELSE bucket[c.draft][i]
  BY <1>0, <1>1, <1>2 DEF PutObject
<1>8. drafts[c.draft].status = "none"
  BY <1>0, <1>1 DEF MakesFiles
<1>9. WorkerFiles(p)'
  <2>1. pc'[p] \in Making /\ pc'[p] \notin {"claim"} \cup Holding
    BY <1>5 DEF Making, Holding, Claiming
  <2>2. \A i \in Slots : i < c.next + 1 => bucket'[c.draft][i] = c.body.bytes
    <3>1. \A i \in Slots : i < c.next => bucket[c.draft][i] = c.body.bytes
      BY <1>0, <1>1 DEF MakesFiles
    <3>2. \A i \in Slots : i < c.next + 1 => i < c.next \/ i = c.next
      BY <1>2 DEF Slots
    <3>3. QED
      BY <1>7, <3>1, <3>2
  <2>3. \A i \in Slots : i < (IF pc'[p] = "put" THEN c.next + 1 ELSE c.body.count) => i < c.next + 1
    <3>1. pc'[p] = "put" \/ c.body.count = c.next + 1
      BY <1>2, <1>5
    <3>2. QED
      BY <3>1
  <2>4. MakesFiles(p)'
    BY <1>0, <1>1, <1>4, <1>5, <1>6, <1>8, <2>2, <2>3 DEF MakesFiles
  <2>5. call'[p].queue = << >> /\ pc'[p] \in {"put", "insert"}
    BY <1>0, <1>1, <1>4, <1>5 DEF MakesFiles
  <2>6. QED
    BY <2>1, <2>4, <2>5, HoldingFacts DEF WorkerFiles
<1>10. ASSUME NEW q \in Workers PROVE WorkerFiles(q)'
  <2>1. CASE q # p
    <3>1. pc'[q] = pc[q] /\ call'[q] = call[q]
      BY <1>5, <2>1 DEF Others
    <3>2. pc[q] \in Making \cup Holding => call[q].draft \in Drafts \ {c.draft}
      <4>1. pc[q] \in Making \cup Holding => call[q].draft \in Drafts
        BY <1>0, UnderWay, HoldingFacts
      <4>2. pc[q] \in Making => call[q].draft # c.draft
        BY <1>0, <1>1, <2>1 DEF FilesInvariant, OwnersDiffer
      <4>3. pc[q] \in Holding => call[q].draft # c.draft
        BY <1>8 DEF FilesInvariant, WorkerFiles, HoldsFiles
      <4>4. QED
        BY <4>1, <4>2, <4>3
    <3>3. QED
      BY <1>6, <1>7, <3>1, <3>2, FilesKept
  <2>2. QED
    BY <1>9, <2>1
<1>11. OwnersDiffer'
  <2>1. GainsNothing(p)
    BY <1>0, <1>1, <1>4, <1>5 DEF GainsNothing, Making, Holding, Claiming
  <2>2. QED
    BY <1>5, <2>1, OwnersStillDiffer DEF FilesInvariant
<1>12. RowsHaveFiles'
  BY <1>6, <1>7, <1>8, MailedStays DEF FilesInvariant, RowsHaveFiles, HasFiles
<1>13. MailCarriesFiles'
  BY <1>6, MailsCarryOn DEF FilesInvariant
<1>14. QED
  BY <1>10, <1>11, <1>12, <1>13 DEF FilesInvariant

\* The row comes when the objects are all there.
LEMMA FilesCreateInsert ==
  ASSUME FilesInvariant, Typed', MailsStay, NEW p \in Workers, CreateInsert(p)
  PROVE  FilesInvariant'
<1>0. /\ Typed /\ drafts \in [Drafts -> Row] /\ pc[p] = "insert" /\ pc[p] \in Making
      /\ MakesFiles(p) /\ call[p].draft \in Drafts
  BY UnderWay DEF FilesInvariant, Typed, TypeOK, WorkerFiles, CreateInsert, Making
<1>1. PICK d \in Drafts : d = call[p].draft
  BY <1>0
<1>2. PICK row : /\ row.body = call[p].body /\ row.status \in OpenStatuses
                 /\ drafts' = [drafts EXCEPT ![d] = row]
  <2>1. StatusFor(call[p].sendAt) \in OpenStatuses
    BY DEF StatusFor, OpenStatuses
  <2>2. QED
    BY <1>1, <2>1 DEF CreateInsert, InsertDraft
<1>3. UNCHANGED <<bucket, taken, mails>>
  BY DEF CreateInsert
<1>4. drafts[d].status = "none" /\ drafts'[d] = row
      /\ \A e \in Drafts : e # d => drafts'[e] = drafts[e]
  BY <1>0, <1>1, <1>2 DEF MakesFiles
<1>5. RowsStay
  BY <1>4 DEF RowsStay
<1>6. WorkerFiles(p)' /\ pc'[p] \notin Making \cup Holding /\ Others(p)
  BY <1>5, FilesEndJob DEF CreateInsert
<1>7. ASSUME NEW q \in Workers PROVE WorkerFiles(q)'
  <2>1. CASE q # p
    <3>1. pc'[q] = pc[q] /\ call'[q] = call[q]
      BY <1>6, <2>1 DEF Others
    <3>2. pc[q] \in Making \cup Holding => call[q].draft \in Drafts \ {d}
      <4>1. pc[q] \in Making \cup Holding => call[q].draft \in Drafts
        BY <1>0, UnderWay, HoldingFacts
      <4>2. pc[q] \in Making => call[q].draft # d
        BY <1>0, <1>1, <2>1 DEF FilesInvariant, OwnersDiffer
      <4>3. pc[q] \in Holding => call[q].draft # d
        BY <1>4 DEF FilesInvariant, WorkerFiles, HoldsFiles
      <4>4. QED
        BY <4>1, <4>2, <4>3
    <3>3. QED
      BY <1>3, <1>4, <1>5, <3>1, <3>2, FilesKept
  <2>2. QED
    BY <1>6, <2>1
<1>8. OwnersDiffer'
  BY <1>6, OwnersStillDiffer DEF FilesInvariant, GainsNothing
<1>9. RowsHaveFiles'
  <2>1. d \in taken' /\ drafts'[d].body.bytes # 0
    BY <1>0, <1>1, <1>2, <1>3, <1>4 DEF MakesFiles
  <2>2. HasFiles(d)'
    BY <1>0, <1>1, <1>2, <1>3, <1>4 DEF MakesFiles, HasFiles
  <2>3. ASSUME NEW e \in Drafts, e # d, drafts'[e].status # "none"
        PROVE  /\ e \in taken' /\ drafts'[e].body.bytes # 0
               /\ drafts'[e].status # "sent" => HasFiles(e)' \/ Mailed(e)'
    BY <1>3, <1>4, <2>3, MailedStays DEF FilesInvariant, RowsHaveFiles, HasFiles
  <2>4. QED
    BY <2>1, <2>2, <2>3 DEF RowsHaveFiles
<1>10. MailCarriesFiles'
  BY <1>3, MailsCarryOn DEF FilesInvariant
<1>11. QED
  BY <1>7, <1>8, <1>9, <1>10 DEF FilesInvariant

\* Who holds a claim shares its draft with no creator and no other holder.
LEMMA HolderIsAlone ==
  ASSUME FilesInvariant, NEW p \in Workers, pc[p] \in Holding
  PROVE  \A q \in Workers \ {p} : pc[q] \in Making \cup Holding => call[q].draft # call[p].draft
<1>1. ASSUME NEW q \in Workers \ {p}, pc[q] \in Making PROVE call[q].draft # call[p].draft
  BY <1>1 DEF FilesInvariant, WorkerFiles, MakesFiles, HoldsFiles
<1>2. ASSUME NEW q \in Workers \ {p}, pc[q] \in Holding PROVE call[q].draft # call[p].draft
  BY <1>2 DEF FilesInvariant, OwnersDiffer
<1>3. QED
  BY <1>1, <1>2

\* A step of p that touches the row or the objects of one draft nobody else owns,
\* and neither the row's existence nor its body.
LEMMA FilesOneDraft ==
  ASSUME FilesInvariant, Typed', MailsStay, NEW p \in Workers, NEW d \in Drafts, Others(p),
         \A q \in Workers \ {p} : pc[q] \in Making \cup Holding => call[q].draft # d,
         \A e \in Drafts : e # d => drafts'[e] = drafts[e] /\ bucket'[e] = bucket[e],
         drafts[d].status # "none", drafts'[d].status # "none",
         drafts'[d].body = drafts[d].body,
         drafts'[d].status # "sent" => HasFiles(d)' \/ Mailed(d)',
         UNCHANGED <<taken, mails>>,
         OwnersDiffer', RowsStay => WorkerFiles(p)'
  PROVE  FilesInvariant'
<1>1. RowsStay
  BY DEF RowsStay
<1>2. ASSUME NEW q \in Workers PROVE WorkerFiles(q)'
  <2>1. CASE q # p
    <3>1. pc'[q] = pc[q] /\ call'[q] = call[q]
      BY <2>1 DEF Others
    <3>2. pc[q] \in Making \cup Holding => call[q].draft \in Drafts \ {d}
      BY <2>1, UnderWay, HoldingFacts DEF FilesInvariant
    <3>3. QED
      BY <1>1, <3>1, <3>2, FilesKept
  <2>2. QED
    BY <1>1, <2>1
<1>3. RowsHaveFiles'
  BY MailedStays DEF FilesInvariant, RowsHaveFiles, HasFiles
<1>4. MailCarriesFiles'
  BY MailsCarryOn DEF FilesInvariant
<1>5. QED
  BY <1>2, <1>3, <1>4 DEF FilesInvariant

\* The row claimed was open, so nobody held it, and its objects are all there.
LEMMA FilesClaimWon ==
  ASSUME FilesInvariant, Typed', MailsStay, NEW p \in Workers, ClaimWon(p)
  PROVE  FilesInvariant'
<1>0. /\ Typed /\ drafts \in [Drafts -> Row] /\ pc \in [Workers -> Labels]
      /\ call \in [Workers -> Call] /\ WorkerFiles(p) /\ pc[p] = "claim"
      /\ call[p].draft \in Drafts /\ call[p].op \in {"send", "drain"}
  BY UnderWay DEF FilesInvariant, Typed, TypeOK, CallFitsLabel, FitsLabel, ClaimWon
<1>1. PICK c \in Call : c = call[p]
  BY <1>0
<1>2. PICK d \in Drafts : d = c.draft
  BY <1>0, <1>1
<1>3. /\ c.next = 0 /\ drafts[d].status \in OpenStatuses /\ c.body = drafts[d].body
  BY <1>0, <1>1, <1>2
  DEF WorkerFiles, JobFits, ClaimWon, ClaimDraft, Claimable, ClaimFrom, OpenStatuses
<1>4. PICK e : e = [c EXCEPT !.opening = Len(openings[d])]
  OBVIOUS
<1>5. /\ e.draft = d /\ e.body = c.body /\ e.queue = c.queue /\ e.next = 0 /\ e.files = c.files
  BY <1>1, <1>2, <1>3, <1>4 DEF Call
<1>6. /\ call'[p] = e /\ Others(p) /\ UNCHANGED <<bucket, taken, mails>>
      /\ pc'[p] = (IF 0 < c.body.count THEN "load" ELSE "dispatch")
  BY <1>0, <1>1, <1>2, <1>3, <1>4 DEF ClaimWon, Goto, Others, history
<1>7. /\ drafts'[d].status = "sending" /\ drafts'[d].body = drafts[d].body
      /\ \A x \in Drafts : x # d => drafts'[x] = drafts[x]
  BY <1>0, <1>1, <1>2 DEF ClaimWon, ClaimDraft, Row
<1>8. HasFiles(d)' \/ Mailed(d)'
  <2>1. HasFiles(d) \/ Mailed(d)
    BY <1>3 DEF FilesInvariant, RowsHaveFiles, OpenStatuses
  <2>2. QED
    BY <1>6, <1>7, <2>1, MailedStays DEF HasFiles
<1>9. \A q \in Workers : pc[q] \in Making \cup Holding => call[q].draft # d
  BY <1>3 DEF FilesInvariant, WorkerFiles, MakesFiles, HoldsFiles, OpenStatuses
<1>10. pc'[p] \in Holding /\ pc'[p] \in Unsent /\ pc'[p] \notin Making \cup {"claim", "sweep"}
  BY <1>6 DEF Holding, Claiming, Unsent, Making
<1>11. OwnersDiffer'
  <2>1. \A q \in Workers \ {p} : pc'[q] = pc[q] /\ call'[q] = call[q]
    BY <1>6 DEF Others
  <2>2. QED
    BY <1>5, <1>6, <1>9, <1>10, <2>1 DEF FilesInvariant, OwnersDiffer
<1>12. ASSUME RowsStay PROVE WorkerFiles(p)'
  <2>1. HoldsFiles(p)'
    <3>1. \A i \in Slots : ~ (i < 0)
      BY DEF Slots
    <3>2. \A i \in Slots :
            i < (IF pc'[p] = "load" THEN e.next ELSE c.body.count) => e.files[i] = e.body.bytes
      <4>1. CASE pc'[p] = "load"
        BY <1>5, <3>1, <4>1
      <4>2. CASE pc'[p] # "load"
        <5>1. c.body.count = 0
          BY <1>0, <1>1, <1>6, <4>2, UnderWay DEF Body
        <5>2. QED
          BY <3>1, <4>2, <5>1
      <4>3. QED
        BY <4>1, <4>2
    <3>3. QED
      BY <1>5, <1>6, <1>7, <1>8, <1>10, <3>2 DEF HoldsFiles
  <2>2. JobFits(call[p].draft, call[p].body)'
    BY <1>3, <1>5, <1>6, <1>7 DEF JobFits
  <2>5. MailsFiles(p)'
    BY <1>6 DEF MailsFiles
  <2>3. \A i \in 1 .. Len(c.queue) :
          /\ drafts'[c.queue[i].draft].status # "none"
          /\ c.queue[i].body = drafts'[c.queue[i].draft].body
    <3>1. ASSUME NEW i \in 1 .. Len(c.queue)
          PROVE  c.queue[i].draft \in Drafts /\ JobFits(c.queue[i].draft, c.queue[i].body)
      <4>1. c.queue[i] \in Job
        BY <1>0, <1>1, UnderWay
      <4>2. QED
        BY <1>0, <1>1, <4>1 DEF Job, WorkerFiles
    <3>2. QED
      BY <1>12, <3>1 DEF JobFits, RowsStay
  <2>4. QED
    BY <1>5, <1>6, <1>10, <2>1, <2>2, <2>3, <2>5 DEF WorkerFiles, JobFits
<1>13. drafts[d].status # "none"
  BY <1>3 DEF OpenStatuses
<1>14. /\ drafts'[d].status # "none"
       /\ \A x \in Drafts : x # d => drafts'[x] = drafts[x] /\ bucket'[x] = bucket[x]
  BY <1>6, <1>7
<1>15. QED
  BY <1>6, <1>7, <1>8, <1>9, <1>11, <1>12, <1>13, <1>14, FilesOneDraft

\* The outcome is written by the holder of the claim, and only after "sent" does it
\* drop the objects.
LEMMA FilesOutcome ==
  ASSUME FilesInvariant, Typed', MailsStay, NEW p \in Workers,
         pc[p] \in {"mark", "sweep", "fail"}, MarkSent(p) \/ RemoveObject(p) \/ MarkFailed(p)
  PROVE  FilesInvariant'
<1>0. /\ Typed /\ drafts \in [Drafts -> Row] /\ bucket \in [Drafts -> [Slots -> Nat]]
      /\ pc \in [Workers -> Labels] /\ call \in [Workers -> Call] /\ WorkerFiles(p)
      /\ pc[p] \in Holding /\ HoldsFiles(p) /\ MailsFiles(p)
      /\ call[p].draft \in Drafts
  BY UnderWay DEF FilesInvariant, Typed, TypeOK, WorkerFiles, Holding, Claiming
<1>1. PICK d \in Drafts : d = call[p].draft
  BY <1>0
<1>2. /\ drafts[d].status \in {"sending", "sent"}
      /\ pc[p] = "sweep" => drafts[d].status = "sent"
      /\ pc[p] # "sweep" => HasFiles(d) \/ Mailed(d)
      /\ JobFits(call[p].draft, call[p].body)
  BY <1>0, <1>1 DEF HoldsFiles, WorkerFiles
<1>3. \A q \in Workers \ {p} : pc[q] \in Making \cup Holding => call[q].draft # d
  BY <1>0, <1>1, HolderIsAlone
<1>4. UNCHANGED <<taken, mails>>
  BY DEF MarkSent, RemoveObject, MarkFailed, history
<1>5. /\ drafts'[d].status # "none" /\ drafts'[d].body = drafts[d].body
      /\ pc[p] # "fail" => drafts'[d].status = "sent"
      /\ \A x \in Drafts : x # d => drafts'[x] = drafts[x]
  <2>1. CASE MarkSent(p)
    BY <1>0, <1>1, <1>2, <2>1 DEF MarkSent, MarkDraftSent, Row
  <2>2. CASE RemoveObject(p)
    <3>1. UNCHANGED drafts /\ pc[p] = "sweep"
      BY <2>2 DEF RemoveObject, Removing
    <3>2. QED
      BY <1>2, <3>1
  <2>3. CASE MarkFailed(p)
    <3>1. pc[p] = "fail"
      BY <2>3 DEF MarkFailed
    <3>2. QED
      BY <1>0, <1>1, <1>2, <2>3, <3>1 DEF MarkFailed, MarkDraftFailed, Row
  <2>4. QED
    BY <2>1, <2>2, <2>3
<1>6. /\ \A x \in Drafts : x # d => bucket'[x] = bucket[x]
      /\ pc[p] = "fail" => UNCHANGED bucket
  <2>1. CASE RemoveObject(p)
    <3>1. pc[p] # "fail"
      BY <2>1 DEF RemoveObject, Removing
    <3>2. \A x \in Drafts : x # d => bucket'[x] = bucket[x]
      BY <1>0, <1>1, <2>1 DEF RemoveObject
    <3>3. QED
      BY <3>1, <3>2
  <2>2. CASE MarkSent(p) \/ MarkFailed(p)
    BY <2>2 DEF MarkSent, MarkFailed
  <2>3. QED
    BY <2>1, <2>2
<1>7. drafts'[d].status # "sent" => HasFiles(d)' \/ Mailed(d)'
  BY <1>2, <1>5, <1>6, MailedStays DEF HasFiles
<1>8. RowsStay => WorkerFiles(p)' /\ Others(p) /\ GainsNothing(p)
  <2>1. SUFFICES ASSUME RowsStay PROVE WorkerFiles(p)' /\ Others(p) /\ GainsNothing(p)
    OBVIOUS
  <2>2. CASE EndJob(p)
    BY <2>1, <2>2, FilesEndJob DEF GainsNothing
  <2>3. CASE ~ EndJob(p)
    <3>1. PICK slots \in SUBSET Slots : call'[p] = [call[p] EXCEPT !.doomed = slots]
      <4>1. CASE MarkSent(p)
        <5>1. Remove(p, "sweep", 0 .. (call[p].body.count - 1))
          BY <2>3, <4>1 DEF MarkSent
        <5>2. (0 .. (call[p].body.count - 1)) \in SUBSET Slots
          BY <1>0, UnderWay, SlotRanges, DraftsAssumption DEF Body
        <5>3. QED
          BY <1>0, <5>1, <5>2 DEF Remove
      <4>2. CASE RemoveObject(p)
        <5>1. PICK i \in call[p].doomed : call' = [call EXCEPT ![p].doomed = @ \ {i}]
          BY <4>2 DEF RemoveObject
        <5>2. call[p].doomed \ {i} \in SUBSET Slots
          BY <1>0 DEF Call
        <5>3. QED
          BY <1>0, <5>1, <5>2
      <4>3. QED
        BY <2>3, <4>1, <4>2 DEF MarkFailed
    <3>2. PICK e \in Call : e = [call[p] EXCEPT !.doomed = slots]
      BY <1>0, DoomedType
    <3>3. /\ e.op = call[p].op /\ e.draft = d /\ e.body = call[p].body
          /\ e.queue = call[p].queue
      BY <1>0, <1>1, <3>2, DoomedType
    <3>4. /\ call'[p] = e /\ pc'[p] = "sweep" /\ Others(p)
      <4>1. pc'[p] = "sweep" /\ Others(p)
        BY <1>0, <2>3 DEF MarkSent, RemoveObject, MarkFailed, Removing, Remove, Goto, Others
      <4>2. QED
        BY <3>1, <3>2, <4>1
    <3>5. pc[p] \in {"mark", "sweep"}
      BY <2>3 DEF MarkSent, RemoveObject, MarkFailed, Removing
    <3>6. pc'[p] \in Holding /\ pc'[p] \notin Making \cup Unsent \cup {"idle", "claim"}
      BY <3>4 DEF Holding, Claiming, Making, Unsent
    <3>7. HoldsFiles(p)'
      BY <1>5, <3>3, <3>4, <3>5, <3>6 DEF HoldsFiles
    <3>8. MailsFiles(p)'
      <4>1. ASSUME call[p].op = "drain" PROVE Mailed(d)
        BY <1>0, <1>1, <3>5, <4>1 DEF MailsFiles, Mailed, DrainedAmong
      <4>2. QED
        BY <3>3, <3>4, <4>1, MailedStays DEF MailsFiles
    <3>9. JobFits(call[p].draft, call[p].body)'
      BY <1>1, <1>2, <1>5, <3>3, <3>4 DEF JobFits
    <3>10. ASSUME NEW i \in 1 .. Len(call[p].queue)
           PROVE  JobFits(call[p].queue[i].draft, call[p].queue[i].body)'
      <4>1. call'[p].queue = call[p].queue
        BY <3>3, <3>4
      <4>2. call[p].queue[i] \in Job
        BY <1>0, UnderWay
      <4>3. call[p].queue[i].draft \in Drafts /\ JobFits(call[p].queue[i].draft, call[p].queue[i].body)
        BY <1>0, <4>2 DEF Job, WorkerFiles
      <4>4. QED
        BY <2>1, <4>1, <4>3 DEF JobFits, RowsStay
    <3>11. WorkerFiles(p)'
      BY <3>3, <3>4, <3>6, <3>7, <3>8, <3>9, <3>10 DEF WorkerFiles
    <3>12. QED
      BY <1>0, <1>1, <3>3, <3>4, <3>6, <3>11 DEF GainsNothing
  <2>4. QED
    BY <2>2, <2>3
<1>9. RowsStay
  BY <1>2, <1>5 DEF RowsStay
<1>10. OwnersDiffer'
  BY <1>8, <1>9, OwnersStillDiffer DEF FilesInvariant
<1>11. drafts[d].status # "none"
  BY <1>2
<1>12. QED
  BY <1>3, <1>4, <1>5, <1>6, <1>7, <1>8, <1>9, <1>10, <1>11, FilesOneDraft

\* A get finds the object its place in the list names.
LEMMA FilesLoadObject ==
  ASSUME FilesInvariant, Typed', MailsStay, NEW p \in Workers, LoadObject(p)
  PROVE  FilesInvariant'
<1>0. /\ Typed /\ pc \in [Workers -> Labels] /\ call \in [Workers -> Call]
      /\ WorkerFiles(p) /\ pc[p] = "load" /\ pc[p] \in Holding /\ HoldsFiles(p)
      /\ call[p].draft \in Drafts
  BY UnderWay DEF FilesInvariant, Typed, TypeOK, WorkerFiles, LoadObject, Holding, Claiming
<1>1. PICK c \in Call : c = call[p]
  BY <1>0
<1>2. /\ c.next \in 0 .. MaxFiles /\ c.next < c.body.count /\ c.body.count \in 0 .. MaxFiles
      /\ c.files \in [Slots -> Nat] /\ c.next \in Slots
  <2>1. /\ c.next \in 0 .. MaxFiles /\ c.next < c.body.count /\ c.body.count \in 0 .. MaxFiles
        /\ c.files \in [Slots -> Nat]
    BY <1>0, <1>1, UnderWay DEF Call, Body
  <2>2. QED
    BY <2>1 DEF Slots
<1>3. PICK e : e = [c EXCEPT !.files[c.next] = bucket[c.draft][c.next], !.next = c.next + 1]
  OBVIOUS
<1>4. /\ e.draft = c.draft /\ e.body = c.body /\ e.queue = c.queue /\ e.next = c.next + 1
      /\ e.files = [c.files EXCEPT ![c.next] = bucket[c.draft][c.next]]
  BY <1>1, <1>3 DEF Call
<1>5. /\ call'[p] = e /\ Others(p) /\ UNCHANGED <<drafts, bucket, taken, mails>>
      /\ pc'[p] = (IF c.next + 1 < c.body.count THEN "load" ELSE "dispatch")
  BY <1>0, <1>1, <1>3 DEF LoadObject, Goto, Others, history
<1>6. pc'[p] \in Holding /\ pc'[p] \in Unsent /\ pc'[p] \notin Making \cup {"claim", "sweep"}
  BY <1>5 DEF Holding, Claiming, Unsent, Making
<1>7. ASSUME ~ Mailed(c.draft)
      PROVE  \A i \in Slots : i < c.next + 1 => e.files[i] = c.body.bytes
  <2>1. bucket[c.draft][c.next] = c.body.bytes
    <3>1. HasFiles(c.draft) /\ JobFits(c.draft, c.body)
      BY <1>0, <1>1, <1>7 DEF HoldsFiles, WorkerFiles
    <3>2. QED
      BY <1>2, <3>1 DEF HasFiles, JobFits
  <2>2. \A i \in Slots : i < c.next => c.files[i] = c.body.bytes
    BY <1>0, <1>1, <1>7 DEF HoldsFiles, Unsent
  <2>3. \A i \in Slots : i < c.next + 1 => i < c.next \/ i = c.next
    BY <1>2 DEF Slots
  <2>4. \A i \in Slots : e.files[i] = IF i = c.next THEN bucket[c.draft][c.next] ELSE c.files[i]
    BY <1>2, <1>4
  <2>5. QED
    BY <2>1, <2>2, <2>3, <2>4
<1>8. HoldsFiles(p)'
  <2>1. \/ \A i \in Slots :
            i < (IF pc'[p] = "load" THEN e.next ELSE c.body.count) => e.files[i] = c.body.bytes
        \/ Mailed(c.draft)'
    <3>1. pc'[p] = "load" \/ c.body.count = c.next + 1
      BY <1>2, <1>5
    <3>2. QED
      BY <1>4, <1>7, <3>1, MailedStays
  <2>2. /\ drafts'[c.draft].status \in {"sending", "sent"}
        /\ HasFiles(c.draft)' \/ Mailed(c.draft)'
    BY <1>0, <1>1, <1>5, MailedStays DEF HoldsFiles, HasFiles
  <2>3. QED
    BY <1>4, <1>5, <1>6, <2>1, <2>2 DEF HoldsFiles, HasFiles
<1>12. MailsFiles(p)'
  BY <1>5, <1>6 DEF MailsFiles, Unsent
<1>9. WorkerFiles(p)'
  BY <1>0, <1>1, <1>4, <1>5, <1>6, <1>8, <1>12 DEF WorkerFiles, JobFits
<1>10. GainsNothing(p)
  BY <1>0, <1>1, <1>4, <1>5, <1>6 DEF GainsNothing
<1>11. QED
  BY <1>5, <1>9, <1>10, FilesQuiet

\* The email goes out when the list has been read to its end.
LEMMA FilesDispatchMail ==
  ASSUME FilesInvariant, Typed', MailsStay, NEW p \in Workers, DispatchMail(p)
  PROVE  FilesInvariant'
<1>0. /\ Typed /\ pc \in [Workers -> Labels] /\ call \in [Workers -> Call] /\ mails \in Seq(Mail)
      /\ WorkerFiles(p) /\ pc[p] = "dispatch" /\ pc[p] \in Holding /\ HoldsFiles(p)
  BY DEF FilesInvariant, Typed, TypeOK, WorkerFiles, DispatchMail, Holding, Claiming
<1>1. PICK c \in Call : c = call[p]
  BY <1>0
<1>2. PICK m : /\ m.body = c.body /\ m.files = c.files /\ mails' = Append(mails, m)
               /\ m.draft = c.draft /\ m.op = c.op
  BY <1>1 DEF DispatchMail
<1>3. PICK e : e = [c EXCEPT !.msg = Len(mails) + 1]
  OBVIOUS
<1>4. /\ e.draft = c.draft /\ e.body = c.body /\ e.queue = c.queue /\ e.op = c.op
      /\ e.msg = Len(mails) + 1
  BY <1>1, <1>3 DEF Call
<1>5. /\ call'[p] = e /\ pc'[p] = "persist" /\ Others(p)
      /\ UNCHANGED <<drafts, bucket, taken>>
  BY <1>0, <1>1, <1>3 DEF DispatchMail, Goto, Others
<1>6. pc'[p] \in Holding /\ pc'[p] \notin Making \cup Unsent \cup {"claim", "sweep"}
  BY <1>5 DEF Holding, Claiming, Unsent, Making
<1>7. RowsStay
  BY <1>5 DEF RowsStay
<1>8. WorkerFiles(p)'
  <2>1. HoldsFiles(p)'
    BY <1>0, <1>1, <1>4, <1>5, <1>6, MailedStays DEF HoldsFiles, HasFiles
  <2>3. MailsFiles(p)'
    BY <1>0, <1>2, <1>4, <1>5 DEF MailsFiles
  <2>2. QED
    BY <1>0, <1>1, <1>4, <1>5, <1>6, <2>1, <2>3 DEF WorkerFiles, JobFits
<1>9. ASSUME NEW q \in Workers PROVE WorkerFiles(q)'
  <2>1. CASE q # p
    BY <1>5, <1>7, <2>1, FilesKept DEF Others
  <2>2. QED
    BY <1>8, <2>1
<1>10. OwnersDiffer'
  <2>1. GainsNothing(p)
    BY <1>0, <1>1, <1>4, <1>5, <1>6 DEF GainsNothing
  <2>2. QED
    BY <1>5, <2>1, OwnersStillDiffer DEF FilesInvariant
<1>11. RowsHaveFiles'
  BY <1>5, MailedStays DEF FilesInvariant, RowsHaveFiles, HasFiles
<1>12. MailCarriesFiles'
  <2>1. \/ \A s \in Slots : s < m.body.count => m.files[s] = m.body.bytes
        \/ Mailed(c.draft)
    BY <1>0, <1>1, <1>2 DEF HoldsFiles, Unsent
  <2>2. /\ Len(mails') = Len(mails) + 1 /\ Len(mails) \in Nat
        /\ mails'[Len(mails) + 1] = m
    BY <1>0, <1>2
  <2>3. ASSUME NEW i \in 1 .. Len(mails')
        PROVE  \/ \A s \in Slots :
                    s < mails'[i].body.count => mails'[i].files[s] = mails'[i].body.bytes
               \/ DrainedAmong(mails[i].draft, 1 .. (i - 1))'
    <3>1. CASE i \in 1 .. Len(mails)
      BY <2>2, <3>1, MailsStillCarry DEF FilesInvariant
    <3>2. CASE i = Len(mails) + 1
      <4>1. Mailed(c.draft) => DrainedAmong(c.draft, 1 .. (i - 1))'
        BY <2>2, <3>2 DEF Mailed, DrainedAmong, MailsStay
      <4>2. QED
        BY <1>2, <2>1, <2>2, <3>2, <4>1
    <3>3. QED
      BY <2>2, <3>1, <3>2
  <2>4. QED
    BY <2>3 DEF MailCarriesFiles
<1>13. QED
  BY <1>9, <1>10, <1>11, <1>12 DEF FilesInvariant

LEMMA FilesInvariantInit == Init => FilesInvariant
<1>1. SUFFICES ASSUME Init PROVE FilesInvariant
  OBVIOUS
<1>2. \A p \in Workers : WorkerFiles(p)
  BY <1>1, HoldingFacts DEF Init, WorkerFiles, NoCall
<1>3. OwnersDiffer
  BY <1>1, HoldingFacts DEF Init, OwnersDiffer
<1>4. RowsHaveFiles /\ MailCarriesFiles
  BY <1>1 DEF Init, RowsHaveFiles, MailCarriesFiles, NoRow
<1>5. QED
  BY <1>1, <1>2, <1>3, <1>4, TypedInit DEF FilesInvariant

\* Where drafts are only created and sent, every step keeps the objects in place.
LEMMA FilesInvariantNext ==
  ASSUME UserOps \subseteq {"create", "send"}
  PROVE  FilesInvariant /\ [Next]_vars => FilesInvariant'
<1>1. SUFFICES ASSUME FilesInvariant, [Next]_vars PROVE FilesInvariant'
  OBVIOUS
<1>2. Typed' /\ MailsStay
  BY <1>1, TypedNext, MailsStayInNext DEF FilesInvariant
<1>3. CASE Tick \/ UNCHANGED vars
  <2>1. UNCHANGED <<drafts, bucket, taken, mails, pc, call>>
    BY <1>3 DEF Tick, history, vars
  <2>2. RowsStay /\ taken \subseteq taken'
    BY <2>1 DEF RowsStay
  <2>3. \A q \in Workers : WorkerFiles(q)'
    BY <1>1, <1>2, <2>1, <2>2, FilesKept
  <2>4. OwnersDiffer' /\ RowsHaveFiles' /\ MailCarriesFiles'
    BY <1>1, <1>2, <2>1, MailedStays, MailsCarryOn
    DEF FilesInvariant, OwnersDiffer, RowsHaveFiles, HasFiles
  <2>5. QED
    BY <1>2, <2>3, <2>4 DEF FilesInvariant
<1>4. ASSUME NEW p \in Workers, Begin(p) \/ Step(p) \/ Kill(p) PROVE FilesInvariant'
  <2>1. CASE Begin(p)
    <3>1. ~ UpdateStart(p) /\ ~ DeleteStart(p)
      BY DEF UpdateStart, DeleteStart, MayCall
    <3>2. QED
      BY <1>1, <1>2, <2>1, <3>1, FilesCreateStart, FilesSendStart DEF Begin
  <2>2. CASE Step(p)
    <3>1. pc[p] \notin {"write", "reread", "prune", "remove", "purge"}
      BY <1>1 DEF FilesInvariant, WorkerFiles, Making, Holding, Claiming
    <3>2. ~ UpdateWrite(p) /\ ~ UpdateRefused(p) /\ ~ UpdateReread(p) /\ ~ DeleteRemove(p)
      BY <3>1 DEF UpdateWrite, UpdateRefused, UpdateReread, DeleteRemove
    <3>4. /\ RemoveObject(p) => pc[p] = "sweep"
          /\ MarkSent(p) => pc[p] = "mark"
          /\ MarkFailed(p) => pc[p] = "fail"
      BY <3>1 DEF RemoveObject, Removing, MarkSent, MarkFailed
    <3>3. QED
      BY <1>1, <1>2, <2>2, <3>2, <3>4, FilesPutObject, FilesCreateInsert, FilesMovesOn, FilesClaimWon,
         FilesLoadObject, FilesDispatchMail, FilesOutcome DEF Step
  <2>3. CASE Kill(p)
    BY <1>1, <1>2, <2>3, FilesMovesOn
  <2>4. QED
    BY <1>4, <2>1, <2>2, <2>3
<1>5. QED
  BY <1>1, <1>3, <1>4 DEF Next

\* Where drafts are only created and sent, a draft that can still be sent has all its
\* attachments in R2, so that a send that failed can be repeated, unless a drain
\* mailed and stored it and then failed to remove them.
THEOREM OpenDraftsKeepFiles ==
  ASSUME UserOps \subseteq {"create", "send"}
  PROVE  Spec => []OpenDraftHasFiles
<1>1. FilesInvariant => OpenDraftHasFiles
  BY DEF FilesInvariant, RowsHaveFiles, HasFiles, Mailed, OpenDraftHasFiles, OpenStatuses
<1>2. FilesInvariant /\ [Next]_vars => FilesInvariant'
  BY FilesInvariantNext
<1>3. QED
  BY <1>1, <1>2, FilesInvariantInit, PTL DEF Spec

\* There, an email carries every attachment of the body it was built from, unless a
\* drain mailed and stored the draft before.
THEOREM MailsCarryFiles ==
  ASSUME UserOps \subseteq {"create", "send"}
  PROVE  Spec => []MailCarriesFiles
<1>1. FilesInvariant => MailCarriesFiles
  BY DEF FilesInvariant
<1>2. FilesInvariant /\ [Next]_vars => FilesInvariant'
  BY FilesInvariantNext
<1>3. QED
  BY <1>1, <1>2, FilesInvariantInit, PTL DEF Spec
=============================================================================
