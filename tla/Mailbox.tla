------------------------------ MODULE Mailbox ------------------------------
(***************************************************************************)
(* The mail of one inbox: src/email/inbound.ts, src/core/messages.ts and   *)
(* src/core/threads.ts over the statements of src/db.                      *)
(*                                                                         *)
(* A message is a row of the D1 table messages with rows of attachments    *)
(* beside it, hangs off a row of threads, and owns objects in R2: its raw  *)
(* MIME when it arrived from outside, and one object for each attachment.  *)
(* Threads count their messages and accounts their bytes, in counters of   *)
(* their own.  An arriving email, a send, a reply and the three kinds of   *)
(* delete each write several of these, one await at a time, so each D1     *)
(* statement (or batch) and each R2 operation is an action, and a worker   *)
(* may be killed between any two of them.                                  *)
(*                                                                         *)
(* A message and a thread are named by a number, drawn with the created_at *)
(* of the message: now() is taken to grow from one message to the next.    *)
(* Every row and every attachment weighs one byte.  Addresses, subjects,   *)
(* participants, labels and search text are left out.                      *)
(***************************************************************************)
EXTENDS Naturals, FiniteSets

CONSTANTS
  Workers,      \* API requests and deliveries of email, one call at a time
  UserOps,      \* the calls that are made
  MaxMessages,  \* bound: messages ever minted
  MaxParts,     \* bound: attachments per message
  MaxCalls,     \* bound: calls ever started
  MaxMixed,     \* bound: calls ever started once two have overlapped
  MaxFaults,    \* bound: workers killed and counter writes lost
  Quota         \* QUOTA_STORAGE_BYTES

Ops == {"receive", "send", "reply", "delete", "batch", "drop"}

ASSUME MailboxAssumption ==
  /\ UserOps \subseteq Ops
  /\ MaxMessages \in Nat
  /\ MaxParts \in Nat
  /\ MaxCalls \in Nat
  /\ MaxMixed \in Nat
  /\ MaxFaults \in Nat
  /\ Quota \in Nat

VARIABLES
  \* The program's state.
  threads,      \* D1: the row of each thread, NoThread when there is none
  messages,     \* D1: the row of each message, NoMessage when there is none
  attachments,  \* D1: the attachment rows of each message
  bucket,       \* R2: the keys that hold an object
  storage,      \* D1: usage.storage_bytes of the account
  minted,       \* messages numbered so far
  pc,           \* what each worker does next, "idle" between calls
  call,         \* the local variables of each worker's call
  calls,        \* calls started
  faults,       \* workers killed and counter writes lost
  \* What an observer records: the code never reads these.
  counted,      \* messages whose touchThread has run
  abandoned,    \* messages whose worker was killed
  trimmed,      \* threads some delete has taken messages out of
  overlapped    \* two calls have been under way at once

program == <<threads, messages, attachments, bucket, storage, minted, pc, call, calls, faults>>
history == <<counted, abandoned, trimmed, overlapped>>
vars    == <<threads, messages, attachments, bucket, storage, minted, pc, call, calls, faults,
             counted, abandoned, trimmed, overlapped>>

-----------------------------------------------------------------------------
(* Data *)

Ids == 1 .. MaxMessages

Parts == 1 .. MaxParts

\* raw/{m}.eml is <<m, 0>>, and att/{m}/{n} is <<m, n>>.
Keys == Ids \X (0 .. MaxParts)

Thread == [here : BOOLEAN, count : Nat, last : Ids \cup {0}]

NoThread == [here |-> FALSE, count |-> 0, last |-> 0]

Message == [thread : Ids \cup {0}, raw : BOOLEAN]

NoMessage == [thread |-> 0, raw |-> FALSE]

Call == [op : Ops \cup {"none"},
         msg : Ids \cup {0},         \* the message it stores
         thread : Ids \cup {0},      \* the thread it goes to
         parts : SUBSET Parts,       \* its attachments
         todo : SUBSET Parts,        \* those still to be put, then to be inserted
         named : SUBSET Ids,         \* the messages a delete was given
         within : SUBSET Ids,        \* their threads, or the thread given
         surviving : SUBSET Ids,     \* the threads it found other messages in
         released : Nat,             \* the bytes it is about to give back
         keys : SUBSET Keys]         \* the objects it is about to delete

NoCall == [op |-> "none", msg |-> 0, thread |-> 0, parts |-> {}, todo |-> {}, named |-> {},
           within |-> {}, surviving |-> {}, released |-> 0, keys |-> {}]

Labels == {"idle", "raw", "part", "resolve", "thread", "send", "open", "message", "object",
           "attach", "touch", "record", "weigh", "find", "keys", "survivors", "remove",
           "clear", "release", "purge", "remaining", "recount", "lookup", "raws", "files", "unthread",
           "sweep"}

-----------------------------------------------------------------------------
(* Reads *)

Exists(m) == messages[m].thread # 0

InThread(t) == {m \in Ids : messages[m].thread = t}

Least(S) == CHOOSE x \in S : \A y \in S : x <= y

\* findThreadByRfcMessageIds: the thread of the oldest stored message among refs.
FindThread(refs) ==
  LET found == {m \in refs : Exists(m)} IN
  IF found = {} THEN 0 ELSE messages[Least(found)].thread

AttachmentKeys(M) == {k \in Keys : k[1] \in M /\ k[2] \in attachments[k[1]]}

RawKeys(M) == {k \in Keys : k[1] \in M /\ k[2] = 0 /\ messages[k[1]].raw}

\* storageForMessages and storageForThread: a byte for each row.
Weight(M) == Cardinality({m \in M : Exists(m)}) + Cardinality(AttachmentKeys(M))

-----------------------------------------------------------------------------
(* Statements *)

\* touchThread: nothing happens when the row is gone, last_message_at is not
\* compared with the one there is.
TouchThread(t, m) ==
  threads' = [threads EXCEPT ![t] =
                IF threads[t].here
                THEN [threads[t] EXCEPT !.count = threads[t].count + 1, !.last = m]
                ELSE threads[t]]

\* applyUsage on storage_bytes, clamped at zero.
AddStorage(bytes) == storage' = storage + bytes

TakeStorage(bytes) == storage' = IF bytes < storage THEN storage - bytes ELSE 0

\* The foreign keys cascade: the messages of a thread go with it, the attachment
\* rows of a message go with it.
DropMessages(M) ==
  /\ messages' = [m \in Ids |-> IF m \in M THEN NoMessage ELSE messages[m]]
  /\ attachments' = [m \in Ids |-> IF m \in M THEN {} ELSE attachments[m]]

-----------------------------------------------------------------------------
Init ==
  /\ threads = [t \in Ids |-> NoThread]
  /\ messages = [m \in Ids |-> NoMessage]
  /\ attachments = [m \in Ids |-> {}]
  /\ bucket = {}
  /\ storage = 0
  /\ minted = 0
  /\ pc = [p \in Workers |-> "idle"]
  /\ call = [p \in Workers |-> NoCall]
  /\ calls = 0
  /\ faults = 0
  /\ counted = {}
  /\ abandoned = {}
  /\ trimmed = {}
  /\ overlapped = FALSE

rows == <<threads, messages, attachments>>

Goto(p, label) == pc' = [pc EXCEPT ![p] = label]

Start(p, label, locals) ==
  /\ locals.op \in UserOps
  /\ calls < MaxCalls
  /\ calls' = calls + 1
  /\ pc[p] = "idle"
  /\ Goto(p, label)
  /\ call' = [call EXCEPT ![p] = locals]
  /\ overlapped' = (overlapped \/ \E q \in Workers : pc[q] # "idle")
  /\ overlapped' => calls < MaxMixed

EndCall(p) ==
  /\ Goto(p, "idle")
  /\ call' = [call EXCEPT ![p] = NoCall]

-----------------------------------------------------------------------------
(* ingestInbound *)

\* The address is known, the quota leaves room for the raw bytes, and the spam
\* score lets the email in; a rejected email changes nothing and never starts.
ReceiveStart(p) ==
  /\ minted < MaxMessages
  /\ storage + 1 <= Quota
  /\ minted' = minted + 1
  /\ \E parts \in SUBSET Parts :
       Start(p, "raw", [NoCall EXCEPT !.op = "receive", !.msg = minted + 1,
                                      !.parts = parts, !.todo = parts])
  /\ UNCHANGED <<rows, bucket, storage, faults, counted, abandoned, trimmed>>

PutRaw(p) ==
  /\ pc[p] = "raw"
  /\ bucket' = bucket \cup {<<call[p].msg, 0>>}
  /\ Goto(p, IF call[p].todo = {} THEN "resolve" ELSE "part")
  /\ UNCHANGED <<rows, storage, minted, call, calls, faults, history>>

\* The puts of the attachments run at once and end in any order; what they leave
\* to do next is the list of rows to insert.
PutPart(p) ==
  LET c == call[p] IN
  /\ pc[p] = "part"
  /\ \E n \in c.todo :
       /\ bucket' = bucket \cup {<<c.msg, n>>}
       /\ call' = [call EXCEPT ![p].todo = IF c.todo = {n} THEN c.parts ELSE c.todo \ {n}]
       /\ Goto(p, IF c.todo = {n} THEN "resolve" ELSE "part")
  /\ UNCHANGED <<rows, storage, minted, calls, faults, history>>

\* resolveThreadId, with whatever messages the email refers to.
ResolveThread(p) ==
  /\ pc[p] = "resolve"
  /\ \E refs \in SUBSET (1 .. minted) :
       LET t == FindThread(refs) IN
       /\ call' = [call EXCEPT ![p].thread = IF t = 0 THEN call[p].msg ELSE t]
       /\ Goto(p, IF t = 0 THEN "open" ELSE "thread")
  /\ UNCHANGED <<rows, bucket, storage, minted, calls, faults, history>>

-----------------------------------------------------------------------------
(* sendMessage, forwardMessage, replyToMessage *)

\* A forward opens a thread of its own like a send.
SendStart(p) ==
  /\ \E parts \in SUBSET Parts :
       Start(p, "send", [NoCall EXCEPT !.op = "send", !.parts = parts, !.todo = parts])
  /\ UNCHANGED <<rows, bucket, storage, minted, faults, counted, abandoned, trimmed>>

\* The parent is read here, its thread a few awaits later.
ReplyStart(p) ==
  /\ \E parent \in {m \in Ids : Exists(m)}, parts \in SUBSET Parts :
       Start(p, "thread", [NoCall EXCEPT !.op = "reply", !.thread = messages[parent].thread,
                                         !.parts = parts, !.todo = parts])
  /\ UNCHANGED <<rows, bucket, storage, minted, faults, counted, abandoned, trimmed>>

\* getThread of an arriving email and of a reply: a thread gone by now is replaced
\* by a new one.
GetThread(p) ==
  LET c  == call[p]
      t  == IF threads[c.thread].here THEN c.thread ELSE c.msg
  IN
  /\ pc[p] = "thread"
  /\ call' = [call EXCEPT ![p].thread = t]
  /\ Goto(p, IF c.op = "reply" THEN "send" ELSE IF t = c.msg THEN "open" ELSE "message")
  /\ UNCHANGED <<rows, bucket, storage, minted, calls, faults, history>>

\* The transport takes the email, and persistOutbound numbers the message.
SendMail(p) ==
  LET c == call[p] IN
  /\ pc[p] = "send"
  /\ minted < MaxMessages
  /\ minted' = minted + 1
  /\ call' = [call EXCEPT ![p].msg = minted + 1,
                          ![p].thread = IF c.thread = 0 THEN minted + 1 ELSE c.thread]
  /\ Goto(p, IF c.thread = 0 THEN "open" ELSE "message")
  /\ UNCHANGED <<rows, bucket, storage, calls, faults, history>>

\* A quota, a suppressed recipient or the transport refuses it.
SendRefused(p) ==
  /\ pc[p] = "send"
  /\ EndCall(p)
  /\ UNCHANGED <<rows, bucket, storage, minted, calls, faults, history>>

-----------------------------------------------------------------------------
(* Storing a message, by ingestInbound and persistOutbound alike *)

\* Mutant: the row is created with its first message counted, which touchThread
\* counts again.
InsertThreadCounting(p) ==
  LET c == call[p] IN
  /\ pc[p] = "open"
  /\ threads' = [threads EXCEPT ![c.thread] = [here |-> TRUE, count |-> 1, last |-> c.msg]]
  /\ Goto(p, "message")
  /\ UNCHANGED <<messages, attachments, bucket, storage, minted, call, calls, faults, history>>

InsertThread(p) ==
  LET c == call[p] IN
  /\ pc[p] = "open"
  /\ threads' = [threads EXCEPT ![c.thread] = [here |-> TRUE, count |-> 0, last |-> c.msg]]
  /\ Goto(p, "message")
  /\ UNCHANGED <<messages, attachments, bucket, storage, minted, call, calls, faults, history>>

\* Mutant: a sent message gets the rows of its attachments without their objects.
NextPartWithoutObject(c, todo) ==
  IF todo = {} \/ c.op = "none" THEN "touch" ELSE "attach"

\* persistOutbound puts an attachment right before its row, ingestInbound has put
\* them all.
NextPart(c, todo) ==
  IF todo = {} THEN "touch" ELSE IF c.op = "receive" THEN "attach" ELSE "object"

InsertMessage(p) ==
  LET c == call[p] IN
  /\ pc[p] = "message"
  /\ threads[c.thread].here
  /\ messages' = [messages EXCEPT ![c.msg] = [thread |-> c.thread, raw |-> c.op = "receive"]]
  /\ Goto(p, NextPart(c, c.todo))
  /\ UNCHANGED <<threads, attachments, bucket, storage, minted, call, calls, faults, history>>

PutObject(p) ==
  LET c == call[p] IN
  /\ pc[p] = "object"
  /\ bucket' = bucket \cup {<<c.msg, Least(c.todo)>>}
  /\ Goto(p, "attach")
  /\ UNCHANGED <<rows, storage, minted, call, calls, faults, history>>

InsertAttachment(p) ==
  LET c    == call[p]
      todo == c.todo \ {Least(c.todo)}
  IN
  /\ pc[p] = "attach"
  /\ Exists(c.msg)
  /\ attachments' = [attachments EXCEPT ![c.msg] = @ \cup {Least(c.todo)}]
  /\ call' = [call EXCEPT ![p].todo = todo]
  /\ Goto(p, NextPart(c, todo))
  /\ UNCHANGED <<threads, messages, bucket, storage, minted, calls, faults, history>>

\* The row an insert refers to was deleted: its foreign key throws, and the email
\* is delivered again (as a call of its own) or the request answers an error.
InsertThrows(p) ==
  LET c == call[p] IN
  /\ \/ pc[p] = "message" /\ ~ threads[c.thread].here
     \/ pc[p] = "attach" /\ ~ Exists(c.msg)
  /\ EndCall(p)
  /\ UNCHANGED <<rows, bucket, storage, minted, calls, faults, history>>

Touch(p) ==
  LET c == call[p] IN
  /\ pc[p] = "touch"
  /\ TouchThread(c.thread, c.msg)
  /\ counted' = counted \cup {c.msg}
  /\ Goto(p, "record")
  /\ UNCHANGED <<messages, attachments, bucket, storage, minted, call, calls, faults,
                 abandoned, trimmed, overlapped>>

\* recordReceived and recordSent.
Record(p) ==
  /\ pc[p] = "record"
  /\ AddStorage(1 + Cardinality(call[p].parts))
  /\ EndCall(p)
  /\ UNCHANGED <<rows, bucket, minted, calls, faults, history>>

-----------------------------------------------------------------------------
(* deleteMessage, batchDeleteMessages, deleteThread *)

\* What a delete of named messages takes from the rows it reads first.
NamedCall(op, M) ==
  [NoCall EXCEPT !.op = op, !.named = M, !.within = {messages[m].thread : m \in M},
                 !.keys = RawKeys(M)]

DeleteStart(p) ==
  /\ \E m \in {n \in Ids : Exists(n)} : Start(p, "weigh", NamedCall("delete", {m}))
  /\ UNCHANGED <<rows, bucket, storage, minted, faults, counted, abandoned, trimmed>>

\* requireMessages: every id given has a row.
BatchStart(p) ==
  /\ \E M \in SUBSET {n \in Ids : Exists(n)} \ {{}} : Start(p, "weigh", NamedCall("batch", M))
  /\ UNCHANGED <<rows, bucket, storage, minted, faults, counted, abandoned, trimmed>>

DropStart(p) ==
  /\ \E t \in {u \in Ids : threads[u].here} :
       Start(p, "weigh", [NoCall EXCEPT !.op = "drop", !.within = {t}])
  /\ UNCHANGED <<rows, bucket, storage, minted, faults, counted, abandoned, trimmed>>

\* The messages of the threads a call deals with, as they are now.
Inside(c) == UNION {InThread(t) : t \in c.within}

\* The bytes are summed before any row is removed.
Weigh(p) ==
  LET c == call[p] IN
  /\ pc[p] = "weigh"
  /\ call' = [call EXCEPT ![p].released = Weight(IF c.op = "drop" THEN Inside(c) ELSE c.named)]
  /\ Goto(p, CASE c.op = "delete" -> "find" [] c.op = "batch" -> "keys" [] c.op = "drop" -> "lookup")
  /\ UNCHANGED <<rows, bucket, storage, minted, calls, faults, history>>

\* db.deleteMessage reads the row again and gives up when it is gone.
FindRow(p) ==
  /\ pc[p] = "find"
  /\ IF \A m \in call[p].named : Exists(m) THEN Goto(p, "keys") /\ UNCHANGED call ELSE EndCall(p)
  /\ UNCHANGED <<rows, bucket, storage, minted, calls, faults, history>>

SelectKeys(p) ==
  LET c == call[p] IN
  /\ pc[p] = "keys"
  /\ call' = [call EXCEPT ![p].keys = @ \cup AttachmentKeys(c.named)]
  /\ Goto(p, IF c.op = "batch" THEN "survivors" ELSE "remove")
  /\ UNCHANGED <<rows, bucket, storage, minted, calls, faults, history>>

\* The batch of db.deleteMessage, which does not mind that the row is gone.
RemoveMessage(p) ==
  LET c == call[p] IN
  /\ pc[p] = "remove"
  /\ DropMessages(c.named)
  /\ trimmed' = trimmed \cup c.within
  /\ Goto(p, "release")
  /\ UNCHANGED <<threads, bucket, storage, minted, call, calls, faults,
                 counted, abandoned, overlapped>>

\* db.deleteMessages: which threads survive is read before the batch that drops the
\* others.
SelectSurvivors(p) ==
  LET c == call[p] IN
  /\ pc[p] = "survivors"
  /\ call' = [call EXCEPT ![p].surviving = {t \in c.within : InThread(t) \ c.named # {}}]
  /\ Goto(p, "clear")
  /\ UNCHANGED <<rows, bucket, storage, minted, calls, faults, history>>

\* The batch of db.deleteMessages: the messages, the emptied threads with all that is
\* in them by now, and the counts of the surviving ones.
RemoveMessages(p) ==
  LET c       == call[p]
      emptied == c.within \ c.surviving
      gone    == c.named \cup UNION {InThread(t) : t \in emptied}
  IN
  /\ pc[p] = "clear"
  /\ DropMessages(gone)
  /\ threads' = [t \in Ids |->
       IF t \in emptied THEN NoThread
       ELSE IF t \in c.surviving /\ threads[t].here
            THEN [threads[t] EXCEPT !.count = Cardinality(InThread(t) \ gone)]
            ELSE threads[t]]
  /\ trimmed' = trimmed \cup c.within
  /\ Goto(p, "release")
  /\ UNCHANGED <<bucket, storage, minted, call, calls, faults, counted, abandoned, overlapped>>

\* recordStorageDelta.
Release(p) ==
  /\ pc[p] = "release"
  /\ TakeStorage(call[p].released)
  /\ Goto(p, "purge")
  /\ UNCHANGED <<rows, bucket, minted, call, calls, faults, history>>

DeleteObjects(p) ==
  /\ pc[p] \in {"purge", "sweep"}
  /\ bucket' = bucket \ call[p].keys
  /\ IF pc[p] = "purge" /\ call[p].op = "delete"
     THEN /\ Goto(p, "remaining")
          /\ call' = [call EXCEPT ![p].keys = {}]
     ELSE EndCall(p)
  /\ UNCHANGED <<rows, storage, minted, calls, faults, history>>

\* Mutant: the thread is only ever recounted.
ListRemainingNever(p) ==
  /\ pc[p] = "remaining"
  /\ Goto(p, "recount")
  /\ UNCHANGED <<rows, bucket, storage, minted, call, calls, faults, history>>

\* deleteMessage: is there anything left in the thread?
ListRemaining(p) ==
  /\ pc[p] = "remaining"
  /\ Goto(p, IF Inside(call[p]) = {} THEN "lookup" ELSE "recount")
  /\ UNCHANGED <<rows, bucket, storage, minted, call, calls, faults, history>>

RecountThread(p) ==
  /\ pc[p] = "recount"
  /\ threads' = [t \in Ids |->
       IF t \in call[p].within /\ threads[t].here
       THEN [threads[t] EXCEPT !.count = Cardinality(InThread(t))]
       ELSE threads[t]]
  /\ EndCall(p)
  /\ UNCHANGED <<messages, attachments, bucket, storage, minted, calls, faults, history>>

\* db.deleteThread: its row, the raw keys and the attachment keys of its messages are
\* read one after the other, then the batch removes them.
LookupThread(p) ==
  /\ pc[p] = "lookup"
  /\ IF \A t \in call[p].within : threads[t].here
     THEN Goto(p, "raws") /\ UNCHANGED call
     ELSE EndCall(p)
  /\ UNCHANGED <<rows, bucket, storage, minted, calls, faults, history>>

SelectRaws(p) ==
  /\ pc[p] = "raws"
  /\ call' = [call EXCEPT ![p].keys = RawKeys(Inside(call[p]))]
  /\ Goto(p, "files")
  /\ UNCHANGED <<rows, bucket, storage, minted, calls, faults, history>>

SelectFiles(p) ==
  /\ pc[p] = "files"
  /\ call' = [call EXCEPT ![p].keys = @ \cup AttachmentKeys(Inside(call[p]))]
  /\ Goto(p, "unthread")
  /\ UNCHANGED <<rows, bucket, storage, minted, calls, faults, history>>

\* Only the drop of a thread gives its bytes back.
DropThread(p) ==
  LET c == call[p] IN
  /\ pc[p] = "unthread"
  /\ DropMessages(Inside(c))
  /\ threads' = [t \in Ids |-> IF t \in c.within THEN NoThread ELSE threads[t]]
  /\ trimmed' = trimmed \cup c.within
  /\ Goto(p, IF c.op = "drop" THEN "release" ELSE "sweep")
  /\ UNCHANGED <<bucket, storage, minted, call, calls, faults, counted, abandoned, overlapped>>

-----------------------------------------------------------------------------
\* record and recordStorageDelta swallow an error of the counters and go on.
StorageWriteLost(p) ==
  /\ pc[p] \in {"record", "release"}
  /\ faults < MaxFaults
  /\ faults' = faults + 1
  /\ IF pc[p] = "record" THEN EndCall(p) ELSE Goto(p, "purge") /\ UNCHANGED call
  /\ UNCHANGED <<rows, bucket, storage, minted, calls, history>>

\* The Worker of a call is killed, or an await throws: nothing the call had left to
\* do happens.
Kill(p) ==
  /\ pc[p] # "idle"
  /\ faults < MaxFaults
  /\ faults' = faults + 1
  /\ abandoned' = abandoned \cup ({call[p].msg} \ {0})
  /\ EndCall(p)
  /\ UNCHANGED <<rows, bucket, storage, minted, calls, counted, trimmed, overlapped>>

Begin(p) ==
  \/ ReceiveStart(p) \/ SendStart(p) \/ ReplyStart(p)
  \/ DeleteStart(p) \/ BatchStart(p) \/ DropStart(p)

Step(p) ==
  \/ PutRaw(p) \/ PutPart(p) \/ ResolveThread(p) \/ GetThread(p) \/ SendMail(p) \/ SendRefused(p)
  \/ InsertThread(p) \/ InsertMessage(p) \/ PutObject(p) \/ InsertAttachment(p)
  \/ InsertThrows(p) \/ Touch(p) \/ Record(p)
  \/ Weigh(p) \/ FindRow(p) \/ SelectKeys(p) \/ RemoveMessage(p)
  \/ SelectSurvivors(p) \/ RemoveMessages(p)
  \/ Release(p) \/ DeleteObjects(p) \/ ListRemaining(p) \/ RecountThread(p)
  \/ LookupThread(p) \/ SelectRaws(p) \/ SelectFiles(p) \/ DropThread(p)
  \/ StorageWriteLost(p)

Next == \E p \in Workers : Begin(p) \/ Step(p) \/ Kill(p)

Spec == Init /\ [][Next]_vars

-----------------------------------------------------------------------------
(* Properties *)

\* Every variable stays within its type.
TypeOK ==
  /\ threads \in [Ids -> Thread]
  /\ messages \in [Ids -> Message]
  /\ attachments \in [Ids -> SUBSET Parts]
  /\ bucket \subseteq Keys
  /\ storage \in Nat
  /\ minted \in 0 .. MaxMessages
  /\ pc \in [Workers -> Labels]
  /\ call \in [Workers -> Call]
  /\ calls \in 0 .. MaxCalls
  /\ faults \in 0 .. MaxFaults
  /\ counted \subseteq Ids
  /\ abandoned \subseteq Ids
  /\ trimmed \subseteq Ids
  /\ overlapped \in BOOLEAN

\* The object of every row that names one is in R2: nothing inserts a row ahead of
\* its object or deletes an object ahead of its row, whichever calls overlap and
\* wherever they are killed.
RowsHaveObjects == RawKeys(Ids) \cup AttachmentKeys(Ids) \subseteq bucket

\* As long as no delete has reached a thread, its message_count is the number of its
\* messages, but for those whose worker has not come to touchThread or was killed
\* before it: concurrent emails, sends and replies all count.
CountsAddUp ==
  \A t \in Ids \ trimmed :
    /\ threads[t].here => threads[t].count = Cardinality(InThread(t) \cap counted)
    /\ \A m \in InThread(t) \ counted :
         m \in abandoned \/ \E p \in Workers : pc[p] # "idle" /\ call[p].msg = m

Idle == \A p \in Workers : pc[p] = "idle"

Consistent ==
  /\ \A t \in Ids : threads[t].here =>
       /\ InThread(t) # {}
       /\ threads[t].count = Cardinality(InThread(t))
       /\ \A m \in InThread(t) : m <= threads[t].last
  /\ storage = Weight(Ids)
  /\ bucket = RawKeys(Ids) \cup AttachmentKeys(Ids)

\* Calls made one after the other, each to its end, keep every derived fact right
\* however long they go on: the count, the date and the existence of each thread,
\* the bytes in use, and no object without its row.
OneAtATimeIsConsistent == Idle /\ ~ overlapped /\ faults = 0 => Consistent

\* The messages that go in a step are named by the call that takes it, or in the thread
\* that it drops.
NamedGo ==
  \A m \in Ids : Exists(m) /\ messages'[m].thread = 0 =>
    \E p \in Workers : /\ pc'[p] # pc[p]
                       /\ m \in call[p].named \/ call[p].op = "drop"

\* Deleting messages takes away the messages named and no others, apart from a drop
\* of their whole thread.
OnlyNamedIsDeleted == [][NamedGo]_vars

\* A delete takes a message that it does not name only after two calls overlapped: no
\* call that is killed, throws or loses a counter write makes a later one do so.
UnnamedLossNeedsOverlap == [][overlapped \/ NamedGo]_vars

\* Once all calls are over, no thread is left empty.
NoThreadLeftEmpty ==
  Idle /\ faults = 0 => \A t \in Ids : threads[t].here => InThread(t) # {}

\* Arriving mail never takes the bytes in use past the quota.
ReceiveKeepsQuota ==
  [][\A p \in Workers :
       pc[p] = "record" /\ pc'[p] = "idle" /\ call[p].op = "receive" => storage' <= Quota]_vars
=============================================================================
