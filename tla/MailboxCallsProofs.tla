------------------------- MODULE MailboxCallsProofs -------------------------
(***************************************************************************)
(* Proofs about Mailbox when calls are made one after the other and none   *)
(* is cut off: whatever their number and order, what is left after each is *)
(* Consistent.                                                             *)
(*                                                                         *)
(* Between two awaits of a call the tables are not consistent, they differ *)
(* from that by what the call still has to do.  The invariant says by how  *)
(* much, at each label: the objects put ahead of their rows and those left *)
(* behind by rows removed, the bytes not yet counted or given back, the    *)
(* thread whose count and date are out of date, and that what the call has *)
(* read so far is still so.  The last section allows faults and shows      *)
(* which messages a delete takes, with a smaller invariant.                *)
(***************************************************************************)
EXTENDS MailboxProofs

\* The places of the message being stored whose objects are there and rows are not.
Ahead(l, c) ==
  IF c.op = "receive"
  THEN CASE l = "part" -> {0} \cup (c.parts \ c.todo)
         [] l \in {"resolve", "thread", "open", "message"} -> {0} \cup c.parts
         [] l = "attach" -> c.todo
         [] OTHER -> {}
  ELSE IF l = "attach" THEN {Least(c.todo)} ELSE {}

Behind(l, c) == IF l \in {"release", "purge", "sweep"} THEN c.keys ELSE {}

ObjectsSettle(l, c) ==
  bucket = RawKeys(Ids) \cup AttachmentKeys(Ids) \cup ({c.msg} \X Ahead(l, c)) \cup Behind(l, c)

Uncounted(l, c) == IF l \in After THEN 1 + Cardinality(attachments[c.msg]) ELSE 0

BytesSettle(l, c) ==
  storage + Uncounted(l, c) = Weight(Ids) + (IF l = "release" THEN c.released ELSE 0)

\* The threads a delete of one message has yet to look at again.
Loose(l, c) ==
  IF c.op = "delete" /\ l \in {"release", "purge", "remaining", "recount", "lookup", "raws",
                               "files", "unthread"}
  THEN c.within ELSE {}

Untouched(l, c) == IF l \in {"object", "attach", "touch"} THEN {c.msg} ELSE {}

ThreadsSettle(l, c) ==
  \A t \in Ids : threads[t].here =>
    /\ t \in Loose(l, c) \/ (l = "message" /\ t = c.thread) \/ InThread(t) # {}
    /\ t \in Loose(l, c) \/ threads[t].count = Cardinality(InThread(t) \ Untouched(l, c))
    /\ \A m \in InThread(t) \ Untouched(l, c) : m <= threads[t].last

\* What a call that stores a message knows of it, of its thread and of its attachments.
StoreKnows(l, c) ==
  /\ c.msg # 0 => c.msg = minted
  /\ l \in {"thread", "send", "message"} /\ c.thread # 0 => threads[c.thread].here
  /\ l \in {"raw", "resolve", "thread", "send", "open", "message"} => c.todo = c.parts
  /\ l \in {"touch", "record"} => c.todo = {}
  /\ l \in After =>
       /\ messages[c.msg] = [thread |-> c.thread, raw |-> c.op = "receive"]
       /\ attachments[c.msg] = c.parts \ c.todo

\* What a call that deletes messages knows of them, and of their keys and bytes.
DeleteKnows(l, c) ==
  /\ l \in {"find", "remove", "remaining", "recount", "sweep"} => c.op = "delete"
  /\ l \in {"survivors", "clear"} => c.op = "batch"
  /\ l = "keys" => c.op \in {"delete", "batch"}
  /\ l \in {"lookup", "raws", "files", "unthread"} => c.op \in {"delete", "drop"}
  /\ c.op \in {"delete", "drop"} => \E t \in Ids : c.within = {t}
  /\ l \in {"weigh", "find", "keys", "survivors", "remove", "clear"} /\ c.op # "drop" =>
       /\ c.within = {messages[m].thread : m \in c.named}
       /\ \A m \in c.named : Exists(m)
       /\ c.keys = RawKeys(c.named) \cup
                     (IF l \in {"weigh", "find", "keys"} THEN {} ELSE AttachmentKeys(c.named))
       /\ l # "weigh" => c.released = Weight(c.named)
  /\ l = "clear" => c.surviving = {t \in c.within : InThread(t) \ c.named # {}}
  /\ l = "recount" => Inside(c) # {}
  /\ l \in {"lookup", "raws", "files", "unthread"} =>
       IF c.op = "delete" THEN Inside(c) = {} ELSE c.released = Weight(Inside(c))
  /\ l = "files" => c.keys = RawKeys(Inside(c))
  /\ l = "unthread" => c.keys = RawKeys(Inside(c)) \cup AttachmentKeys(Inside(c))

Settled(l, c) ==
  /\ ObjectsSettle(l, c)
  /\ BytesSettle(l, c)
  /\ ThreadsSettle(l, c)
  /\ StoreKnows(l, c)
  /\ DeleteKnows(l, c)

\* The foreign key of messages.
ThreadsAreHere == \A m \in Ids : Exists(m) => threads[messages[m].thread].here

OneAtATime ==
  ~ overlapped /\ faults = 0 =>
    /\ ThreadsAreHere
    /\ Idle => Settled("idle", NoCall)
    /\ \A p \in Workers : pc[p] # "idle" =>
         /\ \A q \in Workers \ {p} : pc[q] = "idle"
         /\ Settled(pc[p], call[p])

\* Where a step leaves its worker, and what is settled then.
Lands(p) ==
  \E l \in Labels, c \in Call :
    /\ pc'[p] = l /\ call'[p] = c /\ (l = "idle" => c = NoCall)
    /\ Settled(l, c)'

-----------------------------------------------------------------------------
(* From one label to the next *)

\* What a call has settled is a matter of where it is and of its locals.
LEMMA Arrives ==
  ASSUME NEW p, NEW l, NEW c, pc'[p] = l, call'[p] = c, Settled(l, c)'
  PROVE  Settled(pc[p], call[p])'
<1>1. ObjectsSettle(pc[p], call[p])'
  BY DEF Settled, ObjectsSettle, Ahead, Behind
<1>2. BytesSettle(pc[p], call[p])'
  BY DEF Settled, BytesSettle, Uncounted
<1>3. ThreadsSettle(pc[p], call[p])'
  BY DEF Settled, ThreadsSettle, Loose, Untouched
<1>4. StoreKnows(pc[p], call[p])'
  BY DEF Settled, StoreKnows
<1>5. DeleteKnows(pc[p], call[p])'
  BY DEF Settled, DeleteKnows, Inside
<1>6. QED
  BY <1>1, <1>2, <1>3, <1>4, <1>5 DEF Settled

tables == <<threads, messages, attachments, bucket, storage, minted>>

\* A step that only reads has what it goes on with settled before and after.
LEMMA Reads ==
  ASSUME UNCHANGED tables, NEW l, NEW c, Settled(l, c), ThreadsAreHere
  PROVE  Settled(l, c)' /\ ThreadsAreHere'
<1>1. ObjectsSettle(l, c)'
  BY DEF Settled, ObjectsSettle, Ahead, Behind, tables, RawKeys, AttachmentKeys
<1>2. BytesSettle(l, c)'
  BY DEF Settled, BytesSettle, Uncounted, tables, Weight, Exists, AttachmentKeys
<1>3. ThreadsSettle(l, c)'
  BY DEF Settled, ThreadsSettle, Loose, Untouched, tables, InThread
<1>4. StoreKnows(l, c)'
  BY DEF Settled, StoreKnows, tables
<1>5. DeleteKnows(l, c)'
  BY DEF Settled, DeleteKnows, Inside, tables, InThread, Exists, RawKeys, AttachmentKeys, Weight
<1>6. ThreadsAreHere'
  BY DEF ThreadsAreHere, tables, Exists
<1>7. QED
  BY <1>1, <1>2, <1>3, <1>4, <1>5, <1>6 DEF Settled

\* Between calls everything is settled.
LEMMA IdleSettles == TypeOK => (Settled("idle", NoCall) <=> Consistent)
<1>1. Ahead("idle", NoCall) = {} /\ Behind("idle", NoCall) = {} /\ Loose("idle", NoCall) = {}
      /\ Untouched("idle", NoCall) = {} /\ Uncounted("idle", NoCall) = 0
  BY DEF Ahead, Behind, Loose, Untouched, Uncounted, NoCall, After
<1>2. StoreKnows("idle", NoCall) /\ DeleteKnows("idle", NoCall)
  BY DEF StoreKnows, DeleteKnows, NoCall, After
<1>3. ObjectsSettle("idle", NoCall) <=> bucket = RawKeys(Ids) \cup AttachmentKeys(Ids)
  <2>1. {NoCall.msg} \X {} = {}
    OBVIOUS
  <2>2. QED
    BY <1>1, <2>1 DEF ObjectsSettle
<1>4. \A t \in Ids : InThread(t) \ {} = InThread(t)
  OBVIOUS
<1>5. ThreadsSettle("idle", NoCall) <=>
        \A t \in Ids : threads[t].here =>
          /\ InThread(t) # {}
          /\ threads[t].count = Cardinality(InThread(t))
          /\ \A m \in InThread(t) : m <= threads[t].last
  BY <1>1, <1>4 DEF ThreadsSettle
<1>6. TypeOK => (BytesSettle("idle", NoCall) <=> storage = Weight(Ids))
  <2>1. Weight(Ids) \in Nat
    BY WeightFacts
  <2>2. "idle" # "release"
    OBVIOUS
  <2>3. QED
    BY <1>1, <2>1, <2>2 DEF BytesSettle, TypeOK
<1>7. QED
  BY <1>2, <1>3, <1>5, <1>6 DEF Settled, Consistent

-----------------------------------------------------------------------------
(* Bytes and objects of messages removed *)

\* The bytes of the mailbox are those of some messages and those of the others.
LEMMA WeightSplits ==
  ASSUME NEW M \in SUBSET Ids
  PROVE  Weight(Ids) = Weight(Ids \ M) + Weight(M)
<1> DEFINE E(S) == {m \in S : Exists(m)}
<1>1. /\ E(Ids) = E(Ids \ M) \cup E(M) /\ E(Ids \ M) \cap E(M) = {}
      /\ E(Ids \ M) \in SUBSET Ids /\ E(M) \in SUBSET Ids
  OBVIOUS
<1>2. /\ AttachmentKeys(Ids) = AttachmentKeys(Ids \ M) \cup AttachmentKeys(M)
      /\ AttachmentKeys(Ids \ M) \cap AttachmentKeys(M) = {}
      /\ AttachmentKeys(Ids \ M) \in SUBSET Keys /\ AttachmentKeys(M) \in SUBSET Keys
  BY DEF AttachmentKeys, Keys
<1>3. ASSUME NEW S, NEW T, IsFiniteSet(S), IsFiniteSet(T), S \cap T = {}
      PROVE  Cardinality(S \cup T) = Cardinality(S) + Cardinality(T)
  <2>1. Cardinality({}) = 0 /\ Cardinality(S) \in Nat /\ Cardinality(T) \in Nat
    BY <1>3, FS_EmptySet, FS_CardinalityType
  <2>2. Cardinality(S \cup T) = Cardinality(S) + Cardinality(T) - Cardinality(S \cap T)
    BY <1>3, FS_Union
  <2>3. Cardinality(S \cap T) = 0
    BY <1>3, <2>1
  <2>4. QED
    BY <2>1, <2>2, <2>3
<1>4. Cardinality(E(Ids)) = Cardinality(E(Ids \ M)) + Cardinality(E(M))
  BY <1>1, <1>3, FiniteFacts
<1>5. Cardinality(AttachmentKeys(Ids))
        = Cardinality(AttachmentKeys(Ids \ M)) + Cardinality(AttachmentKeys(M))
  BY <1>2, <1>3, FiniteFacts
<1>6. /\ Cardinality(E(Ids \ M)) \in Nat /\ Cardinality(E(M)) \in Nat
      /\ Cardinality(AttachmentKeys(Ids \ M)) \in Nat /\ Cardinality(AttachmentKeys(M)) \in Nat
  BY <1>1, <1>2, FiniteFacts
<1>7. QED
  BY <1>4, <1>5, <1>6 DEF Weight

\* Rows removed leave their bytes counted and their objects behind.
LEMMA Dropped ==
  ASSUME TypeOK, NEW M \in SUBSET Ids, DropMessages(M)
  PROVE  /\ RawKeys(Ids) = RawKeys(Ids)' \cup RawKeys(M)
         /\ AttachmentKeys(Ids) = AttachmentKeys(Ids)' \cup AttachmentKeys(M)
         /\ Weight(Ids) = Weight(Ids)' + Weight(M)
         /\ \A t \in Ids : InThread(t)' = InThread(t) \ M
         /\ \A m \in Ids : messages'[m].thread = IF m \in M THEN 0 ELSE messages[m].thread
<1>1. /\ \A m \in Ids : messages'[m] = IF m \in M THEN NoMessage ELSE messages[m]
      /\ \A m \in Ids : attachments'[m] = IF m \in M THEN {} ELSE attachments[m]
  BY DEF DropMessages
<1>2. NoMessage.thread = 0 /\ NoMessage.raw = FALSE
  BY DEF NoMessage
<1>3. \A m \in Ids : messages'[m].thread = IF m \in M THEN 0 ELSE messages[m].thread
  BY <1>1, <1>2
<1>4. \A k \in Keys : k[1] \in Ids
  BY DEF Keys
<1>5. /\ RawKeys(Ids)' = RawKeys(Ids \ M)
      /\ RawKeys(Ids) = RawKeys(Ids \ M) \cup RawKeys(M)
  BY <1>1, <1>2, <1>4 DEF RawKeys
<1>6. /\ AttachmentKeys(Ids)' = AttachmentKeys(Ids \ M)
      /\ AttachmentKeys(Ids) = AttachmentKeys(Ids \ M) \cup AttachmentKeys(M)
  BY <1>1, <1>4 DEF AttachmentKeys
<1>7. Weight(Ids)' = Weight(Ids \ M)
  <2>1. {m \in Ids : messages'[m].thread # 0} = {m \in Ids \ M : messages[m].thread # 0}
    BY <1>3
  <2>2. QED
    BY <1>6, <2>1 DEF Weight, Exists
<1>8. \A t \in Ids : InThread(t)' = InThread(t) \ M
  BY <1>3 DEF InThread, Ids
<1>9. QED
  BY <1>3, <1>5, <1>6, <1>7, <1>8, WeightSplits

-----------------------------------------------------------------------------
(* The steps of a delete *)

\* Where no message is being stored, the tables differ from what is consistent by
\* the objects left behind, the bytes to give back and the loose threads alone.
LEMMA GoesOn ==
  ASSUME NEW l0, NEW c, NEW l, NEW d, Settled(l0, c),
         Ahead(l0, c) = {}, Ahead(l, d) = {},
         Behind(l0, c) = Behind(l, d), Loose(l0, c) = Loose(l, d),
         l0 \notin After \cup {"message", "release"}, l \notin After \cup {"message", "release"},
         StoreKnows(l, d), DeleteKnows(l, d)
  PROVE  Settled(l, d)
<1>1. ObjectsSettle(l, d)
  <2>1. {c.msg} \X Ahead(l0, c) = {} /\ {d.msg} \X Ahead(l, d) = {}
    OBVIOUS
  <2>2. QED
    BY <2>1 DEF Settled, ObjectsSettle
<1>2. BytesSettle(l, d)
  BY DEF Settled, BytesSettle, Uncounted
<1>3. ThreadsSettle(l, d)
  BY DEF Settled, ThreadsSettle, Untouched, After
<1>4. QED
  BY <1>1, <1>2, <1>3 DEF Settled

\* A delete that has read something goes on.
LEMMA LandsAt ==
  ASSUME NEW l0, NEW c, NEW p, NEW l \in Labels, NEW d \in Call, Settled(l0, c), ThreadsAreHere,
         UNCHANGED tables, pc'[p] = l, call'[p] = d, l = "idle" => d = NoCall,
         Ahead(l0, c) = {}, Ahead(l, d) = {},
         Behind(l0, c) = Behind(l, d), Loose(l0, c) = Loose(l, d),
         l0 \notin After \cup {"message", "release"}, l \notin After \cup {"message", "release"},
         StoreKnows(l, d), DeleteKnows(l, d)
  PROVE  Lands(p) /\ ThreadsAreHere'
<1>1. Settled(l, d)
  BY GoesOn
<1>2. Settled(l, d)' /\ ThreadsAreHere'
  BY <1>1, Reads
<1>3. QED
  BY <1>2 DEF Lands

\* What a delete reads stays so while it is the only call.
LEMMA DeleteReads ==
  ASSUME MailboxInvariant, ThreadsAreHere, NEW p \in Workers, Settled(pc[p], call[p]),
         \/ Weigh(p) \/ FindRow(p) \/ SelectKeys(p) \/ SelectSurvivors(p)
         \/ ListRemaining(p) \/ SelectRaws(p) \/ SelectFiles(p) \/ LookupThread(p)
  PROVE  Lands(p) /\ ThreadsAreHere'
<1>0. UNCHANGED tables /\ pc \in [Workers -> Labels] /\ call \in [Workers -> Call]
  BY DEF Weigh, FindRow, SelectKeys, SelectSurvivors, ListRemaining, SelectRaws, SelectFiles,
         LookupThread, tables, rows, MailboxInvariant, TypeOK
<1>1. PICK l \in Labels : l = pc[p]
  BY <1>0
<1>2. PICK c \in Call : /\ c = call[p] /\ Settled(l, c) /\ Stores(p, l, c)
  BY <1>1, WorkerFacts DEF Worker
<1>3. l \in Deleting /\ c.msg = 0
  BY <1>1, <1>2
  DEF Weigh, FindRow, SelectKeys, SelectSurvivors, ListRemaining, SelectRaws, SelectFiles,
      LookupThread, Deleting, Stores
<1>4. /\ c.named \in SUBSET Ids /\ c.within \in SUBSET Ids /\ Inside(c) \in SUBSET Ids
      /\ RawKeys(c.named) \cup AttachmentKeys(c.named) \in SUBSET Keys
      /\ RawKeys(Inside(c)) \cup AttachmentKeys(Inside(c)) \in SUBSET Keys
  BY <1>2 DEF Call, Inside, InThread, RawKeys, AttachmentKeys
<1>5. DeleteKnows(l, c)
  BY <1>2 DEF Settled
<1>6. CASE Weigh(p)
  <2>1. l = "weigh" /\ c.op \in {"delete", "batch", "drop"}
    BY <1>1, <1>2, <1>6 DEF Weigh, Stores
  <2>2. PICK w \in Nat : w = Weight(IF c.op = "drop" THEN Inside(c) ELSE c.named)
    BY <1>4, WeightFacts
  <2>3. PICK d : d = [c EXCEPT !.released = w]
    OBVIOUS
  <2>4. /\ d \in Call /\ d.op = c.op /\ d.msg = 0 /\ d.within = c.within /\ d.named = c.named
        /\ d.keys = c.keys /\ d.released = w /\ d.thread = c.thread
    BY <1>2, <1>3, <2>3 DEF Call
  <2>5. PICK k \in Labels : /\ k = CASE c.op = "delete" -> "find" [] c.op = "batch" -> "keys"
                                     [] c.op = "drop" -> "lookup"
                            /\ pc'[p] = k /\ call'[p] = d
    BY <1>0, <1>2, <1>6, <2>1, <2>2, <2>3 DEF Weigh, Goto, Labels
  <2>6. \/ c.op = "delete" /\ k = "find"
        \/ c.op = "batch" /\ k = "keys"
        \/ c.op = "drop" /\ k = "lookup"
    BY <2>1, <2>5
  <2>7. Inside(d) = Inside(c)
    BY <2>4 DEF Inside
  <2>8. DeleteKnows(k, d)
    BY <1>5, <2>1, <2>2, <2>4, <2>6, <2>7 DEF DeleteKnows
  <2>9. StoreKnows(k, d)
    BY <2>4, <2>6 DEF StoreKnows, After
  <2>10. /\ Ahead(l, c) = {} /\ Ahead(k, d) = {} /\ Behind(l, c) = {} /\ Behind(k, d) = {}
         /\ Loose(l, c) = {} /\ Loose(k, d) = {}
    BY <2>1, <2>4, <2>6 DEF Ahead, Behind, Loose
  <2>11. /\ l \notin After \cup {"message", "release"}
         /\ k \notin After \cup {"message", "release", "idle"}
    BY <2>1, <2>6 DEF After
  <2>12. QED
    BY <1>0, <1>2, <2>4, <2>5, <2>8, <2>9, <2>10, <2>11, LandsAt
<1>7. CASE FindRow(p)
  <2>1. l = "find" /\ c.op = "delete" /\ \A m \in c.named : Exists(m)
    BY <1>1, <1>5, <1>7 DEF FindRow, DeleteKnows
  <2>2. pc'[p] = "keys" /\ call'[p] = c
    BY <1>0, <1>2, <1>7, <2>1 DEF FindRow, Goto
  <2>3. DeleteKnows("keys", c)
    BY <1>5, <2>1 DEF DeleteKnows
  <2>4. StoreKnows("keys", c)
    BY <1>3 DEF StoreKnows, After
  <2>5. /\ Ahead(l, c) = {} /\ Ahead("keys", c) = {} /\ Behind(l, c) = {} /\ Behind("keys", c) = {}
        /\ Loose(l, c) = {} /\ Loose("keys", c) = {}
    BY <2>1 DEF Ahead, Behind, Loose
  <2>6. QED
    BY <1>0, <1>2, <2>1, <2>2, <2>3, <2>4, <2>5, LandsAt DEF After, Labels
<1>8. CASE SelectKeys(p)
  <2>1. l = "keys" /\ c.op \in {"delete", "batch"}
    BY <1>1, <1>5, <1>8 DEF SelectKeys, DeleteKnows
  <2>2. PICK ks \in SUBSET Keys : ks = c.keys \cup AttachmentKeys(c.named)
    BY <1>2, <1>4 DEF Call
  <2>3. PICK d : d = [c EXCEPT !.keys = ks]
    OBVIOUS
  <2>4. /\ d \in Call /\ d.op = c.op /\ d.msg = 0 /\ d.within = c.within /\ d.named = c.named
        /\ d.keys = ks /\ d.released = c.released /\ d.thread = c.thread
    BY <1>2, <1>3, <2>3 DEF Call
  <2>5. PICK k \in Labels : k = (IF c.op = "batch" THEN "survivors" ELSE "remove")
    BY DEF Labels
  <2>6. pc'[p] = k /\ call'[p] = d
    BY <1>0, <1>2, <1>8, <2>2, <2>3, <2>5 DEF SelectKeys, Goto
  <2>7. \/ c.op = "batch" /\ k = "survivors"
        \/ c.op = "delete" /\ k = "remove"
    BY <2>1, <2>5
  <2>8. DeleteKnows(k, d)
    BY <1>5, <2>1, <2>2, <2>4, <2>7 DEF DeleteKnows
  <2>9. StoreKnows(k, d)
    BY <2>4, <2>7 DEF StoreKnows, After
  <2>10. /\ Ahead(l, c) = {} /\ Ahead(k, d) = {} /\ Behind(l, c) = {} /\ Behind(k, d) = {}
         /\ Loose(l, c) = {} /\ Loose(k, d) = {}
    BY <2>1, <2>4, <2>7 DEF Ahead, Behind, Loose
  <2>11. /\ l \notin After \cup {"message", "release"}
         /\ k \notin After \cup {"message", "release", "idle"}
    BY <2>1, <2>7 DEF After
  <2>12. QED
    BY <1>0, <1>2, <2>4, <2>6, <2>8, <2>9, <2>10, <2>11, LandsAt
<1>9. CASE SelectSurvivors(p)
  <2>1. l = "survivors" /\ c.op = "batch"
    BY <1>1, <1>5, <1>9 DEF SelectSurvivors, DeleteKnows
  <2>2. PICK T \in SUBSET Ids : T = {t \in c.within : InThread(t) \ c.named # {}}
    BY <1>4
  <2>3. PICK d : d = [c EXCEPT !.surviving = T]
    OBVIOUS
  <2>4. /\ d \in Call /\ d.op = c.op /\ d.msg = 0 /\ d.within = c.within /\ d.named = c.named
        /\ d.keys = c.keys /\ d.released = c.released /\ d.thread = c.thread /\ d.surviving = T
    BY <1>2, <1>3, <2>3 DEF Call
  <2>5. pc'[p] = "clear" /\ call'[p] = d
    BY <1>0, <1>2, <1>9, <2>2, <2>3 DEF SelectSurvivors, Goto
  <2>6. DeleteKnows("clear", d)
    BY <1>5, <2>1, <2>2, <2>4 DEF DeleteKnows
  <2>7. StoreKnows("clear", d)
    BY <2>4 DEF StoreKnows, After
  <2>8. /\ Ahead(l, c) = {} /\ Ahead("clear", d) = {} /\ Behind(l, c) = {} /\ Behind("clear", d) = {}
        /\ Loose(l, c) = {} /\ Loose("clear", d) = {}
    BY <2>1, <2>4 DEF Ahead, Behind, Loose
  <2>9. QED
    BY <1>0, <1>2, <2>1, <2>4, <2>5, <2>6, <2>7, <2>8, LandsAt DEF After, Labels
<1>10. CASE ListRemaining(p)
  <2>1. l = "remaining" /\ c.op = "delete"
    BY <1>1, <1>5, <1>10 DEF ListRemaining, DeleteKnows
  <2>2. PICK k \in Labels : k = (IF Inside(c) = {} THEN "lookup" ELSE "recount")
    BY DEF Labels
  <2>3. pc'[p] = k /\ call'[p] = c
    BY <1>0, <1>2, <1>10, <2>2 DEF ListRemaining, Goto
  <2>4. DeleteKnows(k, c)
    BY <1>5, <2>1, <2>2 DEF DeleteKnows
  <2>5. StoreKnows(k, c)
    BY <1>3, <2>2 DEF StoreKnows, After
  <2>6. /\ Ahead(l, c) = {} /\ Ahead(k, c) = {} /\ Behind(l, c) = {} /\ Behind(k, c) = {}
        /\ Loose(l, c) = c.within /\ Loose(k, c) = c.within
    BY <2>1, <2>2 DEF Ahead, Behind, Loose
  <2>7. /\ l \notin After \cup {"message", "release"}
        /\ k \notin After \cup {"message", "release", "idle"}
    BY <2>1, <2>2 DEF After
  <2>8. QED
    BY <1>0, <1>2, <2>3, <2>4, <2>5, <2>6, <2>7, LandsAt
<1>11. CASE SelectRaws(p) \/ SelectFiles(p)
  <2>1. PICK ks \in SUBSET Keys :
          IF SelectRaws(p) THEN ks = RawKeys(Inside(c)) ELSE ks = c.keys \cup AttachmentKeys(Inside(c))
    BY <1>2, <1>4 DEF Call
  <2>2. PICK d : d = [c EXCEPT !.keys = ks]
    OBVIOUS
  <2>3. /\ d \in Call /\ d.op = c.op /\ d.msg = 0 /\ d.within = c.within /\ d.named = c.named
        /\ d.keys = ks /\ d.released = c.released /\ d.thread = c.thread
    BY <1>2, <1>3, <2>2 DEF Call
  <2>4. Inside(d) = Inside(c)
    BY <2>3 DEF Inside
  <2>5. PICK k \in {"files", "unthread"} :
          /\ k = "files" => l = "raws" /\ ks = RawKeys(Inside(c))
          /\ k = "unthread" => l = "files" /\ ks = c.keys \cup AttachmentKeys(Inside(c))
          /\ pc'[p] = k /\ call'[p] = d
    <3>1. CASE SelectRaws(p)
      BY <1>0, <1>1, <1>2, <2>1, <2>2, <3>1 DEF SelectRaws, Goto
    <3>2. CASE ~ SelectRaws(p)
      BY <1>0, <1>1, <1>2, <1>11, <2>1, <2>2, <3>2 DEF SelectFiles, Goto
    <3>3. QED
      BY <3>1, <3>2
  <2>6. l \in {"raws", "files"} /\ c.op \in {"delete", "drop"}
    BY <1>5, <2>5 DEF DeleteKnows
  <2>7. DeleteKnows(k, d)
    BY <1>5, <2>3, <2>4, <2>5, <2>6 DEF DeleteKnows
  <2>8. StoreKnows(k, d)
    BY <2>3, <2>5 DEF StoreKnows, After
  <2>9. /\ Ahead(l, c) = {} /\ Ahead(k, d) = {} /\ Behind(l, c) = {} /\ Behind(k, d) = {}
        /\ Loose(l, c) = Loose(k, d)
    BY <2>3, <2>5, <2>6 DEF Ahead, Behind, Loose
  <2>10. /\ l \notin After \cup {"message", "release"} /\ k \in Labels
         /\ k \notin After \cup {"message", "release", "idle"}
    BY <2>5, <2>6 DEF After, Labels
  <2>11. QED
    BY <1>0, <1>2, <2>3, <2>5, <2>7, <2>8, <2>9, <2>10, LandsAt
<1>12. CASE LookupThread(p)
  <2>1. l = "lookup" /\ c.op \in {"delete", "drop"}
    BY <1>1, <1>5, <1>12 DEF LookupThread, DeleteKnows
  <2>2. CASE \A t \in c.within : threads[t].here
    <3>1. pc'[p] = "raws" /\ call'[p] = c
      BY <1>0, <1>2, <1>12, <2>2 DEF LookupThread, Goto
    <3>2. DeleteKnows("raws", c)
      BY <1>5, <2>1 DEF DeleteKnows
    <3>3. StoreKnows("raws", c)
      BY <1>3 DEF StoreKnows, After
    <3>4. /\ Ahead(l, c) = {} /\ Ahead("raws", c) = {} /\ Behind(l, c) = {} /\ Behind("raws", c) = {}
          /\ Loose(l, c) = Loose("raws", c)
      BY <2>1 DEF Ahead, Behind, Loose
    <3>5. QED
      BY <1>0, <1>2, <2>1, <3>1, <3>2, <3>3, <3>4, LandsAt DEF After, Labels
  <2>3. CASE ~ \A t \in c.within : threads[t].here
    <3>1. pc'[p] = "idle" /\ call'[p] = NoCall
      BY <1>0, <1>2, <1>12, <2>3 DEF LookupThread, EndCall, Goto
    <3>2. PICK t \in Ids : c.within = {t}
      BY <1>5, <2>1 DEF DeleteKnows
    <3>3. ~ threads[t].here
      BY <2>3, <3>2
    <3>4. /\ Ahead(l, c) = {} /\ Behind(l, c) = {} /\ Loose(l, c) \subseteq {t}
          /\ Untouched(l, c) = {} /\ Uncounted(l, c) = 0
      BY <2>1, <3>2 DEF Ahead, Behind, Loose, Untouched, Uncounted, After
    <3>5. bucket = RawKeys(Ids) \cup AttachmentKeys(Ids)
      <4>1. {c.msg} \X {} = {}
        OBVIOUS
      <4>2. QED
        BY <1>2, <3>4, <4>1 DEF Settled, ObjectsSettle
    <3>6. storage = Weight(Ids)
      <4>1. storage \in Nat /\ Weight(Ids) \in Nat
        BY WeightFacts DEF MailboxInvariant, TypeOK
      <4>2. storage + 0 = Weight(Ids) + 0
        BY <1>2, <2>1, <3>4 DEF Settled, BytesSettle
      <4>3. QED
        BY <4>1, <4>2
    <3>7. \A u \in Ids : InThread(u) \ {} = InThread(u)
      OBVIOUS
    <3>8. ASSUME NEW u \in Ids, threads[u].here
          PROVE  /\ InThread(u) # {} /\ threads[u].count = Cardinality(InThread(u))
                 /\ \A m \in InThread(u) : m <= threads[u].last
      <4>1. u \notin Loose(l, c) /\ l # "message"
        BY <2>1, <3>3, <3>4, <3>8
      <4>2. QED
        BY <1>2, <3>4, <3>7, <3>8, <4>1 DEF Settled, ThreadsSettle
    <3>9. Consistent
      BY <3>5, <3>6, <3>8 DEF Consistent
    <3>10. Settled("idle", NoCall)
      BY <3>9, IdleSettles DEF MailboxInvariant
    <3>11. Settled("idle", NoCall)' /\ ThreadsAreHere'
      BY <1>0, <3>10, Reads
    <3>12. QED
      BY <3>1, <3>11, NoCallFacts DEF Lands, Labels
  <2>4. QED
    BY <2>2, <2>3
<1>13. QED
  BY <1>6, <1>7, <1>8, <1>9, <1>10, <1>11, <1>12

\* What the tables are where no message is being stored.
LEMMA CalmFacts ==
  ASSUME TypeOK, NEW l, NEW c, Settled(l, c), Ahead(l, c) = {}, l \notin After \cup {"message"},
         l = "release" => c.released \in Nat
  PROVE  /\ bucket = RawKeys(Ids) \cup AttachmentKeys(Ids) \cup Behind(l, c)
         /\ storage = Weight(Ids) + (IF l = "release" THEN c.released ELSE 0)
         /\ \A t \in Ids : threads[t].here =>
              /\ t \in Loose(l, c) \/ (InThread(t) # {} /\ threads[t].count = Cardinality(InThread(t)))
              /\ \A m \in InThread(t) : m <= threads[t].last
<1>1. {c.msg} \X {} = {}
  OBVIOUS
<1>2. bucket = RawKeys(Ids) \cup AttachmentKeys(Ids) \cup Behind(l, c)
  BY <1>1 DEF Settled, ObjectsSettle
<1>3. storage = Weight(Ids) + (IF l = "release" THEN c.released ELSE 0)
  <2>1. Uncounted(l, c) = 0 /\ Weight(Ids) \in Nat /\ storage \in Nat
    BY WeightFacts DEF Uncounted, TypeOK
  <2>2. QED
    BY <2>1 DEF Settled, BytesSettle
<1>4. Untouched(l, c) = {} /\ \A t \in Ids : InThread(t) \ {} = InThread(t)
  BY DEF Untouched, After
<1>5. QED
  BY <1>2, <1>3, <1>4 DEF Settled, ThreadsSettle

\* And that this is enough.
LEMMA CalmLands ==
  ASSUME NEW p, NEW l \in Labels, NEW d \in Call, pc'[p] = l, call'[p] = d,
         l = "idle" => d = NoCall,
         Ahead(l, d) = {}, l \notin After \cup {"message"},
         storage' \in Nat,
         bucket' = RawKeys(Ids)' \cup AttachmentKeys(Ids)' \cup Behind(l, d),
         storage' = Weight(Ids)' + (IF l = "release" THEN d.released ELSE 0),
         \A t \in Ids : threads'[t].here =>
           /\ t \in Loose(l, d) \/ (InThread(t)' # {} /\ threads'[t].count = Cardinality(InThread(t)'))
           /\ \A m \in InThread(t)' : m <= threads'[t].last,
         StoreKnows(l, d)', DeleteKnows(l, d)'
  PROVE  Lands(p)
<1>1. ObjectsSettle(l, d)'
  <2>1. {d.msg} \X {} = {} /\ Ahead(l, d)' = {} /\ Behind(l, d)' = Behind(l, d)
    BY DEF Ahead, Behind
  <2>2. QED
    BY <2>1 DEF ObjectsSettle
<1>2. BytesSettle(l, d)'
  <2>1. Uncounted(l, d)' = 0
    BY DEF Uncounted
  <2>2. storage' + 0 = storage'
    OBVIOUS
  <2>3. QED
    BY <2>1, <2>2 DEF BytesSettle
<1>3. ThreadsSettle(l, d)'
  <2>1. Untouched(l, d)' = {} /\ Loose(l, d)' = Loose(l, d)
    BY DEF Untouched, Loose, After
  <2>2. \A t \in Ids : InThread(t)' \ {} = InThread(t)'
    OBVIOUS
  <2>3. QED
    BY <2>1, <2>2 DEF ThreadsSettle
<1>4. Settled(l, d)'
  BY <1>1, <1>2, <1>3 DEF Settled
<1>5. QED
  BY <1>4 DEF Lands

\* A removal leaves the objects behind, to be deleted, and the bytes to be given back.
LEMMA DropLands ==
  ASSUME MailboxInvariant, NEW p \in Workers, NEW l0, NEW c \in Call, Settled(l0, c),
         Ahead(l0, c) = {}, Behind(l0, c) = {}, l0 \notin After \cup {"message", "release"},
         c.msg = 0, NEW l \in {"release", "sweep"}, pc'[p] = l, call'[p] = c,
         NEW M \in SUBSET Ids, DropMessages(M), c.keys = RawKeys(M) \cup AttachmentKeys(M),
         Weight(M) = (IF l = "release" THEN c.released ELSE 0),
         l = "sweep" => c.op = "delete",
         UNCHANGED <<bucket, storage, minted>>,
         \A t \in Ids : threads'[t].here =>
           /\ \/ t \in Loose(l, c)
              \/ InThread(t) \ M # {} /\ threads'[t].count = Cardinality(InThread(t) \ M)
           /\ \A m \in InThread(t) \ M : m <= threads'[t].last
  PROVE  Lands(p)
<1>0. TypeOK /\ storage \in Nat /\ l \in Labels /\ l \notin After \cup {"message", "idle"}
  BY DEF MailboxInvariant, TypeOK, Labels, After
<1>1. /\ bucket = RawKeys(Ids) \cup AttachmentKeys(Ids) /\ storage = Weight(Ids) + 0
  BY <1>0, CalmFacts
<1>2. /\ RawKeys(Ids) = RawKeys(Ids)' \cup RawKeys(M)
      /\ AttachmentKeys(Ids) = AttachmentKeys(Ids)' \cup AttachmentKeys(M)
      /\ Weight(Ids) = Weight(Ids)' + Weight(M)
      /\ \A t \in Ids : InThread(t)' = InThread(t) \ M
  BY <1>0, Dropped
<1>3. bucket' = RawKeys(Ids)' \cup AttachmentKeys(Ids)' \cup Behind(l, c)
  BY <1>1, <1>2 DEF Behind
<1>4. storage' = Weight(Ids)' + (IF l = "release" THEN c.released ELSE 0)
  <2>1. Weight(Ids) + 0 = Weight(Ids)
    <3>1. Weight(Ids) \in Nat
      BY WeightFacts
    <3>2. QED
      BY <3>1
  <2>2. QED
    BY <1>1, <1>2, <2>1
<1>5. StoreKnows(l, c)'
  BY <1>0 DEF StoreKnows, After
<1>6. DeleteKnows(l, c)'
  BY DEF Settled, DeleteKnows
<1>7. Ahead(l, c) = {}
  BY DEF Ahead
<1>8. \A t \in Ids : threads'[t].here =>
        /\ t \in Loose(l, c) \/ (InThread(t)' # {} /\ threads'[t].count = Cardinality(InThread(t)'))
        /\ \A m \in InThread(t)' : m <= threads'[t].last
  BY <1>2
<1>9. storage' \in Nat
  BY <1>0
<1>10. QED
  BY <1>0, <1>3, <1>4, <1>5, <1>6, <1>7, <1>8, <1>9, CalmLands

\* deleteMessage takes the row out and leaves its thread to be looked at again.
LEMMA RemoveMessageLands ==
  ASSUME MailboxInvariant, ThreadsAreHere, NEW p \in Workers, Settled(pc[p], call[p]),
         RemoveMessage(p)
  PROVE  Lands(p) /\ ThreadsAreHere'
<1>1. PICK c \in Call : c = call[p] /\ Settled("remove", c) /\ Stores(p, "remove", c)
  BY WorkerFacts DEF Worker, RemoveMessage
<1>2. /\ c.msg = 0 /\ c.op = "delete" /\ c.within = {messages[m].thread : m \in c.named}
      /\ c.keys = RawKeys(c.named) \cup AttachmentKeys(c.named) /\ c.released = Weight(c.named)
  BY <1>1 DEF Stores, Deleting, Settled, DeleteKnows
<1>3. /\ c.named \in SUBSET Ids /\ pc'[p] = "release" /\ call'[p] = c /\ DropMessages(c.named)
      /\ UNCHANGED <<threads, bucket, storage, minted>>
  BY <1>1 DEF RemoveMessage, Goto, Call, MailboxInvariant, TypeOK
<1>4. /\ Ahead("remove", c) = {} /\ Behind("remove", c) = {} /\ Loose("remove", c) = {}
      /\ Loose("release", c) = c.within
  BY <1>2 DEF Ahead, Behind, Loose
<1>5. "remove" \notin After \cup {"message", "release"}
  BY DEF After
<1>6. \A t \in Ids : threads[t].here =>
        /\ InThread(t) # {} /\ threads[t].count = Cardinality(InThread(t))
        /\ \A m \in InThread(t) : m <= threads[t].last
  BY <1>1, <1>4, <1>5, CalmFacts DEF MailboxInvariant
<1>7. ASSUME NEW t \in Ids, threads'[t].here
      PROVE  /\ \/ t \in Loose("release", c)
                \/ InThread(t) \ c.named # {} /\ threads'[t].count = Cardinality(InThread(t) \ c.named)
             /\ \A m \in InThread(t) \ c.named : m <= threads'[t].last
  <2>1. CASE t \in c.within
    BY <1>3, <1>4, <1>6, <1>7, <2>1
  <2>2. CASE t \notin c.within
    <3>1. InThread(t) \ c.named = InThread(t)
      BY <1>2, <2>2 DEF InThread
    <3>2. QED
      BY <1>3, <1>6, <1>7, <3>1
  <2>3. QED
    BY <2>1, <2>2
<1>8. Lands(p)
  <2>1. PICK l \in {"release", "sweep"} : l = "release"
    OBVIOUS
  <2>2. Weight(c.named) = (IF l = "release" THEN c.released ELSE 0)
    BY <1>2, <2>1
  <2>3. pc'[p] = l /\ (l = "sweep" => c.op = "delete")
    BY <1>3, <2>1
  <2>4. \A t \in Ids : threads'[t].here =>
          /\ \/ t \in Loose(l, c)
             \/ InThread(t) \ c.named # {} /\ threads'[t].count = Cardinality(InThread(t) \ c.named)
          /\ \A m \in InThread(t) \ c.named : m <= threads'[t].last
    BY <1>7, <2>1
  <2>5. QED
    BY <1>1, <1>2, <1>3, <1>4, <1>5, <2>2, <2>3, <2>4, DropLands
<1>9. ThreadsAreHere'
  <2>1. \A m \in Ids : messages'[m].thread = IF m \in c.named THEN 0 ELSE messages[m].thread
    BY <1>3, Dropped DEF MailboxInvariant
  <2>2. QED
    BY <1>3, <2>1 DEF ThreadsAreHere, Exists
<1>10. QED
  BY <1>8, <1>9

\* deleteMessages takes the emptied threads with the rows; when nothing else is under
\* way, only the messages named are in them.
LEMMA RemoveMessagesLands ==
  ASSUME MailboxInvariant, ThreadsAreHere, NEW p \in Workers, Settled(pc[p], call[p]),
         RemoveMessages(p)
  PROVE  Lands(p) /\ ThreadsAreHere'
<1>1. PICK c \in Call : c = call[p] /\ Settled("clear", c) /\ Stores(p, "clear", c)
  BY WorkerFacts DEF Worker, RemoveMessages
<1>2. /\ c.msg = 0 /\ c.op = "batch" /\ c.within = {messages[m].thread : m \in c.named}
      /\ c.keys = RawKeys(c.named) \cup AttachmentKeys(c.named) /\ c.released = Weight(c.named)
      /\ c.surviving = {t \in c.within : InThread(t) \ c.named # {}}
  BY <1>1 DEF Stores, Deleting, Settled, DeleteKnows
<1>3. PICK emptied : emptied = c.within \ c.surviving
  OBVIOUS
<1>4. \A t \in emptied : t \in c.within /\ InThread(t) \ c.named = {}
  BY <1>2, <1>3
<1>5. c.named \cup UNION {InThread(t) : t \in emptied} = c.named
  BY <1>4
<1>6. /\ c.named \in SUBSET Ids /\ pc'[p] = "release" /\ call'[p] = c /\ DropMessages(c.named)
      /\ UNCHANGED <<bucket, storage, minted>>
      /\ threads' = [t \in Ids |->
           IF t \in emptied THEN NoThread
           ELSE IF t \in c.surviving /\ threads[t].here
                THEN [threads[t] EXCEPT !.count = Cardinality(InThread(t) \ c.named)]
                ELSE threads[t]]
  BY <1>1, <1>3, <1>5 DEF RemoveMessages, Goto, Call, MailboxInvariant, TypeOK
<1>7. /\ Ahead("clear", c) = {} /\ Behind("clear", c) = {} /\ Loose("clear", c) = {}
      /\ Loose("release", c) = {}
  BY <1>2 DEF Ahead, Behind, Loose
<1>8. "clear" \notin After \cup {"message", "release"}
  BY DEF After
<1>9. \A t \in Ids : threads[t].here =>
        /\ InThread(t) # {} /\ threads[t].count = Cardinality(InThread(t))
        /\ \A m \in InThread(t) : m <= threads[t].last
  BY <1>1, <1>7, <1>8, CalmFacts DEF MailboxInvariant
<1>10. ASSUME NEW t \in Ids
       PROVE  /\ threads'[t].here <=> (threads[t].here /\ t \notin emptied)
              /\ threads'[t].here => threads'[t].last = threads[t].last
              /\ threads'[t].here => threads'[t].count = IF t \in c.surviving
                                       THEN Cardinality(InThread(t) \ c.named) ELSE threads[t].count
  <2>1. threads[t] \in Thread
    BY DEF MailboxInvariant, TypeOK
  <2>2. CASE t \in emptied
    BY <1>6, <2>2 DEF NoThread
  <2>3. CASE t \notin emptied /\ t \in c.surviving /\ threads[t].here
    <3>1. threads'[t] = [threads[t] EXCEPT !.count = Cardinality(InThread(t) \ c.named)]
      BY <1>6, <2>3
    <3>2. QED
      BY <2>1, <2>3, <3>1 DEF Thread
  <2>4. CASE t \notin emptied /\ ~ (t \in c.surviving /\ threads[t].here)
    <3>1. threads'[t] = threads[t]
      BY <1>6, <2>4
    <3>2. QED
      BY <2>1, <2>4, <3>1 DEF Thread
  <2>5. QED
    BY <2>2, <2>3, <2>4
<1>11. ASSUME NEW t \in Ids, threads'[t].here
       PROVE  /\ \/ t \in Loose("release", c)
                 \/ InThread(t) \ c.named # {} /\ threads'[t].count = Cardinality(InThread(t) \ c.named)
              /\ \A m \in InThread(t) \ c.named : m <= threads'[t].last
  <2>1. threads[t].here /\ t \notin emptied /\ threads'[t].last = threads[t].last
    BY <1>10, <1>11
  <2>2. CASE t \in c.surviving
    BY <1>2, <1>9, <1>10, <1>11, <2>1, <2>2
  <2>3. CASE t \notin c.surviving
    <3>1. t \notin c.within
      BY <1>3, <2>1, <2>3
    <3>2. InThread(t) \ c.named = InThread(t)
      BY <1>2, <3>1 DEF InThread
    <3>3. QED
      BY <1>9, <1>10, <1>11, <2>1, <2>3, <3>2
  <2>4. QED
    BY <2>2, <2>3
<1>12. Lands(p)
  <2>1. PICK l \in {"release", "sweep"} : l = "release"
    OBVIOUS
  <2>2. Weight(c.named) = (IF l = "release" THEN c.released ELSE 0)
    BY <1>2, <2>1
  <2>3. pc'[p] = l /\ (l = "sweep" => c.op = "delete")
    BY <1>6, <2>1
  <2>4. \A t \in Ids : threads'[t].here =>
          /\ \/ t \in Loose(l, c)
             \/ InThread(t) \ c.named # {} /\ threads'[t].count = Cardinality(InThread(t) \ c.named)
          /\ \A m \in InThread(t) \ c.named : m <= threads'[t].last
    BY <1>11, <2>1
  <2>5. QED
    BY <1>1, <1>2, <1>6, <1>7, <1>8, <2>2, <2>3, <2>4, DropLands
<1>13. ThreadsAreHere'
  <2>1. \A m \in Ids : messages'[m].thread = IF m \in c.named THEN 0 ELSE messages[m].thread
    BY <1>6, Dropped DEF MailboxInvariant
  <2>2. ASSUME NEW m \in Ids, messages'[m].thread # 0
        PROVE  threads'[messages'[m].thread].here
    <3>1. m \notin c.named /\ messages'[m].thread = messages[m].thread /\ messages[m].thread \in Ids
      BY <2>1, <2>2 DEF MailboxInvariant, TypeOK, Message
    <3>2. messages[m].thread \notin emptied
      BY <1>4, <3>1 DEF InThread
    <3>3. threads[messages[m].thread].here
      BY <2>2, <3>1 DEF ThreadsAreHere, Exists
    <3>4. QED
      BY <1>10, <3>1, <3>2, <3>3
  <2>3. QED
    BY <2>2 DEF ThreadsAreHere, Exists
<1>14. QED
  BY <1>12, <1>13

\* deleteThread takes all that is in the thread, of which it has the keys and the bytes.
LEMMA DropThreadLands ==
  ASSUME MailboxInvariant, ThreadsAreHere, NEW p \in Workers, Settled(pc[p], call[p]),
         DropThread(p)
  PROVE  Lands(p) /\ ThreadsAreHere'
<1>1. PICK c \in Call : c = call[p] /\ Settled("unthread", c) /\ Stores(p, "unthread", c)
  BY WorkerFacts DEF Worker, DropThread
<1>2. /\ c.msg = 0 /\ c.op \in {"delete", "drop"}
      /\ c.keys = RawKeys(Inside(c)) \cup AttachmentKeys(Inside(c))
      /\ c.op = "delete" => Inside(c) = {}
      /\ c.op = "drop" => c.released = Weight(Inside(c))
  BY <1>1 DEF Stores, Deleting, Settled, DeleteKnows
<1>3. PICK t \in Ids : c.within = {t}
  BY <1>1, <1>2 DEF Settled, DeleteKnows
<1>4. PICK M \in SUBSET Ids : M = Inside(c) /\ M = InThread(t)
  BY <1>3 DEF Inside, InThread
<1>5. PICK l \in {"release", "sweep"} : l = (IF c.op = "drop" THEN "release" ELSE "sweep")
  OBVIOUS
<1>6. /\ pc'[p] = l /\ call'[p] = c /\ DropMessages(M)
      /\ UNCHANGED <<bucket, storage, minted>>
      /\ threads' = [u \in Ids |-> IF u = t THEN NoThread ELSE threads[u]]
  BY <1>1, <1>3, <1>4, <1>5 DEF DropThread, Goto, MailboxInvariant, TypeOK
<1>7. /\ Ahead("unthread", c) = {} /\ Behind("unthread", c) = {} /\ Loose("unthread", c) \subseteq {t}
  BY <1>2, <1>3 DEF Ahead, Behind, Loose
<1>8. "unthread" \notin After \cup {"message", "release"}
  BY DEF After
<1>9. \A u \in Ids : threads[u].here =>
        /\ u = t \/ (InThread(u) # {} /\ threads[u].count = Cardinality(InThread(u)))
        /\ \A m \in InThread(u) : m <= threads[u].last
  BY <1>1, <1>7, <1>8, CalmFacts DEF MailboxInvariant
<1>10. /\ ~ threads'[t].here
       /\ \A u \in Ids \ {t} : threads'[u] = threads[u]
  BY <1>6 DEF NoThread
<1>11. Weight(M) = (IF l = "release" THEN c.released ELSE 0)
  <2>1. CASE c.op = "drop"
    BY <1>2, <1>4, <1>5, <2>1
  <2>2. CASE c.op = "delete"
    <3>1. {m \in M : Exists(m)} = {} /\ AttachmentKeys(M) = {}
      BY <1>2, <1>4, <2>2 DEF AttachmentKeys
    <3>2. Cardinality({}) = 0
      BY FS_EmptySet
    <3>3. QED
      BY <1>5, <2>2, <3>1, <3>2 DEF Weight
  <2>3. QED
    BY <1>2, <2>1, <2>2
<1>12. ASSUME NEW u \in Ids, threads'[u].here
       PROVE  /\ \/ u \in Loose(l, c)
                 \/ InThread(u) \ M # {} /\ threads'[u].count = Cardinality(InThread(u) \ M)
              /\ \A m \in InThread(u) \ M : m <= threads'[u].last
  <2>1. u # t /\ threads'[u] = threads[u]
    BY <1>10, <1>12
  <2>2. InThread(u) \ M = InThread(u)
    BY <1>4, <2>1 DEF InThread
  <2>3. QED
    BY <1>9, <1>12, <2>1, <2>2
<1>13. l = "sweep" => c.op = "delete"
  BY <1>2, <1>5
<1>14. Lands(p)
  BY <1>1, <1>2, <1>4, <1>6, <1>7, <1>8, <1>11, <1>12, <1>13, DropLands
<1>15. ThreadsAreHere'
  <2>1. \A m \in Ids : messages'[m].thread = IF m \in M THEN 0 ELSE messages[m].thread
    BY <1>6, Dropped DEF MailboxInvariant
  <2>2. ASSUME NEW m \in Ids, messages'[m].thread # 0
        PROVE  threads'[messages'[m].thread].here
    <3>1. m \notin M /\ messages'[m].thread = messages[m].thread /\ messages[m].thread \in Ids
      BY <2>1, <2>2 DEF MailboxInvariant, TypeOK, Message
    <3>2. messages[m].thread # t
      BY <1>4, <3>1 DEF InThread
    <3>3. threads[messages[m].thread].here
      BY <2>2, <3>1 DEF ThreadsAreHere, Exists
    <3>4. QED
      BY <1>10, <3>1, <3>2, <3>3
  <2>3. QED
    BY <2>2 DEF ThreadsAreHere, Exists
<1>16. QED
  BY <1>14, <1>15

\* While the messages and their attachments stay, so does what is read off them.
LEMMA RowsSame ==
  ASSUME UNCHANGED <<messages, attachments>>
  PROVE  /\ RawKeys(Ids)' = RawKeys(Ids) /\ AttachmentKeys(Ids)' = AttachmentKeys(Ids)
         /\ Weight(Ids)' = Weight(Ids) /\ \A t \in Ids : InThread(t)' = InThread(t)
         /\ \A m \in Ids : Exists(m)' = Exists(m)
<1>1. RawKeys(Ids)' = RawKeys(Ids) /\ AttachmentKeys(Ids)' = AttachmentKeys(Ids)
  BY DEF RawKeys, AttachmentKeys
<1>2. Weight(Ids)' = Weight(Ids)
  BY <1>1 DEF Weight, Exists
<1>3. \A t \in Ids : InThread(t)' = InThread(t)
  BY DEF InThread
<1>4. QED
  BY <1>1, <1>2, <1>3 DEF Exists

\* A call that ends with everything settled.
LEMMA IdleLands ==
  ASSUME NEW p \in Workers, pc'[p] = "idle", call'[p] = NoCall, storage' \in Nat,
         bucket' = RawKeys(Ids)' \cup AttachmentKeys(Ids)', storage' = Weight(Ids)',
         \A t \in Ids : threads'[t].here =>
           /\ InThread(t)' # {} /\ threads'[t].count = Cardinality(InThread(t)')
           /\ \A m \in InThread(t)' : m <= threads'[t].last
  PROVE  Lands(p)
<1>1. /\ Ahead("idle", NoCall) = {} /\ Behind("idle", NoCall) = {} /\ Loose("idle", NoCall) = {}
      /\ "idle" \in Labels /\ "idle" \notin After \cup {"message", "release"}
  BY DEF Ahead, Behind, Loose, NoCall, Labels, After
<1>2. StoreKnows("idle", NoCall)' /\ DeleteKnows("idle", NoCall)'
  BY DEF StoreKnows, DeleteKnows, NoCall, After
<1>3. storage' = Weight(Ids)' + (IF "idle" = "release" THEN NoCall.released ELSE 0)
  BY storage' + 0 = storage'
<1>4. bucket' = RawKeys(Ids)' \cup AttachmentKeys(Ids)' \cup Behind("idle", NoCall)
  BY <1>1
<1>5. \A t \in Ids : threads'[t].here =>
        /\ t \in Loose("idle", NoCall)
             \/ (InThread(t)' # {} /\ threads'[t].count = Cardinality(InThread(t)'))
        /\ \A m \in InThread(t)' : m <= threads'[t].last
  OBVIOUS
<1>6. PICK l \in Labels, d \in Call : l = "idle" /\ d = NoCall
  BY <1>1, NoCallFacts
<1>7. QED
  BY <1>1, <1>2, <1>3, <1>4, <1>5, <1>6, CalmLands

\* The bytes given back are those of the rows removed before.
LEMMA ReleaseLands ==
  ASSUME MailboxInvariant, ThreadsAreHere, NEW p \in Workers, Settled(pc[p], call[p]), Release(p)
  PROVE  Lands(p) /\ ThreadsAreHere'
<1>1. PICK c \in Call : c = call[p] /\ Settled("release", c) /\ Stores(p, "release", c)
  BY WorkerFacts DEF Worker, Release
<1>2. c.msg = 0 /\ c.released \in Nat
  BY <1>1 DEF Stores, Deleting, Call
<1>3. /\ pc'[p] = "purge" /\ call'[p] = c /\ UNCHANGED <<threads, messages, attachments, bucket>>
      /\ storage' = IF c.released < storage THEN storage - c.released ELSE 0
  BY <1>1 DEF Release, TakeStorage, Goto, rows, MailboxInvariant, TypeOK
<1>4. /\ Ahead("release", c) = {} /\ Ahead("purge", c) = {}
      /\ Behind("release", c) = c.keys /\ Behind("purge", c) = c.keys
      /\ Loose("release", c) = Loose("purge", c)
  BY DEF Ahead, Behind, Loose
<1>5. "release" \notin After \cup {"message"} /\ "purge" \notin After \cup {"message", "release", "idle"}
  BY DEF After
<1>6. /\ bucket = RawKeys(Ids) \cup AttachmentKeys(Ids) \cup c.keys
      /\ storage = Weight(Ids) + c.released
      /\ \A t \in Ids : threads[t].here =>
           /\ t \in Loose("purge", c) \/ (InThread(t) # {} /\ threads[t].count = Cardinality(InThread(t)))
           /\ \A m \in InThread(t) : m <= threads[t].last
  BY <1>1, <1>2, <1>4, <1>5, CalmFacts DEF MailboxInvariant
<1>7. storage' = Weight(Ids) /\ storage' \in Nat
  <2>1. Weight(Ids) \in Nat
    BY WeightFacts
  <2>2. QED
    BY <1>2, <1>3, <1>6, <2>1
<1>8. StoreKnows("purge", c)' /\ DeleteKnows("purge", c)'
  BY <1>1, <1>2 DEF Settled, StoreKnows, DeleteKnows, After
<1>9. PICK l \in Labels : l = "purge"
  BY DEF Labels
<1>10. storage' = Weight(Ids)' + (IF l = "release" THEN c.released ELSE 0)
  BY <1>3, <1>7, <1>9, RowsSame
<1>11. bucket' = RawKeys(Ids)' \cup AttachmentKeys(Ids)' \cup Behind(l, c)
  BY <1>3, <1>4, <1>6, <1>9, RowsSame
<1>12. \A t \in Ids : threads'[t].here =>
         /\ t \in Loose(l, c) \/ (InThread(t)' # {} /\ threads'[t].count = Cardinality(InThread(t)'))
         /\ \A m \in InThread(t)' : m <= threads'[t].last
  BY <1>3, <1>6, <1>9, RowsSame
<1>13. Lands(p)
  BY <1>3, <1>4, <1>5, <1>7, <1>8, <1>9, <1>10, <1>11, <1>12, CalmLands
<1>14. ThreadsAreHere'
  BY <1>3 DEF ThreadsAreHere, Exists
<1>15. QED
  BY <1>13, <1>14

\* The objects left behind go, and no others.
LEMMA DeleteObjectsLands ==
  ASSUME MailboxInvariant, ThreadsAreHere, NEW p \in Workers, Settled(pc[p], call[p]),
         DeleteObjects(p)
  PROVE  Lands(p) /\ ThreadsAreHere'
<1>1. PICK l0 \in {"purge", "sweep"} : l0 = pc[p]
  BY DEF DeleteObjects
<1>2. PICK c \in Call : /\ c = call[p] /\ Settled(l0, c) /\ Stores(p, l0, c)
                        /\ \A k \in c.keys : ~ Exists(k[1])
  BY <1>1, WorkerFacts DEF Worker, Removes
<1>3. c.msg = 0 /\ c.keys \subseteq Keys
  BY <1>2 DEF Stores, Deleting, Call
<1>4. Ahead(l0, c) = {} /\ Behind(l0, c) = c.keys /\ l0 \notin After \cup {"message", "release"}
  BY DEF Ahead, Behind, After
<1>5. /\ bucket = RawKeys(Ids) \cup AttachmentKeys(Ids) \cup c.keys
      /\ storage = Weight(Ids) + 0
      /\ \A t \in Ids : threads[t].here =>
           /\ t \in Loose(l0, c) \/ (InThread(t) # {} /\ threads[t].count = Cardinality(InThread(t)))
           /\ \A m \in InThread(t) : m <= threads[t].last
  BY <1>2, <1>4, CalmFacts DEF MailboxInvariant
<1>6. \A k \in c.keys : k \notin RawKeys(Ids) \cup AttachmentKeys(Ids)
  <2> SUFFICES ASSUME NEW k \in c.keys PROVE k \notin RawKeys(Ids) \cup AttachmentKeys(Ids)
    OBVIOUS
  <2>1. k[1] \in Ids /\ ~ Exists(k[1])
    BY <1>2, <1>3 DEF Keys
  <2>2. attachments[k[1]] = {} /\ ~ messages[k[1]].raw
    BY <2>1 DEF MailboxInvariant, Unwritten
  <2>3. QED
    BY <2>2 DEF RawKeys, AttachmentKeys
<1>7. /\ bucket' = bucket \ c.keys /\ UNCHANGED <<threads, messages, attachments, storage>>
  BY <1>2 DEF DeleteObjects, rows
<1>8. bucket' = RawKeys(Ids)' \cup AttachmentKeys(Ids)'
  <2>1. bucket \ c.keys = RawKeys(Ids) \cup AttachmentKeys(Ids)
    BY <1>5, <1>6
  <2>2. QED
    BY <1>7, <2>1, RowsSame
<1>9. storage' = Weight(Ids)' /\ storage' \in Nat
  <2>1. Weight(Ids) \in Nat
    BY WeightFacts
  <2>2. storage = Weight(Ids)
    BY <1>5, <2>1
  <2>3. QED
    BY <1>7, <2>1, <2>2, RowsSame
<1>10. \A t \in Ids : threads'[t].here =>
         /\ t \in Loose(l0, c) \/ (InThread(t)' # {} /\ threads'[t].count = Cardinality(InThread(t)'))
         /\ \A m \in InThread(t)' : m <= threads'[t].last
  BY <1>5, <1>7, RowsSame
<1>11. pc \in [Workers -> Labels] /\ call \in [Workers -> Call]
  BY DEF MailboxInvariant, TypeOK
<1>12. ASSUME l0 = "purge" /\ c.op = "delete" PROVE Lands(p)
  <2>1. PICK d : d = [c EXCEPT !.keys = {}]
    OBVIOUS
  <2>2. /\ d \in Call /\ d.op = "delete" /\ d.msg = 0 /\ d.within = c.within
        /\ d.keys = {}
    BY <1>3, <1>12, <2>1 DEF Call
  <2>3. PICK l \in Labels : l = "remaining" /\ l # "idle" /\ l # "release" /\ l \notin After \cup {"message"}
    BY DEF Labels, After
  <2>4. pc'[p] = l /\ call'[p] = d
    BY <1>1, <1>2, <1>11, <1>12, <2>1, <2>3 DEF DeleteObjects, Goto
  <2>5. Ahead(l, d) = {} /\ Behind(l, d) = {} /\ Loose(l, d) = Loose(l0, c)
    BY <1>12, <2>2, <2>3 DEF Ahead, Behind, Loose
  <2>6. StoreKnows(l, d)' /\ DeleteKnows(l, d)'
    BY <1>2, <1>12, <2>2, <2>3 DEF Settled, StoreKnows, DeleteKnows, After
  <2>7. bucket' = RawKeys(Ids)' \cup AttachmentKeys(Ids)' \cup Behind(l, d)
    BY <1>8, <2>5
  <2>8. storage' = Weight(Ids)' + (IF l = "release" THEN d.released ELSE 0)
    BY <1>9, <2>3
  <2>9. \A t \in Ids : threads'[t].here =>
          /\ t \in Loose(l, d) \/ (InThread(t)' # {} /\ threads'[t].count = Cardinality(InThread(t)'))
          /\ \A m \in InThread(t)' : m <= threads'[t].last
    BY <1>10, <2>5
  <2>10. storage' \in Nat /\ Ahead(l, d) = {} /\ (l = "idle" => d = NoCall)
    BY <1>9, <2>3, <2>5
  <2>11. QED
    BY <2>2, <2>3, <2>4, <2>6, <2>7, <2>8, <2>9, <2>10, CalmLands
<1>13. ASSUME ~ (l0 = "purge" /\ c.op = "delete") PROVE Lands(p)
  <2>1. pc'[p] = "idle" /\ call'[p] = NoCall
    BY <1>1, <1>2, <1>11, <1>13 DEF DeleteObjects, EndCall, Goto
  <2>2. Loose(l0, c) = {}
    BY <1>13 DEF Loose
  <2>3. \A t \in Ids : threads'[t].here =>
          /\ InThread(t)' # {} /\ threads'[t].count = Cardinality(InThread(t)')
          /\ \A m \in InThread(t)' : m <= threads'[t].last
    BY <1>10, <2>2
  <2>4. QED
    BY <1>8, <1>9, <2>1, <2>3, IdleLands
<1>14. ThreadsAreHere'
  BY <1>7 DEF ThreadsAreHere, Exists
<1>15. QED
  BY <1>12, <1>13, <1>14

\* The thread left loose gets the count of what is left in it.
LEMMA RecountLands ==
  ASSUME MailboxInvariant, ThreadsAreHere, NEW p \in Workers, Settled(pc[p], call[p]),
         RecountThread(p)
  PROVE  Lands(p) /\ ThreadsAreHere'
<1>1. PICK c \in Call : c = call[p] /\ Settled("recount", c) /\ Stores(p, "recount", c)
  BY WorkerFacts DEF Worker, RecountThread
<1>2. c.msg = 0 /\ c.op = "delete" /\ Inside(c) # {}
  BY <1>1 DEF Stores, Deleting, Settled, DeleteKnows
<1>3. PICK t \in Ids : c.within = {t}
  BY <1>1, <1>2 DEF Settled, DeleteKnows
<1>4. InThread(t) # {}
  BY <1>2, <1>3 DEF Inside
<1>5. /\ Ahead("recount", c) = {} /\ Behind("recount", c) = {} /\ Loose("recount", c) \subseteq {t}
      /\ "recount" \notin After \cup {"message"}
  BY <1>2, <1>3 DEF Ahead, Behind, Loose, After
<1>6. /\ bucket = RawKeys(Ids) \cup AttachmentKeys(Ids) \cup {}
      /\ storage = Weight(Ids) + 0
      /\ \A u \in Ids : threads[u].here =>
           /\ u = t \/ (InThread(u) # {} /\ threads[u].count = Cardinality(InThread(u)))
           /\ \A m \in InThread(u) : m <= threads[u].last
  BY <1>1, <1>5, CalmFacts DEF MailboxInvariant
<1>7. /\ pc'[p] = "idle" /\ call'[p] = NoCall
      /\ UNCHANGED <<messages, attachments, bucket, storage>>
      /\ threads' = [u \in Ids |->
           IF u \in {t} /\ threads[u].here
           THEN [threads[u] EXCEPT !.count = Cardinality(InThread(u))] ELSE threads[u]]
  BY <1>1, <1>3 DEF RecountThread, EndCall, Goto, MailboxInvariant, TypeOK
<1>8. ASSUME NEW u \in Ids
      PROVE  /\ threads'[u].here = threads[u].here /\ threads'[u].last = threads[u].last
             /\ threads[u].here =>
                  threads'[u].count = IF u = t THEN Cardinality(InThread(u)) ELSE threads[u].count
  <2>1. threads[u] \in Thread
    BY DEF MailboxInvariant, TypeOK
  <2>2. CASE u = t /\ threads[u].here
    <3>1. threads'[u] = [threads[u] EXCEPT !.count = Cardinality(InThread(u))]
      BY <1>7, <2>2
    <3>2. QED
      BY <2>1, <2>2, <3>1 DEF Thread
  <2>3. CASE ~ (u = t /\ threads[u].here)
    BY <1>7, <2>3
  <2>4. QED
    BY <2>2, <2>3
<1>9. ASSUME NEW u \in Ids, threads'[u].here
      PROVE  /\ InThread(u)' # {} /\ threads'[u].count = Cardinality(InThread(u)')
             /\ \A m \in InThread(u)' : m <= threads'[u].last
  <2>1. InThread(u)' = InThread(u)
    BY <1>7, RowsSame
  <2>2. threads[u].here /\ threads'[u].last = threads[u].last
    BY <1>8, <1>9
  <2>3. InThread(u) # {} /\ threads'[u].count = Cardinality(InThread(u))
    BY <1>4, <1>6, <1>8, <2>2
  <2>4. QED
    BY <1>6, <2>1, <2>2, <2>3
<1>10. storage' = Weight(Ids)' /\ storage' \in Nat /\ bucket' = RawKeys(Ids)' \cup AttachmentKeys(Ids)'
  <2>1. Weight(Ids) \in Nat
    BY WeightFacts
  <2>2. storage = Weight(Ids) /\ bucket = RawKeys(Ids) \cup AttachmentKeys(Ids)
    BY <1>6, <2>1
  <2>3. QED
    BY <1>7, <2>1, <2>2, RowsSame
<1>11. Lands(p)
  BY <1>7, <1>9, <1>10, IdleLands
<1>12. ThreadsAreHere'
  <2>1. \A m \in Ids : Exists(m) => messages[m].thread \in Ids
    BY DEF MailboxInvariant, TypeOK, Message, Exists
  <2>2. QED
    BY <1>7, <1>8, <2>1 DEF ThreadsAreHere, Exists
<1>13. QED
  BY <1>11, <1>12

-----------------------------------------------------------------------------
(* The steps that store a message *)

Storing == Before \cup After \cup {"send"}

\* What the tables are while a message is being stored.
LEMMA StoringFacts ==
  ASSUME NEW l \in Storing, NEW c, Settled(l, c)
  PROVE  /\ bucket = RawKeys(Ids) \cup AttachmentKeys(Ids) \cup ({c.msg} \X Ahead(l, c))
         /\ storage + Uncounted(l, c) = Weight(Ids) + 0
         /\ \A t \in Ids : threads[t].here =>
              /\ (l = "message" /\ t = c.thread) \/ InThread(t) # {}
              /\ threads[t].count = Cardinality(InThread(t) \ Untouched(l, c))
              /\ \A m \in InThread(t) \ Untouched(l, c) : m <= threads[t].last
<1>1. Behind(l, c) = {} /\ Loose(l, c) = {} /\ l # "release"
  BY DEF Storing, Behind, Loose, Before, Early, After
<1>2. bucket = RawKeys(Ids) \cup AttachmentKeys(Ids) \cup ({c.msg} \X Ahead(l, c))
  BY <1>1 DEF Settled, ObjectsSettle
<1>3. storage + Uncounted(l, c) = Weight(Ids) + 0
  BY <1>1 DEF Settled, BytesSettle
<1>4. QED
  BY <1>1, <1>2, <1>3 DEF Settled, ThreadsSettle

\* And that this is enough.
LEMMA StoringLands ==
  ASSUME NEW p, NEW l \in Storing, NEW d \in Call, pc'[p] = l, call'[p] = d,
         bucket' = RawKeys(Ids)' \cup AttachmentKeys(Ids)' \cup ({d.msg} \X Ahead(l, d)),
         storage' + Uncounted(l, d)' = Weight(Ids)' + 0,
         \A t \in Ids : threads'[t].here =>
           /\ (l = "message" /\ t = d.thread) \/ InThread(t)' # {}
           /\ threads'[t].count = Cardinality(InThread(t)' \ Untouched(l, d))
           /\ \A m \in InThread(t)' \ Untouched(l, d) : m <= threads'[t].last,
         StoreKnows(l, d)',
         d.op \in {"delete", "drop"} => \E t \in Ids : d.within = {t}
  PROVE  Lands(p)
<1>1. /\ Behind(l, d) = {} /\ Loose(l, d) = {} /\ l \notin {"release", "idle"} /\ l \in Labels
      /\ Behind(l, d)' = {} /\ Loose(l, d)' = {}
      /\ Ahead(l, d)' = Ahead(l, d) /\ Untouched(l, d)' = Untouched(l, d)
  BY DEF Storing, Behind, Loose, Ahead, Untouched, Before, Early, After, Labels
<1>2. ObjectsSettle(l, d)'
  BY <1>1 DEF ObjectsSettle
<1>3. BytesSettle(l, d)'
  BY <1>1 DEF BytesSettle
<1>4. ThreadsSettle(l, d)'
  BY <1>1 DEF ThreadsSettle
<1>5. DeleteKnows(l, d)'
  BY DEF DeleteKnows, Storing, Before, Early, After
<1>6. Settled(l, d)'
  BY <1>2, <1>3, <1>4, <1>5 DEF Settled
<1>7. QED
  BY <1>1, <1>6 DEF Lands

\* What a worker that stores a message goes by.
LEMMA StorerKnows ==
  ASSUME MailboxInvariant, NEW p \in Workers, Settled(pc[p], call[p]),
         NEW l \in Storing, pc[p] = l, NEW c, c = call[p]
  PROVE  /\ c \in Call /\ Stores(p, l, c) /\ Joins(l, c) /\ Holds(l, c)
         /\ Settled(l, c) /\ StoreKnows(l, c)
         /\ c.op \in {"delete", "drop"} => \E t \in Ids : c.within = {t}
         /\ pc \in [Workers -> Labels] /\ call \in [Workers -> Call]
         /\ minted \in Nat /\ storage \in Nat /\ Weight(Ids) \in Nat
         /\ minted <= MaxMessages /\ MaxMessages \in Nat
<1>1. Settled(l, c) /\ StoreKnows(l, c)
  BY DEF Settled
<1>2. c.op \in {"delete", "drop"} => \E t \in Ids : c.within = {t}
  BY DEF Settled, DeleteKnows
<1>3. Weight(Ids) \in Nat
  BY WeightFacts
<1>4. QED
  BY <1>1, <1>2, <1>3, WorkerFacts DEF Worker, MailboxInvariant, TypeOK

\* A step that changes no row and no counter.
LEMMA StoringGoes ==
  ASSUME NEW p, NEW l0 \in Storing, NEW c, NEW l \in Storing, NEW d \in Call,
         Settled(l0, c), ThreadsAreHere,
         UNCHANGED <<threads, messages, attachments, storage>>, pc'[p] = l, call'[p] = d,
         bucket' = RawKeys(Ids) \cup AttachmentKeys(Ids) \cup ({d.msg} \X Ahead(l, d)),
         Uncounted(l, d) = Uncounted(l0, c), Untouched(l, d) = Untouched(l0, c),
         l0 = "message" => l = "message" /\ d.thread = c.thread,
         StoreKnows(l, d)',
         d.op \in {"delete", "drop"} => \E t \in Ids : d.within = {t}
  PROVE  Lands(p) /\ ThreadsAreHere'
<1>1. Uncounted(l, d)' = Uncounted(l0, c)
  BY DEF Uncounted
<1>2. storage' + Uncounted(l, d)' = Weight(Ids)' + 0
  BY <1>1, StoringFacts, RowsSame
<1>3. bucket' = RawKeys(Ids)' \cup AttachmentKeys(Ids)' \cup ({d.msg} \X Ahead(l, d))
  BY RowsSame
<1>4. \A t \in Ids : threads'[t].here =>
        /\ (l = "message" /\ t = d.thread) \/ InThread(t)' # {}
        /\ threads'[t].count = Cardinality(InThread(t)' \ Untouched(l, d))
        /\ \A m \in InThread(t)' \ Untouched(l, d) : m <= threads'[t].last
  BY StoringFacts, RowsSame
<1>5. Lands(p)
  BY <1>2, <1>3, <1>4, StoringLands
<1>6. ThreadsAreHere'
  BY DEF ThreadsAreHere, Exists
<1>7. QED
  BY <1>5, <1>6

\* The raw object and those of the attachments are put ahead of all rows.
LEMMA PutRawLands ==
  ASSUME MailboxInvariant, ThreadsAreHere, NEW p \in Workers, Settled(pc[p], call[p]), PutRaw(p)
  PROVE  Lands(p) /\ ThreadsAreHere'
<1>1. PICK c : c = call[p]
  OBVIOUS
<1>2. pc[p] = "raw" /\ "raw" \in Storing
  BY DEF PutRaw, Storing, Before, Early
<1>3. /\ c \in Call /\ Stores(p, "raw", c) /\ Settled("raw", c) /\ StoreKnows("raw", c)
      /\ c.op \in {"delete", "drop"} => \E t \in Ids : c.within = {t}
      /\ pc \in [Workers -> Labels]
  BY <1>1, <1>2, StorerKnows
<1>4. c.op = "receive" /\ c.todo = c.parts /\ c.msg = minted
  BY <1>3 DEF Stores, StoreKnows, Early, Before, After
<1>5. PICK l \in {"resolve", "part"} : l = (IF c.todo = {} THEN "resolve" ELSE "part")
  OBVIOUS
<1>6. /\ pc'[p] = l /\ call'[p] = c /\ bucket' = bucket \cup {<<c.msg, 0>>}
      /\ UNCHANGED <<threads, messages, attachments, storage, minted>>
  BY <1>1, <1>3, <1>5 DEF PutRaw, Goto, rows
<1>7. Ahead("raw", c) = {} /\ Ahead(l, c) = {0}
  BY <1>4, <1>5 DEF Ahead
<1>8. bucket' = RawKeys(Ids) \cup AttachmentKeys(Ids) \cup ({c.msg} \X Ahead(l, c))
  <2>1. {c.msg} \X {} = {} /\ {c.msg} \X {0} = {<<c.msg, 0>>}
    OBVIOUS
  <2>2. bucket = RawKeys(Ids) \cup AttachmentKeys(Ids)
    BY <1>2, <1>3, <1>7, <2>1, StoringFacts
  <2>3. QED
    BY <1>6, <1>7, <2>1, <2>2
<1>9. StoreKnows(l, c)'
  BY <1>4, <1>5, <1>6 DEF StoreKnows, After
<1>10. l \in Storing /\ Uncounted(l, c) = Uncounted("raw", c) /\ Untouched(l, c) = Untouched("raw", c)
  BY <1>5 DEF Storing, Before, Early, Uncounted, Untouched, After
<1>11. QED
  BY <1>2, <1>3, <1>6, <1>8, <1>9, <1>10, StoringGoes

\* One attachment more has its object, or all have.
LEMMA PutPartLands ==
  ASSUME MailboxInvariant, ThreadsAreHere, NEW p \in Workers, Settled(pc[p], call[p]), PutPart(p)
  PROVE  Lands(p) /\ ThreadsAreHere'
<1>1. PICK c : c = call[p]
  OBVIOUS
<1>2. pc[p] = "part" /\ "part" \in Storing
  BY DEF PutPart, Storing, Before, Early
<1>3. /\ c \in Call /\ Stores(p, "part", c) /\ Settled("part", c) /\ StoreKnows("part", c)
      /\ Holds("part", c)
      /\ c.op \in {"delete", "drop"} => \E t \in Ids : c.within = {t}
      /\ pc \in [Workers -> Labels] /\ call \in [Workers -> Call]
  BY <1>1, <1>2, StorerKnows
<1>4. /\ c.op = "receive" /\ c.msg = minted /\ c.todo \subseteq c.parts
      /\ c.parts \subseteq Parts
  BY <1>3 DEF Stores, StoreKnows, Holds, Early, Before, After, Call
<1>5. PICK n \in c.todo :
        /\ bucket' = bucket \cup {<<c.msg, n>>}
        /\ call' = [call EXCEPT ![p].todo = IF c.todo = {n} THEN c.parts ELSE c.todo \ {n}]
        /\ Goto(p, IF c.todo = {n} THEN "resolve" ELSE "part")
  BY <1>1 DEF PutPart
<1>6. PICK T \in SUBSET Parts : T = IF c.todo = {n} THEN c.parts ELSE c.todo \ {n}
  BY <1>4
<1>7. PICK d : d = [c EXCEPT !.todo = T]
  OBVIOUS
<1>8. /\ d \in Call /\ d.op = "receive" /\ d.msg = c.msg /\ d.parts = c.parts /\ d.todo = T
      /\ d.within = c.within /\ d.thread = c.thread
  BY <1>3, <1>4, <1>7 DEF Call
<1>9. PICK l \in {"resolve", "part"} : l = (IF c.todo = {n} THEN "resolve" ELSE "part")
  OBVIOUS
<1>10. pc'[p] = l /\ call'[p] = d /\ UNCHANGED <<threads, messages, attachments, storage, minted>>
  BY <1>1, <1>3, <1>5, <1>6, <1>7, <1>9 DEF PutPart, Goto, rows
<1>11. Ahead(l, d) = Ahead("part", c) \cup {n}
  <2>1. Ahead("part", c) = {0} \cup (c.parts \ c.todo)
    BY <1>4 DEF Ahead
  <2>2. CASE c.todo = {n}
    BY <1>4, <1>8, <1>9, <2>1, <2>2 DEF Ahead
  <2>3. CASE c.todo # {n}
    <3>1. Ahead(l, d) = {0} \cup (c.parts \ (c.todo \ {n}))
      BY <1>6, <1>8, <1>9, <2>3 DEF Ahead
    <3>2. QED
      BY <1>4, <1>5, <2>1, <3>1
  <2>4. QED
    BY <2>2, <2>3
<1>12. bucket' = RawKeys(Ids) \cup AttachmentKeys(Ids) \cup ({d.msg} \X Ahead(l, d))
  <2>1. {d.msg} \X Ahead(l, d) = ({c.msg} \X Ahead("part", c)) \cup {<<c.msg, n>>}
    BY <1>8, <1>11
  <2>2. bucket = RawKeys(Ids) \cup AttachmentKeys(Ids) \cup ({c.msg} \X Ahead("part", c))
    BY <1>2, <1>3, StoringFacts
  <2>3. QED
    BY <1>5, <2>1, <2>2
<1>13. StoreKnows(l, d)'
  BY <1>4, <1>6, <1>8, <1>9, <1>10 DEF StoreKnows, After
<1>14. l \in Storing /\ Uncounted(l, d) = Uncounted("part", c) /\ Untouched(l, d) = Untouched("part", c)
  BY <1>9 DEF Storing, Before, Early, Uncounted, Untouched, After
<1>15. QED
  BY <1>2, <1>3, <1>8, <1>10, <1>12, <1>13, <1>14, StoringGoes

\* An email is resolved to the thread of a message, which is there, or to none.
LEMMA ResolveLands ==
  ASSUME MailboxInvariant, ThreadsAreHere, NEW p \in Workers, Settled(pc[p], call[p]),
         ResolveThread(p)
  PROVE  Lands(p) /\ ThreadsAreHere'
<1>1. PICK c : c = call[p]
  OBVIOUS
<1>2. pc[p] = "resolve" /\ "resolve" \in Storing
  BY DEF ResolveThread, Storing, Before, Early
<1>3. /\ c \in Call /\ Stores(p, "resolve", c) /\ Settled("resolve", c) /\ StoreKnows("resolve", c)
      /\ c.op \in {"delete", "drop"} => \E t \in Ids : c.within = {t}
      /\ pc \in [Workers -> Labels] /\ call \in [Workers -> Call]
      /\ minted \in Nat /\ minted <= MaxMessages /\ MaxMessages \in Nat
  BY <1>1, <1>2, StorerKnows
<1>4. c.op = "receive" /\ c.todo = c.parts /\ c.msg = minted /\ c.msg \in Ids
  BY <1>3 DEF Stores, StoreKnows, Early, Before, After, Call
<1>5. PICK refs \in SUBSET (1 .. minted) :
        LET t == FindThread(refs) IN
        /\ call' = [call EXCEPT ![p].thread = IF t = 0 THEN call[p].msg ELSE t]
        /\ Goto(p, IF t = 0 THEN "open" ELSE "thread")
  BY DEF ResolveThread
<1>6. refs \in SUBSET Ids
  BY <1>3 DEF Ids
<1>7. PICK t \in Ids \cup {0} : t = FindThread(refs)
  BY <1>6, FindThreadFacts
<1>8. t # 0 => threads[t].here
  <2> DEFINE found == {m \in refs : Exists(m)}
  <2>1. SUFFICES ASSUME t # 0 PROVE threads[t].here
    OBVIOUS
  <2>2. found # {} /\ t = messages[Least(found)].thread
    BY <1>7, <2>1 DEF FindThread
  <2>3. found \in SUBSET Nat
    <3>1. Ids \subseteq Nat
      BY DEF Ids
    <3>2. QED
      BY <1>6, <3>1
  <2>4. Least(found) \in found
    BY <2>2, <2>3, LeastFacts
  <2>5. QED
    BY <1>6, <2>2, <2>4 DEF ThreadsAreHere
<1>9. PICK u \in Ids : u = IF t = 0 THEN c.msg ELSE t
  BY <1>4
<1>10. PICK d : d = [c EXCEPT !.thread = u]
  OBVIOUS
<1>11. /\ d \in Call /\ d.op = "receive" /\ d.msg = c.msg /\ d.parts = c.parts /\ d.todo = c.todo
       /\ d.within = c.within /\ d.thread = u
  BY <1>3, <1>4, <1>10 DEF Call
<1>12. PICK l \in {"open", "thread"} : l = (IF t = 0 THEN "open" ELSE "thread")
  OBVIOUS
<1>13. /\ pc'[p] = l /\ call'[p] = d
       /\ UNCHANGED <<threads, messages, attachments, bucket, storage, minted>>
  BY <1>1, <1>3, <1>5, <1>7, <1>9, <1>10, <1>12 DEF ResolveThread, Goto, rows
<1>14. Ahead(l, d) = Ahead("resolve", c)
  BY <1>4, <1>11, <1>12 DEF Ahead
<1>15. bucket' = RawKeys(Ids) \cup AttachmentKeys(Ids) \cup ({d.msg} \X Ahead(l, d))
  <2>1. bucket = RawKeys(Ids) \cup AttachmentKeys(Ids) \cup ({c.msg} \X Ahead("resolve", c))
    BY <1>2, <1>3, StoringFacts
  <2>2. QED
    BY <1>11, <1>13, <1>14, <2>1
<1>16. StoreKnows(l, d)'
  BY <1>4, <1>8, <1>9, <1>11, <1>12, <1>13 DEF StoreKnows, After
<1>17. /\ l \in Storing /\ Uncounted(l, d) = Uncounted("resolve", c)
       /\ Untouched(l, d) = Untouched("resolve", c)
  BY <1>12 DEF Storing, Before, Early, Uncounted, Untouched, After
<1>18. QED
  BY <1>2, <1>3, <1>11, <1>13, <1>15, <1>16, <1>17, StoringGoes

\* The thread that was found is there still.
LEMMA GetThreadLands ==
  ASSUME MailboxInvariant, ThreadsAreHere, NEW p \in Workers, Settled(pc[p], call[p]),
         GetThread(p)
  PROVE  Lands(p) /\ ThreadsAreHere'
<1>1. PICK c : c = call[p]
  OBVIOUS
<1>2. pc[p] = "thread" /\ "thread" \in Storing
  BY DEF GetThread, Storing, Before, Early
<1>3. /\ c \in Call /\ Stores(p, "thread", c) /\ Settled("thread", c) /\ StoreKnows("thread", c)
      /\ Joins("thread", c)
      /\ c.op \in {"delete", "drop"} => \E t \in Ids : c.within = {t}
      /\ pc \in [Workers -> Labels] /\ call \in [Workers -> Call]
  BY <1>1, <1>2, StorerKnows
<1>4. /\ c.op \in {"receive", "reply"} /\ c.todo = c.parts /\ (c.msg # 0 => c.msg = minted)
      /\ c.op = "receive" <=> c.msg # 0
      /\ c.thread \in Ids /\ threads[c.thread].here /\ c.thread \notin Fresh
  BY <1>3 DEF Stores, StoreKnows, Joins, Call
<1>5. c.msg # c.thread
  <2>1. CASE c.msg = 0
    BY <1>4, <2>1 DEF Ids
  <2>2. CASE c.msg # 0
    BY <1>1, <1>2, <1>3, <1>4, <2>2 DEF Fresh, Early, Call
  <2>3. QED
    BY <2>1, <2>2
<1>6. PICK d : d = [c EXCEPT !.thread = c.thread]
  OBVIOUS
<1>7. /\ d \in Call /\ d.op = c.op /\ d.msg = c.msg /\ d.parts = c.parts /\ d.todo = c.todo
      /\ d.within = c.within /\ d.thread = c.thread
  BY <1>3, <1>6 DEF Call
<1>8. PICK l \in {"send", "message"} : l = (IF c.op = "reply" THEN "send" ELSE "message")
  OBVIOUS
<1>9. /\ pc'[p] = l /\ call'[p] = d
      /\ UNCHANGED <<threads, messages, attachments, bucket, storage, minted>>
  BY <1>1, <1>3, <1>4, <1>5, <1>6, <1>8 DEF GetThread, Goto, rows
<1>10. Ahead(l, d) = Ahead("thread", c)
  BY <1>4, <1>7, <1>8 DEF Ahead
<1>11. bucket' = RawKeys(Ids) \cup AttachmentKeys(Ids) \cup ({d.msg} \X Ahead(l, d))
  <2>1. bucket = RawKeys(Ids) \cup AttachmentKeys(Ids) \cup ({c.msg} \X Ahead("thread", c))
    BY <1>2, <1>3, StoringFacts
  <2>2. QED
    BY <1>7, <1>9, <1>10, <2>1
<1>12. StoreKnows(l, d)'
  BY <1>4, <1>7, <1>8, <1>9 DEF StoreKnows, After
<1>13. /\ l \in Storing /\ Uncounted(l, d) = Uncounted("thread", c)
       /\ Untouched(l, d) = Untouched("thread", c)
  BY <1>8 DEF Storing, Before, Early, Uncounted, Untouched, After
<1>14. QED
  BY <1>2, <1>3, <1>7, <1>9, <1>11, <1>12, <1>13, StoringGoes

\* The message gets its number once the email is out.
LEMMA SendMailLands ==
  ASSUME MailboxInvariant, ThreadsAreHere, NEW p \in Workers, Settled(pc[p], call[p]), SendMail(p)
  PROVE  Lands(p) /\ ThreadsAreHere'
<1>1. PICK c : c = call[p]
  OBVIOUS
<1>2. pc[p] = "send" /\ "send" \in Storing
  BY DEF SendMail, Storing
<1>3. /\ c \in Call /\ Stores(p, "send", c) /\ Settled("send", c) /\ StoreKnows("send", c)
      /\ c.op \in {"delete", "drop"} => \E t \in Ids : c.within = {t}
      /\ pc \in [Workers -> Labels] /\ call \in [Workers -> Call]
      /\ minted \in Nat /\ MaxMessages \in Nat
  BY <1>1, <1>2, StorerKnows
<1>4. /\ c.op # "receive" /\ c.todo = c.parts /\ c.msg = 0
      /\ c.thread # 0 => threads[c.thread].here
      /\ c.thread \in Ids \cup {0}
  BY <1>3 DEF Stores, StoreKnows, Call
<1>5. PICK m \in Ids : m = minted + 1
  BY <1>3 DEF SendMail, Ids
<1>6. PICK u \in Ids : u = IF c.thread = 0 THEN m ELSE c.thread
  BY <1>4
<1>7. PICK d : d = [c EXCEPT !.msg = m, !.thread = u]
  OBVIOUS
<1>8. /\ d \in Call /\ d.op = c.op /\ d.msg = m /\ d.parts = c.parts /\ d.todo = c.todo
      /\ d.within = c.within /\ d.thread = u
  BY <1>3, <1>7 DEF Call
<1>9. PICK l \in {"open", "message"} : l = (IF c.thread = 0 THEN "open" ELSE "message")
  OBVIOUS
<1>10. /\ pc'[p] = l /\ call'[p] = d /\ minted' = m
       /\ UNCHANGED <<threads, messages, attachments, bucket, storage>>
  BY <1>1, <1>3, <1>5, <1>6, <1>7, <1>9 DEF SendMail, Goto, rows
<1>11. Ahead(l, d) = {} /\ Ahead("send", c) = {}
  BY <1>4, <1>8, <1>9 DEF Ahead
<1>12. bucket' = RawKeys(Ids) \cup AttachmentKeys(Ids) \cup ({d.msg} \X Ahead(l, d))
  <2>1. bucket = RawKeys(Ids) \cup AttachmentKeys(Ids) \cup ({c.msg} \X Ahead("send", c))
    BY <1>2, <1>3, StoringFacts
  <2>2. {d.msg} \X {} = {} /\ {c.msg} \X {} = {}
    OBVIOUS
  <2>3. QED
    BY <1>10, <1>11, <2>1, <2>2
<1>13. StoreKnows(l, d)'
  BY <1>4, <1>6, <1>8, <1>9, <1>10 DEF StoreKnows, After
<1>14. /\ l \in Storing /\ Uncounted(l, d) = Uncounted("send", c)
       /\ Untouched(l, d) = Untouched("send", c)
  BY <1>9 DEF Storing, Before, Early, Uncounted, Untouched, After
<1>15. QED
  BY <1>2, <1>3, <1>8, <1>10, <1>12, <1>13, <1>14, StoringGoes

\* A call that is refused before it stored anything.
LEMMA SendRefusedLands ==
  ASSUME MailboxInvariant, ThreadsAreHere, NEW p \in Workers, Settled(pc[p], call[p]),
         SendRefused(p)
  PROVE  Lands(p) /\ ThreadsAreHere'
<1>1. PICK c : c = call[p]
  OBVIOUS
<1>2. pc[p] = "send" /\ "send" \in Storing
  BY DEF SendRefused, Storing
<1>3. /\ Stores(p, "send", c) /\ Settled("send", c) /\ pc \in [Workers -> Labels]
      /\ call \in [Workers -> Call] /\ storage \in Nat /\ Weight(Ids) \in Nat
  BY <1>1, <1>2, StorerKnows
<1>4. /\ Ahead("send", c) = {} /\ Uncounted("send", c) = 0 /\ Untouched("send", c) = {}
      /\ {c.msg} \X {} = {} /\ \A t \in Ids : InThread(t) \ {} = InThread(t)
  BY <1>3 DEF Ahead, Uncounted, Untouched, After, Stores
<1>5. /\ bucket = RawKeys(Ids) \cup AttachmentKeys(Ids)
      /\ storage + 0 = Weight(Ids) + 0
      /\ \A t \in Ids : threads[t].here =>
           /\ InThread(t) # {} /\ threads[t].count = Cardinality(InThread(t))
           /\ \A m \in InThread(t) : m <= threads[t].last
  BY <1>2, <1>3, <1>4, StoringFacts
<1>6. /\ pc'[p] = "idle" /\ call'[p] = NoCall
      /\ UNCHANGED <<threads, messages, attachments, bucket, storage>>
  BY <1>3 DEF SendRefused, EndCall, Goto, rows
<1>7. storage' = Weight(Ids)' /\ storage' \in Nat /\ bucket' = RawKeys(Ids)' \cup AttachmentKeys(Ids)'
  <2>1. storage = Weight(Ids)
    BY <1>3, <1>5
  <2>2. QED
    BY <1>3, <1>5, <1>6, <2>1, RowsSame
<1>8. \A t \in Ids : threads'[t].here =>
        /\ InThread(t)' # {} /\ threads'[t].count = Cardinality(InThread(t)')
        /\ \A m \in InThread(t)' : m <= threads'[t].last
  BY <1>5, <1>6, RowsSame
<1>9. Lands(p)
  BY <1>6, <1>7, <1>8, IdleLands
<1>10. ThreadsAreHere'
  BY <1>6 DEF ThreadsAreHere, Exists
<1>11. QED
  BY <1>9, <1>10

\* persistOutbound puts an attachment right ahead of its row.
LEMMA PutObjectLands ==
  ASSUME MailboxInvariant, ThreadsAreHere, NEW p \in Workers, Settled(pc[p], call[p]),
         PutObject(p)
  PROVE  Lands(p) /\ ThreadsAreHere'
<1>1. PICK c : c = call[p]
  OBVIOUS
<1>2. pc[p] = "object" /\ "object" \in Storing /\ "attach" \in Storing
  BY DEF PutObject, Storing, After
<1>3. /\ c \in Call /\ Stores(p, "object", c) /\ Settled("object", c) /\ StoreKnows("object", c)
      /\ c.op \in {"delete", "drop"} => \E t \in Ids : c.within = {t}
      /\ pc \in [Workers -> Labels] /\ call \in [Workers -> Call]
  BY <1>1, <1>2, StorerKnows
<1>4. c.op # "receive"
  BY <1>3 DEF Stores
<1>5. /\ pc'[p] = "attach" /\ call'[p] = c /\ bucket' = bucket \cup {<<c.msg, Least(c.todo)>>}
      /\ UNCHANGED <<threads, messages, attachments, storage, minted>>
  BY <1>1, <1>3 DEF PutObject, Goto, rows
<1>6. Ahead("object", c) = {} /\ Ahead("attach", c) = {Least(c.todo)}
  BY <1>4 DEF Ahead
<1>7. bucket' = RawKeys(Ids) \cup AttachmentKeys(Ids) \cup ({c.msg} \X Ahead("attach", c))
  <2>1. bucket = RawKeys(Ids) \cup AttachmentKeys(Ids) \cup ({c.msg} \X Ahead("object", c))
    BY <1>2, <1>3, StoringFacts
  <2>2. {c.msg} \X {} = {} /\ {c.msg} \X {Least(c.todo)} = {<<c.msg, Least(c.todo)>>}
    OBVIOUS
  <2>3. QED
    BY <1>5, <1>6, <2>1, <2>2
<1>8. StoreKnows("attach", c)'
  BY <1>3, <1>5 DEF StoreKnows, After
<1>9. /\ Uncounted("attach", c) = Uncounted("object", c)
      /\ Untouched("attach", c) = Untouched("object", c)
  BY DEF Uncounted, Untouched, After
<1>10. PICK l \in Storing : l = "attach"
  BY <1>2
<1>11. QED
  BY <1>2, <1>3, <1>5, <1>7, <1>8, <1>9, <1>10, StoringGoes

\* Nothing was deleted under the insert of a message or an attachment.
LEMMA InsertsDoNotThrow ==
  ASSUME MailboxInvariant, NEW p \in Workers, Settled(pc[p], call[p]), InsertThrows(p)
  PROVE  FALSE
<1>1. PICK c : c = call[p]
  OBVIOUS
<1>2. PICK l \in {"message", "attach"} : pc[p] = l
  BY DEF InsertThrows
<1>3. l \in Storing
  BY DEF Storing, Before, After
<1>4. StoreKnows(l, c) /\ Joins(l, c)
  BY <1>1, <1>2, <1>3, StorerKnows
<1>5. c.thread # 0
  BY <1>4 DEF Joins, After
<1>6. CASE l = "message"
  BY <1>1, <1>2, <1>4, <1>5, <1>6 DEF StoreKnows, InsertThrows
<1>7. CASE l = "attach"
  BY <1>1, <1>2, <1>4, <1>5, <1>7 DEF StoreKnows, InsertThrows, Exists, After
<1>8. QED
  BY <1>6, <1>7

-----------------------------------------------------------------------------
(* The steps that insert rows and count *)

\* A thread is opened empty.
LEMMA InsertThreadLands ==
  ASSUME MailboxInvariant, ThreadsAreHere, NEW p \in Workers, Settled(pc[p], call[p]),
         InsertThread(p)
  PROVE  Lands(p) /\ ThreadsAreHere'
<1>1. PICK c : c = call[p]
  OBVIOUS
<1>2. pc[p] = "open" /\ "open" \in Storing /\ "message" \in Storing
  BY DEF InsertThread, Storing, Before, Early
<1>3. /\ c \in Call /\ Settled("open", c) /\ StoreKnows("open", c) /\ Joins("open", c)
      /\ c.op \in {"delete", "drop"} => \E t \in Ids : c.within = {t}
      /\ pc \in [Workers -> Labels] /\ call \in [Workers -> Call]
  BY <1>1, <1>2, StorerKnows
<1>4. c.msg \in Ids /\ c.thread = c.msg /\ c.msg \in Fresh
  BY <1>1, <1>2, <1>3, StorerFacts DEF Joins, Fresh, Early
<1>5. InThread(c.thread) = {}
  BY <1>4 DEF InThread, MailboxInvariant, Unwritten, Exists, Ids
<1>6. /\ pc'[p] = "message" /\ call'[p] = c
      /\ threads' = [threads EXCEPT ![c.thread] = [here |-> TRUE, count |-> 0, last |-> c.msg]]
      /\ UNCHANGED <<messages, attachments, bucket, storage, minted>>
  BY <1>1, <1>3 DEF InsertThread, Goto
<1>7. /\ threads'[c.thread].here /\ threads'[c.thread].count = 0
      /\ \A t \in Ids \ {c.thread} : threads'[t] = threads[t]
  BY <1>4, <1>6 DEF MailboxInvariant, TypeOK
<1>8. /\ Ahead("message", c) = Ahead("open", c) /\ Untouched("message", c) = {}
      /\ Untouched("open", c) = {} /\ Uncounted("open", c) = 0
      /\ \A t \in Ids : InThread(t) \ {} = InThread(t)
  BY DEF Ahead, Untouched, Uncounted, After
<1>9. /\ bucket = RawKeys(Ids) \cup AttachmentKeys(Ids) \cup ({c.msg} \X Ahead("open", c))
      /\ storage + 0 = Weight(Ids) + 0
      /\ \A t \in Ids : threads[t].here =>
           /\ InThread(t) # {} /\ threads[t].count = Cardinality(InThread(t))
           /\ \A m \in InThread(t) : m <= threads[t].last
  <2>1. /\ bucket = RawKeys(Ids) \cup AttachmentKeys(Ids) \cup ({c.msg} \X Ahead("open", c))
        /\ storage + Uncounted("open", c) = Weight(Ids) + 0
        /\ \A t \in Ids : threads[t].here =>
             /\ InThread(t) # {}
             /\ threads[t].count = Cardinality(InThread(t) \ Untouched("open", c))
             /\ \A m \in InThread(t) \ Untouched("open", c) : m <= threads[t].last
    BY <1>2, <1>3, StoringFacts
  <2>2. QED
    BY <1>8, <2>1
<1>10. bucket' = RawKeys(Ids)' \cup AttachmentKeys(Ids)' \cup ({c.msg} \X Ahead("message", c))
  BY <1>6, <1>8, <1>9, RowsSame
<1>11. storage' + Uncounted("message", c)' = Weight(Ids)' + 0
  <2>1. Uncounted("message", c)' = 0
    BY DEF Uncounted, After
  <2>2. QED
    BY <1>6, <1>9, <2>1, RowsSame
<1>12. ASSUME NEW t \in Ids, threads'[t].here
       PROVE  /\ t = c.thread \/ InThread(t)' # {}
              /\ threads'[t].count = Cardinality(InThread(t)' \ Untouched("message", c))
              /\ \A m \in InThread(t)' \ Untouched("message", c) : m <= threads'[t].last
  <2>1. InThread(t)' = InThread(t) /\ InThread(t)' \ Untouched("message", c) = InThread(t)
    BY <1>6, <1>8, RowsSame
  <2>2. CASE t = c.thread
    <3>1. Cardinality({}) = 0
      BY FS_EmptySet
    <3>2. QED
      BY <1>5, <1>7, <2>1, <2>2, <3>1
  <2>3. CASE t # c.thread
    BY <1>7, <1>9, <1>12, <2>1, <2>3
  <2>4. QED
    BY <2>2, <2>3
<1>13. StoreKnows("message", c)'
  BY <1>3, <1>6, <1>7 DEF StoreKnows, After
<1>14. Lands(p)
  <2>1. PICK l \in Storing : l = "message"
    BY <1>2
  <2>2. \A t \in Ids : threads'[t].here =>
          /\ (l = "message" /\ t = c.thread) \/ InThread(t)' # {}
          /\ threads'[t].count = Cardinality(InThread(t)' \ Untouched(l, c))
          /\ \A m \in InThread(t)' \ Untouched(l, c) : m <= threads'[t].last
    BY <1>12, <2>1
  <2>3. /\ bucket' = RawKeys(Ids)' \cup AttachmentKeys(Ids)' \cup ({c.msg} \X Ahead(l, c))
        /\ storage' + Uncounted(l, c)' = Weight(Ids)' + 0
        /\ StoreKnows(l, c)' /\ pc'[p] = l /\ call'[p] = c /\ c \in Call
        /\ c.op \in {"delete", "drop"} => \E t \in Ids : c.within = {t}
    BY <1>3, <1>6, <1>10, <1>11, <1>13, <2>1
  <2>4. QED
    BY <2>2, <2>3, StoringLands
<1>15. ThreadsAreHere'
  <2>1. \A m \in Ids : Exists(m) => messages[m].thread \in Ids \ {c.thread}
    BY <1>4 DEF MailboxInvariant, TypeOK, Unwritten, Message, Exists
  <2>2. QED
    BY <1>6, <1>7, <2>1 DEF ThreadsAreHere, Exists
<1>16. QED
  BY <1>14, <1>15

\* A row more in messages: one byte, one message in its thread, and its raw object.
LEMMA RowInserted ==
  ASSUME TypeOK, NEW m \in Ids, NEW t \in Ids, NEW r \in BOOLEAN,
         ~ Exists(m), ~ messages[m].raw,
         messages' = [messages EXCEPT ![m] = [thread |-> t, raw |-> r]], UNCHANGED attachments
  PROVE  /\ RawKeys(Ids)' = RawKeys(Ids) \cup (IF r THEN {<<m, 0>>} ELSE {})
         /\ AttachmentKeys(Ids)' = AttachmentKeys(Ids)
         /\ Weight(Ids)' = Weight(Ids) + 1
         /\ InThread(t)' = InThread(t) \cup {m} /\ m \notin InThread(t)
         /\ \A u \in Ids \ {t} : InThread(u)' = InThread(u) /\ m \notin InThread(u)
<1>1. /\ messages'[m].thread = t /\ messages'[m].raw = r
      /\ \A n \in Ids \ {m} : messages'[n] = messages[n]
      /\ messages[m].thread = 0 /\ 0 \notin Ids
  BY DEF TypeOK, Exists, Ids
<1>2. RawKeys(Ids)' = RawKeys(Ids) \cup (IF r THEN {<<m, 0>>} ELSE {})
  <2>1. \A k \in Keys : k[1] \in Ids
    BY DEF Keys
  <2>2. <<m, 0>> \in Keys /\ \A k \in Keys : k[1] = m /\ k[2] = 0 => k = <<m, 0>>
    BY MailboxAssumption DEF Keys
  <2>3. RawKeys(Ids)' = {k \in Keys : k[1] \in Ids /\ k[2] = 0 /\ messages'[k[1]].raw}
    BY DEF RawKeys
  <2>4. QED
    BY <1>1, <2>1, <2>2, <2>3 DEF RawKeys
<1>3. AttachmentKeys(Ids)' = AttachmentKeys(Ids)
  BY DEF AttachmentKeys
<1>4. Weight(Ids)' = Weight(Ids) + 1
  <2> DEFINE E == {n \in Ids : messages[n].thread # 0}
  <2>1. {n \in Ids : messages'[n].thread # 0} = E \cup {m} /\ m \notin E
    BY <1>1
  <2>2. E \in SUBSET Ids /\ AttachmentKeys(Ids) \in SUBSET Keys
    BY DEF AttachmentKeys
  <2>3. IsFiniteSet(E) /\ Cardinality(E) \in Nat /\ Cardinality(AttachmentKeys(Ids)) \in Nat
    BY <2>2, FiniteFacts
  <2>4. Cardinality(E \cup {m}) = Cardinality(E) + 1
    BY <2>1, <2>3, FS_AddElement
  <2>5. /\ Weight(Ids) = Cardinality(E) + Cardinality(AttachmentKeys(Ids))
        /\ Weight(Ids)' = Cardinality(E \cup {m}) + Cardinality(AttachmentKeys(Ids))
    BY <1>3, <2>1 DEF Weight, Exists
  <2> HIDE DEF E
  <2>6. QED
    BY <2>3, <2>4, <2>5
<1>5. \A u \in Ids : m \notin InThread(u)
  BY <1>1 DEF InThread
<1>6. InThread(t)' = InThread(t) \cup {m}
  BY <1>1 DEF InThread
<1>7. \A u \in Ids \ {t} : InThread(u)' = InThread(u)
  BY <1>1 DEF InThread
<1>8. QED
  BY <1>2, <1>3, <1>4, <1>5, <1>6, <1>7

\* A message comes into its thread, which does not count it yet.
LEMMA InsertMessageLands ==
  ASSUME MailboxInvariant, ThreadsAreHere, NEW p \in Workers, Settled(pc[p], call[p]),
         InsertMessage(p)
  PROVE  Lands(p) /\ ThreadsAreHere'
<1>1. PICK c : c = call[p]
  OBVIOUS
<1>2. pc[p] = "message" /\ "message" \in Storing /\ pc[p] \in Before
  BY DEF InsertMessage, Storing, Before
<1>3. /\ c \in Call /\ Settled("message", c) /\ StoreKnows("message", c) /\ Joins("message", c)
      /\ c.op \in {"delete", "drop"} => \E t \in Ids : c.within = {t}
      /\ pc \in [Workers -> Labels] /\ call \in [Workers -> Call]
      /\ storage \in Nat /\ Weight(Ids) \in Nat
  BY <1>1, <1>2, StorerKnows
<1>4. c.msg \in Ids /\ c.thread \in Ids /\ c.msg \in Unborn /\ c.msg = minted /\ c.todo = c.parts
  BY <1>1, <1>2, <1>3, StorerFacts DEF StoreKnows
<1>5. ~ Exists(c.msg) /\ ~ messages[c.msg].raw /\ attachments[c.msg] = {}
  BY <1>4 DEF MailboxInvariant, Unwritten
<1>6. PICK r \in BOOLEAN : r = (c.op = "receive")
  OBVIOUS
<1>7. PICK l \in After : l = NextPart(c, c.todo)
  BY DEF NextPart, After
<1>8. /\ threads[c.thread].here /\ pc'[p] = l /\ call'[p] = c
      /\ messages' = [messages EXCEPT ![c.msg] = [thread |-> c.thread, raw |-> r]]
      /\ UNCHANGED <<threads, attachments, bucket, storage, minted>>
  BY <1>1, <1>3, <1>6, <1>7 DEF InsertMessage, Goto
<1>9. /\ RawKeys(Ids)' = RawKeys(Ids) \cup (IF r THEN {<<c.msg, 0>>} ELSE {})
      /\ AttachmentKeys(Ids)' = AttachmentKeys(Ids)
      /\ Weight(Ids)' = Weight(Ids) + 1
      /\ InThread(c.thread)' = InThread(c.thread) \cup {c.msg} /\ c.msg \notin InThread(c.thread)
      /\ \A u \in Ids \ {c.thread} : InThread(u)' = InThread(u) /\ c.msg \notin InThread(u)
  BY <1>4, <1>5, <1>8, RowInserted DEF MailboxInvariant
<1>10. l \in {"touch", "attach", "object"}
       /\ (l = "touch" <=> c.todo = {}) /\ (l # "touch" => (l = "attach" <=> r))
  BY <1>6, <1>7 DEF NextPart
<1>11. /\ Ahead("message", c) = (IF r THEN {0} \cup Ahead(l, c) ELSE {})
       /\ ~ r => Ahead(l, c) = {}
  BY <1>4, <1>6, <1>10 DEF Ahead
<1>12. Untouched("message", c) = {} /\ Uncounted("message", c) = 0 /\ Untouched(l, c) = {c.msg}
       /\ \A t \in Ids : InThread(t) \ {} = InThread(t)
  BY <1>10 DEF Untouched, Uncounted, After
<1>13. /\ bucket = RawKeys(Ids) \cup AttachmentKeys(Ids) \cup ({c.msg} \X Ahead("message", c))
       /\ storage + 0 = Weight(Ids) + 0
       /\ \A t \in Ids : threads[t].here =>
            /\ t = c.thread \/ InThread(t) # {}
            /\ threads[t].count = Cardinality(InThread(t))
            /\ \A m \in InThread(t) : m <= threads[t].last
  BY <1>2, <1>3, <1>12, StoringFacts
<1>14. bucket' = RawKeys(Ids)' \cup AttachmentKeys(Ids)' \cup ({c.msg} \X Ahead(l, c))
  <2>1. CASE r
    <3>1. {c.msg} \X ({0} \cup Ahead(l, c)) = {<<c.msg, 0>>} \cup ({c.msg} \X Ahead(l, c))
      OBVIOUS
    <3>2. QED
      BY <1>8, <1>9, <1>11, <1>13, <2>1, <3>1
  <2>2. CASE ~ r
    <3>1. {c.msg} \X {} = {}
      OBVIOUS
    <3>2. QED
      BY <1>8, <1>9, <1>11, <1>13, <2>2, <3>1
  <2>3. QED
    BY <2>1, <2>2
<1>15. storage' + Uncounted(l, c)' = Weight(Ids)' + 0
  <2>1. Cardinality({}) = 0 /\ attachments'[c.msg] = {}
    BY <1>5, <1>8, FS_EmptySet
  <2>2. Uncounted(l, c)' = 1
    <3>1. Uncounted(l, c)' = 1 + Cardinality(attachments'[c.msg])
      BY DEF Uncounted
    <3>2. QED
      BY <2>1, <3>1
  <2>3. Weight(Ids)' = Weight(Ids) + 1
    BY <1>9
  <2>4. storage + 0 = Weight(Ids) + 0
    BY <1>13
  <2>5. storage' = storage
    BY <1>8
  <2>6. QED
    BY <1>3, <2>2, <2>3, <2>4, <2>5
<1>16. ASSUME NEW t \in Ids, threads'[t].here
       PROVE  /\ (l = "message" /\ t = c.thread) \/ InThread(t)' # {}
              /\ threads'[t].count = Cardinality(InThread(t)' \ Untouched(l, c))
              /\ \A m \in InThread(t)' \ Untouched(l, c) : m <= threads'[t].last
  <2>1. InThread(t)' \ Untouched(l, c) = InThread(t)
    BY <1>9, <1>12
  <2>2. InThread(t)' # {}
    BY <1>8, <1>9, <1>13, <1>16
  <2>3. QED
    BY <1>8, <1>13, <1>16, <2>1, <2>2
<1>17. StoreKnows(l, c)'
  <2>1. messages'[c.msg] = [thread |-> c.thread, raw |-> c.op = "receive"]
    BY <1>4, <1>6, <1>8 DEF MailboxInvariant, TypeOK
  <2>2. attachments'[c.msg] = c.parts \ c.todo
    BY <1>4, <1>5, <1>8
  <2>3. QED
    BY <1>4, <1>8, <1>10, <2>1, <2>2 DEF StoreKnows
<1>18. Lands(p)
  <2>1. l \in Storing
    BY DEF Storing
  <2>2. \A t \in Ids : threads'[t].here =>
          /\ (l = "message" /\ t = c.thread) \/ InThread(t)' # {}
          /\ threads'[t].count = Cardinality(InThread(t)' \ Untouched(l, c))
          /\ \A m \in InThread(t)' \ Untouched(l, c) : m <= threads'[t].last
    BY <1>16
  <2>3. /\ pc'[p] = l /\ call'[p] = c /\ c \in Call
        /\ c.op \in {"delete", "drop"} => \E t \in Ids : c.within = {t}
    BY <1>3, <1>8
  <2>4. QED
    BY <1>14, <1>15, <1>17, <2>1, <2>2, <2>3, StoringLands, SMTT(30)
<1>19. ThreadsAreHere'
  <2>1. ASSUME NEW m \in Ids, messages'[m].thread # 0
        PROVE  threads'[messages'[m].thread].here
    <3>1. CASE m = c.msg
      BY <1>4, <1>8, <3>1 DEF MailboxInvariant, TypeOK
    <3>2. CASE m # c.msg
      BY <1>8, <2>1, <3>2 DEF ThreadsAreHere, Exists
    <3>3. QED
      BY <3>1, <3>2
  <2>2. QED
    BY <2>1 DEF ThreadsAreHere, Exists
<1>20. QED
  BY <1>18, <1>19

\* A row more in attachments: one byte, and its object.
LEMMA AttachmentInserted ==
  ASSUME TypeOK, NEW m \in Ids, NEW n \in Parts, n \notin attachments[m],
         attachments' = [attachments EXCEPT ![m] = @ \cup {n}], UNCHANGED messages
  PROVE  /\ attachments'[m] = attachments[m] \cup {n}
         /\ RawKeys(Ids)' = RawKeys(Ids)
         /\ AttachmentKeys(Ids)' = AttachmentKeys(Ids) \cup {<<m, n>>}
         /\ Weight(Ids)' = Weight(Ids) + 1
         /\ \A t \in Ids : InThread(t)' = InThread(t)
         /\ Cardinality(attachments'[m]) = Cardinality(attachments[m]) + 1
         /\ Cardinality(attachments[m]) \in Nat
<1>1. /\ attachments'[m] = attachments[m] \cup {n}
      /\ \A k \in Ids \ {m} : attachments'[k] = attachments[k]
      /\ attachments[m] \in SUBSET Parts
  BY DEF TypeOK
<1>2. <<m, n>> \in Keys /\ \A k \in Keys : k[1] \in Ids /\ (k[1] = m /\ k[2] = n => k = <<m, n>>)
  BY MailboxAssumption DEF Keys, Parts
<1>3. AttachmentKeys(Ids)' = AttachmentKeys(Ids) \cup {<<m, n>>}
  <2>1. AttachmentKeys(Ids)' = {k \in Keys : k[1] \in Ids /\ k[2] \in attachments'[k[1]]}
    BY DEF AttachmentKeys
  <2>2. QED
    BY <1>1, <1>2, <2>1 DEF AttachmentKeys
<1>4. <<m, n>> \notin AttachmentKeys(Ids) /\ AttachmentKeys(Ids) \in SUBSET Keys
  BY DEF AttachmentKeys
<1>5. Cardinality(AttachmentKeys(Ids)') = Cardinality(AttachmentKeys(Ids)) + 1
  BY <1>3, <1>4, FiniteFacts, FS_AddElement
<1>6. Weight(Ids)' = Weight(Ids) + 1
  <2>1. {k \in Ids : messages[k].thread # 0} \in SUBSET Ids
    OBVIOUS
  <2>2. /\ Cardinality({k \in Ids : messages[k].thread # 0}) \in Nat
        /\ Cardinality(AttachmentKeys(Ids)) \in Nat
    BY <1>4, <2>1, FiniteFacts
  <2>3. Weight(Ids)' = Cardinality({k \in Ids : messages[k].thread # 0})
                         + Cardinality(AttachmentKeys(Ids)')
    BY DEF Weight, Exists
  <2>4. Weight(Ids) = Cardinality({k \in Ids : messages[k].thread # 0})
                        + Cardinality(AttachmentKeys(Ids))
    BY DEF Weight, Exists
  <2>5. QED
    BY <1>5, <2>2, <2>3, <2>4
<1>7. Cardinality(attachments'[m]) = Cardinality(attachments[m]) + 1 /\ Cardinality(attachments[m]) \in Nat
  BY <1>1, FiniteFacts, FS_AddElement
<1>8. RawKeys(Ids)' = RawKeys(Ids) /\ \A t \in Ids : InThread(t)' = InThread(t)
  BY DEF RawKeys, InThread
<1>9. QED
  BY <1>1, <1>3, <1>6, <1>7, <1>8

\* An attachment gets its row, with its object there.
LEMMA InsertAttachmentLands ==
  ASSUME MailboxInvariant, ThreadsAreHere, NEW p \in Workers, Settled(pc[p], call[p]),
         InsertAttachment(p)
  PROVE  Lands(p) /\ ThreadsAreHere'
<1>1. PICK c : c = call[p]
  OBVIOUS
<1>2. pc[p] = "attach" /\ "attach" \in Storing /\ pc[p] \in After
  BY DEF InsertAttachment, Storing, After
<1>3. /\ c \in Call /\ Settled("attach", c) /\ StoreKnows("attach", c) /\ Holds("attach", c)
      /\ c.op \in {"delete", "drop"} => \E t \in Ids : c.within = {t}
      /\ pc \in [Workers -> Labels] /\ call \in [Workers -> Call]
      /\ storage \in Nat /\ Weight(Ids) \in Nat
  BY <1>1, <1>2, StorerKnows
<1>4. /\ c.msg \in Ids /\ c.msg = minted /\ c.todo \subseteq c.parts /\ c.todo # {}
      /\ c.parts \subseteq Parts
      /\ messages[c.msg] = [thread |-> c.thread, raw |-> c.op = "receive"]
      /\ attachments[c.msg] = c.parts \ c.todo
  BY <1>1, <1>2, <1>3, StorerFacts DEF StoreKnows, Holds, Call
<1>5. PICK n \in c.todo : n = Least(c.todo)
  <2>1. c.todo \in SUBSET Nat
    BY <1>4 DEF Parts
  <2>2. QED
    BY <1>4, <2>1, LeastFacts
<1>6. PICK T \in SUBSET Parts : T = c.todo \ {n}
  BY <1>4
<1>7. PICK d : d = [c EXCEPT !.todo = T]
  OBVIOUS
<1>8. /\ d \in Call /\ d.op = c.op /\ d.msg = c.msg /\ d.parts = c.parts /\ d.todo = T
      /\ d.within = c.within /\ d.thread = c.thread
  BY <1>3, <1>7 DEF Call
<1>9. PICK l \in After : l = NextPart(c, T)
  BY DEF NextPart, After
<1>10. /\ pc'[p] = l /\ call'[p] = d
       /\ attachments' = [attachments EXCEPT ![c.msg] = @ \cup {n}]
       /\ UNCHANGED <<threads, messages, bucket, storage, minted>>
  BY <1>1, <1>3, <1>5, <1>6, <1>7, <1>9 DEF InsertAttachment, Goto
<1>11. /\ attachments'[c.msg] = attachments[c.msg] \cup {n}
       /\ RawKeys(Ids)' = RawKeys(Ids)
       /\ AttachmentKeys(Ids)' = AttachmentKeys(Ids) \cup {<<c.msg, n>>}
       /\ Weight(Ids)' = Weight(Ids) + 1
       /\ \A t \in Ids : InThread(t)' = InThread(t)
       /\ Cardinality(attachments'[c.msg]) = Cardinality(attachments[c.msg]) + 1
       /\ Cardinality(attachments[c.msg]) \in Nat
  BY <1>4, <1>5, <1>10, AttachmentInserted DEF MailboxInvariant
<1>12. /\ l \in {"touch", "attach", "object"}
       /\ (l = "touch" <=> T = {}) /\ (l # "touch" => (l = "attach" <=> c.op = "receive"))
  BY <1>9 DEF NextPart
<1>13. Ahead("attach", c) = {n} \cup Ahead(l, d)
  <2>1. CASE c.op = "receive"
    <3>1. Ahead("attach", c) = c.todo
      BY <2>1 DEF Ahead
    <3>2. Ahead(l, d) = T
      BY <1>8, <1>12, <2>1 DEF Ahead
    <3>3. QED
      BY <1>5, <1>6, <3>1, <3>2
  <2>2. CASE c.op # "receive"
    <3>1. Ahead("attach", c) = {n}
      BY <1>5, <2>2 DEF Ahead
    <3>2. Ahead(l, d) = {}
      BY <1>8, <1>12, <2>2 DEF Ahead
    <3>3. QED
      BY <3>1, <3>2
  <2>3. QED
    BY <2>1, <2>2
<1>14. /\ bucket = RawKeys(Ids) \cup AttachmentKeys(Ids) \cup ({c.msg} \X Ahead("attach", c))
       /\ storage + Uncounted("attach", c) = Weight(Ids) + 0
       /\ \A t \in Ids : threads[t].here =>
            /\ InThread(t) # {}
            /\ threads[t].count = Cardinality(InThread(t) \ Untouched("attach", c))
            /\ \A m \in InThread(t) \ Untouched("attach", c) : m <= threads[t].last
  BY <1>2, <1>3, StoringFacts
<1>15. bucket' = RawKeys(Ids)' \cup AttachmentKeys(Ids)' \cup ({d.msg} \X Ahead(l, d))
  <2>1. {c.msg} \X ({n} \cup Ahead(l, d)) = {<<c.msg, n>>} \cup ({c.msg} \X Ahead(l, d))
    OBVIOUS
  <2>2. QED
    BY <1>8, <1>10, <1>11, <1>13, <1>14, <2>1
<1>16. storage' + Uncounted(l, d)' = Weight(Ids)' + 0
  <2>1. Uncounted("attach", c) = 1 + Cardinality(attachments[c.msg])
    BY DEF Uncounted, After
  <2>2. Uncounted(l, d)' = 1 + Cardinality(attachments'[c.msg])
    BY <1>8 DEF Uncounted
  <2>3. QED
    BY <1>3, <1>10, <1>11, <1>14, <2>1, <2>2
<1>17. \A t \in Ids : threads'[t].here =>
         /\ (l = "message" /\ t = d.thread) \/ InThread(t)' # {}
         /\ threads'[t].count = Cardinality(InThread(t)' \ Untouched(l, d))
         /\ \A m \in InThread(t)' \ Untouched(l, d) : m <= threads'[t].last
  <2>1. Untouched(l, d) = Untouched("attach", c)
    BY <1>8, <1>12 DEF Untouched
  <2>2. QED
    BY <1>10, <1>11, <1>14, <2>1
<1>18. StoreKnows(l, d)'
  <2>1. attachments'[c.msg] = c.parts \ T
    BY <1>4, <1>5, <1>6, <1>11
  <2>2. QED
    BY <1>4, <1>8, <1>10, <1>12, <2>1 DEF StoreKnows
<1>19. Lands(p)
  <2>1. l \in Storing /\ (d.op \in {"delete", "drop"} => \E t \in Ids : d.within = {t})
    BY <1>3, <1>8 DEF Storing
  <2>2. pc'[p] = l /\ call'[p] = d /\ d \in Call
    BY <1>8, <1>10
  <2>3. QED
    BY <1>15, <1>16, <1>17, <1>18, <2>1, <2>2, StoringLands
<1>20. ThreadsAreHere'
  BY <1>10 DEF ThreadsAreHere, Exists
<1>21. QED
  BY <1>19, <1>20

\* The thread counts its message, the latest of all.
LEMMA TouchLands ==
  ASSUME MailboxInvariant, ThreadsAreHere, NEW p \in Workers, Settled(pc[p], call[p]), Touch(p)
  PROVE  Lands(p) /\ ThreadsAreHere'
<1>1. PICK c : c = call[p]
  OBVIOUS
<1>2. pc[p] = "touch" /\ "touch" \in Storing /\ pc[p] \in After /\ "record" \in Storing
  BY DEF Touch, Storing, After
<1>3. /\ c \in Call /\ Settled("touch", c) /\ StoreKnows("touch", c)
      /\ c.op \in {"delete", "drop"} => \E t \in Ids : c.within = {t}
      /\ pc \in [Workers -> Labels] /\ call \in [Workers -> Call]
      /\ minted \in Nat
  BY <1>1, <1>2, StorerKnows
<1>4. /\ c.msg \in Ids /\ c.thread \in Ids /\ c.msg = minted /\ c.todo = {}
      /\ messages[c.msg] = [thread |-> c.thread, raw |-> c.op = "receive"]
      /\ attachments[c.msg] = c.parts \ c.todo
  BY <1>1, <1>2, <1>3, StorerFacts DEF StoreKnows, After
<1>5. messages[c.msg].thread = c.thread /\ Exists(c.msg)
  BY <1>4 DEF Exists, Ids
<1>6. threads[c.thread].here
  BY <1>4, <1>5 DEF ThreadsAreHere
<1>7. /\ pc'[p] = "record" /\ call'[p] = c
      /\ threads' = [threads EXCEPT ![c.thread] =
                       [threads[c.thread] EXCEPT !.count = threads[c.thread].count + 1, !.last = c.msg]]
      /\ UNCHANGED <<messages, attachments, bucket, storage, minted>>
  BY <1>1, <1>3, <1>6 DEF Touch, TouchThread, Goto
<1>8. /\ threads'[c.thread].here /\ threads'[c.thread].count = threads[c.thread].count + 1
      /\ threads'[c.thread].last = c.msg
      /\ \A t \in Ids \ {c.thread} : threads'[t] = threads[t]
  <2>1. threads[c.thread] \in Thread
    BY <1>4 DEF MailboxInvariant, TypeOK
  <2>2. threads'[c.thread] =
          [threads[c.thread] EXCEPT !.count = threads[c.thread].count + 1, !.last = c.msg]
    BY <1>4, <1>7 DEF MailboxInvariant, TypeOK
  <2>3. QED
    BY <1>4, <1>6, <1>7, <2>1, <2>2 DEF Thread, MailboxInvariant, TypeOK
<1>9. /\ bucket = RawKeys(Ids) \cup AttachmentKeys(Ids) \cup ({c.msg} \X Ahead("touch", c))
      /\ storage + Uncounted("touch", c) = Weight(Ids) + 0
      /\ \A t \in Ids : threads[t].here =>
           /\ InThread(t) # {}
           /\ threads[t].count = Cardinality(InThread(t) \ Untouched("touch", c))
           /\ \A m \in InThread(t) \ Untouched("touch", c) : m <= threads[t].last
  BY <1>2, <1>3, StoringFacts
<1>10. Untouched("touch", c) = {c.msg} /\ Untouched("record", c) = {}
       /\ Uncounted("record", c) = Uncounted("touch", c) /\ Ahead("record", c) = Ahead("touch", c)
       /\ \A t \in Ids : InThread(t) \ {} = InThread(t)
  BY <1>4 DEF Untouched, Uncounted, After, Ahead
<1>11. ASSUME NEW t \in Ids, threads'[t].here
       PROVE  /\ InThread(t)' # {}
              /\ threads'[t].count = Cardinality(InThread(t)' \ Untouched("record", c))
              /\ \A m \in InThread(t)' \ Untouched("record", c) : m <= threads'[t].last
  <2>1. InThread(t)' \ Untouched("record", c) = InThread(t) /\ InThread(t)' = InThread(t)
    BY <1>7, <1>10, RowsSame
  <2>2. CASE t = c.thread
    <3>1. c.msg \in InThread(t) /\ InThread(t) \in SUBSET Ids
      BY <1>4, <1>5, <2>2 DEF InThread
    <3>2. Cardinality(InThread(t)) = Cardinality(InThread(t) \ {c.msg}) + 1
      <4>1. PICK S \in SUBSET Ids : S = InThread(t) \ {c.msg}
        BY <3>1
      <4>2. InThread(t) = S \cup {c.msg} /\ c.msg \notin S
        BY <3>1, <4>1
      <4>3. Cardinality(S \cup {c.msg}) = Cardinality(S) + 1
        BY <4>2, FiniteFacts, FS_AddElement
      <4>4. QED
        BY <4>1, <4>2, <4>3
    <3>3. threads[t].count = Cardinality(InThread(t) \ {c.msg})
      BY <1>6, <1>9, <1>10, <2>2
    <3>4. \A m \in InThread(t) : m <= c.msg
      <4>1. \A m \in InThread(t) : m \in Ids /\ Exists(m)
        BY <2>2, <1>4 DEF InThread, Exists, Ids
      <4>2. \A m \in InThread(t) : m \notin Unborn
        BY <4>1, ExistingFacts
      <4>3. \A m \in InThread(t) : ~ (m > minted) /\ m \in Nat
        BY <4>1, <4>2 DEF Unborn, Ids
      <4>4. QED
        BY <1>3, <1>4, <4>3
    <3>5. QED
      BY <1>8, <2>1, <2>2, <3>1, <3>2, <3>3, <3>4
  <2>3. CASE t # c.thread
    <3>1. c.msg \notin InThread(t)
      BY <1>5, <2>3 DEF InThread
    <3>2. InThread(t) \ {c.msg} = InThread(t)
      BY <3>1
    <3>3. QED
      BY <1>8, <1>9, <1>10, <1>11, <2>1, <2>3, <3>2
  <2>4. QED
    BY <2>2, <2>3
<1>12. bucket' = RawKeys(Ids)' \cup AttachmentKeys(Ids)' \cup ({c.msg} \X Ahead("record", c))
  BY <1>7, <1>9, <1>10, RowsSame
<1>13. storage' + Uncounted("record", c)' = Weight(Ids)' + 0
  <2>1. Uncounted("record", c)' = Uncounted("record", c)
    BY <1>7 DEF Uncounted
  <2>2. QED
    BY <1>7, <1>9, <1>10, <2>1, RowsSame
<1>14. StoreKnows("record", c)'
  BY <1>3, <1>4, <1>7 DEF StoreKnows, After
<1>15. Lands(p)
  <2>1. PICK l \in Storing : l = "record"
    BY <1>2
  <2>2. \A t \in Ids : threads'[t].here =>
          /\ (l = "message" /\ t = c.thread) \/ InThread(t)' # {}
          /\ threads'[t].count = Cardinality(InThread(t)' \ Untouched(l, c))
          /\ \A m \in InThread(t)' \ Untouched(l, c) : m <= threads'[t].last
    BY <1>11, <2>1
  <2>3. /\ bucket' = RawKeys(Ids)' \cup AttachmentKeys(Ids)' \cup ({c.msg} \X Ahead(l, c))
        /\ storage' + Uncounted(l, c)' = Weight(Ids)' + 0
        /\ StoreKnows(l, c)' /\ pc'[p] = l /\ call'[p] = c /\ c \in Call
        /\ c.op \in {"delete", "drop"} => \E t \in Ids : c.within = {t}
    BY <1>3, <1>7, <1>12, <1>13, <1>14, <2>1
  <2>4. QED
    BY <2>2, <2>3, StoringLands
<1>16. ThreadsAreHere'
  <2>1. \A m \in Ids : Exists(m) => messages[m].thread \in Ids
    BY DEF MailboxInvariant, TypeOK, Message, Exists
  <2>2. QED
    BY <1>7, <1>8, <2>1 DEF ThreadsAreHere, Exists
<1>17. QED
  BY <1>15, <1>16

\* The bytes of the message and of all its attachments are counted at the end.
LEMMA RecordLands ==
  ASSUME MailboxInvariant, ThreadsAreHere, NEW p \in Workers, Settled(pc[p], call[p]), Record(p)
  PROVE  Lands(p) /\ ThreadsAreHere'
<1>1. PICK c : c = call[p]
  OBVIOUS
<1>2. pc[p] = "record" /\ "record" \in Storing
  BY DEF Record, Storing, After
<1>3. /\ c \in Call /\ Settled("record", c) /\ StoreKnows("record", c)
      /\ pc \in [Workers -> Labels] /\ call \in [Workers -> Call]
      /\ storage \in Nat /\ Weight(Ids) \in Nat
  BY <1>1, <1>2, StorerKnows
<1>4. attachments[c.msg] = c.parts /\ c.todo = {} /\ Cardinality(c.parts) \in Nat
  <2>1. c.parts \in SUBSET Parts
    BY <1>3 DEF Call
  <2>2. QED
    BY <1>3, <2>1, FiniteFacts DEF StoreKnows, After
<1>5. /\ Ahead("record", c) = {} /\ Uncounted("record", c) = 1 + Cardinality(c.parts)
      /\ Untouched("record", c) = {}
      /\ {c.msg} \X {} = {} /\ \A t \in Ids : InThread(t) \ {} = InThread(t)
  BY <1>4 DEF Ahead, Uncounted, Untouched, After
<1>6. /\ bucket = RawKeys(Ids) \cup AttachmentKeys(Ids)
      /\ storage + (1 + Cardinality(c.parts)) = Weight(Ids) + 0
      /\ \A t \in Ids : threads[t].here =>
           /\ InThread(t) # {} /\ threads[t].count = Cardinality(InThread(t))
           /\ \A m \in InThread(t) : m <= threads[t].last
  <2>1. /\ bucket = RawKeys(Ids) \cup AttachmentKeys(Ids) \cup ({c.msg} \X Ahead("record", c))
        /\ storage + Uncounted("record", c) = Weight(Ids) + 0
        /\ \A t \in Ids : threads[t].here =>
             /\ InThread(t) # {}
             /\ threads[t].count = Cardinality(InThread(t) \ Untouched("record", c))
             /\ \A m \in InThread(t) \ Untouched("record", c) : m <= threads[t].last
    BY <1>2, <1>3, StoringFacts
  <2>2. QED
    BY <1>5, <2>1
<1>7. /\ pc'[p] = "idle" /\ call'[p] = NoCall /\ storage' = storage + (1 + Cardinality(c.parts))
      /\ UNCHANGED <<threads, messages, attachments, bucket>>
  BY <1>1, <1>3 DEF Record, AddStorage, EndCall, Goto, rows
<1>8. storage' = Weight(Ids)' /\ storage' \in Nat /\ bucket' = RawKeys(Ids)' \cup AttachmentKeys(Ids)'
  <2>1. storage' = Weight(Ids)
    BY <1>3, <1>4, <1>6, <1>7
  <2>2. QED
    BY <1>3, <1>6, <1>7, <2>1, RowsSame
<1>9. \A t \in Ids : threads'[t].here =>
        /\ InThread(t)' # {} /\ threads'[t].count = Cardinality(InThread(t)')
        /\ \A m \in InThread(t)' : m <= threads'[t].last
  BY <1>6, <1>7, RowsSame
<1>10. Lands(p)
  BY <1>7, <1>8, <1>9, IdleLands
<1>11. ThreadsAreHere'
  BY <1>7 DEF ThreadsAreHere, Exists
<1>12. QED
  BY <1>10, <1>11

-----------------------------------------------------------------------------
(* The calls that begin *)

\* A call that will store a message begins.
LEMMA StoringBegins ==
  ASSUME MailboxInvariant, ThreadsAreHere, Settled("idle", NoCall), NEW p \in Workers,
         NEW l \in {"raw", "send", "thread"}, NEW c \in Call, pc'[p] = l, call'[p] = c,
         UNCHANGED <<threads, messages, attachments, bucket, storage>>,
         l = "raw" <=> c.op = "receive", c.op \notin {"delete", "drop"}, StoreKnows(l, c)'
  PROVE  Lands(p) /\ ThreadsAreHere'
<1>1. Consistent
  BY IdleSettles DEF MailboxInvariant
<1>2. Ahead(l, c) = {} /\ {c.msg} \X {} = {} /\ l \in Storing /\ l # "message"
  BY DEF Ahead, Storing, Before, Early
<1>3. bucket' = RawKeys(Ids)' \cup AttachmentKeys(Ids)' \cup ({c.msg} \X Ahead(l, c))
  BY <1>1, <1>2, RowsSame DEF Consistent
<1>4. storage' + Uncounted(l, c)' = Weight(Ids)' + 0
  <2>1. Uncounted(l, c)' = 0
    BY DEF Uncounted, After
  <2>2. QED
    BY <1>1, <2>1, RowsSame DEF Consistent
<1>5. Untouched(l, c) = {} /\ \A t \in Ids : InThread(t) \ {} = InThread(t)
  BY DEF Untouched
<1>6. \A t \in Ids : threads'[t].here =>
        /\ (l = "message" /\ t = c.thread) \/ InThread(t)' # {}
        /\ threads'[t].count = Cardinality(InThread(t)' \ Untouched(l, c))
        /\ \A m \in InThread(t)' \ Untouched(l, c) : m <= threads'[t].last
  BY <1>1, <1>5, RowsSame DEF Consistent
<1>7. Lands(p)
  BY <1>2, <1>3, <1>4, <1>6, StoringLands
<1>8. ThreadsAreHere'
  BY DEF ThreadsAreHere, Exists
<1>9. QED
  BY <1>7, <1>8

\* A delete begins.
LEMMA DeletingBegins ==
  ASSUME MailboxInvariant, ThreadsAreHere, Settled("idle", NoCall), NEW p \in Workers,
         NEW c \in Call, pc'[p] = "weigh", call'[p] = c, c.msg = 0,
         UNCHANGED <<threads, messages, attachments, bucket, storage>>,
         c.op # "receive", DeleteKnows("weigh", c)
  PROVE  Lands(p) /\ ThreadsAreHere'
<1>1. Consistent
  BY IdleSettles DEF MailboxInvariant
<1>2. PICK l \in Labels : l = "weigh" /\ l \notin After \cup {"message", "idle", "release"}
  BY DEF Labels, After
<1>3. Ahead(l, c) = {} /\ Behind(l, c) = {} /\ Loose(l, c) = {}
  BY <1>2 DEF Ahead, Behind, Loose
<1>4. bucket' = RawKeys(Ids)' \cup AttachmentKeys(Ids)' \cup Behind(l, c)
  BY <1>1, <1>3, RowsSame DEF Consistent
<1>5. storage' = Weight(Ids)' + (IF l = "release" THEN c.released ELSE 0) /\ storage' \in Nat
  <2>1. Weight(Ids) \in Nat /\ storage = Weight(Ids)
    BY <1>1, WeightFacts DEF Consistent
  <2>2. QED
    BY <1>2, <2>1, RowsSame
<1>6. \A t \in Ids : threads'[t].here =>
        /\ t \in Loose(l, c) \/ (InThread(t)' # {} /\ threads'[t].count = Cardinality(InThread(t)'))
        /\ \A m \in InThread(t)' : m <= threads'[t].last
  BY <1>1, RowsSame DEF Consistent
<1>7. StoreKnows(l, c)'
  BY <1>2 DEF StoreKnows
<1>8. DeleteKnows(l, c)'
  <2>1. \A M \in SUBSET Ids : RawKeys(M)' = RawKeys(M)
    BY DEF RawKeys
  <2>2. (\A m \in c.named : Exists(m))' <=> \A m \in c.named : Exists(m)
    BY DEF Exists
  <2>3. c.named \in SUBSET Ids
    BY DEF Call
  <2>4. QED
    BY <1>2, <2>1, <2>2, <2>3 DEF DeleteKnows
<1>9. Lands(p)
  <2>1. pc'[p] = l /\ (l = "idle" => c = NoCall) /\ l \notin After \cup {"message"}
    BY <1>2
  <2>2. QED
    BY <1>3, <1>4, <1>5, <1>6, <1>7, <1>8, <2>1, CalmLands
<1>10. ThreadsAreHere'
  BY DEF ThreadsAreHere, Exists
<1>11. QED
  BY <1>9, <1>10

\* A call that begins when there is no other.
LEMMA BeginLands ==
  ASSUME MailboxInvariant, ThreadsAreHere, Settled("idle", NoCall), NEW p \in Workers, Begin(p)
  PROVE  Lands(p) /\ ThreadsAreHere'
<1>0. pc \in [Workers -> Labels] /\ call \in [Workers -> Call] /\ minted \in Nat
  BY WorkerFacts DEF MailboxInvariant, TypeOK
<1>1. CASE ReceiveStart(p)
  <2>1. PICK parts \in SUBSET Parts :
          Start(p, "raw", [NoCall EXCEPT !.op = "receive", !.msg = minted + 1,
                                         !.parts = parts, !.todo = parts])
    BY <1>1 DEF ReceiveStart
  <2>2. PICK m \in Ids : m = minted + 1
    BY <1>0, <1>1, WorkerFacts DEF ReceiveStart, Ids
  <2>3. PICK c : c = [NoCall EXCEPT !.op = "receive", !.msg = m, !.parts = parts, !.todo = parts]
    OBVIOUS
  <2>4. c \in Call /\ c.op = "receive" /\ c.msg = m /\ c.parts = parts /\ c.todo = parts
    BY <2>3 DEF NoCall, Call, Ops
  <2>5. pc'[p] = "raw" /\ call'[p] = c
    BY <1>0, <2>1, <2>2, <2>3 DEF Start, Goto
  <2>6. UNCHANGED <<threads, messages, attachments, bucket, storage>> /\ minted' = m
    BY <1>1, <2>2 DEF ReceiveStart, rows
  <2>7. StoreKnows("raw", c)'
    BY <2>4, <2>6 DEF StoreKnows, After
  <2>8. PICK l \in {"raw", "send", "thread"} : l = "raw"
    OBVIOUS
  <2>9. QED
    BY <2>4, <2>5, <2>6, <2>7, <2>8, StoringBegins
<1>2. CASE SendStart(p)
  <2>1. PICK parts \in SUBSET Parts :
          Start(p, "send", [NoCall EXCEPT !.op = "send", !.parts = parts, !.todo = parts])
    BY <1>2 DEF SendStart
  <2>2. PICK c : c = [NoCall EXCEPT !.op = "send", !.parts = parts, !.todo = parts]
    OBVIOUS
  <2>3. c \in Call /\ c.op = "send" /\ c.msg = 0 /\ c.thread = 0 /\ c.parts = parts /\ c.todo = parts
    BY <2>2 DEF NoCall, Call, Ops
  <2>4. pc'[p] = "send" /\ call'[p] = c
    BY <1>0, <2>1, <2>2 DEF Start, Goto
  <2>5. UNCHANGED <<threads, messages, attachments, bucket, storage>>
    BY <1>2 DEF SendStart, rows
  <2>6. StoreKnows("send", c)'
    BY <2>3 DEF StoreKnows, After
  <2>7. PICK l \in {"raw", "send", "thread"} : l = "send"
    OBVIOUS
  <2>8. QED
    BY <2>3, <2>4, <2>5, <2>6, <2>7, StoringBegins
<1>3. CASE ReplyStart(p)
  <2>1. PICK parent \in {m \in Ids : Exists(m)}, parts \in SUBSET Parts :
          Start(p, "thread", [NoCall EXCEPT !.op = "reply", !.thread = messages[parent].thread,
                                            !.parts = parts, !.todo = parts])
    BY <1>3 DEF ReplyStart
  <2>2. PICK t \in Ids : t = messages[parent].thread
    BY ExistingFacts
  <2>3. PICK c : c = [NoCall EXCEPT !.op = "reply", !.thread = t, !.parts = parts, !.todo = parts]
    OBVIOUS
  <2>4. c \in Call /\ c.op = "reply" /\ c.msg = 0 /\ c.thread = t /\ c.parts = parts /\ c.todo = parts
    BY <2>3 DEF NoCall, Call, Ops
  <2>5. pc'[p] = "thread" /\ call'[p] = c
    BY <1>0, <2>1, <2>2, <2>3 DEF Start, Goto
  <2>6. UNCHANGED <<threads, messages, attachments, bucket, storage>>
    BY <1>3 DEF ReplyStart, rows
  <2>7. threads[t].here
    BY <2>1, <2>2 DEF ThreadsAreHere
  <2>8. StoreKnows("thread", c)'
    BY <2>4, <2>6, <2>7 DEF StoreKnows, After
  <2>9. PICK l \in {"raw", "send", "thread"} : l = "thread"
    OBVIOUS
  <2>10. QED
    BY <2>4, <2>5, <2>6, <2>8, <2>9, StoringBegins
<1>4. ASSUME NEW op \in {"delete", "batch"}, NEW M \in SUBSET {m \in Ids : Exists(m)},
             op = "delete" => \E m \in Ids : M = {m},
             Start(p, "weigh", NamedCall(op, M)),
             UNCHANGED <<rows, bucket, storage>>
      PROVE  Lands(p) /\ ThreadsAreHere'
  <2>1. PICK W \in SUBSET Ids : W = {messages[m].thread : m \in M}
    <3>1. \A m \in M : messages[m].thread \in Ids
      BY ExistingFacts
    <3>2. QED
      BY <3>1
  <2>2. PICK K \in SUBSET Keys : K = RawKeys(M)
    BY DEF RawKeys
  <2>3. PICK c : c = NamedCall(op, M) /\ c = [NoCall EXCEPT !.op = op, !.named = M, !.within = W,
                                                            !.keys = K]
    BY <2>1, <2>2 DEF NamedCall
  <2>4. /\ c \in Call /\ c.op = op /\ c.msg = 0 /\ c.named = M /\ c.within = W /\ c.keys = K
    <3>1. c \in Call
      BY <2>3, NamedFacts
    <3>2. c = [op |-> op, msg |-> 0, thread |-> 0, parts |-> {}, todo |-> {}, named |-> M,
               within |-> W, surviving |-> {}, released |-> 0, keys |-> K]
      BY <2>3 DEF NoCall
    <3>3. QED
      BY <3>1, <3>2
  <2>5. pc'[p] = "weigh" /\ call'[p] = c
    BY <1>0, <1>4, <2>3 DEF Start, Goto
  <2>6. op = "delete" => \E t \in Ids : W = {t}
    BY <1>4, <2>1
  <2>7. DeleteKnows("weigh", c)
    BY <2>1, <2>2, <2>4, <2>6 DEF DeleteKnows
  <2>8. UNCHANGED <<threads, messages, attachments, bucket, storage>>
    BY <1>4 DEF rows
  <2>9. QED
    BY <2>4, <2>5, <2>7, <2>8, DeletingBegins
<1>5. CASE DeleteStart(p)
  <2>1. PICK m \in {n \in Ids : Exists(n)} : Start(p, "weigh", NamedCall("delete", {m}))
    BY <1>5 DEF DeleteStart
  <2>2. {m} \in SUBSET {n \in Ids : Exists(n)}
    OBVIOUS
  <2>3. QED
    BY <1>4, <1>5, <2>1, <2>2 DEF DeleteStart
<1>6. CASE BatchStart(p)
  <2>1. PICK M \in SUBSET {n \in Ids : Exists(n)} : Start(p, "weigh", NamedCall("batch", M))
    BY <1>6 DEF BatchStart
  <2>2. QED
    BY <1>4, <1>6, <2>1 DEF BatchStart
<1>7. CASE DropStart(p)
  <2>1. PICK t \in Ids : Start(p, "weigh", [NoCall EXCEPT !.op = "drop", !.within = {t}])
    BY <1>7 DEF DropStart
  <2>2. PICK c : c = [NoCall EXCEPT !.op = "drop", !.within = {t}]
    OBVIOUS
  <2>3. c \in Call /\ c.op = "drop" /\ c.msg = 0 /\ c.within = {t}
    BY <2>2 DEF NoCall, Call, Ops
  <2>4. pc'[p] = "weigh" /\ call'[p] = c
    BY <1>0, <2>1, <2>2 DEF Start, Goto
  <2>5. DeleteKnows("weigh", c)
    BY <2>3 DEF DeleteKnows
  <2>6. UNCHANGED <<threads, messages, attachments, bucket, storage>>
    BY <1>7 DEF DropStart, rows
  <2>7. QED
    BY <2>3, <2>4, <2>5, <2>6, DeletingBegins
<1>8. QED
  BY <1>1, <1>2, <1>3, <1>5, <1>6, <1>7 DEF Begin

-----------------------------------------------------------------------------
(* The invariant *)

\* A step of the only call under way, with no fault.
LEMMA StepLands ==
  ASSUME MailboxInvariant, ThreadsAreHere, NEW p \in Workers, Settled(pc[p], call[p]),
         Step(p), ~ StorageWriteLost(p)
  PROVE  Lands(p) /\ ThreadsAreHere'
<1>1. CASE PutRaw(p) \/ PutPart(p) \/ PutObject(p)
  BY <1>1, PutRawLands, PutPartLands, PutObjectLands
<1>2. CASE ResolveThread(p) \/ GetThread(p) \/ SendMail(p) \/ SendRefused(p)
  BY <1>2, ResolveLands, GetThreadLands, SendMailLands, SendRefusedLands
<1>3. CASE InsertThread(p) \/ InsertMessage(p) \/ InsertAttachment(p)
  BY <1>3, InsertThreadLands, InsertMessageLands, InsertAttachmentLands
<1>4. CASE InsertThrows(p) \/ Touch(p) \/ Record(p)
  BY <1>4, InsertsDoNotThrow, TouchLands, RecordLands
<1>5. CASE \/ Weigh(p) \/ FindRow(p) \/ SelectKeys(p) \/ SelectSurvivors(p)
           \/ ListRemaining(p) \/ SelectRaws(p) \/ SelectFiles(p) \/ LookupThread(p)
  BY <1>5, DeleteReads
<1>6. CASE RemoveMessage(p) \/ RemoveMessages(p) \/ DropThread(p)
  BY <1>6, RemoveMessageLands, RemoveMessagesLands, DropThreadLands
<1>7. CASE Release(p) \/ DeleteObjects(p) \/ RecountThread(p)
  BY <1>7, ReleaseLands, DeleteObjectsLands, RecountLands
<1>8. QED
  BY <1>1, <1>2, <1>3, <1>4, <1>5, <1>6, <1>7 DEF Step

\* A step moves one worker that is in a call.
LEMMA BusyMoves ==
  ASSUME MailboxInvariant, NEW p \in Workers, Step(p), ~ StorageWriteLost(p)
  PROVE  /\ pc[p] # "idle" /\ \A q \in Workers \ {p} : pc'[q] = pc[q]
         /\ overlapped' = overlapped /\ faults' = faults
<1>1. ASSUME NEW l, Goto(p, l) PROVE \A q \in Workers \ {p} : pc'[q] = pc[q]
  BY <1>1 DEF Goto, MailboxInvariant, TypeOK
<1>2. CASE PutRaw(p) \/ PutPart(p) \/ PutObject(p)
  BY <1>1, <1>2 DEF PutRaw, PutPart, PutObject, history
<1>3. CASE ResolveThread(p) \/ GetThread(p) \/ SendMail(p) \/ SendRefused(p)
  BY <1>1, <1>3 DEF ResolveThread, GetThread, SendMail, SendRefused, EndCall, history
<1>4. CASE InsertThread(p) \/ InsertMessage(p) \/ InsertAttachment(p)
  BY <1>1, <1>4 DEF InsertThread, InsertMessage, InsertAttachment, history
<1>5. CASE InsertThrows(p) \/ Touch(p) \/ Record(p)
  BY <1>1, <1>5 DEF InsertThrows, Touch, Record, EndCall, history
<1>6. CASE Weigh(p) \/ FindRow(p) \/ SelectKeys(p) \/ SelectSurvivors(p)
  BY <1>1, <1>6 DEF Weigh, FindRow, SelectKeys, SelectSurvivors, EndCall, history
<1>7. CASE ListRemaining(p) \/ SelectRaws(p) \/ SelectFiles(p) \/ LookupThread(p)
  BY <1>1, <1>7 DEF ListRemaining, SelectRaws, SelectFiles, LookupThread, EndCall, history
<1>8. CASE RemoveMessage(p) \/ RemoveMessages(p) \/ DropThread(p)
  BY <1>1, <1>8 DEF RemoveMessage, RemoveMessages, DropThread
<1>9. CASE Release(p) \/ DeleteObjects(p) \/ RecountThread(p)
  BY <1>1, <1>9 DEF Release, DeleteObjects, RecountThread, EndCall, history
<1>10. QED
  BY <1>2, <1>3, <1>4, <1>5, <1>6, <1>7, <1>8, <1>9 DEF Step

\* A call begins on a worker; it is recorded when another is under way.
LEMMA BeginMoves ==
  ASSUME MailboxInvariant, NEW p \in Workers, Begin(p)
  PROVE  /\ \A q \in Workers \ {p} : pc'[q] = pc[q]
         /\ ~ overlapped' => ~ overlapped /\ Idle
         /\ faults' = faults
<1>1. ASSUME NEW l, NEW c, Start(p, l, c)
      PROVE  /\ \A q \in Workers \ {p} : pc'[q] = pc[q]
             /\ ~ overlapped' => ~ overlapped /\ Idle
  BY <1>1 DEF Start, Goto, Idle, MailboxInvariant, TypeOK
<1>2. CASE ReceiveStart(p) \/ SendStart(p) \/ ReplyStart(p)
  BY <1>1, <1>2 DEF ReceiveStart, SendStart, ReplyStart
<1>3. CASE DeleteStart(p) \/ BatchStart(p) \/ DropStart(p)
  BY <1>1, <1>3 DEF DeleteStart, BatchStart, DropStart
<1>4. QED
  BY <1>2, <1>3 DEF Begin

\* A fault is recorded.
LEMMA FaultsShow ==
  ASSUME MailboxInvariant, NEW p \in Workers, StorageWriteLost(p) \/ Kill(p)
  PROVE  faults' # 0
<1>1. faults \in Nat /\ faults' = faults + 1
  BY MailboxAssumption DEF MailboxInvariant, TypeOK, StorageWriteLost, Kill
<1>2. QED
  BY <1>1

\* What the worker that took the step has settled is what the invariant asks for.
LEMMA LandedKeeps ==
  ASSUME NEW p \in Workers, Lands(p), ThreadsAreHere',
         \A q \in Workers \ {p} : pc'[q] = "idle"
  PROVE  OneAtATime'
<1>1. PICK l \in Labels, c \in Call :
        pc'[p] = l /\ call'[p] = c /\ (l = "idle" => c = NoCall) /\ Settled(l, c)'
  BY DEF Lands
<1>2. Settled(pc[p], call[p])'
  BY <1>1, Arrives
<1>3. CASE l = "idle"
  <2>1. Settled("idle", NoCall)'
    BY <1>1, <1>3
  <2>2. \A q \in Workers : pc'[q] = "idle"
    BY <1>1, <1>3
  <2>3. QED
    BY <2>1, <2>2 DEF OneAtATime
<1>4. CASE l # "idle"
  <2>1. ~ Idle'
    BY <1>1, <1>4 DEF Idle
  <2>2. \A q \in Workers : pc'[q] # "idle" => q = p
    OBVIOUS
  <2>3. QED
    BY <1>2, <2>1, <2>2 DEF OneAtATime
<1>5. QED
  BY <1>3, <1>4

\* Init has nothing to settle.
LEMMA OneAtATimeInit ==
  ASSUME Init
  PROVE  OneAtATime
<1>1. TypeOK
  BY MailboxInvariantInit DEF MailboxInvariant
<1>2. /\ \A m \in Ids : messages[m].thread = 0 /\ ~ messages[m].raw /\ attachments[m] = {}
      /\ \A t \in Ids : ~ threads[t].here
      /\ bucket = {} /\ storage = 0 /\ Idle
  BY DEF Init, NoMessage, NoThread, Idle
<1>3. RawKeys(Ids) = {} /\ AttachmentKeys(Ids) = {}
  BY <1>2 DEF RawKeys, AttachmentKeys
<1>4. Weight(Ids) = 0
  <2>1. {m \in Ids : Exists(m)} = {} /\ Cardinality({}) = 0
    BY <1>2, FS_EmptySet DEF Exists
  <2>2. QED
    BY <1>3, <2>1 DEF Weight
<1>5. Consistent
  BY <1>2, <1>3, <1>4 DEF Consistent
<1>6. Settled("idle", NoCall)
  BY <1>1, <1>5, IdleSettles
<1>7. ThreadsAreHere
  BY <1>2 DEF ThreadsAreHere, Exists
<1>8. QED
  BY <1>2, <1>6, <1>7 DEF OneAtATime, Idle

\* Every step keeps it.
LEMMA OneAtATimeNext ==
  ASSUME MailboxInvariant, OneAtATime, [Next]_vars
  PROVE  OneAtATime'
<1> SUFFICES ASSUME ~ overlapped', faults' = 0 PROVE OneAtATime'
  BY DEF OneAtATime
<1>1. ASSUME NEW p \in Workers, Begin(p) PROVE OneAtATime'
  <2>1. /\ \A q \in Workers \ {p} : pc'[q] = pc[q]
        /\ ~ overlapped /\ Idle /\ faults = 0
    BY <1>1, BeginMoves
  <2>2. ThreadsAreHere /\ Settled("idle", NoCall)
    BY <2>1 DEF OneAtATime
  <2>3. Lands(p) /\ ThreadsAreHere'
    BY <1>1, <2>2, BeginLands
  <2>4. \A q \in Workers \ {p} : pc'[q] = "idle"
    BY <2>1 DEF Idle
  <2>5. QED
    BY <2>3, <2>4, LandedKeeps
<1>2. ASSUME NEW p \in Workers, Step(p) PROVE OneAtATime'
  <2>1. ~ StorageWriteLost(p)
    BY FaultsShow
  <2>2. /\ pc[p] # "idle" /\ \A q \in Workers \ {p} : pc'[q] = pc[q]
        /\ ~ overlapped /\ faults = 0
    BY <1>2, <2>1, BusyMoves
  <2>3. /\ ThreadsAreHere /\ Settled(pc[p], call[p])
        /\ \A q \in Workers \ {p} : pc[q] = "idle"
    BY <2>2 DEF OneAtATime
  <2>4. Lands(p) /\ ThreadsAreHere'
    BY <1>2, <2>1, <2>3, StepLands
  <2>5. QED
    BY <2>2, <2>3, <2>4, LandedKeeps
<1>3. ASSUME NEW p \in Workers, Kill(p) PROVE OneAtATime'
  BY <1>3, FaultsShow
<1>4. CASE UNCHANGED vars
  <2>1. ThreadsAreHere /\ UNCHANGED tables /\ pc' = pc /\ call' = call
        /\ ~ overlapped /\ faults = 0
    BY <1>4 DEF OneAtATime, vars, tables
  <2>2. CASE Idle
    <3>1. Settled("idle", NoCall)
      BY <2>1, <2>2 DEF OneAtATime
    <3>2. Settled("idle", NoCall)' /\ ThreadsAreHere'
      BY <2>1, <3>1, Reads
    <3>3. QED
      BY <2>1, <2>2, <3>2 DEF OneAtATime, Idle
  <2>3. CASE ~ Idle
    <3>1. PICK p \in Workers : pc[p] # "idle"
      BY <2>3 DEF Idle
    <3>2. PICK l, c : l = pc[p] /\ c = call[p]
      OBVIOUS
    <3>3. Settled(l, c) /\ \A q \in Workers \ {p} : pc[q] = "idle"
      BY <2>1, <3>1, <3>2 DEF OneAtATime
    <3>4. Settled(l, c)' /\ ThreadsAreHere'
      BY <2>1, <3>3, Reads
    <3>5. l \in Labels /\ c \in Call
      BY <3>2, WorkerFacts
    <3>6. Lands(p)
      BY <2>1, <3>1, <3>2, <3>4, <3>5 DEF Lands
    <3>7. QED
      BY <2>1, <3>3, <3>4, <3>6, LandedKeeps
  <2>4. QED
    BY <2>2, <2>3
<1>5. QED
  BY <1>1, <1>2, <1>3, <1>4 DEF Next

\* However many emails, sends, replies and deletes there are, as long as each ends before
\* the next begins and none is cut off, what is left is right: the count, the date and
\* the existence of each thread, the bytes in use, and no object without its row
\* (src/email/inbound.ts, src/core/messages.ts, src/core/threads.ts).
THEOREM OneAtATimeStaysConsistent == Spec => []OneAtATimeIsConsistent
<1>1. Init => OneAtATime
  BY OneAtATimeInit
<1>2. MailboxInvariant /\ OneAtATime /\ [Next]_vars => OneAtATime'
  BY OneAtATimeNext
<1>3. MailboxInvariant /\ OneAtATime => OneAtATimeIsConsistent
  BY IdleSettles DEF OneAtATime, OneAtATimeIsConsistent, MailboxInvariant
<1>4. QED
  BY <1>1, <1>2, <1>3, MailboxInvariantHolds, PTL DEF Spec

-----------------------------------------------------------------------------
(* What goes with a delete *)

Dropping == {"lookup", "raws", "files", "unthread"}

\* What a delete has read of the threads it works on is still so when it acts on it.
ReadingsHold(l, c) ==
  /\ l = "clear" => c.surviving = {t \in c.within : InThread(t) \ c.named # {}}
  /\ l \in Dropping /\ c.op # "drop" => Inside(c) = {}

\* While no two calls have overlapped, one worker at most is under way, and its readings hold.
AloneInvariant ==
  ~ overlapped =>
    /\ \A p, q \in Workers : pc[p] # "idle" /\ pc[q] # "idle" => p = q
    /\ \A p \in Workers : ReadingsHold(pc[p], call[p])

\* Elsewhere there is nothing to read.
LEMMA NothingRead ==
  ASSUME NEW p, pc'[p] \notin Dropping \cup {"clear"}
  PROVE  ReadingsHold(pc[p], call[p])'
BY DEF ReadingsHold, Dropping

\* A step after which one worker's readings hold and the others are idle keeps the invariant.
LEMMA AloneStays ==
  ASSUME NEW p \in Workers, \A q \in Workers \ {p} : pc'[q] = "idle", ReadingsHold(pc[p], call[p])'
  PROVE  AloneInvariant'
<1>1. \A q \in Workers \ {p} : ReadingsHold(pc[q], call[q])'
  <2> SUFFICES ASSUME NEW q \in Workers \ {p} PROVE ReadingsHold(pc[q], call[q])'
    OBVIOUS
  <2>1. pc'[q] \notin Dropping \cup {"clear"}
    BY DEF Dropping
  <2> QED
    BY <2>1, NothingRead
<1>2. \A q, r \in Workers : pc'[q] # "idle" /\ pc'[r] # "idle" => q = r
  OBVIOUS
<1> QED
  BY <1>1, <1>2 DEF AloneInvariant

\* The steps of a delete that act on, or go on with, what it read.
Reading(p) ==
  Weigh(p) \/ SelectSurvivors(p) \/ ListRemaining(p) \/ LookupThread(p) \/ SelectRaws(p) \/ SelectFiles(p)

\* A call begins with nothing read.
LEMMA BeginReadsNothing ==
  ASSUME MailboxInvariant, NEW p \in Workers, Begin(p)
  PROVE  pc'[p] \notin Dropping \cup {"clear"} /\ messages' = messages
<1>1. ASSUME NEW l, NEW c, Start(p, l, c) PROVE pc'[p] = l
  BY <1>1 DEF Start, Goto, MailboxInvariant, TypeOK
<1>2. CASE ReceiveStart(p) \/ SendStart(p) \/ ReplyStart(p)
  BY <1>1, <1>2 DEF ReceiveStart, SendStart, ReplyStart, Dropping, rows
<1>3. CASE DeleteStart(p) \/ BatchStart(p) \/ DropStart(p)
  BY <1>1, <1>3 DEF DeleteStart, BatchStart, DropStart, Dropping, rows
<1> QED
  BY <1>2, <1>3 DEF Begin

\* A step that reads no thread goes to a label where nothing read matters.
LEMMA OtherStepsReadNothing ==
  ASSUME MailboxInvariant, NEW p \in Workers, Step(p) \/ Kill(p), ~ Reading(p)
  PROVE  pc'[p] \notin Dropping \cup {"clear"}
<1>1. ASSUME NEW l, Goto(p, l) PROVE pc'[p] = l
  BY <1>1 DEF Goto, MailboxInvariant, TypeOK
<1>2. ASSUME EndCall(p) PROVE pc'[p] = "idle"
  BY <1>1, <1>2 DEF EndCall
<1>3. \A c, todo : NextPart(c, todo) \in {"touch", "attach", "object"}
  BY DEF NextPart
<1> USE DEF Dropping
<1>4. CASE PutRaw(p) \/ PutPart(p) \/ PutObject(p)
  BY <1>1, <1>4 DEF PutRaw, PutPart, PutObject
<1>5. CASE ResolveThread(p) \/ GetThread(p) \/ SendMail(p) \/ SendRefused(p)
  BY <1>1, <1>2, <1>5 DEF ResolveThread, GetThread, SendMail, SendRefused
<1>6. CASE InsertThread(p) \/ InsertMessage(p) \/ InsertAttachment(p)
  <2>1. CASE InsertThread(p)
    BY <1>1, <2>1 DEF InsertThread
  <2>2. CASE InsertMessage(p)
    BY <1>1, <1>3, <2>2 DEF InsertMessage
  <2>3. CASE InsertAttachment(p)
    BY <1>1, <1>3, <2>3 DEF InsertAttachment
  <2> QED
    BY <1>6, <2>1, <2>2, <2>3
<1>7. CASE InsertThrows(p) \/ Touch(p) \/ Record(p)
  BY <1>1, <1>2, <1>7 DEF InsertThrows, Touch, Record
<1>8. CASE FindRow(p) \/ SelectKeys(p)
  BY <1>1, <1>2, <1>8 DEF FindRow, SelectKeys
<1>9. CASE RemoveMessage(p) \/ RemoveMessages(p) \/ DropThread(p)
  BY <1>1, <1>9 DEF RemoveMessage, RemoveMessages, DropThread
<1>10. CASE Release(p) \/ DeleteObjects(p) \/ RecountThread(p)
  BY <1>1, <1>2, <1>10 DEF Release, DeleteObjects, RecountThread
<1>11. CASE StorageWriteLost(p) \/ Kill(p)
  BY <1>1, <1>2, <1>11 DEF StorageWriteLost, Kill
<1> QED
  BY <1>4, <1>5, <1>6, <1>7, <1>8, <1>9, <1>10, <1>11 DEF Step, Reading

\* What a delete reads is so, and stays so while it goes on reading.
LEMMA ReadingsAreTrue ==
  ASSUME MailboxInvariant, NEW p \in Workers, Reading(p), ReadingsHold(pc[p], call[p])
  PROVE  ReadingsHold(pc[p], call[p])'
<1> DEFINE c == call[p]
<1>0. PICK l, d : l = pc'[p] /\ d = call'[p]
  OBVIOUS
<1> SUFFICES ReadingsHold(l, d)'
  BY <1>0 DEF ReadingsHold, Inside
<1>1. messages' = messages
  BY DEF Reading, Weigh, SelectSurvivors, ListRemaining, LookupThread, SelectRaws, SelectFiles, rows
<1>2. /\ \A t : InThread(t)' = InThread(t)
      /\ d.within = c.within => Inside(d)' = Inside(c)
  <2>1. \A t : InThread(t)' = InThread(t)
    BY <1>1 DEF InThread
  <2>2. ASSUME NEW x, x.within = c.within PROVE Inside(x)' = Inside(c)
    BY <2>1, <2>2 DEF Inside
  <2> QED
    BY <2>1, <2>2
<1>3. c \in Call
  BY WorkerFacts
<1>4. ASSUME NEW x, Goto(p, x) PROVE l = x
  BY <1>0, <1>4 DEF Goto, MailboxInvariant, TypeOK
<1>5. ASSUME EndCall(p) PROVE ReadingsHold(l, d)'
  <2>1. l = "idle"
    BY <1>4, <1>5 DEF EndCall
  <2> QED
    BY <2>1 DEF ReadingsHold, Dropping
<1>6. CASE Weigh(p)
  <2>1. d.op = c.op /\ c.op \in {"delete", "batch", "drop"}
    <3>1. PICK n : call' = [call EXCEPT ![p].released = n]
      BY <1>6 DEF Weigh
    <3>2. d = [c EXCEPT !.released = n]
      BY <1>0, <3>1 DEF MailboxInvariant, TypeOK
    <3>3. c.op \in {"delete", "batch", "drop"}
      BY <1>6, WorkerFacts DEF Weigh, Worker, Stores
    <3> QED
      BY <1>3, <3>2, <3>3 DEF Call
  <2>2. l = CASE c.op = "delete" -> "find" [] c.op = "batch" -> "keys" [] c.op = "drop" -> "lookup"
    BY <1>4, <1>6 DEF Weigh
  <2>3. l # "clear" /\ (l \in Dropping => c.op = "drop")
    BY <2>1, <2>2 DEF Dropping
  <2> QED
    BY <2>1, <2>3 DEF ReadingsHold
<1>7. CASE SelectSurvivors(p)
  <2>1. l = "clear" /\ d = [c EXCEPT !.surviving = {t \in c.within : InThread(t) \ c.named # {}}]
    BY <1>0, <1>4, <1>7 DEF SelectSurvivors, MailboxInvariant, TypeOK
  <2>2. /\ d.surviving = {t \in c.within : InThread(t) \ c.named # {}}
        /\ d.within = c.within /\ d.named = c.named
    BY <1>3, <2>1 DEF Call
  <2> QED
    BY <1>2, <2>1, <2>2 DEF ReadingsHold, Dropping
<1>8. CASE ListRemaining(p)
  <2>1. d = c /\ l = IF Inside(c) = {} THEN "lookup" ELSE "recount"
    BY <1>0, <1>4, <1>8 DEF ListRemaining
  <2> QED
    BY <1>2, <2>1 DEF ReadingsHold, Dropping
<1>9. CASE LookupThread(p)
  <2>1. CASE EndCall(p)
    BY <1>5, <2>1
  <2>2. CASE Goto(p, "raws") /\ UNCHANGED call
    <3>1. l = "raws" /\ d = c /\ pc[p] = "lookup"
      BY <1>0, <1>4, <1>9, <2>2 DEF LookupThread
    <3> QED
      BY <1>2, <3>1 DEF ReadingsHold, Dropping
  <2> QED
    BY <1>9, <2>1, <2>2 DEF LookupThread
<1>10. CASE SelectRaws(p) \/ SelectFiles(p)
  <2>1. /\ l \in {"files", "unthread"} /\ pc[p] \in {"raws", "files"}
        /\ \E k : d = [c EXCEPT !.keys = k]
    BY <1>0, <1>4, <1>10 DEF SelectRaws, SelectFiles, MailboxInvariant, TypeOK
  <2>2. d.within = c.within /\ d.op = c.op
    BY <1>3, <2>1 DEF Call
  <2> QED
    BY <1>2, <2>1, <2>2 DEF ReadingsHold, Dropping
<1> QED
  BY <1>6, <1>7, <1>8, <1>9, <1>10 DEF Reading

\* A fault moves its worker only.
LEMMA FaultMoves ==
  ASSUME MailboxInvariant, NEW p \in Workers, StorageWriteLost(p) \/ Kill(p)
  PROVE  /\ pc[p] # "idle" /\ \A q \in Workers \ {p} : pc'[q] = pc[q]
         /\ overlapped' = overlapped /\ messages' = messages
<1>1. ASSUME NEW l, Goto(p, l) PROVE \A q \in Workers \ {p} : pc'[q] = pc[q]
  BY <1>1 DEF Goto, MailboxInvariant, TypeOK
<1> QED
  BY <1>1 DEF StorageWriteLost, Kill, EndCall, history, rows

\* Every step keeps the invariant.
LEMMA AloneNext ==
  ASSUME MailboxInvariant, AloneInvariant, [Next]_vars
  PROVE  AloneInvariant'
<1> SUFFICES ASSUME ~ overlapped' PROVE AloneInvariant'
  BY DEF AloneInvariant
<1>1. ASSUME NEW p \in Workers, Begin(p) PROVE AloneInvariant'
  <2>1. \A q \in Workers \ {p} : pc'[q] = "idle"
    BY <1>1, BeginMoves DEF Idle
  <2>2. ReadingsHold(pc[p], call[p])'
    BY <1>1, BeginReadsNothing, NothingRead
  <2> QED
    BY <2>1, <2>2, AloneStays
<1>2. ASSUME NEW p \in Workers, Step(p) \/ Kill(p) PROVE AloneInvariant'
  <2>1. /\ pc[p] # "idle" /\ \A q \in Workers \ {p} : pc'[q] = pc[q]
        /\ ~ overlapped
    BY <1>2, BusyMoves, FaultMoves
  <2>2. \A q \in Workers \ {p} : pc'[q] = "idle"
    BY <2>1 DEF AloneInvariant
  <2>3. ReadingsHold(pc[p], call[p])'
    <3>1. CASE Reading(p)
      BY <2>1, <3>1, ReadingsAreTrue DEF AloneInvariant
    <3>2. CASE ~ Reading(p)
      BY <1>2, <3>2, OtherStepsReadNothing, NothingRead
    <3> QED
      BY <3>1, <3>2
  <2> QED
    BY <2>2, <2>3, AloneStays
<1>3. CASE UNCHANGED vars
  BY <1>3 DEF vars, AloneInvariant, ReadingsHold, Inside, InThread
<1> QED
  BY <1>1, <1>2, <1>3 DEF Next

\* The messages that a drop of rows takes are those that had one.
LEMMA DroppedGo ==
  ASSUME NEW M, DropMessages(M), NEW m \in Ids, Exists(m), messages'[m].thread = 0
  PROVE  m \in M
BY DEF DropMessages, Exists

\* In a step of an undisturbed call, only named messages go.
LEMMA NamedGoAlone ==
  ASSUME MailboxInvariant, AloneInvariant, ~ overlapped, [Next]_vars
  PROVE  NamedGo
<1> SUFFICES ASSUME NEW m \in Ids, Exists(m), messages'[m].thread = 0
             PROVE  \E p \in Workers : pc'[p] # pc[p] /\ (m \in call[p].named \/ call[p].op = "drop")
  BY DEF NamedGo
<1>1. messages' # messages
  BY DEF Exists
<1>2. PICK p \in Workers : InsertMessage(p) \/ RemoveMessage(p) \/ RemoveMessages(p) \/ DropThread(p)
  <2>1. PICK p \in Workers : Step(p)
    BY <1>1, BeginReadsNothing, FaultMoves DEF Next, vars
  <2>2. ~ (PutRaw(p) \/ PutPart(p) \/ PutObject(p) \/ ResolveThread(p) \/ GetThread(p))
    BY <1>1 DEF PutRaw, PutPart, PutObject, ResolveThread, GetThread, rows
  <2>3. ~ (SendMail(p) \/ SendRefused(p) \/ InsertThread(p) \/ InsertAttachment(p) \/ InsertThrows(p))
    BY <1>1 DEF SendMail, SendRefused, InsertThread, InsertAttachment, InsertThrows, rows
  <2>4. ~ (Touch(p) \/ Record(p) \/ Weigh(p) \/ FindRow(p) \/ SelectKeys(p) \/ SelectSurvivors(p))
    BY <1>1 DEF Touch, Record, Weigh, FindRow, SelectKeys, SelectSurvivors, rows
  <2>5. ~ (ListRemaining(p) \/ LookupThread(p) \/ SelectRaws(p) \/ SelectFiles(p))
    BY <1>1 DEF ListRemaining, LookupThread, SelectRaws, SelectFiles, rows
  <2>6. ~ (Release(p) \/ DeleteObjects(p) \/ RecountThread(p) \/ StorageWriteLost(p))
    BY <1>1 DEF Release, DeleteObjects, RecountThread, StorageWriteLost, rows
  <2> QED
    BY <2>1, <2>2, <2>3, <2>4, <2>5, <2>6 DEF Step
<1> DEFINE c == call[p]
<1>3. ReadingsHold(pc[p], c)
  BY DEF AloneInvariant
<1>4. ASSUME NEW l, Goto(p, l), pc[p] # l PROVE pc'[p] # pc[p]
  BY <1>4 DEF Goto, MailboxInvariant, TypeOK
<1>5. m \in InThread(messages[m].thread)
  BY DEF InThread
<1>6. CASE InsertMessage(p)
  <2>1. c.msg \in Unborn
    BY <1>6, StorerFacts DEF InsertMessage, Before
  <2>2. m # c.msg
    BY <2>1 DEF MailboxInvariant, Unwritten
  <2>3. messages'[m] = messages[m]
    BY <1>6, <2>2 DEF InsertMessage, MailboxInvariant, TypeOK
  <2> QED
    BY <2>3 DEF Exists
<1>7. CASE RemoveMessage(p)
  <2>1. m \in c.named
    BY <1>7, DroppedGo DEF RemoveMessage
  <2> QED
    BY <1>4, <1>7, <2>1 DEF RemoveMessage
<1>8. CASE RemoveMessages(p)
  <2> DEFINE emptied == c.within \ c.surviving
  <2>1. m \in c.named \cup UNION {InThread(t) : t \in emptied}
    BY <1>8, DroppedGo DEF RemoveMessages
  <2>2. c.surviving = {t \in c.within : InThread(t) \ c.named # {}}
    BY <1>3, <1>8 DEF ReadingsHold, RemoveMessages
  <2>3. m \in c.named
    BY <2>1, <2>2
  <2> QED
    BY <1>4, <1>8, <2>3 DEF RemoveMessages
<1>9. CASE DropThread(p)
  <2>1. m \in Inside(c) /\ pc[p] = "unthread"
    BY <1>9, DroppedGo DEF DropThread
  <2>2. c.op = "drop"
    BY <1>3, <2>1 DEF ReadingsHold, Dropping
  <2>3. pc'[p] # pc[p]
    BY <1>4, <1>9, <2>1 DEF DropThread
  <2> QED
    BY <2>2, <2>3
<1> QED
  BY <1>2, <1>6, <1>7, <1>8, <1>9

\* However many calls there are and wherever they are killed: until two of them have
\* overlapped, a delete takes the messages it names and, with a thread that is dropped,
\* those in it (deleteMessage, batchDeleteMessages, deleteThread).
THEOREM OnlyOverlapsTakeUnnamed == Spec => UnnamedLossNeedsOverlap
<1>1. Init => AloneInvariant
  BY DEF Init, AloneInvariant, ReadingsHold, Dropping
<1>2. MailboxInvariant /\ AloneInvariant /\ [Next]_vars => AloneInvariant'
  BY AloneNext
<1>3. MailboxInvariant /\ AloneInvariant /\ [Next]_vars => [overlapped \/ NamedGo]_vars
  BY NamedGoAlone
<1> QED
  BY <1>1, <1>2, <1>3, MailboxInvariantHolds, PTL DEF Spec, UnnamedLossNeedsOverlap
=============================================================================
