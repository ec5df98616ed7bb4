--------------------------- MODULE MailboxProofs ---------------------------
(***************************************************************************)
(* Proofs about Mailbox, for any number of workers, messages, attachments, *)
(* calls and faults: every row names objects that are there, and message   *)
(* counts add up until a delete reaches the thread.                        *)
(*                                                                         *)
(* Both rest on one invariant.  It says which messages are unborn (their   *)
(* number is not drawn, or its worker has not inserted the row) and which  *)
(* threads are fresh (nothing but that worker can name them), and what     *)
(* each worker holds at each label: nobody else stores its message, the    *)
(* objects it is about to name are put, the keys it is about to delete     *)
(* belong to messages that are gone and cannot come back.                  *)
(***************************************************************************)
EXTENDS Mailbox, FiniteSetTheorems, NaturalsInduction, WellFoundedInduction, TLAPS

Early == {"raw", "part", "resolve", "thread", "open"}

Before == Early \cup {"message"}

After == {"object", "attach", "touch", "record"}

Deleting == {"weigh", "find", "keys", "survivors", "remove", "clear", "release", "purge",
             "remaining", "recount", "lookup", "raws", "files", "unthread", "sweep"}

Unborn == {m \in Ids : m > minted \/ \E p \in Workers : pc[p] \in Before /\ call[p].msg = m}

Fresh == {t \in Ids : t > minted \/ \E p \in Workers : pc[p] \in Early /\ call[p].msg = t}

(* What a worker at label l with the locals c relies on.                       *)

\* Who stores a message, and that nobody else does.
Stores(p, l, c) ==
    /\ l \in (Before \cup After) \ {"thread"} => c.msg # 0
    /\ l = "thread" => c.op \in {"receive", "reply"} /\ (c.op = "receive" <=> c.msg # 0)
    /\ l \in {"raw", "part", "resolve"} => c.op = "receive"
    /\ l \in {"send", "object"} => c.op # "receive"
    /\ l \in Deleting \cup {"send", "idle"} => c.msg = 0
    /\ l = "weigh" => c.op \in {"delete", "batch", "drop"}
    /\ \A q \in Workers \ {p} : c.msg # 0 => call[q].msg # c.msg

\* Where the message goes: a thread of its own that is still to be opened, or a known one.
Joins(l, c) ==
    /\ l = "open" => c.thread = c.msg
    /\ l \in {"thread", "message"} \cup After => c.thread # 0
    /\ l # "open" => c.thread \notin Fresh
    /\ l \in {"object", "attach", "touch"} =>
         /\ c.msg \notin counted
         /\ messages[c.msg].thread \in {0, c.thread}
         /\ Exists(c.msg) \/ c.thread \in trimmed
    /\ l = "record" => c.msg \in counted

\* The objects that the rows to be inserted will name.
Holds(l, c) ==
    /\ c.todo \subseteq c.parts
    /\ l = "raw" => c.todo = c.parts
    /\ l \in {"part", "object", "attach"} => c.todo # {}
    /\ l \in Before \ {"raw"} /\ c.op = "receive" =>
         /\ <<c.msg, 0>> \in bucket
         /\ \A n \in c.parts : <<c.msg, n>> \in bucket \/ (l = "part" /\ n \in c.todo)
    /\ l = "attach" /\ Exists(c.msg) =>
         IF c.op = "receive" THEN \A n \in c.todo : <<c.msg, n>> \in bucket
         ELSE <<c.msg, Least(c.todo)>> \in bucket

\* What a delete takes away: messages of the threads it works on, objects of messages it
\* removes.
Removes(l, c) ==
    /\ \A m \in c.named : m \notin Unborn /\ messages[m].thread \in c.within \cup {0}
    /\ \A k \in c.keys : k[1] \notin Unborn
    /\ l \in {"weigh", "find", "keys", "survivors", "remove", "clear"} =>
         \A k \in c.keys : k[1] \in c.named
    /\ l = "clear" => c.surviving \subseteq c.within
    /\ l \in {"files", "unthread"} =>
         \A k \in c.keys : messages[k[1]].thread \in c.within \cup {0}
    /\ l \in {"release", "purge", "sweep"} => \A k \in c.keys : ~ Exists(k[1])
    /\ l \in {"release", "purge", "remaining", "recount"} => c.within \subseteq trimmed

Worker(p, l, c) == Stores(p, l, c) /\ Joins(l, c) /\ Holds(l, c) /\ Removes(l, c)

Workings == \A p \in Workers : call[p].msg <= minted /\ Worker(p, pc[p], call[p])

\* What is not there yet has no rows.
Unwritten ==
    /\ \A m \in Unborn : ~ Exists(m) /\ m \notin counted
    /\ \A m \in Ids : Exists(m) => messages[m].thread \notin Fresh
    /\ \A m \in Ids : ~ Exists(m) => attachments[m] = {} /\ ~ messages[m].raw

MailboxInvariant == TypeOK /\ Workings /\ Unwritten /\ RowsHaveObjects /\ CountsAddUp

-----------------------------------------------------------------------------
(* Numbers *)

\* Numbers that are some have a least, and Least picks it.
LEMMA LeastFacts ==
  ASSUME NEW T \in SUBSET Nat, T # {}
  PROVE  Least(T) \in T /\ \A y \in T : Least(T) <= y
<1> DEFINE R == OpToRel(<, Nat)
<1>1. \E x \in T : \A y \in T : ~ (<<y, x>> \in R)
  BY NatLessThanWellFounded, WFMin, Zenon
<1>2. \A x, y \in Nat : y < x => <<y, x>> \in R
  BY DEF OpToRel
<1> HIDE DEF R
<1>3. PICK x \in T : \A y \in T : ~ (<<y, x>> \in R)
  BY <1>1
<1>4. \A y \in T : ~ (y < x)
  BY <1>2, <1>3
<1>5. \A y \in T : x <= y
  <2> SUFFICES ASSUME NEW y \in T PROVE x <= y
    OBVIOUS
  <2>1. x \in Nat /\ y \in Nat /\ ~ (y < x)
    BY <1>4
  <2>2. QED
    BY <2>1
<1>6. QED
  BY <1>5 DEF Least

\* Sets of attachments, of messages and of their objects are finite.
LEMMA FiniteFacts ==
  /\ \A S \in SUBSET Parts : IsFiniteSet(S) /\ Cardinality(S) \in Nat
  /\ \A S \in SUBSET Ids : IsFiniteSet(S) /\ Cardinality(S) \in Nat
  /\ \A S \in SUBSET Keys : IsFiniteSet(S) /\ Cardinality(S) \in Nat
<1>1. IsFiniteSet(Ids) /\ IsFiniteSet(Parts) /\ IsFiniteSet(0 .. MaxParts)
  BY MailboxAssumption, FS_Interval DEF Ids, Parts
<1>2. IsFiniteSet(Keys)
  BY <1>1, FS_Product DEF Keys
<1>3. QED
  BY <1>1, <1>2, FS_Subset, FS_CardinalityType

\* The bytes of some messages are a number.
LEMMA WeightFacts == \A M \in SUBSET Ids : Weight(M) \in Nat
<1> SUFFICES ASSUME NEW M \in SUBSET Ids PROVE Weight(M) \in Nat
  OBVIOUS
<1>1. {m \in M : Exists(m)} \in SUBSET Ids /\ AttachmentKeys(M) \in SUBSET Keys
  BY DEF AttachmentKeys
<1>2. Cardinality({m \in M : Exists(m)}) \in Nat /\ Cardinality(AttachmentKeys(M)) \in Nat
  BY <1>1, FiniteFacts
<1>3. QED
  BY <1>2 DEF Weight

-----------------------------------------------------------------------------
(* Steps of one worker *)

\* The worker goes to label l with the locals c: it keeps its message, drops it, or
\* draws the next one.
Follows(p, l, c) ==
    /\ l \in Labels /\ c \in Call
    /\ pc' = [pc EXCEPT ![p] = l] /\ call' = [call EXCEPT ![p] = c]
    /\ \/ c.msg = 0 /\ minted' = minted
       \/ /\ c.msg = call[p].msg /\ minted' = minted
          /\ l \in Before => pc[p] \in Before
          /\ l \in Early => pc[p] \in Early
       \/ c.msg = minted + 1 /\ minted' = minted + 1 /\ minted < MaxMessages

\* The sets of labels are sets of labels.
LEMMA LabelFacts == Early \subseteq Before /\ Before \subseteq Labels /\ After \subseteq Labels
                    /\ Deleting \subseteq Labels
BY DEF Early, Before, After, Deleting, Labels

\* A call between calls.
LEMMA NoCallFacts == NoCall \in Call /\ NoCall.msg = 0
BY DEF NoCall, Call

\* What a worker relies on, from the invariant.
LEMMA WorkerFacts ==
  ASSUME MailboxInvariant, NEW p \in Workers
  PROVE  /\ Worker(p, pc[p], call[p]) /\ call[p].msg <= minted
         /\ call[p] \in Call /\ pc[p] \in Labels
         /\ minted \in Nat /\ minted <= MaxMessages /\ MaxMessages \in Nat
BY MailboxAssumption DEF MailboxInvariant, Workings, TypeOK

\* Nothing becomes unborn or fresh again, and the other workers stay as they are.
LEMMA FollowsFacts ==
  ASSUME MailboxInvariant, NEW p \in Workers, NEW l, NEW c, Follows(p, l, c)
  PROVE  /\ Unborn' \subseteq Unborn /\ Fresh' \subseteq Fresh
         /\ pc' \in [Workers -> Labels] /\ call' \in [Workers -> Call]
         /\ minted' \in 0 .. MaxMessages /\ minted <= minted' /\ c.msg <= minted'
         /\ pc'[p] = l /\ call'[p] = c
         /\ \A q \in Workers \ {p} : pc'[q] = pc[q] /\ call'[q] = call[q]
         /\ \A q \in Workers \ {p} : call[q].msg # 0 => c.msg # call[q].msg
         /\ c.msg # 0 /\ l \in Before => c.msg \in Unborn
<1>1. /\ Worker(p, pc[p], call[p]) /\ call[p].msg <= minted
      /\ call[p] \in Call /\ pc[p] \in Labels
      /\ minted \in Nat /\ minted <= MaxMessages /\ MaxMessages \in Nat
  BY WorkerFacts
<1>2. /\ pc' \in [Workers -> Labels] /\ call' \in [Workers -> Call]
      /\ pc'[p] = l /\ call'[p] = c
      /\ \A q \in Workers \ {p} : pc'[q] = pc[q] /\ call'[q] = call[q]
  BY DEF Follows, MailboxInvariant, TypeOK
<1>3. minted' \in 0 .. MaxMessages /\ minted <= minted' /\ c.msg <= minted'
  BY <1>1 DEF Follows, Call
<1>4. \A q \in Workers \ {p} : call[q].msg # 0 => c.msg # call[q].msg
  <2> SUFFICES ASSUME NEW q \in Workers \ {p}, call[q].msg # 0 PROVE c.msg # call[q].msg
    OBVIOUS
  <2>1. /\ Worker(q, pc[q], call[q]) /\ call[q].msg <= minted /\ call[q] \in Call
    BY WorkerFacts
  <2>2. call[p].msg # call[q].msg
    BY <2>1 DEF Worker, Stores
  <2>3. call[q].msg # minted + 1
    BY <1>1, <2>1 DEF Call, Ids
  <2>4. QED
    BY <2>2, <2>3 DEF Follows
<1>5. c.msg \in Ids \cup {0}
  BY DEF Follows, Call
<1>6. ASSUME c.msg \in Ids, l \in Before PROVE c.msg \in Unborn
  BY <1>1, <1>6 DEF Follows, Unborn, Ids
<1>7. ASSUME c.msg \in Ids, l \in Early PROVE c.msg \in Fresh
  BY <1>1, <1>7 DEF Follows, Fresh, Ids
<1>8. ASSUME NEW m \in Ids, m > minted' PROVE m > minted
  BY <1>1, <1>3, <1>8 DEF Ids
<1>9. Unborn' \subseteq Unborn
  <2> SUFFICES ASSUME NEW m \in Unborn' PROVE m \in Unborn
    OBVIOUS
  <2>1. m \in Ids /\ (m > minted' \/ \E q \in Workers : pc'[q] \in Before /\ call'[q].msg = m)
    BY DEF Unborn, Ids
  <2>2. CASE m > minted'
    BY <1>8, <2>1, <2>2 DEF Unborn
  <2>3. ASSUME NEW q \in Workers, pc'[q] \in Before, call'[q].msg = m PROVE m \in Unborn
    BY <1>2, <1>6, <2>1, <2>3 DEF Unborn
  <2>4. QED
    BY <2>1, <2>2, <2>3
<1>10. Fresh' \subseteq Fresh
  <2> SUFFICES ASSUME NEW m \in Fresh' PROVE m \in Fresh
    OBVIOUS
  <2>1. m \in Ids /\ (m > minted' \/ \E q \in Workers : pc'[q] \in Early /\ call'[q].msg = m)
    BY DEF Fresh, Ids
  <2>2. CASE m > minted'
    BY <1>8, <2>1, <2>2 DEF Fresh
  <2>3. ASSUME NEW q \in Workers, pc'[q] \in Early, call'[q].msg = m PROVE m \in Fresh
    BY <1>2, <1>7, <2>1, <2>3 DEF Fresh
  <2>4. QED
    BY <2>1, <2>2, <2>3
<1>11. QED
  BY <1>2, <1>3, <1>4, <1>5, <1>6, <1>9, <1>10

\* What a worker relies on outlives the steps that follow, as long as they bear and
\* count other messages, take rows out of trimmed threads only, and delete objects of
\* messages that are gone only.
LEMMA PartsStay ==
  ASSUME NEW q, NEW l, NEW c \in Call, Stores(q, l, c),
         Unborn' \subseteq Unborn, Fresh' \subseteq Fresh,
         l \in Before /\ c.msg # 0 => c.msg \in Unborn,
         counted \subseteq counted', c.msg \in counted' => c.msg \in counted,
         trimmed \subseteq trimmed',
         \A m \in Ids : \/ messages'[m] = messages[m]
                        \/ messages'[m].thread = 0 /\ messages[m].thread \in trimmed' \cup {0}
                        \/ m \in Unborn /\ m # c.msg,
         \A k \in bucket : k \in bucket' \/ (k[1] \notin Unborn /\ ~ Exists(k[1])),
         \A o \in Workers \ {q} : c.msg # 0 => call'[o].msg # c.msg
  PROVE  /\ Stores(q, l, c)'
         /\ Joins(l, c) => Joins(l, c)'
         /\ Holds(l, c) => Holds(l, c)'
         /\ Removes(l, c) => Removes(l, c)'
<1>1. /\ c.msg \in Ids \cup {0} /\ c.named \subseteq Ids /\ c.keys \subseteq Keys
      /\ c.within \subseteq Ids
  BY DEF Call
<1>2. Stores(q, l, c)'
  BY DEF Stores
<1>3. ASSUME Joins(l, c) PROVE Joins(l, c)'
  <2>1. ASSUME l \in {"object", "attach", "touch"}
        PROVE  /\ c.msg \notin counted'
               /\ messages'[c.msg].thread \in {0, c.thread}
               /\ messages'[c.msg].thread # 0 \/ c.thread \in trimmed'
    <3>1. c.msg # 0
      BY <2>1 DEF Stores, Before, After
    <3>2. /\ c.msg \notin counted
          /\ messages[c.msg].thread \in {0, c.thread}
          /\ messages[c.msg].thread # 0 \/ c.thread \in trimmed
      BY <1>3, <2>1 DEF Joins, Exists
    <3>3. QED
      BY <1>1, <3>1, <3>2
  <2>2. QED
    BY <1>3, <2>1 DEF Joins, Exists
<1>4. ASSUME Holds(l, c) PROVE Holds(l, c)'
  <2>1. ASSUME NEW n, <<c.msg, n>> \in bucket, c.msg \in Unborn \/ Exists(c.msg)
        PROVE  <<c.msg, n>> \in bucket'
    BY <2>1
  <2>2. ASSUME l \in Before \ {"raw"}, c.op = "receive"
        PROVE  /\ <<c.msg, 0>> \in bucket'
               /\ \A n \in c.parts : <<c.msg, n>> \in bucket' \/ (l = "part" /\ n \in c.todo)
    <3>1. c.msg # 0
      BY <2>2 DEF Stores, Before
    <3>2. c.msg \in Unborn
      BY <2>2, <3>1
    <3>3. QED
      BY <1>4, <2>1, <2>2, <3>2 DEF Holds
  <2>3. ASSUME l = "attach", messages'[c.msg].thread # 0
        PROVE  IF c.op = "receive" THEN \A n \in c.todo : <<c.msg, n>> \in bucket'
               ELSE <<c.msg, Least(c.todo)>> \in bucket'
    <3>1. c.msg # 0
      BY <2>3 DEF Stores, Before, After
    <3>2. Exists(c.msg)
      BY <1>1, <2>3, <3>1 DEF Exists
    <3>3. QED
      BY <1>4, <2>1, <2>3, <3>2 DEF Holds
  <2>4. QED
    BY <1>4, <2>2, <2>3 DEF Holds, Exists, Least
<1>5. ASSUME Removes(l, c) PROVE Removes(l, c)'
  <2>1. ASSUME NEW m \in Ids, m \notin Unborn
        PROVE  messages'[m].thread = messages[m].thread \/ messages'[m].thread = 0
    BY <2>1
  <2>2. \A k \in c.keys : k[1] \in Ids
    BY <1>1 DEF Keys
  <2>3. \A m \in c.named : m \notin Unborn' /\ messages'[m].thread \in c.within \cup {0}
    BY <1>1, <1>5, <2>1 DEF Removes
  <2>4. \A k \in c.keys : k[1] \notin Unborn /\ k[1] \notin Unborn'
    BY <1>5 DEF Removes
  <2>5. l \in {"files", "unthread"} =>
          \A k \in c.keys : messages'[k[1]].thread \in c.within \cup {0}
    BY <1>5, <2>1, <2>2, <2>4 DEF Removes
  <2>6. l \in {"release", "purge", "sweep"} => \A k \in c.keys : ~ messages'[k[1]].thread # 0
    BY <1>5, <2>1, <2>2, <2>4 DEF Removes, Exists
  <2>7. QED
    BY <1>5, <2>3, <2>4, <2>5, <2>6 DEF Removes, Exists
<1>6. QED
  BY <1>2, <1>3, <1>4, <1>5

\* The same for all that a worker relies on.
LEMMA WorkerStays ==
  ASSUME NEW q, NEW l, NEW c \in Call, Worker(q, l, c),
         Unborn' \subseteq Unborn, Fresh' \subseteq Fresh,
         l \in Before /\ c.msg # 0 => c.msg \in Unborn,
         counted \subseteq counted', c.msg \in counted' => c.msg \in counted,
         trimmed \subseteq trimmed',
         \A m \in Ids : \/ messages'[m] = messages[m]
                        \/ messages'[m].thread = 0 /\ messages[m].thread \in trimmed' \cup {0}
                        \/ m \in Unborn /\ m # c.msg,
         \A k \in bucket : k \in bucket' \/ (k[1] \notin Unborn /\ ~ Exists(k[1])),
         \A o \in Workers \ {q} : c.msg # 0 => call'[o].msg # c.msg
  PROVE  Worker(q, l, c)'
BY PartsStay DEF Worker

\* What a worker relies on after a step is a matter of where it is then.
LEMMA Placed ==
  ASSUME NEW q, NEW l, NEW c, pc'[q] = l, call'[q] = c, Worker(q, l, c)'
  PROVE  Worker(q, pc[q], call[q])'
<1>1. Stores(q, pc[q], call[q])'
  BY DEF Worker, Stores
<1>2. Joins(pc[q], call[q])'
  BY DEF Worker, Joins, Exists
<1>3. Holds(pc[q], call[q])'
  BY DEF Worker, Holds, Exists, Least
<1>4. Removes(pc[q], call[q])'
  BY DEF Worker, Removes, Exists
<1>5. QED
  BY <1>1, <1>2, <1>3, <1>4 DEF Worker

\* The step of one worker keeps what all of them rely on.
LEMMA WorkingsKept ==
  ASSUME MailboxInvariant, NEW p \in Workers, NEW l, NEW c, Follows(p, l, c), Worker(p, l, c)',
         counted \subseteq counted', counted' \subseteq counted \cup {call[p].msg}, 0 \notin counted',
         trimmed \subseteq trimmed',
         \A m \in Ids : \/ messages'[m] = messages[m]
                        \/ messages'[m].thread = 0 /\ messages[m].thread \in trimmed' \cup {0}
                        \/ m \in Unborn /\ m = call[p].msg,
         \A k \in bucket : k \in bucket' \/ (k[1] \notin Unborn /\ ~ Exists(k[1]))
  PROVE  Workings'
<1>1. /\ Unborn' \subseteq Unborn /\ Fresh' \subseteq Fresh
      /\ minted' \in 0 .. MaxMessages /\ minted <= minted' /\ c.msg <= minted'
      /\ pc'[p] = l /\ call'[p] = c
      /\ \A q \in Workers \ {p} : pc'[q] = pc[q] /\ call'[q] = call[q]
      /\ \A q \in Workers \ {p} : call[q].msg # 0 => c.msg # call[q].msg
  BY FollowsFacts
<1> SUFFICES ASSUME NEW q \in Workers
             PROVE  call'[q].msg <= minted' /\ Worker(q, pc[q], call[q])'
  BY DEF Workings
<1>2. CASE q = p
  BY <1>1, <1>2, Placed
<1>3. CASE q # p
  <2>1. pc'[q] = pc[q] /\ call'[q] = call[q]
    BY <1>1, <1>3
  <2> DEFINE k == pc[q]
             d == call[q]
  <2>2. /\ Worker(q, k, d) /\ d.msg <= minted /\ d \in Call /\ minted \in Nat
    BY WorkerFacts
  <2>3. d.msg # 0 => d.msg # call[p].msg
    BY <1>3, <2>2 DEF Worker, Stores
  <2>4. k \in Before /\ d.msg # 0 => d.msg \in Unborn
    BY <2>2 DEF Unborn, Call
  <2>5. \A o \in Workers \ {q} : d.msg # 0 => call'[o].msg # d.msg
    BY <1>1, <1>3, <2>2 DEF Worker, Stores
  <2>6. d.msg \in counted' => d.msg \in counted
    BY <2>3
  <2>7. \A m \in Ids : \/ messages'[m] = messages[m]
                       \/ messages'[m].thread = 0 /\ messages[m].thread \in trimmed' \cup {0}
                       \/ m \in Unborn /\ m # d.msg
    BY <2>3 DEF Ids
  <2>8. d.msg <= minted'
    BY <1>1, <2>2 DEF Call, Ids
  <2>9. ASSUME NEW n, NEW e, n = k, e = d
        PROVE  Worker(q, n, e)'
    <3>1. Worker(q, n, e) /\ e \in Call
      BY <2>2, <2>9
    <3>2. QED
      BY <1>1, <2>4, <2>5, <2>6, <2>7, <2>9, <3>1, WorkerStays
  <2>10. QED
    BY <2>1, <2>8, <2>9, Placed
<1>4. QED
  BY <1>2, <1>3

\* A step that changes no rows but those of threads a delete has reached, and no object,
\* keeps the invariant, when the worker does not walk away from a message it stored and
\* did not count.
LEMMA RecountKeeps ==
  ASSUME MailboxInvariant, NEW p \in Workers, NEW l, NEW c, Follows(p, l, c), Worker(p, l, c),
         UNCHANGED <<messages, attachments, bucket, counted, trimmed>>,
         threads' \in [Ids -> Thread], \A t \in Ids \ trimmed : threads'[t] = threads[t],
         storage' \in Nat, calls' \in 0 .. MaxCalls, faults' \in 0 .. MaxFaults,
         overlapped' \in BOOLEAN, abandoned \subseteq abandoned', abandoned' \subseteq Ids,
         \A m \in Ids : (m = call[p].msg /\ Exists(m) /\ m \notin counted) =>
           m \in abandoned' \/ (l # "idle" /\ c.msg = m)
  PROVE  MailboxInvariant'
<1>1. /\ Unborn' \subseteq Unborn /\ Fresh' \subseteq Fresh
      /\ pc' \in [Workers -> Labels] /\ call' \in [Workers -> Call]
      /\ minted' \in 0 .. MaxMessages
      /\ pc'[p] = l /\ call'[p] = c
      /\ \A q \in Workers \ {p} : pc'[q] = pc[q] /\ call'[q] = call[q]
      /\ \A q \in Workers \ {p} : call[q].msg # 0 => c.msg # call[q].msg
      /\ c.msg # 0 /\ l \in Before => c.msg \in Unborn
  BY FollowsFacts
<1>2. TypeOK'
  BY <1>1 DEF MailboxInvariant, TypeOK
<1>3. Worker(p, l, c)'
  <2>1. c \in Call
    BY DEF Follows
  <2>2. \A o \in Workers \ {p} : c.msg # 0 => call'[o].msg # c.msg
    BY <1>1
  <2>3. QED
    BY <1>1, <2>1, <2>2, WorkerStays
<1>4. Workings'
  <2>1. 0 \notin counted
    BY DEF MailboxInvariant, TypeOK, Ids
  <2>2. QED
    BY <1>3, <2>1, WorkingsKept
<1>5. Unwritten'
  BY <1>1 DEF MailboxInvariant, Unwritten, Exists
<1>6. RowsHaveObjects'
  BY DEF MailboxInvariant, RowsHaveObjects, RawKeys, AttachmentKeys
<1>7. CountsAddUp'
  <2> SUFFICES ASSUME NEW t \in Ids \ trimmed, threads'[t] = threads[t]
               PROVE  /\ threads[t].here => threads[t].count = Cardinality(InThread(t) \cap counted)
                      /\ \A m \in InThread(t) \ counted :
                           m \in abandoned' \/ \E q \in Workers : pc'[q] # "idle" /\ call'[q].msg = m
    BY DEF CountsAddUp, InThread
  <2>1. threads[t].here => threads[t].count = Cardinality(InThread(t) \cap counted)
    BY DEF MailboxInvariant, CountsAddUp
  <2>2. ASSUME NEW m \in InThread(t) \ counted
        PROVE  m \in abandoned' \/ \E q \in Workers : pc'[q] # "idle" /\ call'[q].msg = m
    <3>1. m \in Ids /\ Exists(m)
      BY DEF InThread, Exists, Ids
    <3>2. m \in abandoned \/ \E q \in Workers : pc[q] # "idle" /\ call[q].msg = m
      BY DEF MailboxInvariant, CountsAddUp
    <3>3. QED
      BY <1>1, <3>1, <3>2
  <2>3. QED
    BY <2>1, <2>2
<1>8. QED
  BY <1>2, <1>4, <1>5, <1>6, <1>7 DEF MailboxInvariant

\* A step that touches no row and no object at all.
LEMMA QuietKeeps ==
  ASSUME MailboxInvariant, NEW p \in Workers, NEW l, NEW c, Follows(p, l, c), Worker(p, l, c),
         UNCHANGED <<threads, messages, attachments, bucket, counted, trimmed>>,
         storage' \in Nat, calls' \in 0 .. MaxCalls, faults' \in 0 .. MaxFaults,
         overlapped' \in BOOLEAN, abandoned \subseteq abandoned', abandoned' \subseteq Ids,
         \A m \in Ids : (m = call[p].msg /\ Exists(m) /\ m \notin counted) =>
           m \in abandoned' \/ (l # "idle" /\ c.msg = m)
  PROVE  MailboxInvariant'
BY RecountKeeps DEF MailboxInvariant, TypeOK

\* A worker between calls relies on nothing.
LEMMA IdleFacts ==
  ASSUME NEW p \in Workers, EndCall(p), minted' = minted
  PROVE  Follows(p, "idle", NoCall) /\ Worker(p, "idle", NoCall)
<1>1. Follows(p, "idle", NoCall)
  BY NoCallFacts DEF Follows, EndCall, Goto, Labels
<1>2. /\ NoCall.msg = 0 /\ NoCall.thread = 0 /\ NoCall.parts = {} /\ NoCall.todo = {}
      /\ NoCall.named = {} /\ NoCall.keys = {}
  BY DEF NoCall
<1>3. 0 \notin Fresh
  BY DEF Fresh, Ids
<1>4. Worker(p, "idle", NoCall)
  BY <1>2, <1>3 DEF Worker, Stores, Joins, Holds, Removes, Early, Before, After
<1>5. QED
  BY <1>1, <1>4

\* Ending a call that has nothing stored and uncounted, or is abandoned, keeps the invariant.
LEMMA EndKeeps ==
  ASSUME MailboxInvariant, NEW p \in Workers, EndCall(p), minted' = minted,
         UNCHANGED <<threads, messages, attachments, bucket, counted, trimmed>>,
         storage' \in Nat, calls' \in 0 .. MaxCalls, faults' \in 0 .. MaxFaults,
         overlapped' \in BOOLEAN, abandoned \subseteq abandoned', abandoned' \subseteq Ids,
         \A m \in Ids : (m = call[p].msg /\ Exists(m) /\ m \notin counted) => m \in abandoned'
  PROVE  MailboxInvariant'
BY IdleFacts, QuietKeeps

-----------------------------------------------------------------------------
(* Calls that begin *)

\* A call begins with a free worker; the counters of the model stay within their bounds.
LEMMA StartFacts ==
  ASSUME MailboxInvariant, NEW p \in Workers, NEW l, NEW c, Start(p, l, c)
  PROVE  /\ pc' = [pc EXCEPT ![p] = l] /\ call' = [call EXCEPT ![p] = c]
         /\ call[p].msg = 0 /\ calls' \in 0 .. MaxCalls /\ overlapped' \in BOOLEAN
<1>1. pc[p] = "idle" /\ call[p].msg = 0
  BY WorkerFacts DEF Start, Worker, Stores
<1>2. calls' \in 0 .. MaxCalls
  BY MailboxAssumption DEF Start, MailboxInvariant, TypeOK
<1>3. overlapped' \in BOOLEAN
  BY DEF Start, MailboxInvariant, TypeOK
<1>4. QED
  BY <1>1, <1>2, <1>3 DEF Start, Goto

\* A call that stores nothing yet.
LEMMA StartKeeps ==
  ASSUME MailboxInvariant, NEW p \in Workers, NEW l \in Labels, NEW c \in Call, Start(p, l, c),
         c.msg = 0, Worker(p, l, c),
         UNCHANGED <<threads, messages, attachments, bucket, storage, minted, faults, counted,
                     abandoned, trimmed>>
  PROVE  MailboxInvariant'
<1>1. /\ pc' = [pc EXCEPT ![p] = l] /\ call' = [call EXCEPT ![p] = c]
      /\ call[p].msg = 0 /\ calls' \in 0 .. MaxCalls /\ overlapped' \in BOOLEAN
  BY StartFacts
<1>2. Follows(p, l, c)
  BY <1>1 DEF Follows
<1>3. \A m \in Ids : m # call[p].msg
  BY <1>1 DEF Ids
<1>4. QED
  BY <1>1, <1>2, <1>3, QuietKeeps DEF MailboxInvariant, TypeOK

\* What an existing message is.
LEMMA ExistingFacts ==
  ASSUME MailboxInvariant, NEW m \in Ids, Exists(m)
  PROVE  m \notin Unborn /\ messages[m].thread \in Ids \ Fresh /\ messages[m].thread # 0
BY DEF MailboxInvariant, TypeOK, Unwritten, Exists, Message, Ids

\* A send, a forward or a reply begins.
LEMMA SendBegins ==
  ASSUME MailboxInvariant, NEW p \in Workers, SendStart(p) \/ ReplyStart(p)
  PROVE  MailboxInvariant'
<1>0. 0 \notin Fresh
  BY DEF Fresh, Ids
<1>1. CASE SendStart(p)
  <2>1. PICK parts \in SUBSET Parts :
          Start(p, "send", [NoCall EXCEPT !.op = "send", !.parts = parts, !.todo = parts])
    BY <1>1 DEF SendStart
  <2> DEFINE c == [NoCall EXCEPT !.op = "send", !.parts = parts, !.todo = parts]
  <2>2. /\ c \in Call /\ c.op = "send" /\ c.msg = 0 /\ c.thread = 0 /\ c.parts = parts
        /\ c.todo = parts /\ c.named = {} /\ c.keys = {}
    BY DEF NoCall, Call, Ops
  <2> HIDE DEF c
  <2>3. Worker(p, "send", c)
    BY <1>0, <2>2 DEF Worker, Stores, Joins, Holds, Removes, Early, Before, After
  <2>4. Start(p, "send", c)
    BY <2>1 DEF c
  <2>5. QED
    BY <1>1, <2>2, <2>3, <2>4, StartKeeps DEF SendStart, Labels, rows
<1>2. CASE ReplyStart(p)
  <2>1. PICK parent \in {m \in Ids : Exists(m)}, parts \in SUBSET Parts :
          Start(p, "thread", [NoCall EXCEPT !.op = "reply", !.thread = messages[parent].thread,
                                            !.parts = parts, !.todo = parts])
    BY <1>2 DEF ReplyStart
  <2> DEFINE t == messages[parent].thread
             c == [NoCall EXCEPT !.op = "reply", !.thread = t, !.parts = parts, !.todo = parts]
  <2>2. t \in Ids \ Fresh /\ t # 0
    BY ExistingFacts
  <2>3. Start(p, "thread", c)
    BY <2>1
  <2> HIDE DEF t
  <2>4. /\ c \in Call /\ c.op = "reply" /\ c.msg = 0 /\ c.thread = t /\ c.parts = parts
        /\ c.todo = parts /\ c.named = {} /\ c.keys = {}
    BY <2>2 DEF NoCall, Call, Ops
  <2> HIDE DEF c
  <2>5. Worker(p, "thread", c)
    BY <2>2, <2>4 DEF Worker, Stores, Joins, Holds, Removes, Early, Before, After, Deleting
  <2>6. QED
    BY <1>2, <2>3, <2>4, <2>5, StartKeeps DEF ReplyStart, Labels, rows
<1>3. QED
  BY <1>1, <1>2

\* A delete of named messages that exist.
LEMMA NamedFacts ==
  ASSUME MailboxInvariant, NEW p \in Workers, NEW op \in {"delete", "batch"},
         NEW M \in SUBSET {m \in Ids : Exists(m)}
  PROVE  /\ NamedCall(op, M) \in Call /\ NamedCall(op, M).msg = 0
         /\ Worker(p, "weigh", NamedCall(op, M))
<1> DEFINE W == {messages[m].thread : m \in M}
           K == RawKeys(M)
           c == NamedCall(op, M)
<1>1. \A m \in M : m \in Ids /\ m \notin Unborn /\ messages[m].thread \in Ids
  BY ExistingFacts
<1>2. W \subseteq Ids /\ \A m \in M : messages[m].thread \in W
  BY <1>1
<1>3. K \subseteq Keys /\ \A k \in K : k[1] \in M
  BY DEF RawKeys
<1> HIDE DEF W, K
<1>4. c = [NoCall EXCEPT !.op = op, !.named = M, !.within = W, !.keys = K]
  BY DEF NamedCall, W, K
<1>5. M \subseteq Ids
  BY <1>1
<1>6. c = [op |-> op, msg |-> 0, thread |-> 0, parts |-> {}, todo |-> {}, named |-> M,
           within |-> W, surviving |-> {}, released |-> 0, keys |-> K]
  BY <1>4 DEF NoCall
<1> HIDE DEF c
<1>7. /\ c \in Call /\ c.op = op /\ c.msg = 0 /\ c.thread = 0 /\ c.parts = {} /\ c.todo = {}
      /\ c.named = M /\ c.within = W /\ c.keys = K
  BY <1>2, <1>3, <1>5, <1>6 DEF Call, Ops
<1>8. Worker(p, "weigh", c)
  <2>1. 0 \notin Fresh
    BY DEF Fresh, Ids
  <2>2. Stores(p, "weigh", c)
    BY <1>7 DEF Stores, Early, Before, After
  <2>3. Joins("weigh", c) /\ Holds("weigh", c)
    BY <1>7, <2>1 DEF Joins, Holds, Early, Before, After
  <2>4. Removes("weigh", c)
    BY <1>1, <1>2, <1>3, <1>7 DEF Removes
  <2>5. QED
    BY <2>2, <2>3, <2>4 DEF Worker
<1>9. QED
  BY <1>7, <1>8 DEF c

\* A delete begins.
LEMMA DeleteBegins ==
  ASSUME MailboxInvariant, NEW p \in Workers, DeleteStart(p) \/ BatchStart(p) \/ DropStart(p)
  PROVE  MailboxInvariant'
<1>1. CASE DeleteStart(p)
  <2>1. PICK m \in {n \in Ids : Exists(n)} : Start(p, "weigh", NamedCall("delete", {m}))
    BY <1>1 DEF DeleteStart
  <2>2. {m} \in SUBSET {n \in Ids : Exists(n)}
    OBVIOUS
  <2>3. QED
    BY <1>1, <2>1, <2>2, NamedFacts, StartKeeps DEF DeleteStart, Labels, rows
<1>2. CASE BatchStart(p)
  <2>1. PICK M \in SUBSET {n \in Ids : Exists(n)} : Start(p, "weigh", NamedCall("batch", M))
    BY <1>2 DEF BatchStart
  <2>2. QED
    BY <1>2, <2>1, NamedFacts, StartKeeps DEF BatchStart, Labels, rows
<1>3. CASE DropStart(p)
  <2>1. PICK t \in Ids : Start(p, "weigh", [NoCall EXCEPT !.op = "drop", !.within = {t}])
    BY <1>3 DEF DropStart
  <2> DEFINE c == [NoCall EXCEPT !.op = "drop", !.within = {t}]
  <2>2. /\ c \in Call /\ c.op = "drop" /\ c.msg = 0 /\ c.thread = 0 /\ c.parts = {}
        /\ c.todo = {} /\ c.named = {} /\ c.keys = {}
    BY DEF NoCall, Call, Ops
  <2>3. Start(p, "weigh", c)
    BY <2>1
  <2> HIDE DEF c
  <2>4. 0 \notin Fresh
    BY DEF Fresh, Ids
  <2>5. Worker(p, "weigh", c)
    BY <2>2, <2>4 DEF Worker, Stores, Joins, Holds, Removes, Early, Before, After
  <2>6. QED
    BY <1>3, <2>2, <2>3, <2>5, StartKeeps DEF DropStart, Labels, rows
<1>4. QED
  BY <1>1, <1>2, <1>3

-----------------------------------------------------------------------------
(* Steps that touch no row and no object *)

\* The worker goes on with the same message.
LEMMA MoveKeeps ==
  ASSUME MailboxInvariant, NEW p \in Workers, NEW l \in Labels, NEW c \in Call,
         pc' = [pc EXCEPT ![p] = l], call' = [call EXCEPT ![p] = c], c.msg = call[p].msg,
         l # "idle", l \in Before => pc[p] \in Before, l \in Early => pc[p] \in Early,
         UNCHANGED <<threads, messages, attachments, bucket, minted, calls, counted, abandoned,
                     trimmed, overlapped>>,
         storage' \in Nat, faults' \in 0 .. MaxFaults, Worker(p, l, c)
  PROVE  MailboxInvariant'
<1>1. Follows(p, l, c)
  BY DEF Follows
<1>2. \A m \in Ids : m = call[p].msg => c.msg = m
  OBVIOUS
<1>3. QED
  BY <1>1, <1>2, QuietKeeps DEF MailboxInvariant, TypeOK

\* The worker goes on with the same locals.
LEMMA GotoKeeps ==
  ASSUME MailboxInvariant, NEW p \in Workers, NEW l \in Labels, Goto(p, l),
         l # "idle", l \in Before => pc[p] \in Before, l \in Early => pc[p] \in Early,
         UNCHANGED <<threads, messages, attachments, bucket, minted, call, calls, counted,
                     abandoned, trimmed, overlapped>>,
         storage' \in Nat, faults' \in 0 .. MaxFaults, Worker(p, l, call[p])
  PROVE  MailboxInvariant'
<1>1. call' = [call EXCEPT ![p] = call[p]]
  BY DEF MailboxInvariant, TypeOK
<1>2. call[p] \in Call
  BY WorkerFacts
<1> DEFINE c == call[p]
<1>3. c \in Call /\ call' = [call EXCEPT ![p] = c] /\ c.msg = call[p].msg /\ Worker(p, l, c)
  BY <1>1, <1>2
<1>4. pc' = [pc EXCEPT ![p] = l]
  BY DEF Goto
<1> HIDE DEF c
<1>5. QED
  BY <1>3, <1>4, MoveKeeps

\* A call that has no message of its own in a row ends.
LEMMA QuitKeeps ==
  ASSUME MailboxInvariant, NEW p \in Workers, EndCall(p),
         UNCHANGED <<threads, messages, attachments, bucket, minted, calls, counted, abandoned,
                     trimmed, overlapped>>,
         storage' \in Nat, faults' \in 0 .. MaxFaults,
         call[p].msg = 0 \/ ~ Exists(call[p].msg) \/ call[p].msg \in counted
  PROVE  MailboxInvariant'
<1>1. \A m \in Ids : (m = call[p].msg /\ Exists(m) /\ m \notin counted) => m \in abandoned'
  BY DEF Ids
<1>2. QED
  BY <1>1, EndKeeps DEF MailboxInvariant, TypeOK

\* The thread an email is found to belong to is one that a message is in.
LEMMA FindThreadFacts ==
  ASSUME MailboxInvariant, NEW refs \in SUBSET Ids
  PROVE  FindThread(refs) \in (Ids \ Fresh) \cup {0}
<1> DEFINE found == {m \in refs : Exists(m)}
<1>1. CASE found = {}
  BY <1>1 DEF FindThread
<1>2. CASE found # {}
  <2>1. found \in SUBSET Nat
    <3>1. Ids \subseteq Nat
      BY DEF Ids
    <3>2. QED
      BY <3>1
  <2>2. Least(found) \in found
    BY <1>2, <2>1, LeastFacts
  <2>3. FindThread(refs) = messages[Least(found)].thread
    BY <1>2 DEF FindThread
  <2>4. QED
    BY <2>2, <2>3, ExistingFacts
<1>3. QED
  BY <1>1, <1>2

\* An email is resolved to a thread that is known, or to one of its own.
LEMMA ResolveKeeps ==
  ASSUME MailboxInvariant, NEW p \in Workers, ResolveThread(p)
  PROVE  MailboxInvariant'
<1>1. /\ Worker(p, "resolve", call[p]) /\ call[p] \in Call /\ pc[p] = "resolve"
      /\ minted \in Nat /\ minted <= MaxMessages /\ MaxMessages \in Nat
  BY WorkerFacts DEF ResolveThread
<1>2. PICK refs \in SUBSET (1 .. minted) :
        /\ call' = [call EXCEPT ![p].thread = IF FindThread(refs) = 0 THEN call[p].msg
                                              ELSE FindThread(refs)]
        /\ Goto(p, IF FindThread(refs) = 0 THEN "open" ELSE "thread")
  BY DEF ResolveThread
<1>3. refs \in SUBSET Ids
  BY <1>1 DEF Ids
<1> DEFINE f == FindThread(refs)
           t == IF f = 0 THEN call[p].msg ELSE f
           l == IF f = 0 THEN "open" ELSE "thread"
           c == [call[p] EXCEPT !.thread = t]
<1>4. f \in (Ids \ Fresh) \cup {0}
  BY <1>3, FindThreadFacts
<1>5. pc' = [pc EXCEPT ![p] = l] /\ call' = [call EXCEPT ![p] = c]
  BY <1>2 DEF Goto
<1> HIDE DEF f
<1>6. /\ c \in Call /\ c.thread = t /\ c.msg = call[p].msg /\ c.op = call[p].op
      /\ c.parts = call[p].parts /\ c.todo = call[p].todo /\ c.named = call[p].named
      /\ c.keys = call[p].keys /\ c.within = call[p].within
  BY <1>1, <1>4 DEF Call
<1> HIDE DEF c
<1>7. Worker(p, l, c)
  <2>1. Stores(p, l, c)
    BY <1>1, <1>6 DEF Worker, Stores, Early, Before, After, Deleting
  <2>2. Joins(l, c)
    BY <1>1, <1>4, <1>6 DEF Worker, Joins, Early, Before, After
  <2>3. Holds(l, c)
    BY <1>1, <1>6 DEF Worker, Holds, Early, Before
  <2>4. Removes(l, c)
    BY <1>1, <1>6 DEF Worker, Removes
  <2>5. QED
    BY <2>1, <2>2, <2>3, <2>4 DEF Worker
<1>8. l \in Labels /\ l # "idle" /\ pc[p] \in Before /\ pc[p] \in Early
  BY <1>1 DEF Labels, Early, Before
<1> HIDE DEF l
<1>9. QED
  BY <1>5, <1>6, <1>7, <1>8, MoveKeeps DEF ResolveThread, MailboxInvariant, TypeOK, rows, history

\* A thread that is gone is replaced by the message's own; the others stay known.
LEMMA GetThreadKeeps ==
  ASSUME MailboxInvariant, NEW p \in Workers, GetThread(p)
  PROVE  MailboxInvariant'
<1>1. /\ Worker(p, "thread", call[p]) /\ call[p] \in Call /\ pc[p] = "thread"
  BY WorkerFacts DEF GetThread
<1> DEFINE t == IF threads[call[p].thread].here THEN call[p].thread ELSE call[p].msg
           l == IF call[p].op = "reply" THEN "send"
                ELSE IF t = call[p].msg THEN "open" ELSE "message"
           c == [call[p] EXCEPT !.thread = t]
<1>2. pc' = [pc EXCEPT ![p] = l] /\ call' = [call EXCEPT ![p] = c]
  BY DEF GetThread, Goto
<1>3. t \in {call[p].thread, call[p].msg}
  OBVIOUS
<1> HIDE DEF t
<1>4. /\ c \in Call /\ c.thread = t /\ c.msg = call[p].msg /\ c.op = call[p].op
      /\ c.parts = call[p].parts /\ c.todo = call[p].todo /\ c.named = call[p].named
      /\ c.keys = call[p].keys /\ c.within = call[p].within
  BY <1>1, <1>3 DEF Call
<1> HIDE DEF c
<1>5. 0 \notin Fresh
  BY DEF Fresh, Ids
<1>6. Worker(p, l, c)
  <2>1. /\ call[p].op \in {"receive", "reply"} /\ (call[p].op = "receive" <=> call[p].msg # 0)
        /\ \A q \in Workers \ {p} : call[p].msg # 0 => call[q].msg # call[p].msg
        /\ call[p].thread # 0 /\ call[p].thread \notin Fresh
    BY <1>1 DEF Worker, Stores, Joins, After
  <2>2. Stores(p, l, c)
    BY <1>4, <2>1 DEF Stores, Early, Before, After, Deleting
  <2>3. Joins(l, c)
    BY <1>3, <1>4, <1>5, <2>1 DEF Joins, After
  <2>4. Holds(l, c)
    BY <1>1, <1>4, <2>1 DEF Worker, Holds, Early, Before
  <2>5. Removes(l, c)
    BY <1>1, <1>4 DEF Worker, Removes
  <2>6. QED
    BY <2>2, <2>3, <2>4, <2>5 DEF Worker
<1>7. l \in Labels /\ l # "idle" /\ pc[p] \in Before /\ pc[p] \in Early
  BY <1>1 DEF Labels, Early, Before
<1> HIDE DEF l
<1>8. QED
  BY <1>2, <1>4, <1>6, <1>7, MoveKeeps DEF GetThread, MailboxInvariant, TypeOK, rows, history

\* The ends of a call that stores a message: refused, thrown out, recorded.
LEMMA EndsKeep ==
  ASSUME MailboxInvariant, NEW p \in Workers, SendRefused(p) \/ InsertThrows(p) \/ Record(p)
  PROVE  MailboxInvariant'
<1>1. /\ Worker(p, pc[p], call[p]) /\ call[p] \in Call
  BY WorkerFacts
<1>2. CASE SendRefused(p)
  <2>1. call[p].msg = 0
    BY <1>1, <1>2 DEF SendRefused, Worker, Stores
  <2>2. QED
    BY <1>2, <2>1, QuitKeeps DEF SendRefused, MailboxInvariant, TypeOK, rows, history
<1>3. CASE InsertThrows(p)
  <2>1. CASE pc[p] = "message"
    <3>1. call[p].msg # 0 /\ call[p].msg \in Ids
      BY <1>1, <2>1 DEF Worker, Stores, Before, After, Call
    <3>2. call[p].msg \in Unborn
      BY <2>1, <3>1 DEF Unborn, Before
    <3>3. ~ Exists(call[p].msg)
      BY <3>2 DEF MailboxInvariant, Unwritten
    <3>4. QED
      BY <1>3, <3>3, QuitKeeps DEF InsertThrows, MailboxInvariant, TypeOK, rows, history
  <2>2. CASE pc[p] # "message"
    <3>1. ~ Exists(call[p].msg)
      BY <1>3, <2>2 DEF InsertThrows
    <3>2. QED
      BY <1>3, <3>1, QuitKeeps DEF InsertThrows, MailboxInvariant, TypeOK, rows, history
  <2>3. QED
    BY <2>1, <2>2
<1>4. CASE Record(p)
  <2>1. call[p].msg \in counted
    BY <1>1, <1>4 DEF Record, Worker, Joins
  <2>2. storage' \in Nat
    <3>1. Cardinality(call[p].parts) \in Nat
      BY <1>1, FiniteFacts DEF Call
    <3>2. storage \in Nat
      BY DEF MailboxInvariant, TypeOK
    <3>3. QED
      BY <1>4, <3>1, <3>2 DEF Record, AddStorage
  <2>3. QED
    BY <1>4, <2>1, <2>2, QuitKeeps DEF Record, MailboxInvariant, TypeOK, rows, history
<1>5. QED
  BY <1>2, <1>3, <1>4

\* The labels between the start of a delete and its first removal.
LEMMA DeletingFacts ==
  ASSUME MailboxInvariant, NEW p \in Workers, pc[p] \in Deleting
  PROVE  /\ call[p].msg = 0 /\ call[p].thread \notin Fresh /\ call[p].todo \subseteq call[p].parts
         /\ Removes(pc[p], call[p]) /\ call[p] \in Call
         /\ pc[p] = "weigh" => call[p].op \in {"delete", "batch", "drop"}
<1>1. Worker(p, pc[p], call[p]) /\ call[p] \in Call
  BY WorkerFacts
<1>2. QED
  BY <1>1 DEF Worker, Stores, Joins, Holds, Deleting

\* At a later label of a delete only what it removes matters.
LEMMA DeleterFacts ==
  ASSUME NEW p, NEW l \in Deleting \ {"weigh"}, NEW c, c.msg = 0, c.thread \notin Fresh,
         c.todo \subseteq c.parts, Removes(l, c)
  PROVE  Worker(p, l, c)
BY DEF Worker, Stores, Joins, Holds, Deleting, Early, Before, After

\* The message removed, a delete goes on with the same locals.
LEMMA DeleteGoes ==
  ASSUME MailboxInvariant, NEW p \in Workers, pc[p] \in Deleting, NEW l \in Deleting \ {"weigh"},
         Goto(p, l), Removes(l, call[p]),
         UNCHANGED <<threads, messages, attachments, bucket, minted, call, calls, counted,
                     abandoned, trimmed, overlapped>>,
         storage' \in Nat, faults' \in 0 .. MaxFaults
  PROVE  MailboxInvariant'
<1>1. Worker(p, l, call[p])
  BY DeletingFacts, DeleterFacts
<1>2. l \in Labels /\ l # "idle" /\ l \notin Before /\ l \notin Early
  BY DEF Deleting, Labels, Before, Early
<1>3. QED
  BY <1>1, <1>2, GotoKeeps

\* A delete goes on with other keys, survivors or bytes.
LEMMA DeleteMoves ==
  ASSUME MailboxInvariant, NEW p \in Workers, pc[p] \in Deleting, NEW l \in Deleting \ {"weigh"},
         NEW c \in Call, pc' = [pc EXCEPT ![p] = l], call' = [call EXCEPT ![p] = c],
         c.msg = call[p].msg, c.thread = call[p].thread, c.todo = call[p].todo,
         c.parts = call[p].parts, Removes(l, c),
         UNCHANGED <<threads, messages, attachments, bucket, storage, minted, calls, faults,
                     counted, abandoned, trimmed, overlapped>>
  PROVE  MailboxInvariant'
<1>1. Worker(p, l, c)
  BY DeletingFacts, DeleterFacts
<1>2. l \in Labels /\ l # "idle" /\ l \notin Before /\ l \notin Early
  BY DEF Deleting, Labels, Before, Early
<1>3. QED
  BY <1>1, <1>2, MoveKeeps DEF MailboxInvariant, TypeOK

\* A delete ends.
LEMMA DeleteEnds ==
  ASSUME MailboxInvariant, NEW p \in Workers, pc[p] \in Deleting, EndCall(p),
         UNCHANGED <<threads, messages, attachments, bucket, storage, minted, calls, faults,
                     counted, abandoned, trimmed, overlapped>>
  PROVE  MailboxInvariant'
BY DeletingFacts, QuitKeeps DEF MailboxInvariant, TypeOK

\* The messages inside threads and the keys of some messages.
LEMMA InsideFacts ==
  ASSUME MailboxInvariant, NEW c \in Call
  PROVE  /\ Inside(c) \subseteq Ids
         /\ \A m \in Inside(c) : m \notin Unborn /\ messages[m].thread \in c.within
<1>1. c.within \subseteq Ids /\ 0 \notin Ids
  BY DEF Call, Ids
<1>2. ASSUME NEW m \in Inside(c)
      PROVE  m \in Ids /\ messages[m].thread \in c.within /\ Exists(m)
  BY <1>1 DEF Inside, InThread, Exists
<1>3. QED
  BY <1>2, ExistingFacts

\* The reads of a delete before its batch.
LEMMA DeleteReadsKeep ==
  ASSUME MailboxInvariant, NEW p \in Workers,
         Weigh(p) \/ FindRow(p) \/ SelectKeys(p) \/ SelectSurvivors(p)
  PROVE  MailboxInvariant'
<1>1. CASE Weigh(p)
  <2>1. pc[p] = "weigh" /\ pc[p] \in Deleting
    BY <1>1 DEF Weigh, Deleting
  <2>2. call[p] \in Call /\ Removes("weigh", call[p]) /\ call[p].op \in {"delete", "batch", "drop"}
    BY <2>1, DeletingFacts
  <2> DEFINE w == Weight(IF call[p].op = "drop" THEN Inside(call[p]) ELSE call[p].named)
             c == [call[p] EXCEPT !.released = w]
             l == CASE call[p].op = "delete" -> "find" [] call[p].op = "batch" -> "keys"
                    [] call[p].op = "drop" -> "lookup"
  <2>3. pc' = [pc EXCEPT ![p] = l] /\ call' = [call EXCEPT ![p] = c]
    BY <1>1 DEF Weigh, Goto
  <2>4. w \in Nat
    <3>1. Inside(call[p]) \in SUBSET Ids /\ call[p].named \in SUBSET Ids
      BY <2>2, InsideFacts DEF Call
    <3>2. QED
      BY <3>1, WeightFacts
  <2>5. l \in {"find", "keys", "lookup"}
    BY <2>2
  <2> HIDE DEF w, l
  <2>6. /\ c \in Call /\ c.msg = call[p].msg /\ c.thread = call[p].thread /\ c.todo = call[p].todo
        /\ c.parts = call[p].parts /\ c.named = call[p].named /\ c.within = call[p].within
        /\ c.keys = call[p].keys
    BY <2>2, <2>4 DEF Call
  <2> HIDE DEF c
  <2>7. Removes(l, c)
    BY <2>2, <2>5, <2>6 DEF Removes
  <2>8. l \in Deleting \ {"weigh"}
    BY <2>5 DEF Deleting
  <2>9. QED
    BY <1>1, <2>1, <2>3, <2>6, <2>7, <2>8, DeleteMoves DEF Weigh, rows, history
<1>2. CASE FindRow(p)
  <2>1. pc[p] = "find" /\ pc[p] \in Deleting
    BY <1>2 DEF FindRow, Deleting
  <2>2. Removes("keys", call[p])
    BY <2>1, DeletingFacts DEF Removes
  <2>3. "keys" \in Deleting \ {"weigh"}
    BY DEF Deleting
  <2>4. CASE \A m \in call[p].named : Exists(m)
    BY <1>2, <2>1, <2>2, <2>3, <2>4, DeleteGoes DEF FindRow, MailboxInvariant, TypeOK, rows, history
  <2>5. CASE ~ \A m \in call[p].named : Exists(m)
    BY <1>2, <2>1, <2>5, DeleteEnds DEF FindRow, rows, history
  <2>6. QED
    BY <2>4, <2>5
<1>3. CASE SelectKeys(p)
  <2>1. pc[p] = "keys" /\ pc[p] \in Deleting
    BY <1>3 DEF SelectKeys, Deleting
  <2>2. call[p] \in Call /\ Removes("keys", call[p])
    BY <2>1, DeletingFacts
  <2> DEFINE K == call[p].keys \cup AttachmentKeys(call[p].named)
             c == [call[p] EXCEPT !.keys = K]
             l == IF call[p].op = "batch" THEN "survivors" ELSE "remove"
  <2>3. pc' = [pc EXCEPT ![p] = l] /\ call' = [call EXCEPT ![p] = c]
    BY <1>3 DEF SelectKeys, Goto
  <2>4. K \subseteq Keys /\ \A k \in K : k[1] \in call[p].named
    BY <2>2 DEF AttachmentKeys, Removes, Call
  <2> HIDE DEF K
  <2>5. /\ c \in Call /\ c.msg = call[p].msg /\ c.thread = call[p].thread /\ c.todo = call[p].todo
        /\ c.parts = call[p].parts /\ c.named = call[p].named /\ c.within = call[p].within
        /\ c.keys = K
    BY <2>2, <2>4 DEF Call
  <2> HIDE DEF c
  <2>6. Removes(l, c)
    BY <2>2, <2>4, <2>5 DEF Removes
  <2>7. l \in Deleting \ {"weigh"}
    BY DEF Deleting
  <2> HIDE DEF l
  <2>8. QED
    BY <1>3, <2>1, <2>3, <2>5, <2>6, <2>7, DeleteMoves DEF SelectKeys, rows, history
<1>4. CASE SelectSurvivors(p)
  <2>1. pc[p] = "survivors" /\ pc[p] \in Deleting
    BY <1>4 DEF SelectSurvivors, Deleting
  <2>2. call[p] \in Call /\ Removes("survivors", call[p])
    BY <2>1, DeletingFacts
  <2> DEFINE S == {t \in call[p].within : InThread(t) \ call[p].named # {}}
             c == [call[p] EXCEPT !.surviving = S]
  <2>3. pc' = [pc EXCEPT ![p] = "clear"] /\ call' = [call EXCEPT ![p] = c]
    BY <1>4 DEF SelectSurvivors, Goto
  <2>4. S \subseteq Ids /\ S \subseteq call[p].within
    BY <2>2 DEF Call
  <2> HIDE DEF S
  <2>5. /\ c \in Call /\ c.msg = call[p].msg /\ c.thread = call[p].thread /\ c.todo = call[p].todo
        /\ c.parts = call[p].parts /\ c.named = call[p].named /\ c.within = call[p].within
        /\ c.keys = call[p].keys /\ c.surviving \subseteq c.within
    BY <2>2, <2>4 DEF Call
  <2> HIDE DEF c
  <2>6. Removes("clear", c)
    BY <2>2, <2>5 DEF Removes
  <2>7. "clear" \in Deleting \ {"weigh"}
    BY DEF Deleting
  <2>8. QED
    BY <1>4, <2>1, <2>3, <2>5, <2>6, <2>7, DeleteMoves DEF SelectSurvivors, rows, history
<1>5. QED
  BY <1>1, <1>2, <1>3, <1>4

\* The rest of the steps of a delete that touch no row and no object.
LEMMA DeleteRestKeeps ==
  ASSUME MailboxInvariant, NEW p \in Workers,
         Release(p) \/ ListRemaining(p) \/ LookupThread(p) \/ SelectRaws(p) \/ SelectFiles(p)
  PROVE  MailboxInvariant'
<1>1. CASE Release(p)
  <2>1. pc[p] = "release" /\ pc[p] \in Deleting
    BY <1>1 DEF Release, Deleting
  <2>2. Removes("purge", call[p]) /\ call[p] \in Call
    BY <2>1, DeletingFacts DEF Removes
  <2>3. storage' \in Nat
    <3>1. storage \in Nat /\ call[p].released \in Nat
      BY <2>2 DEF MailboxInvariant, TypeOK, Call
    <3>2. QED
      BY <1>1, <3>1 DEF Release, TakeStorage
  <2>4. "purge" \in Deleting \ {"weigh"}
    BY DEF Deleting
  <2>5. QED
    BY <1>1, <2>1, <2>2, <2>3, <2>4, DeleteGoes DEF Release, MailboxInvariant, TypeOK, rows, history
<1>2. CASE ListRemaining(p)
  <2>1. pc[p] = "remaining" /\ pc[p] \in Deleting
    BY <1>2 DEF ListRemaining, Deleting
  <2>2. Removes("recount", call[p]) /\ Removes("lookup", call[p])
    BY <2>1, DeletingFacts DEF Removes
  <2>3. {"recount", "lookup"} \subseteq Deleting \ {"weigh"}
    BY DEF Deleting
  <2>4. Goto(p, "lookup") \/ Goto(p, "recount")
    BY <1>2 DEF ListRemaining
  <2>5. QED
    BY <1>2, <2>1, <2>2, <2>3, <2>4, DeleteGoes DEF ListRemaining, MailboxInvariant, TypeOK, rows,
       history
<1>3. CASE LookupThread(p)
  <2>1. pc[p] = "lookup" /\ pc[p] \in Deleting
    BY <1>3 DEF LookupThread, Deleting
  <2>2. Removes("raws", call[p])
    BY <2>1, DeletingFacts DEF Removes
  <2>3. "raws" \in Deleting \ {"weigh"}
    BY DEF Deleting
  <2>4. CASE \A t \in call[p].within : threads[t].here
    BY <1>3, <2>1, <2>2, <2>3, <2>4, DeleteGoes DEF LookupThread, MailboxInvariant, TypeOK, rows,
       history
  <2>5. CASE ~ \A t \in call[p].within : threads[t].here
    BY <1>3, <2>1, <2>5, DeleteEnds DEF LookupThread, rows, history
  <2>6. QED
    BY <2>4, <2>5
<1>4. CASE SelectRaws(p)
  <2>1. pc[p] = "raws" /\ pc[p] \in Deleting
    BY <1>4 DEF SelectRaws, Deleting
  <2>2. call[p] \in Call /\ Removes("raws", call[p])
    BY <2>1, DeletingFacts
  <2> DEFINE K == RawKeys(Inside(call[p]))
             c == [call[p] EXCEPT !.keys = K]
  <2>3. pc' = [pc EXCEPT ![p] = "files"] /\ call' = [call EXCEPT ![p] = c]
    BY <1>4 DEF SelectRaws, Goto
  <2>4. K \subseteq Keys /\ \A k \in K : k[1] \notin Unborn /\ messages[k[1]].thread \in call[p].within
    BY <2>2, InsideFacts DEF RawKeys
  <2> HIDE DEF K
  <2>5. /\ c \in Call /\ c.msg = call[p].msg /\ c.thread = call[p].thread /\ c.todo = call[p].todo
        /\ c.parts = call[p].parts /\ c.named = call[p].named /\ c.within = call[p].within
        /\ c.keys = K
    BY <2>2, <2>4 DEF Call
  <2> HIDE DEF c
  <2>6. Removes("files", c)
    BY <2>2, <2>4, <2>5 DEF Removes
  <2>7. "files" \in Deleting \ {"weigh"}
    BY DEF Deleting
  <2>8. QED
    BY <1>4, <2>1, <2>3, <2>5, <2>6, <2>7, DeleteMoves DEF SelectRaws, rows, history
<1>5. CASE SelectFiles(p)
  <2>1. pc[p] = "files" /\ pc[p] \in Deleting
    BY <1>5 DEF SelectFiles, Deleting
  <2>2. call[p] \in Call /\ Removes("files", call[p])
    BY <2>1, DeletingFacts
  <2> DEFINE A == AttachmentKeys(Inside(call[p]))
             K == call[p].keys \cup A
             c == [call[p] EXCEPT !.keys = K]
  <2>3. pc' = [pc EXCEPT ![p] = "unthread"] /\ call' = [call EXCEPT ![p] = c]
    BY <1>5 DEF SelectFiles, Goto
  <2>4. A \subseteq Keys /\ \A k \in A : k[1] \notin Unborn /\ messages[k[1]].thread \in call[p].within
    BY <2>2, InsideFacts DEF AttachmentKeys
  <2> HIDE DEF A
  <2>5. /\ K \subseteq Keys
        /\ \A k \in K : k[1] \notin Unborn /\ messages[k[1]].thread \in call[p].within \cup {0}
    BY <2>2, <2>4 DEF Removes, Call
  <2> HIDE DEF K
  <2>6. /\ c \in Call /\ c.msg = call[p].msg /\ c.thread = call[p].thread /\ c.todo = call[p].todo
        /\ c.parts = call[p].parts /\ c.named = call[p].named /\ c.within = call[p].within
        /\ c.keys = K
    BY <2>2, <2>5 DEF Call
  <2> HIDE DEF c
  <2>7. Removes("unthread", c)
    BY <2>2, <2>5, <2>6 DEF Removes
  <2>8. "unthread" \in Deleting \ {"weigh"}
    BY DEF Deleting
  <2>9. QED
    BY <1>5, <2>1, <2>3, <2>6, <2>7, <2>8, DeleteMoves DEF SelectFiles, rows, history
<1>6. QED
  BY <1>1, <1>2, <1>3, <1>4, <1>5

\* A lost write of the storage counter, and a worker that is killed.
LEMMA FaultsKeep ==
  ASSUME MailboxInvariant, NEW p \in Workers, StorageWriteLost(p) \/ Kill(p)
  PROVE  MailboxInvariant'
<1>1. faults' \in 0 .. MaxFaults /\ storage' \in Nat
  BY MailboxAssumption DEF StorageWriteLost, Kill, MailboxInvariant, TypeOK
<1>2. CASE StorageWriteLost(p) /\ pc[p] = "record"
  <2>1. call[p].msg \in counted
    BY <1>2, WorkerFacts DEF Worker, Joins
  <2>2. QED
    BY <1>1, <1>2, <2>1, QuitKeeps DEF StorageWriteLost, rows, history
<1>3. CASE StorageWriteLost(p) /\ pc[p] # "record"
  <2>1. pc[p] = "release" /\ pc[p] \in Deleting /\ Goto(p, "purge")
    BY <1>3 DEF StorageWriteLost, Deleting
  <2>2. Removes("purge", call[p])
    BY <2>1, DeletingFacts DEF Removes
  <2>3. "purge" \in Deleting \ {"weigh"}
    BY DEF Deleting
  <2>4. QED
    BY <1>1, <1>3, <2>1, <2>2, <2>3, DeleteGoes DEF StorageWriteLost, rows, history
<1>4. CASE Kill(p)
  <2>1. call[p].msg \in Ids \cup {0} /\ 0 \notin Ids
    BY WorkerFacts DEF Call, Ids
  <2>2. \A m \in Ids : m = call[p].msg => m \in abandoned'
    BY <1>4, <2>1 DEF Kill
  <2>3. abandoned \subseteq abandoned' /\ abandoned' \subseteq Ids
    BY <1>4, <2>1 DEF Kill, MailboxInvariant, TypeOK
  <2>4. QED
    BY <1>1, <1>4, <2>2, <2>3, EndKeeps DEF Kill, MailboxInvariant, TypeOK, rows
<1>5. QED
  BY <1>2, <1>3, <1>4

-----------------------------------------------------------------------------
(* Steps that number a message *)

\* An email arrives, and a sent one is numbered.
LEMMA MintsKeep ==
  ASSUME MailboxInvariant, NEW p \in Workers, ReceiveStart(p) \/ SendMail(p)
  PROVE  MailboxInvariant'
<1>1. /\ Worker(p, pc[p], call[p]) /\ call[p].msg <= minted
      /\ call[p] \in Call /\ pc[p] \in Labels
      /\ minted \in Nat /\ minted <= MaxMessages /\ MaxMessages \in Nat
  BY WorkerFacts
<1>2. \A q \in Workers : call[q].msg # minted + 1
  <2> SUFFICES ASSUME NEW q \in Workers PROVE call[q].msg # minted + 1
    OBVIOUS
  <2>1. call[q].msg \in Nat /\ call[q].msg <= minted
    BY WorkerFacts DEF Call, Ids
  <2>2. QED
    BY <1>1, <2>1
<1>3. minted < MaxMessages /\ minted' = minted + 1
  BY DEF ReceiveStart, SendMail
<1>4. minted + 1 \in Ids /\ 0 \notin Fresh /\ minted + 1 # 0
  BY <1>1, <1>3 DEF Ids, Fresh
<1>5. CASE ReceiveStart(p)
  <2>1. PICK parts \in SUBSET Parts :
          Start(p, "raw", [NoCall EXCEPT !.op = "receive", !.msg = minted + 1,
                                         !.parts = parts, !.todo = parts])
    BY <1>5 DEF ReceiveStart
  <2> DEFINE n == minted + 1
             c == [NoCall EXCEPT !.op = "receive", !.msg = n, !.parts = parts, !.todo = parts]
  <2>2. Start(p, "raw", c)
    BY <2>1
  <2>3. n \in Ids /\ n # 0 /\ \A q \in Workers : call[q].msg # n
    BY <1>2, <1>4
  <2>4. n = minted + 1
    OBVIOUS
  <2> HIDE DEF n
  <2>5. /\ c \in Call /\ c.op = "receive" /\ c.msg = n /\ c.thread = 0 /\ c.parts = parts
        /\ c.todo = parts /\ c.named = {} /\ c.keys = {}
    BY <2>3 DEF NoCall, Call, Ops
  <2> HIDE DEF c
  <2>6. /\ pc' = [pc EXCEPT ![p] = "raw"] /\ call' = [call EXCEPT ![p] = c]
        /\ call[p].msg = 0 /\ calls' \in 0 .. MaxCalls /\ overlapped' \in BOOLEAN
    BY <2>2, StartFacts
  <2>7. Follows(p, "raw", c)
    BY <1>3, <2>4, <2>5, <2>6 DEF Follows, Labels
  <2>8. Worker(p, "raw", c)
    BY <1>4, <2>3, <2>5 DEF Worker, Stores, Joins, Holds, Removes, Early, Before, After, Deleting
  <2>9. \A m \in Ids : m # call[p].msg
    BY <2>6 DEF Ids
  <2>10. QED
    BY <1>5, <2>6, <2>7, <2>8, <2>9, QuietKeeps DEF ReceiveStart, MailboxInvariant, TypeOK, rows
<1>6. CASE SendMail(p)
  <2>1. /\ pc[p] = "send" /\ call[p].msg = 0 /\ call[p].op # "receive" /\ call[p].thread \notin Fresh
        /\ call[p].todo \subseteq call[p].parts
    BY <1>1, <1>6 DEF SendMail, Worker, Stores, Joins, Holds, Deleting
  <2> DEFINE n == minted + 1
             t == IF call[p].thread = 0 THEN n ELSE call[p].thread
             l == IF call[p].thread = 0 THEN "open" ELSE "message"
             c == [call[p] EXCEPT !.msg = n, !.thread = t]
  <2>2. pc' = [pc EXCEPT ![p] = l] /\ call' = [call EXCEPT ![p] = c]
    BY <1>6 DEF SendMail, Goto
  <2>3. n \in Ids /\ n # 0 /\ \A q \in Workers : call[q].msg # n
    BY <1>2, <1>4
  <2>4. n = minted + 1
    OBVIOUS
  <2> HIDE DEF n
  <2>5. t \in Ids \cup {0}
    BY <1>1, <2>3 DEF Call
  <2>6. (l = "open" /\ t = n) \/ (l = "message" /\ t # 0 /\ t \notin Fresh)
    BY <2>1
  <2> HIDE DEF t, l
  <2>7. /\ c \in Call /\ c.op = call[p].op /\ c.msg = n /\ c.thread = t /\ c.parts = call[p].parts
        /\ c.todo = call[p].todo /\ c.named = call[p].named /\ c.keys = call[p].keys
        /\ c.within = call[p].within
    BY <1>1, <2>3, <2>5 DEF Call
  <2> HIDE DEF c
  <2>8. Follows(p, l, c)
    BY <1>3, <2>2, <2>4, <2>6, <2>7 DEF Follows, Labels
  <2>9. Worker(p, l, c)
    <3>1. Stores(p, l, c)
      BY <2>3, <2>6, <2>7 DEF Stores, Early, Before, After, Deleting
    <3>2. Joins(l, c)
      BY <2>6, <2>7 DEF Joins, After
    <3>3. Holds(l, c)
      BY <2>1, <2>6, <2>7 DEF Holds
    <3>4. Removes(l, c)
      BY <1>1, <2>6, <2>7 DEF Worker, Removes
    <3>5. QED
      BY <3>1, <3>2, <3>3, <3>4 DEF Worker
  <2>10. \A m \in Ids : m # call[p].msg
    BY <2>1 DEF Ids
  <2>11. QED
    BY <1>6, <2>8, <2>9, <2>10, QuietKeeps DEF SendMail, MailboxInvariant, TypeOK, rows, history
<1>7. QED
  BY <1>5, <1>6

-----------------------------------------------------------------------------
(* Steps on the objects *)

\* A step on R2 keeps the invariant when the objects it takes away are those of messages
\* that are gone.
LEMMA ObjectsKeep ==
  ASSUME MailboxInvariant, NEW p \in Workers, NEW l, NEW c, Follows(p, l, c), Worker(p, l, c)',
         UNCHANGED <<threads, messages, attachments, storage, calls, faults, counted, abandoned,
                     trimmed, overlapped>>,
         bucket' \subseteq Keys,
         \A k \in bucket : k \in bucket' \/ (k[1] \notin Unborn /\ ~ Exists(k[1])),
         call[p].msg = 0 \/ (l # "idle" /\ c.msg = call[p].msg)
  PROVE  MailboxInvariant'
<1>1. /\ Unborn' \subseteq Unborn /\ Fresh' \subseteq Fresh
      /\ pc' \in [Workers -> Labels] /\ call' \in [Workers -> Call]
      /\ minted' \in 0 .. MaxMessages
      /\ pc'[p] = l /\ call'[p] = c
      /\ \A q \in Workers \ {p} : pc'[q] = pc[q] /\ call'[q] = call[q]
  BY FollowsFacts
<1>2. TypeOK'
  BY <1>1 DEF MailboxInvariant, TypeOK
<1>3. Workings'
  <2>1. 0 \notin counted
    BY DEF MailboxInvariant, TypeOK, Ids
  <2>2. QED
    BY <2>1, WorkingsKept
<1>4. Unwritten'
  BY <1>1 DEF MailboxInvariant, Unwritten, Exists
<1>5. RowsHaveObjects'
  <2>1. RawKeys(Ids) \cup AttachmentKeys(Ids) \subseteq bucket
    BY DEF MailboxInvariant, RowsHaveObjects
  <2>2. ASSUME NEW k \in RawKeys(Ids) \cup AttachmentKeys(Ids) PROVE k \in bucket'
    <3>1. k[1] \in Ids /\ k \in Keys
      BY DEF RawKeys, AttachmentKeys
    <3>2. CASE k \in AttachmentKeys(Ids)
      <4>1. Exists(k[1])
        BY <3>1, <3>2 DEF AttachmentKeys, MailboxInvariant, Unwritten
      <4>2. QED
        BY <2>1, <4>1
    <3>3. CASE k \in RawKeys(Ids)
      <4>1. Exists(k[1])
        BY <3>1, <3>3 DEF RawKeys, MailboxInvariant, Unwritten
      <4>2. QED
        BY <2>1, <4>1
    <3>4. QED
      BY <3>2, <3>3
  <2>3. QED
    BY <2>2 DEF RowsHaveObjects, RawKeys, AttachmentKeys
<1>6. CountsAddUp'
  <2> SUFFICES ASSUME NEW t \in Ids \ trimmed
               PROVE  /\ threads[t].here => threads[t].count = Cardinality(InThread(t) \cap counted)
                      /\ \A m \in InThread(t) \ counted :
                           m \in abandoned \/ \E q \in Workers : pc'[q] # "idle" /\ call'[q].msg = m
    BY DEF CountsAddUp, InThread
  <2>1. threads[t].here => threads[t].count = Cardinality(InThread(t) \cap counted)
    BY DEF MailboxInvariant, CountsAddUp
  <2>2. ASSUME NEW m \in InThread(t) \ counted
        PROVE  m \in abandoned \/ \E q \in Workers : pc'[q] # "idle" /\ call'[q].msg = m
    <3>1. m # 0
      BY DEF InThread, Ids
    <3>2. m \in abandoned \/ \E q \in Workers : pc[q] # "idle" /\ call[q].msg = m
      BY DEF MailboxInvariant, CountsAddUp
    <3>3. QED
      BY <1>1, <3>1, <3>2
  <2>3. QED
    BY <2>1, <2>2
<1>7. QED
  BY <1>2, <1>3, <1>4, <1>5, <1>6 DEF MailboxInvariant

\* The objects of a message are put before its row is.
LEMMA PutsKeep ==
  ASSUME MailboxInvariant, NEW p \in Workers, PutRaw(p) \/ PutPart(p) \/ PutObject(p)
  PROVE  MailboxInvariant'
<1>1. /\ Worker(p, pc[p], call[p]) /\ call[p] \in Call /\ bucket \subseteq Keys
      /\ Stores(p, pc[p], call[p]) /\ Joins(pc[p], call[p]) /\ Holds(pc[p], call[p])
      /\ Removes(pc[p], call[p])
  BY WorkerFacts DEF Worker, MailboxInvariant, TypeOK
<1>2. call[p].msg # 0 /\ call[p].msg \in Ids
  <2>1. pc[p] \in {"raw", "part", "object"}
    BY DEF PutRaw, PutPart, PutObject
  <2>2. QED
    BY <1>1, <2>1 DEF Stores, Early, Before, After, Call
<1>3. \A n \in Parts \cup {0} : <<call[p].msg, n>> \in Keys
  BY <1>2, MailboxAssumption DEF Keys, Parts
<1>4. ASSUME NEW l \in Labels, NEW c \in Call, NEW n \in Parts \cup {0},
             pc' = [pc EXCEPT ![p] = l], call' = [call EXCEPT ![p] = c],
             l \in Before => pc[p] \in Before, l \in Early => pc[p] \in Early, l # "idle",
             c.msg = call[p].msg, Stores(p, l, c), Joins(l, c), Removes(l, c),
             bucket' = bucket \cup {<<call[p].msg, n>>}, Holds(l, c)',
             UNCHANGED <<threads, messages, attachments, storage, minted, calls, faults, counted,
                         abandoned, trimmed, overlapped>>
      PROVE  MailboxInvariant'
  <2>1. Follows(p, l, c)
    BY <1>4 DEF Follows
  <2>2. /\ Unborn' \subseteq Unborn /\ Fresh' \subseteq Fresh
        /\ \A q \in Workers \ {p} : pc'[q] = pc[q] /\ call'[q] = call[q]
        /\ \A q \in Workers \ {p} : call[q].msg # 0 => c.msg # call[q].msg
        /\ c.msg # 0 /\ l \in Before => c.msg \in Unborn
    BY <2>1, FollowsFacts
  <2>3. Stores(p, l, c)' /\ Joins(l, c)' /\ Removes(l, c)'
    BY <1>4, <2>2, PartsStay
  <2>4. Worker(p, l, c)'
    BY <1>4, <2>3 DEF Worker
  <2>5. bucket' \subseteq Keys
    BY <1>1, <1>3, <1>4
  <2>6. QED
    BY <1>4, <2>1, <2>4, <2>5, ObjectsKeep
<1>5. CASE PutRaw(p)
  <2>0. PICK c : c = call[p]
    OBVIOUS
  <2>l. PICK l : l = IF c.todo = {} THEN "resolve" ELSE "part"
    OBVIOUS
  <2>1. /\ pc[p] = "raw" /\ bucket' = bucket \cup {<<c.msg, 0>>}
        /\ pc' = [pc EXCEPT ![p] = l] /\ call' = [call EXCEPT ![p] = c]
    BY <1>5, <2>0, <2>l DEF PutRaw, Goto, MailboxInvariant, TypeOK
  <2>2. Stores(p, l, c)
    BY <1>1, <2>0, <2>l, <2>1 DEF Stores, Early, Before, After, Deleting
  <2>3. Joins(l, c) /\ Removes(l, c)
    BY <1>1, <2>0, <2>l, <2>1 DEF Joins, Removes, After
  <2>4. Holds(l, c)'
    <3>1. c.todo = c.parts
      BY <1>1, <2>0, <2>1 DEF Holds
    <3>2. QED
      BY <2>l, <2>1, <3>1 DEF Holds, Early, Before
  <2>5. l \in Labels /\ l # "idle" /\ pc[p] \in Before /\ pc[p] \in Early
    BY <2>l, <2>1 DEF Labels, Early, Before
  <2>6. 0 \in Parts \cup {0} /\ c \in Call /\ c.msg = call[p].msg
    BY <1>1, <2>0
  <2>7. bucket' = bucket \cup {<<call[p].msg, 0>>}
    BY <2>0, <2>1
  <2>8. QED
    BY <1>4, <1>5, <2>1, <2>2, <2>3, <2>4, <2>5, <2>6, <2>7 DEF PutRaw, rows, history
<1>6. CASE PutPart(p)
  <2>1. PICK n \in call[p].todo :
          /\ bucket' = bucket \cup {<<call[p].msg, n>>}
          /\ call' = [call EXCEPT ![p].todo = IF call[p].todo = {n} THEN call[p].parts
                                              ELSE call[p].todo \ {n}]
          /\ Goto(p, IF call[p].todo = {n} THEN "resolve" ELSE "part")
    BY <1>6 DEF PutPart
  <2>d. PICK d : d = IF call[p].todo = {n} THEN call[p].parts ELSE call[p].todo \ {n}
    OBVIOUS
  <2>l. PICK l : l = IF call[p].todo = {n} THEN "resolve" ELSE "part"
    OBVIOUS
  <2>c. PICK c : c = [call[p] EXCEPT !.todo = d]
    OBVIOUS
  <2>2. pc[p] = "part" /\ pc' = [pc EXCEPT ![p] = l] /\ call' = [call EXCEPT ![p] = c]
    BY <1>6, <2>1, <2>d, <2>l, <2>c DEF PutPart, Goto
  <2>3. d \subseteq call[p].parts /\ d \subseteq Parts /\ n \in Parts
    BY <1>1, <2>d DEF Holds, Call
  <2>4. \/ l = "resolve" /\ call[p].todo = {n} /\ d = call[p].parts
        \/ l = "part" /\ call[p].todo # {n} /\ d = call[p].todo \ {n}
    BY <2>d, <2>l
  <2>5. /\ c \in Call /\ c.op = call[p].op /\ c.msg = call[p].msg /\ c.thread = call[p].thread
        /\ c.parts = call[p].parts /\ c.todo = d /\ c.named = call[p].named
        /\ c.keys = call[p].keys /\ c.within = call[p].within
    BY <1>1, <2>3, <2>c DEF Call
  <2>6. Stores(p, l, c)
    BY <1>1, <2>2, <2>4, <2>5 DEF Stores, Early, Before, After, Deleting
  <2>7. Joins(l, c) /\ Removes(l, c)
    BY <1>1, <2>2, <2>4, <2>5 DEF Joins, Removes, After
  <2>8. Holds(l, c)'
    <3>1. /\ <<c.msg, 0>> \in bucket
          /\ \A i \in c.parts : <<c.msg, i>> \in bucket \/ i \in call[p].todo
      BY <1>1, <2>2, <2>5 DEF Holds, Stores, Early, Before
    <3>2. l \in {"resolve", "part"} /\ c.todo \subseteq c.parts /\ (l = "part" => c.todo # {})
      BY <2>3, <2>4, <2>5
    <3>3. \A i \in c.parts : <<c.msg, i>> \in bucket' \/ (l = "part" /\ i \in c.todo)
      BY <2>1, <2>4, <2>5, <3>1
    <3>4. <<c.msg, 0>> \in bucket'
      BY <2>1, <3>1
    <3>5. QED
      BY <3>2, <3>3, <3>4 DEF Holds
  <2>9. l \in Labels /\ l # "idle" /\ pc[p] \in Before /\ pc[p] \in Early
    BY <2>2, <2>4 DEF Labels, Early, Before
  <2>10. QED
    BY <1>4, <1>6, <2>1, <2>2, <2>3, <2>5, <2>6, <2>7, <2>8, <2>9 DEF PutPart, rows, history
<1>7. CASE PutObject(p)
  <2>0. PICK c : c = call[p]
    OBVIOUS
  <2>n. PICK n : n = Least(c.todo)
    OBVIOUS
  <2>1. /\ pc[p] = "object" /\ bucket' = bucket \cup {<<c.msg, n>>}
        /\ pc' = [pc EXCEPT ![p] = "attach"] /\ call' = [call EXCEPT ![p] = c]
    BY <1>7, <2>0, <2>n DEF PutObject, Goto, MailboxInvariant, TypeOK
  <2>2. n \in Parts
    <3>1. c.todo # {} /\ c.todo \subseteq Parts /\ Parts \subseteq Nat
      BY <1>1, <2>0, <2>1 DEF Holds, Call, Parts
    <3>2. QED
      BY <2>n, <3>1, LeastFacts
  <2>3. Stores(p, "attach", c)
    BY <1>1, <2>0, <2>1 DEF Stores, Early, Before, After, Deleting
  <2>4. Joins("attach", c) /\ Removes("attach", c)
    BY <1>1, <2>0, <2>1 DEF Joins, Removes, After
  <2>5. Holds("attach", c)'
    <3>1. c.todo \subseteq c.parts /\ c.todo # {} /\ c.op # "receive"
      BY <1>1, <2>0, <2>1 DEF Holds, Stores
    <3>2. <<c.msg, Least(c.todo)>> \in bucket'
      BY <2>n, <2>1
    <3>3. QED
      BY <3>1, <3>2 DEF Holds, Early, Before, Least
  <2>6. "attach" \in Labels /\ "attach" \notin Before /\ "attach" \notin Early
    BY DEF Labels, Early, Before
  <2>7. c \in Call /\ c.msg = call[p].msg /\ bucket' = bucket \cup {<<call[p].msg, n>>}
    BY <1>1, <2>0, <2>1
  <2>8. QED
    BY <1>4, <1>7, <2>1, <2>2, <2>3, <2>4, <2>5, <2>6, <2>7 DEF PutObject, rows, history
<1>8. QED
  BY <1>5, <1>6, <1>7

\* The objects deleted are those of messages that are gone.
LEMMA DeleteObjectsKeeps ==
  ASSUME MailboxInvariant, NEW p \in Workers, DeleteObjects(p)
  PROVE  MailboxInvariant'
<1>1. pc[p] \in {"purge", "sweep"} /\ pc[p] \in Deleting /\ bucket' = bucket \ call[p].keys
  BY DEF DeleteObjects, Deleting
<1>2. /\ call[p].msg = 0 /\ call[p].thread \notin Fresh /\ call[p].todo \subseteq call[p].parts
      /\ Removes(pc[p], call[p]) /\ call[p] \in Call
  BY <1>1, DeletingFacts
<1>3. bucket' \subseteq Keys
  BY <1>1 DEF MailboxInvariant, TypeOK
<1>4. \A k \in bucket : k \in bucket' \/ (k[1] \notin Unborn /\ ~ Exists(k[1]))
  BY <1>1, <1>2 DEF Removes
<1>5. ASSUME NEW l, NEW c \in Call, Follows(p, l, c), Worker(p, l, c)
      PROVE  MailboxInvariant'
  <2>1. /\ Unborn' \subseteq Unborn /\ Fresh' \subseteq Fresh
        /\ \A q \in Workers \ {p} : pc'[q] = pc[q] /\ call'[q] = call[q]
        /\ \A q \in Workers \ {p} : call[q].msg # 0 => c.msg # call[q].msg
        /\ c.msg # 0 /\ l \in Before => c.msg \in Unborn
    BY <1>5, FollowsFacts
  <2>2. Worker(p, l, c)'
    BY <1>4, <1>5, <2>1, WorkerStays DEF DeleteObjects, rows, history
  <2>3. QED
    BY <1>2, <1>3, <1>4, <1>5, <2>2, ObjectsKeep DEF DeleteObjects, rows, history
<1>6. CASE pc[p] = "purge" /\ call[p].op = "delete"
  <2> DEFINE c == [call[p] EXCEPT !.keys = {}]
  <2>1. pc' = [pc EXCEPT ![p] = "remaining"] /\ call' = [call EXCEPT ![p] = c]
    BY <1>6 DEF DeleteObjects, Goto
  <2>2. /\ c \in Call /\ c.msg = 0 /\ c.thread = call[p].thread /\ c.parts = call[p].parts
        /\ c.todo = call[p].todo /\ c.named = call[p].named /\ c.keys = {}
        /\ c.within = call[p].within
    BY <1>2 DEF Call
  <2> HIDE DEF c
  <2>3. Removes("remaining", c)
    BY <1>2, <1>6, <2>2 DEF Removes
  <2>4. "remaining" \in Deleting \ {"weigh"} /\ "remaining" \in Labels
    BY DEF Deleting, Labels
  <2>5. Worker(p, "remaining", c)
    BY <1>2, <2>2, <2>3, <2>4, DeleterFacts
  <2>6. Follows(p, "remaining", c)
    BY <2>1, <2>2, <2>4 DEF Follows, DeleteObjects
  <2>7. QED
    BY <1>5, <2>2, <2>5, <2>6
<1>7. CASE ~ (pc[p] = "purge" /\ call[p].op = "delete")
  <2>1. EndCall(p) /\ minted' = minted
    BY <1>7 DEF DeleteObjects
  <2>2. Follows(p, "idle", NoCall) /\ Worker(p, "idle", NoCall)
    BY <2>1, IdleFacts
  <2>3. QED
    BY <1>5, <2>2, NoCallFacts
<1>8. QED
  BY <1>6, <1>7

-----------------------------------------------------------------------------
(* Steps on the rows *)

\* Whoever stores a message goes on storing it through a step of one that stays.
LEMMA BusyStays ==
  ASSUME MailboxInvariant, NEW p \in Workers, NEW l, NEW c, Follows(p, l, c),
         l # "idle", c.msg = call[p].msg, NEW m,
         \E q \in Workers : pc[q] # "idle" /\ call[q].msg = m
  PROVE  \E q \in Workers : pc'[q] # "idle" /\ call'[q].msg = m
BY FollowsFacts

\* What a worker that stores a message goes on with, the message and its thread known.
LEMMA StorerFacts ==
  ASSUME MailboxInvariant, NEW p \in Workers, pc[p] \in {"open", "message"} \cup After
  PROVE  /\ call[p] \in Call /\ call[p].msg \in Ids /\ call[p].msg # 0 /\ call[p].msg <= minted
         /\ \A q \in Workers \ {p} : call[q].msg # call[p].msg
         /\ call[p].thread \in Ids
         /\ pc[p] # "open" => call[p].thread \notin Fresh
         /\ pc[p] \notin Early => call[p].msg \notin Fresh
         /\ pc[p] \notin Before => call[p].msg \notin Unborn
         /\ pc[p] \in Before => call[p].msg \in Unborn
         /\ call[p].todo \subseteq call[p].parts
<1>1. /\ Worker(p, pc[p], call[p]) /\ call[p].msg <= minted /\ call[p] \in Call /\ minted \in Nat
  BY WorkerFacts
<1>2. call[p].msg # 0 /\ call[p].msg \in Ids
  BY <1>1 DEF Worker, Stores, Early, Before, After, Call
<1>3. \A q \in Workers \ {p} : call[q].msg # call[p].msg
  BY <1>1, <1>2 DEF Worker, Stores
<1>4. call[p].thread \in Ids /\ (pc[p] # "open" => call[p].thread \notin Fresh)
  BY <1>1, <1>2 DEF Worker, Joins, Call
<1>5. ~ (call[p].msg > minted)
  BY <1>1, <1>2 DEF Ids
<1>6. QED
  BY <1>1, <1>2, <1>3, <1>4, <1>5 DEF Fresh, Unborn, Worker, Holds

\* Opening a thread: no message is in it yet, and its count is zero.
LEMMA InsertThreadKeeps ==
  ASSUME MailboxInvariant, NEW p \in Workers, InsertThread(p)
  PROVE  MailboxInvariant'
<1>0. PICK c : c = call[p]
  OBVIOUS
<1>1. pc[p] = "open" /\ pc[p] \in Before /\ pc[p] \in Early
  BY DEF InsertThread, Before, Early
<1>2. /\ c \in Call /\ c.msg \in Ids /\ c.msg # 0 /\ c.msg <= minted
      /\ \A q \in Workers \ {p} : call[q].msg # c.msg
      /\ c.msg \in Unborn
  BY <1>0, <1>1, StorerFacts
<1>3. /\ Stores(p, "open", c) /\ Joins("open", c) /\ Holds("open", c) /\ Removes("open", c)
  BY <1>0, <1>1, WorkerFacts DEF Worker
<1>4. c.thread = c.msg
  BY <1>3 DEF Joins
<1>5. /\ threads' = [threads EXCEPT ![c.msg] = [here |-> TRUE, count |-> 0, last |-> c.msg]]
      /\ pc' = [pc EXCEPT ![p] = "message"] /\ call' = [call EXCEPT ![p] = c]
      /\ UNCHANGED <<messages, attachments, bucket, storage, minted, calls, faults, counted,
                     abandoned, trimmed, overlapped>>
  BY <1>0, <1>4 DEF InsertThread, Goto, history, MailboxInvariant, TypeOK
<1>6. Follows(p, "message", c)
  BY <1>0, <1>1, <1>2, <1>5 DEF Follows, Labels, Early
<1>7. /\ Unborn' \subseteq Unborn /\ Fresh' \subseteq Fresh
      /\ pc' \in [Workers -> Labels] /\ call' \in [Workers -> Call]
      /\ pc'[p] = "message" /\ call'[p] = c
      /\ \A q \in Workers \ {p} : pc'[q] = pc[q] /\ call'[q] = call[q]
  BY <1>6, FollowsFacts
<1>8. TypeOK'
  <2>1. [here |-> TRUE, count |-> 0, last |-> c.msg] \in Thread
    BY <1>2 DEF Thread
  <2>2. QED
    BY <1>5, <1>7, <2>1 DEF MailboxInvariant, TypeOK
<1>9. c.msg \notin Fresh'
  <2>1. ~ (c.msg > minted)
    BY <1>2, WorkerFacts DEF Ids
  <2>2. QED
    BY <1>2, <1>5, <1>7, <2>1 DEF Fresh, Early
<1>10. Worker(p, "message", c)'
  <2>1. Stores(p, "message", c)
    BY <1>2, <1>3 DEF Stores, Before, Early, After, Deleting
  <2>2. Holds("message", c) /\ Removes("message", c)
    BY <1>3 DEF Holds, Removes, Before, Early
  <2>3. \A o \in Workers \ {p} : c.msg # 0 => call'[o].msg # c.msg
    BY <1>2, <1>7
  <2>4. Stores(p, "message", c)' /\ Holds("message", c)' /\ Removes("message", c)'
    BY <1>2, <1>5, <1>7, <2>1, <2>2, <2>3, PartsStay
  <2>5. Joins("message", c)'
    BY <1>2, <1>4, <1>9 DEF Joins, After
  <2>6. QED
    BY <2>4, <2>5 DEF Worker
<1>11. Workings'
  <2>1. 0 \notin counted
    BY DEF MailboxInvariant, TypeOK, Ids
  <2>2. QED
    BY <1>5, <1>6, <1>10, <2>1, WorkingsKept
<1>12. Unwritten'
  BY <1>5, <1>7 DEF MailboxInvariant, Unwritten, Exists
<1>13. RowsHaveObjects'
  BY <1>5 DEF MailboxInvariant, RowsHaveObjects, RawKeys, AttachmentKeys
<1>14. CountsAddUp'
  <2>0. /\ messages' = messages /\ counted' = counted /\ trimmed' = trimmed
        /\ abandoned' = abandoned
    BY <1>5
  <2> SUFFICES ASSUME NEW t \in Ids \ trimmed
               PROVE  /\ threads'[t].here => threads'[t].count = Cardinality(InThread(t) \cap counted)
                      /\ \A m \in InThread(t) \ counted :
                           m \in abandoned \/ \E q \in Workers : pc'[q] # "idle" /\ call'[q].msg = m
    BY <2>0 DEF CountsAddUp, InThread
  <2>1. \A m \in InThread(t) \ counted :
          m \in abandoned \/ \E q \in Workers : pc'[q] # "idle" /\ call'[q].msg = m
    BY <1>0, <1>6, BusyStays DEF MailboxInvariant, CountsAddUp
  <2>2. CASE t = c.msg
    <3>1. t \in Fresh
      BY <1>0, <1>1, <1>2, <2>2 DEF Fresh
    <3>2. InThread(t) = {}
      BY <3>1 DEF InThread, Exists, MailboxInvariant, Unwritten, Ids
    <3>3. Cardinality(InThread(t) \cap counted) = 0
      BY <3>2, FS_EmptySet
    <3>4. threads'[t].count = 0
      BY <1>5, <2>2 DEF MailboxInvariant, TypeOK
    <3>5. QED
      BY <2>1, <3>3, <3>4
  <2>3. CASE t # c.msg
    <3>1. threads'[t] = threads[t]
      BY <1>5, <2>3 DEF MailboxInvariant, TypeOK
    <3>2. QED
      BY <2>1, <3>1 DEF MailboxInvariant, CountsAddUp
  <2>4. QED
    BY <2>2, <2>3
<1>15. QED
  BY <1>8, <1>11, <1>12, <1>13, <1>14 DEF MailboxInvariant

\* Inserting the row of a message: it joins a thread that is there, uncounted, and its
\* raw object was put before.
LEMMA InsertMessageKeeps ==
  ASSUME MailboxInvariant, NEW p \in Workers, InsertMessage(p)
  PROVE  MailboxInvariant'
<1>0. PICK c : c = call[p]
  OBVIOUS
<1>l. PICK l : l = NextPart(c, c.todo)
  OBVIOUS
<1>1. pc[p] = "message" /\ pc[p] \in Before
  BY DEF InsertMessage, Before
<1>2. /\ c \in Call /\ c.msg \in Ids /\ c.msg # 0 /\ c.msg <= minted
      /\ \A q \in Workers \ {p} : call[q].msg # c.msg
      /\ c.thread \in Ids /\ c.thread \notin Fresh /\ c.msg \in Unborn
      /\ c.todo \subseteq c.parts
  BY <1>0, <1>1, StorerFacts
<1>3. /\ Stores(p, "message", c) /\ Joins("message", c) /\ Holds("message", c)
      /\ Removes("message", c)
  BY <1>0, <1>1, WorkerFacts DEF Worker
<1>r. PICK r : r = (c.op = "receive")
  OBVIOUS
<1>4. /\ messages' = [messages EXCEPT ![c.msg] = [thread |-> c.thread, raw |-> r]]
      /\ pc' = [pc EXCEPT ![p] = l] /\ call' = [call EXCEPT ![p] = c]
      /\ UNCHANGED <<threads, attachments, bucket, storage, minted, calls, faults, counted,
                     abandoned, trimmed, overlapped>>
  BY <1>0, <1>l, <1>r DEF InsertMessage, Goto, history, MailboxInvariant, TypeOK
<1>5. /\ l \in {"touch", "attach", "object"} /\ (l # "touch" => c.todo # {})
      /\ l = "attach" => c.op = "receive"
      /\ l = "object" => c.op # "receive"
  BY <1>l DEF NextPart
<1>6. Follows(p, l, c)
  BY <1>0, <1>2, <1>4, <1>5 DEF Follows, Labels, Before, Early
<1>7. /\ Unborn' \subseteq Unborn /\ Fresh' \subseteq Fresh
      /\ pc' \in [Workers -> Labels] /\ call' \in [Workers -> Call]
      /\ pc'[p] = l /\ call'[p] = c
      /\ \A q \in Workers \ {p} : pc'[q] = pc[q] /\ call'[q] = call[q]
  BY <1>6, FollowsFacts
<1>8. /\ messages' \in [Ids -> Message]
      /\ messages'[c.msg].thread = c.thread /\ messages'[c.msg].raw = r
      /\ \A m \in Ids : m # c.msg => messages'[m] = messages[m]
  <2>1. [thread |-> c.thread, raw |-> r] \in Message
    BY <1>2, <1>r DEF Message
  <2>2. messages \in [Ids -> Message]
    BY DEF MailboxInvariant, TypeOK
  <2>3. QED
    BY <1>2, <1>4, <2>1, <2>2
<1>9. TypeOK'
  BY <1>4, <1>7, <1>8 DEF MailboxInvariant, TypeOK
<1>10. c.msg \notin Unborn'
  <2>1. ~ (c.msg > minted)
    BY <1>2, WorkerFacts DEF Ids
  <2>2. l \notin Before
    BY <1>5 DEF Before, Early
  <2>3. QED
    BY <1>2, <1>4, <1>7, <2>1, <2>2 DEF Unborn
<1>11. c.msg \notin counted /\ 0 \notin counted /\ 0 \notin Ids
  BY <1>2 DEF MailboxInvariant, Unwritten, TypeOK, Ids
<1>12. Worker(p, l, c)'
  <2>1. Stores(p, l, c)'
    BY <1>2, <1>3, <1>5, <1>7 DEF Stores, Early, Before, After, Deleting
  <2>2. Joins(l, c)'
    BY <1>2, <1>4, <1>5, <1>7, <1>8, <1>11 DEF Joins, Exists, After
  <2>3. Holds(l, c)'
    <3>1. c.op = "receive" => \A n \in c.parts : <<c.msg, n>> \in bucket
      BY <1>3 DEF Holds, Before
    <3>2. l \notin Before
      BY <1>5 DEF Before, Early
    <3>3. QED
      BY <1>2, <1>4, <1>5, <3>1, <3>2 DEF Holds
  <2>4. Removes(l, c)'
    <3>1. \A m \in c.named : m \in Ids /\ m # c.msg
      BY <1>2, <1>3 DEF Removes, Call
    <3>2. \A m \in c.named : m \notin Unborn' /\ messages'[m].thread \in c.within \cup {0}
      BY <1>3, <1>7, <1>8, <3>1 DEF Removes
    <3>3. \A k \in c.keys : k[1] \notin Unborn'
      BY <1>3, <1>7 DEF Removes
    <3>4. QED
      BY <1>5, <3>2, <3>3 DEF Removes
  <2>5. QED
    BY <2>1, <2>2, <2>3, <2>4 DEF Worker
<1>13. Workings'
  BY <1>0, <1>2, <1>4, <1>6, <1>8, <1>11, <1>12, WorkingsKept
<1>14. Unwritten'
  <2>1. \A m \in Unborn' : messages'[m].thread = 0 /\ m \notin counted
    BY <1>7, <1>8, <1>10 DEF MailboxInvariant, Unwritten, Exists, Unborn
  <2>2. \A m \in Ids : messages'[m].thread # 0 => messages'[m].thread \notin Fresh'
    BY <1>2, <1>7, <1>8 DEF MailboxInvariant, Unwritten, Exists
  <2>3. \A m \in Ids : messages'[m].thread = 0 => attachments[m] = {} /\ ~ messages'[m].raw
    BY <1>2, <1>8, <1>11 DEF MailboxInvariant, Unwritten, Exists
  <2>4. QED
    BY <1>4, <2>1, <2>2, <2>3 DEF Unwritten, Exists
<1>15. RowsHaveObjects'
  <2>1. RawKeys(Ids) \cup AttachmentKeys(Ids) \subseteq bucket
    BY DEF MailboxInvariant, RowsHaveObjects
  <2>2. c.op = "receive" => <<c.msg, 0>> \in bucket
    BY <1>3 DEF Holds, Before
  <2>3. ASSUME NEW k \in Keys, k[2] = 0, messages'[k[1]].raw PROVE k \in bucket
    <3>1. k[1] \in Ids /\ k = <<k[1], k[2]>>
      BY DEF Keys
    <3>2. CASE k[1] = c.msg
      BY <1>8, <1>r, <2>2, <2>3, <3>1, <3>2
    <3>3. CASE k[1] # c.msg
      BY <1>8, <2>1, <2>3, <3>1, <3>3 DEF RawKeys
    <3>4. QED
      BY <3>2, <3>3
  <2>4. QED
    BY <1>4, <2>1, <2>3 DEF RowsHaveObjects, RawKeys, AttachmentKeys
<1>16. CountsAddUp'
  <2> SUFFICES ASSUME NEW t \in Ids \ trimmed
               PROVE  /\ threads[t].here => threads[t].count = Cardinality(InThread(t)' \cap counted)
                      /\ \A m \in InThread(t)' \ counted :
                           m \in abandoned \/ \E q \in Workers : pc'[q] # "idle" /\ call'[q].msg = m
    BY <1>4 DEF CountsAddUp, InThread
  <2>1. InThread(t)' \cap counted = InThread(t) \cap counted
    BY <1>8, <1>11 DEF InThread
  <2>2. \A m \in InThread(t)' : m = c.msg \/ m \in InThread(t)
    BY <1>8 DEF InThread
  <2>3. l # "idle"
    BY <1>5
  <2>4. ASSUME NEW m \in InThread(t)' \ counted
        PROVE  m \in abandoned \/ \E q \in Workers : pc'[q] # "idle" /\ call'[q].msg = m
    <3>1. CASE m = c.msg
      BY <1>7, <2>3, <3>1
    <3>2. CASE m # c.msg
      <4>1. m \in abandoned \/ \E q \in Workers : pc[q] # "idle" /\ call[q].msg = m
        BY <2>2, <3>2 DEF MailboxInvariant, CountsAddUp
      <4>2. QED
        BY <1>0, <1>6, <2>3, <4>1, BusyStays
    <3>3. QED
      BY <3>1, <3>2
  <2>5. QED
    BY <2>1, <2>4 DEF MailboxInvariant, CountsAddUp
<1>17. QED
  BY <1>9, <1>13, <1>14, <1>15, <1>16 DEF MailboxInvariant

\* Inserting a row of an attachment: its object was put before, by this worker or with
\* the others.
LEMMA InsertAttachmentKeeps ==
  ASSUME MailboxInvariant, NEW p \in Workers, InsertAttachment(p)
  PROVE  MailboxInvariant'
<1>0. PICK b : b = call[p]
  OBVIOUS
<1>n. PICK n : n = Least(b.todo)
  OBVIOUS
<1>c. PICK c : c = [b EXCEPT !.todo = b.todo \ {n}]
  OBVIOUS
<1>l. PICK l : l = NextPart(b, b.todo \ {n})
  OBVIOUS
<1>1. pc[p] = "attach" /\ pc[p] \notin Before /\ pc[p] \in After
  BY DEF InsertAttachment, Before, Early, After
<1>2. /\ b \in Call /\ b.msg \in Ids /\ b.msg # 0
      /\ \A q \in Workers \ {p} : call[q].msg # b.msg
      /\ b.thread \in Ids /\ b.thread \notin Fresh /\ b.msg \notin Unborn
      /\ b.todo \subseteq b.parts
  BY <1>0, <1>1, StorerFacts
<1>3. /\ Stores(p, "attach", b) /\ Joins("attach", b) /\ Holds("attach", b)
      /\ Removes("attach", b)
  BY <1>0, <1>1, WorkerFacts DEF Worker
<1>4. b.todo # {} /\ n \in b.todo /\ n \in Parts
  <2>1. b.todo # {} /\ b.todo \subseteq Parts /\ Parts \subseteq Nat
    BY <1>2, <1>3 DEF Holds, Call, Parts
  <2>2. QED
    BY <1>n, <2>1, LeastFacts
<1>5. /\ attachments' = [attachments EXCEPT ![b.msg] = attachments[b.msg] \cup {n}]
      /\ Exists(b.msg)
      /\ pc' = [pc EXCEPT ![p] = l] /\ call' = [call EXCEPT ![p] = c]
      /\ UNCHANGED <<threads, messages, bucket, storage, minted, calls, faults, counted,
                     abandoned, trimmed, overlapped>>
  BY <1>0, <1>n, <1>c, <1>l DEF InsertAttachment, Goto, history
<1>6. /\ l \in {"touch", "attach", "object"} /\ (l # "touch" => c.todo # {})
      /\ l = "attach" => c.op = "receive"
      /\ l = "object" => c.op # "receive"
      /\ c \in Call /\ c.op = b.op /\ c.msg = b.msg /\ c.thread = b.thread
      /\ c.parts = b.parts /\ c.todo = b.todo \ {n} /\ c.named = b.named
      /\ c.keys = b.keys /\ c.within = b.within
  <2>1. /\ c \in Call /\ c.op = b.op /\ c.msg = b.msg /\ c.thread = b.thread
        /\ c.parts = b.parts /\ c.todo = b.todo \ {n} /\ c.named = b.named
        /\ c.keys = b.keys /\ c.within = b.within
    BY <1>2, <1>c DEF Call
  <2>2. QED
    BY <1>l, <2>1 DEF NextPart
<1>7. Follows(p, l, c)
  BY <1>0, <1>5, <1>6 DEF Follows, Labels, Before, Early
<1>8. /\ Unborn' \subseteq Unborn /\ Fresh' \subseteq Fresh
      /\ pc' \in [Workers -> Labels] /\ call' \in [Workers -> Call]
      /\ pc'[p] = l /\ call'[p] = c
      /\ \A q \in Workers \ {p} : pc'[q] = pc[q] /\ call'[q] = call[q]
  BY <1>7, FollowsFacts
<1>9. /\ attachments' \in [Ids -> SUBSET Parts]
      /\ attachments'[b.msg] = attachments[b.msg] \cup {n}
      /\ \A m \in Ids : m # b.msg => attachments'[m] = attachments[m]
  BY <1>2, <1>4, <1>5 DEF MailboxInvariant, TypeOK
<1>10. TypeOK'
  BY <1>5, <1>8, <1>9 DEF MailboxInvariant, TypeOK
<1>11. Worker(p, l, c)'
  <2>1. Stores(p, l, c)
    BY <1>2, <1>3, <1>6 DEF Stores, Early, Before, After, Deleting
  <2>2. Joins(l, c)
    BY <1>3, <1>6 DEF Joins, After
  <2>3. Holds(l, c)
    BY <1>2, <1>3, <1>5, <1>6 DEF Holds, Before, Early
  <2>4. Removes(l, c)
    BY <1>3, <1>6 DEF Removes
  <2>5. \A o \in Workers \ {p} : c.msg # 0 => call'[o].msg # c.msg
    BY <1>2, <1>6, <1>8
  <2>6. l \notin Before
    BY <1>6 DEF Before, Early
  <2>7. Worker(p, l, c)
    BY <2>1, <2>2, <2>3, <2>4 DEF Worker
  <2>8. QED
    BY <1>5, <1>6, <1>8, <2>5, <2>6, <2>7, WorkerStays
<1>12. Workings'
  <2>1. 0 \notin counted
    BY DEF MailboxInvariant, TypeOK, Ids
  <2>2. QED
    BY <1>5, <1>7, <1>11, <2>1, WorkingsKept
<1>13. Unwritten'
  <2>1. messages[b.msg].thread # 0
    BY <1>5 DEF Exists
  <2>2. QED
    BY <1>2, <1>5, <1>8, <1>9, <2>1 DEF MailboxInvariant, Unwritten, Exists
<1>14. RowsHaveObjects'
  <2>1. RawKeys(Ids) \cup AttachmentKeys(Ids) \subseteq bucket
    BY DEF MailboxInvariant, RowsHaveObjects
  <2>2. <<b.msg, n>> \in bucket
    BY <1>3, <1>4, <1>5, <1>n DEF Holds
  <2>3. ASSUME NEW k \in Keys, k[2] \in attachments'[k[1]] PROVE k \in bucket
    <3>1. k[1] \in Ids /\ k = <<k[1], k[2]>>
      BY DEF Keys
    <3>2. CASE k[1] = b.msg /\ k[2] = n
      BY <2>2, <3>1, <3>2
    <3>3. CASE k[2] \in attachments[k[1]]
      BY <2>1, <3>1, <3>3 DEF AttachmentKeys
    <3>4. QED
      BY <1>9, <2>3, <3>1, <3>2, <3>3
  <2>4. QED
    BY <1>5, <2>1, <2>3 DEF RowsHaveObjects, RawKeys, AttachmentKeys
<1>15. CountsAddUp'
  <2>0. /\ threads' = threads /\ messages' = messages /\ counted' = counted
        /\ trimmed' = trimmed /\ abandoned' = abandoned
    BY <1>5
  <2> SUFFICES ASSUME NEW t \in Ids \ trimmed
               PROVE  /\ threads[t].here => threads[t].count = Cardinality(InThread(t) \cap counted)
                      /\ \A m \in InThread(t) \ counted :
                           m \in abandoned \/ \E q \in Workers : pc'[q] # "idle" /\ call'[q].msg = m
    BY <2>0 DEF CountsAddUp, InThread
  <2>1. l # "idle" /\ c.msg = call[p].msg
    BY <1>0, <1>6
  <2>2. QED
    BY <1>7, <2>1, BusyStays DEF MailboxInvariant, CountsAddUp
<1>16. QED
  BY <1>10, <1>12, <1>13, <1>14, <1>15 DEF MailboxInvariant

\* Counting a message adds it to the count of its thread, if that is there.
LEMMA TouchKeeps ==
  ASSUME MailboxInvariant, NEW p \in Workers, Touch(p)
  PROVE  MailboxInvariant'
<1>0. PICK c : c = call[p]
  OBVIOUS
<1>1. pc[p] = "touch" /\ pc[p] \notin Before /\ pc[p] \in After
  BY DEF Touch, Before, Early, After
<1>2. /\ c \in Call /\ c.msg \in Ids /\ c.msg # 0
      /\ \A q \in Workers \ {p} : call[q].msg # c.msg
      /\ c.thread \in Ids /\ c.thread \notin Fresh /\ c.msg \notin Unborn
      /\ c.todo \subseteq c.parts
  BY <1>0, <1>1, StorerFacts
<1>3. /\ Stores(p, "touch", c) /\ Joins("touch", c) /\ Holds("touch", c)
      /\ Removes("touch", c)
  BY <1>0, <1>1, WorkerFacts DEF Worker
<1>4. /\ TouchThread(c.thread, c.msg)
      /\ counted' = counted \cup {c.msg}
      /\ pc' = [pc EXCEPT ![p] = "record"] /\ call' = [call EXCEPT ![p] = c]
      /\ UNCHANGED <<messages, attachments, bucket, storage, minted, calls, faults,
                     abandoned, trimmed, overlapped>>
  BY <1>0 DEF Touch, Goto, MailboxInvariant, TypeOK
<1>5. Follows(p, "record", c)
  BY <1>0, <1>2, <1>4 DEF Follows, Labels, Before, Early
<1>6. /\ Unborn' \subseteq Unborn /\ Fresh' \subseteq Fresh
      /\ pc' \in [Workers -> Labels] /\ call' \in [Workers -> Call]
      /\ pc'[p] = "record" /\ call'[p] = c
      /\ \A q \in Workers \ {p} : pc'[q] = pc[q] /\ call'[q] = call[q]
  BY <1>5, FollowsFacts
<1>7. /\ threads' \in [Ids -> Thread]
      /\ threads'[c.thread].here = threads[c.thread].here
      /\ threads[c.thread].here => threads'[c.thread].count = threads[c.thread].count + 1
      /\ \A t \in Ids : t # c.thread => threads'[t] = threads[t]
  <2>1. PICK r : r = IF threads[c.thread].here
                     THEN [threads[c.thread] EXCEPT !.count = threads[c.thread].count + 1, !.last = c.msg]
                     ELSE threads[c.thread]
    OBVIOUS
  <2>2. threads \in [Ids -> Thread] /\ threads[c.thread] \in Thread
    BY <1>2 DEF MailboxInvariant, TypeOK
  <2>3. threads' = [threads EXCEPT ![c.thread] = r]
    BY <1>4, <2>1 DEF TouchThread
  <2>4. /\ r \in Thread /\ r.here = threads[c.thread].here
        /\ threads[c.thread].here => r.count = threads[c.thread].count + 1
    <3>1. CASE threads[c.thread].here
      <4>1. PICK row \in Thread : row = threads[c.thread]
        BY <2>2
      <4>2. row.here = TRUE /\ row.count \in Nat /\ row.count + 1 \in Nat
        BY <3>1, <4>1 DEF Thread
      <4>3. r = [row EXCEPT !.count = row.count + 1, !.last = c.msg]
        BY <2>1, <3>1, <4>1
      <4>4. r = [here |-> TRUE, count |-> row.count + 1, last |-> c.msg]
        BY <4>1, <4>2, <4>3 DEF Thread
      <4>5. QED
        BY <1>2, <3>1, <4>1, <4>2, <4>4 DEF Thread
    <3>2. CASE ~ threads[c.thread].here
      BY <2>1, <2>2, <3>2
    <3>3. QED
      BY <3>1, <3>2
  <2>5. QED
    BY <1>2, <2>2, <2>3, <2>4
<1>8. TypeOK'
  BY <1>2, <1>4, <1>6, <1>7 DEF MailboxInvariant, TypeOK
<1>9. 0 \notin counted' /\ counted' \subseteq Ids
  BY <1>2, <1>4 DEF MailboxInvariant, TypeOK, Ids
<1>10. Worker(p, "record", c)'
  <2>1. Stores(p, "record", c)'
    BY <1>2, <1>3, <1>6 DEF Stores, Early, Before, After, Deleting
  <2>2. Joins("record", c)'
    <3>1. c.thread # 0 /\ c.thread \notin Fresh' /\ c.msg \in counted'
      BY <1>2, <1>4, <1>6 DEF Ids
    <3>2. QED
      BY <3>1 DEF Joins
  <2>3. Holds("record", c)'
    BY <1>2 DEF Holds, Before, Early
  <2>4. Removes("record", c)'
    BY <1>3, <1>4, <1>6 DEF Removes
  <2>5. QED
    BY <2>1, <2>2, <2>3, <2>4 DEF Worker
<1>11. Workings'
  BY <1>0, <1>4, <1>5, <1>9, <1>10, WorkingsKept
<1>12. Unwritten'
  BY <1>2, <1>4, <1>6 DEF MailboxInvariant, Unwritten, Exists
<1>13. RowsHaveObjects'
  BY <1>4 DEF MailboxInvariant, RowsHaveObjects, RawKeys, AttachmentKeys
<1>14. CountsAddUp'
  <2>0. messages' = messages /\ trimmed' = trimmed /\ abandoned' = abandoned
    BY <1>4
  <2> SUFFICES ASSUME NEW t \in Ids \ trimmed
               PROVE  /\ threads'[t].here => threads'[t].count = Cardinality(InThread(t) \cap counted')
                      /\ \A m \in InThread(t) \ counted' :
                           m \in abandoned \/ \E q \in Workers : pc'[q] # "idle" /\ call'[q].msg = m
    BY <2>0 DEF CountsAddUp, InThread
  <2>1. \A m \in InThread(t) \ counted' :
          m \in abandoned \/ \E q \in Workers : pc'[q] # "idle" /\ call'[q].msg = m
    BY <1>0, <1>4, <1>5, BusyStays DEF MailboxInvariant, CountsAddUp
  <2>2. c.msg \notin counted
    BY <1>3 DEF Joins
  <2>3. threads[t].here => threads[t].count = Cardinality(InThread(t) \cap counted)
    BY DEF MailboxInvariant, CountsAddUp
  <2>4. CASE t = c.thread
    <3>1. c.msg \in InThread(t)
      BY <1>2, <1>3, <2>4 DEF Joins, Exists, InThread
    <3>2. InThread(t) \cap counted' = (InThread(t) \cap counted) \cup {c.msg}
      BY <1>4, <3>1
    <3>3. /\ IsFiniteSet(InThread(t) \cap counted) /\ c.msg \notin InThread(t) \cap counted
          /\ Cardinality(InThread(t) \cap counted) \in Nat
      BY <2>2, FiniteFacts DEF InThread
    <3>4. Cardinality((InThread(t) \cap counted) \cup {c.msg})
            = Cardinality(InThread(t) \cap counted) + 1
      BY <3>3, FS_AddElement
    <3>5. QED
      BY <1>7, <2>1, <2>3, <2>4, <3>2, <3>4
  <2>5. CASE t # c.thread
    <3>1. c.msg \notin InThread(t)
      BY <1>2, <1>3, <2>5 DEF Joins, InThread, Ids
    <3>2. InThread(t) \cap counted' = InThread(t) \cap counted
      BY <1>4, <3>1
    <3>3. QED
      BY <1>7, <2>1, <2>3, <2>5, <3>2
  <2>6. QED
    BY <2>4, <2>5
<1>15. QED
  BY <1>8, <1>11, <1>12, <1>13, <1>14 DEF MailboxInvariant

-----------------------------------------------------------------------------
(* The batches of the deletes *)

\* Dropping messages of the threads a delete works on: their rows go with those of their
\* attachments, and no other thread changes.
LEMMA RowsDropped ==
  ASSUME MailboxInvariant, NEW p \in Workers, pc[p] \in Deleting, NEW l \in {"release", "sweep"},
         Goto(p, l), NEW M \in SUBSET Ids, DropMessages(M),
         \A m \in M : messages[m].thread \in call[p].within \cup {0},
         \A k \in call[p].keys : k[1] \in M \/ ~ Exists(k[1]),
         threads' \in [Ids -> Thread], \A t \in Ids \ call[p].within : threads'[t] = threads[t],
         trimmed' = trimmed \cup call[p].within,
         UNCHANGED <<bucket, storage, minted, call, calls, faults, counted, abandoned, overlapped>>
  PROVE  MailboxInvariant'
<1>0. PICK c : c = call[p]
  OBVIOUS
<1>1. /\ c.msg = 0 /\ c.thread \notin Fresh /\ c.todo \subseteq c.parts /\ c \in Call
      /\ Removes(pc[p], c) /\ c.within \subseteq Ids /\ c.keys \subseteq Keys
      /\ c.named \subseteq Ids
  BY <1>0, DeletingFacts DEF Call
<1>2. /\ messages' \in [Ids -> Message] /\ attachments' \in [Ids -> SUBSET Parts]
      /\ \A m \in M : messages'[m] = NoMessage /\ attachments'[m] = {}
      /\ \A m \in Ids \ M : messages'[m] = messages[m] /\ attachments'[m] = attachments[m]
  BY DEF DropMessages, MailboxInvariant, TypeOK, Message, NoMessage
<1>3. NoMessage.thread = 0 /\ NoMessage.raw = FALSE
  BY DEF NoMessage
<1>4. pc' = [pc EXCEPT ![p] = l] /\ call' = [call EXCEPT ![p] = c]
  BY <1>0 DEF Goto, MailboxInvariant, TypeOK
<1>5. Follows(p, l, c)
  BY <1>1, <1>4 DEF Follows, Labels
<1>6. /\ Unborn' \subseteq Unborn /\ Fresh' \subseteq Fresh
      /\ pc' \in [Workers -> Labels] /\ call' \in [Workers -> Call]
      /\ pc'[p] = l /\ call'[p] = c
      /\ \A q \in Workers \ {p} : pc'[q] = pc[q] /\ call'[q] = call[q]
  BY <1>5, FollowsFacts
<1>7. \A m \in Ids : \/ messages'[m] = messages[m]
                     \/ messages'[m].thread = 0 /\ messages[m].thread \in trimmed' \cup {0}
  BY <1>2, <1>3
<1>8. TypeOK'
  BY <1>0, <1>1, <1>2, <1>6 DEF MailboxInvariant, TypeOK
<1>9. Worker(p, l, c)'
  <2>1. Stores(p, l, c)'
    BY <1>1 DEF Stores, Early, Before, After
  <2>2. Joins(l, c)'
    BY <1>1, <1>6 DEF Joins, After
  <2>3. Holds(l, c)'
    BY <1>1 DEF Holds, Before, Early
  <2>4. Removes(l, c)'
    <3>1. \A m \in c.named : m \notin Unborn' /\ messages'[m].thread \in c.within \cup {0}
      BY <1>1, <1>2, <1>3, <1>6 DEF Removes
    <3>2. \A k \in c.keys : k[1] \notin Unborn'
      BY <1>1, <1>6 DEF Removes
    <3>3. \A k \in c.keys : messages'[k[1]].thread = 0
      <4>1. \A k \in c.keys : k[1] \in Ids
        BY <1>1 DEF Keys
      <4>2. QED
        BY <1>0, <1>2, <1>3, <4>1 DEF Exists
    <3>4. c.within \subseteq trimmed'
      BY <1>0
    <3>5. QED
      BY <3>1, <3>2, <3>3, <3>4 DEF Removes, Exists
  <2>5. QED
    BY <2>1, <2>2, <2>3, <2>4 DEF Worker
<1>10. Workings'
  <2>1. 0 \notin counted
    BY DEF MailboxInvariant, TypeOK, Ids
  <2>2. QED
    BY <1>5, <1>7, <1>9, <2>1, WorkingsKept
<1>11. Unwritten'
  <2>1. \A m \in Unborn' : messages'[m].thread = 0 /\ m \notin counted
    BY <1>2, <1>3, <1>6 DEF MailboxInvariant, Unwritten, Exists, Unborn
  <2>2. \A m \in Ids : messages'[m].thread # 0 => messages'[m].thread \notin Fresh'
    BY <1>2, <1>3, <1>6 DEF MailboxInvariant, Unwritten, Exists
  <2>3. \A m \in Ids : messages'[m].thread = 0 => attachments'[m] = {} /\ ~ messages'[m].raw
    BY <1>2, <1>3 DEF MailboxInvariant, Unwritten, Exists
  <2>4. QED
    BY <2>1, <2>2, <2>3 DEF Unwritten, Exists
<1>12. RowsHaveObjects'
  <2>1. RawKeys(Ids) \cup AttachmentKeys(Ids) \subseteq bucket
    BY DEF MailboxInvariant, RowsHaveObjects
  <2>2. ASSUME NEW k \in Keys,
                k[2] \in attachments'[k[1]] \/ (messages'[k[1]].raw /\ k[2] = 0)
        PROVE  k \in bucket
    <3>1. k[1] \in Ids
      BY DEF Keys
    <3>2. k[1] \notin M
      BY <1>2, <1>3, <2>2
    <3>3. QED
      BY <1>2, <2>1, <2>2, <3>1, <3>2 DEF RawKeys, AttachmentKeys
  <2>3. RawKeys(Ids)' \subseteq bucket
    <3>1. ASSUME NEW k \in Keys, k[2] = 0, messages'[k[1]].raw PROVE k \in bucket
      BY <2>2, <3>1
    <3>2. QED
      BY <3>1 DEF RawKeys
  <2>4. AttachmentKeys(Ids)' \subseteq bucket
    <3>1. ASSUME NEW k \in Keys, k[2] \in attachments'[k[1]] PROVE k \in bucket
      BY <2>2, <3>1
    <3>2. QED
      BY <3>1 DEF AttachmentKeys
  <2>5. QED
    BY <2>3, <2>4 DEF RowsHaveObjects, RawKeys, AttachmentKeys
<1>13. CountsAddUp'
  <2> SUFFICES ASSUME NEW t \in Ids, t \notin trimmed'
               PROVE  /\ threads'[t].here => threads'[t].count = Cardinality(InThread(t)' \cap counted)
                      /\ \A m \in InThread(t)' \ counted :
                           m \in abandoned \/ \E q \in Workers : pc'[q] # "idle" /\ call'[q].msg = m
    BY DEF CountsAddUp, InThread
  <2>1. t \notin trimmed /\ t \notin call[p].within /\ t # 0
    BY DEF Ids
  <2>2. InThread(t)' = InThread(t)
    BY <1>2, <1>3, <2>1 DEF InThread
  <2>3. l # "idle" /\ c.msg = call[p].msg
    BY <1>0
  <2>4. QED
    BY ZenonT(30), <1>5, <2>1, <2>2, <2>3, BusyStays DEF MailboxInvariant, CountsAddUp
<1>14. QED
  BY <1>8, <1>10, <1>11, <1>12, <1>13 DEF MailboxInvariant

\* The batch of deleteMessage.
LEMMA RemoveMessageKeeps ==
  ASSUME MailboxInvariant, NEW p \in Workers, RemoveMessage(p)
  PROVE  MailboxInvariant'
<1>1. pc[p] = "remove" /\ pc[p] \in Deleting
  BY DEF RemoveMessage, Deleting
<1>2. call[p] \in Call /\ Removes("remove", call[p])
  BY <1>1, DeletingFacts
<1>3. PICK M : M = call[p].named
  OBVIOUS
<1>4. M \in SUBSET Ids
  BY <1>2, <1>3 DEF Call
<1>5. /\ \A m \in M : messages[m].thread \in call[p].within \cup {0}
      /\ \A k \in call[p].keys : k[1] \in M
  BY <1>2, <1>3 DEF Removes
<1>6. DropMessages(M) /\ Goto(p, "release") /\ trimmed' = trimmed \cup call[p].within
  BY <1>3 DEF RemoveMessage
<1>7. threads' = threads /\ threads \in [Ids -> Thread]
  BY DEF RemoveMessage, MailboxInvariant, TypeOK
<1>8. QED
  BY <1>1, <1>4, <1>5, <1>6, <1>7, RowsDropped DEF RemoveMessage

\* The batch of deleteMessages.
LEMMA RemoveMessagesKeeps ==
  ASSUME MailboxInvariant, NEW p \in Workers, RemoveMessages(p)
  PROVE  MailboxInvariant'
<1>1. pc[p] = "clear" /\ pc[p] \in Deleting
  BY DEF RemoveMessages, Deleting
<1>2. call[p] \in Call /\ Removes("clear", call[p]) /\ call[p].within \subseteq Ids
  BY <1>1, DeletingFacts DEF Call
<1>e. PICK E : E = call[p].within \ call[p].surviving
  OBVIOUS
<1>3. PICK M : M = call[p].named \cup UNION {InThread(t) : t \in E}
  OBVIOUS
<1>4. M \in SUBSET Ids
  BY <1>2, <1>3 DEF Call, InThread
<1>5. /\ \A m \in M : messages[m].thread \in call[p].within \cup {0}
      /\ \A k \in call[p].keys : k[1] \in M
  BY <1>2, <1>3, <1>e DEF Removes, InThread
<1>6. /\ DropMessages(M) /\ Goto(p, "release") /\ trimmed' = trimmed \cup call[p].within
      /\ threads' = [t \in Ids |->
           IF t \in E THEN NoThread
           ELSE IF t \in call[p].surviving /\ threads[t].here
                THEN [threads[t] EXCEPT !.count = Cardinality(InThread(t) \ M)]
                ELSE threads[t]]
  BY <1>3, <1>e DEF RemoveMessages
<1>7. threads' \in [Ids -> Thread]
  <2> SUFFICES ASSUME NEW t \in Ids PROVE threads'[t] \in Thread
    BY <1>6
  <2>1. PICK row \in Thread : row = threads[t]
    BY DEF MailboxInvariant, TypeOK
  <2>2. PICK n \in Nat : n = Cardinality(InThread(t) \ M)
    BY FiniteFacts DEF InThread
  <2>3. NoThread \in Thread /\ [row EXCEPT !.count = n] \in Thread
    BY DEF NoThread, Thread
  <2>4. threads'[t] \in {NoThread, [row EXCEPT !.count = n], row}
    BY <1>6, <2>1, <2>2
  <2>5. QED
    BY <2>3, <2>4
<1>8. \A t \in Ids \ call[p].within : threads'[t] = threads[t]
  BY <1>2, <1>6, <1>e DEF Removes
<1>9. QED
  BY <1>1, <1>4, <1>5, <1>6, <1>7, <1>8, RowsDropped DEF RemoveMessages

\* The batch of deleteThread.
LEMMA DropThreadKeeps ==
  ASSUME MailboxInvariant, NEW p \in Workers, DropThread(p)
  PROVE  MailboxInvariant'
<1>1. pc[p] = "unthread" /\ pc[p] \in Deleting
  BY DEF DropThread, Deleting
<1>2. call[p] \in Call /\ Removes("unthread", call[p]) /\ call[p].within \subseteq Ids
  BY <1>1, DeletingFacts DEF Call
<1>3. PICK M : M = Inside(call[p])
  OBVIOUS
<1>l. PICK l : l = IF call[p].op = "drop" THEN "release" ELSE "sweep"
  OBVIOUS
<1>4. M \in SUBSET Ids /\ \A m \in M : messages[m].thread \in call[p].within
  BY <1>2, <1>3, InsideFacts
<1>5. \A k \in call[p].keys : k[1] \in M \/ ~ Exists(k[1])
  <2> SUFFICES ASSUME NEW k \in call[p].keys, Exists(k[1]) PROVE k[1] \in M
    OBVIOUS
  <2>1. k[1] \in Ids
    BY <1>2 DEF Call, Keys
  <2>2. messages[k[1]].thread \in call[p].within
    BY <1>2 DEF Removes, Exists
  <2>3. QED
    BY <1>3, <2>1, <2>2 DEF Inside, InThread
<1>6. /\ DropMessages(M) /\ Goto(p, l) /\ trimmed' = trimmed \cup call[p].within
      /\ threads' = [t \in Ids |-> IF t \in call[p].within THEN NoThread ELSE threads[t]]
  BY <1>3, <1>l DEF DropThread
<1>7. threads' \in [Ids -> Thread]
  BY <1>6 DEF MailboxInvariant, TypeOK, NoThread, Thread
<1>8. QED
  BY <1>1, <1>4, <1>5, <1>6, <1>7, <1>l, RowsDropped DEF DropThread

\* Recounting threads that a delete has reached.
LEMMA RecountThreadKeeps ==
  ASSUME MailboxInvariant, NEW p \in Workers, RecountThread(p)
  PROVE  MailboxInvariant'
<1>1. pc[p] = "recount" /\ pc[p] \in Deleting
  BY DEF RecountThread, Deleting
<1>2. call[p].msg = 0 /\ call[p].within \subseteq trimmed
  BY <1>1, DeletingFacts DEF Removes
<1>3. Follows(p, "idle", NoCall) /\ Worker(p, "idle", NoCall)
  BY IdleFacts DEF RecountThread
<1>4. threads' \in [Ids -> Thread]
  <2> SUFFICES ASSUME NEW t \in Ids PROVE threads'[t] \in Thread
    BY DEF RecountThread
  <2>1. PICK row \in Thread : row = threads[t]
    BY DEF MailboxInvariant, TypeOK
  <2>2. PICK n \in Nat : n = Cardinality(InThread(t))
    BY FiniteFacts DEF InThread
  <2>3. [row EXCEPT !.count = n] \in Thread
    BY DEF Thread
  <2>4. threads'[t] \in {[row EXCEPT !.count = n], row}
    BY <2>1, <2>2 DEF RecountThread
  <2>5. QED
    BY <2>3, <2>4
<1>5. \A t \in Ids \ trimmed : threads'[t] = threads[t]
  BY <1>2 DEF RecountThread
<1>6. \A m \in Ids : m # call[p].msg
  BY <1>2 DEF Ids
<1>7. QED
  BY <1>3, <1>4, <1>5, <1>6, RecountKeeps DEF RecountThread, history, MailboxInvariant, TypeOK

-----------------------------------------------------------------------------
(* The specification *)

\* The invariant holds of an empty mailbox.
LEMMA MailboxInvariantInit ==
  ASSUME Init
  PROVE  MailboxInvariant
<1>1. /\ \A m \in Ids : messages[m].thread = 0 /\ ~ messages[m].raw /\ attachments[m] = {}
      /\ \A t \in Ids : ~ threads[t].here
  BY DEF Init, NoMessage, NoThread
<1>2. TypeOK
  <2>1. NoThread \in Thread /\ NoMessage \in Message
    BY DEF Thread, NoThread, Message, NoMessage
  <2>2. 0 \in 0 .. MaxMessages /\ 0 \in 0 .. MaxCalls /\ 0 \in 0 .. MaxFaults
    BY MailboxAssumption
  <2>3. QED
    BY <2>1, <2>2, NoCallFacts DEF Init, TypeOK, Labels
<1>3. Workings
  <2> SUFFICES ASSUME NEW p \in Workers
               PROVE  call[p].msg <= minted /\ Worker(p, pc[p], call[p])
    BY DEF Workings
  <2>1. pc[p] = "idle" /\ call[p] = NoCall /\ minted = 0
    BY DEF Init
  <2>2. /\ NoCall.msg = 0 /\ NoCall.thread = 0 /\ NoCall.parts = {} /\ NoCall.todo = {}
        /\ NoCall.named = {} /\ NoCall.keys = {}
    BY DEF NoCall
  <2>3. 0 \notin Fresh
    BY DEF Fresh, Ids
  <2>4. Worker(p, "idle", call[p])
    BY <2>1, <2>2, <2>3 DEF Worker, Stores, Joins, Holds, Removes, Early, Before, After
  <2>5. QED
    BY <2>1, <2>2, <2>4
<1>4. Unwritten
  BY <1>1 DEF Init, Unwritten, Exists, Unborn
<1>5. RowsHaveObjects
  BY <1>1 DEF RowsHaveObjects, RawKeys, AttachmentKeys, Keys
<1>6. CountsAddUp
  <2>1. \A t \in Ids : InThread(t) = {}
    BY <1>1 DEF InThread, Ids
  <2>2. QED
    BY <1>1, <2>1 DEF CountsAddUp
<1>7. QED
  BY <1>2, <1>3, <1>4, <1>5, <1>6 DEF MailboxInvariant

\* Every step keeps it.
LEMMA MailboxInvariantNext ==
  ASSUME MailboxInvariant, [Next]_vars
  PROVE  MailboxInvariant'
<1>1. ASSUME NEW p \in Workers, Begin(p) PROVE MailboxInvariant'
  BY <1>1, MintsKeep, SendBegins, DeleteBegins DEF Begin
<1>2. ASSUME NEW p \in Workers, Step(p) PROVE MailboxInvariant'
  <2>1. CASE PutRaw(p) \/ PutPart(p) \/ PutObject(p)
    BY <2>1, PutsKeep
  <2>2. CASE ResolveThread(p) \/ GetThread(p)
    BY <2>2, ResolveKeeps, GetThreadKeeps
  <2>3. CASE SendMail(p)
    BY <2>3, MintsKeep
  <2>4. CASE SendRefused(p) \/ InsertThrows(p) \/ Record(p)
    BY <2>4, EndsKeep
  <2>5. CASE InsertThread(p) \/ InsertMessage(p) \/ InsertAttachment(p) \/ Touch(p)
    BY <2>5, InsertThreadKeeps, InsertMessageKeeps, InsertAttachmentKeeps, TouchKeeps
  <2>6. CASE Weigh(p) \/ FindRow(p) \/ SelectKeys(p) \/ SelectSurvivors(p)
    BY <2>6, DeleteReadsKeep
  <2>7. CASE Release(p) \/ ListRemaining(p) \/ LookupThread(p) \/ SelectRaws(p) \/ SelectFiles(p)
    BY <2>7, DeleteRestKeeps
  <2>8. CASE RemoveMessage(p) \/ RemoveMessages(p) \/ DropThread(p) \/ RecountThread(p)
    BY <2>8, RemoveMessageKeeps, RemoveMessagesKeeps, DropThreadKeeps, RecountThreadKeeps
  <2>9. CASE DeleteObjects(p)
    BY <2>9, DeleteObjectsKeeps
  <2>10. CASE StorageWriteLost(p)
    BY <2>10, FaultsKeep
  <2>11. QED
    BY <1>2, <2>1, <2>2, <2>3, <2>4, <2>5, <2>6, <2>7, <2>8, <2>9, <2>10 DEF Step
<1>3. ASSUME NEW p \in Workers, Kill(p) PROVE MailboxInvariant'
  BY <1>3, FaultsKeep
<1>4. CASE UNCHANGED vars
  <2>1. /\ TypeOK' /\ Unborn' = Unborn /\ Fresh' = Fresh
    BY <1>4 DEF vars, MailboxInvariant, TypeOK, Unborn, Fresh
  <2>2. Workings'
    BY <1>4, <2>1 DEF vars, MailboxInvariant, Workings, Worker, Stores, Joins, Holds, Removes,
       Exists, Least
  <2>3. Unwritten' /\ RowsHaveObjects' /\ CountsAddUp'
    BY <1>4, <2>1 DEF vars, MailboxInvariant, Unwritten, RowsHaveObjects, CountsAddUp, Exists,
       RawKeys, AttachmentKeys, InThread
  <2>4. QED
    BY <2>1, <2>2, <2>3 DEF MailboxInvariant
<1>5. QED
  BY <1>1, <1>2, <1>3, <1>4 DEF Next

\* The invariant holds in every reachable state.
THEOREM MailboxInvariantHolds == Spec => []MailboxInvariant
<1>1. Init => MailboxInvariant
  BY MailboxInvariantInit
<1>2. MailboxInvariant /\ [Next]_vars => MailboxInvariant'
  BY MailboxInvariantNext
<1>3. QED
  BY <1>1, <1>2, PTL DEF Spec

\* The object of every row that names one is in R2, whichever emails, sends and deletes
\* overlap and wherever they are killed (src/email/inbound.ts, src/core/messages.ts,
\* src/core/threads.ts).
THEOREM EveryRowHasItsObject == Spec => []RowsHaveObjects
<1>1. MailboxInvariant => RowsHaveObjects
  BY DEF MailboxInvariant
<1>2. QED
  BY <1>1, MailboxInvariantHolds, PTL

\* The message_count of a thread that no delete has reached is the number of its counted
\* messages, and the uncounted ones are on their way or were abandoned (touchThread in
\* src/db/threads.ts).
THEOREM ThreadsCountTheirMail == Spec => []CountsAddUp
<1>1. MailboxInvariant => CountsAddUp
  BY DEF MailboxInvariant
<1>2. QED
  BY <1>1, MailboxInvariantHolds, PTL
=============================================================================
