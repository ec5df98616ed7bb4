--------------------------- MODULE ServicesProofs ---------------------------
(***************************************************************************)
(* Proofs about the services around the mailbox that lose, at most, what   *)
(* they say they lose: the label changes, the send gate and the webhooks,  *)
(* for any number of clients, messages and addresses and any bounds; and   *)
(* that the webhook queue implements HookDelivery.                         *)
(***************************************************************************)
EXTENDS Labels, SendGate, Webhooks, FiniteSetTheorems, TLAPS

-----------------------------------------------------------------------------
(* Labels *)

AnyLabel == Label \cup {CHOOSE l \in Label : TRUE}

Plan == UNION {[S -> SUBSET AnyLabel] : S \in SUBSET Letter}

Change == [step : {"idle", "write"}, on : SUBSET Letter, add : SUBSET Label,
           remove : SUBSET Label, next : Plan]

LabelType ==
    /\ letters \subseteq Letter
    /\ tags \in [Letter -> SUBSET AnyLabel]
    /\ change \in [Tagger -> Change]
    /\ meant \in [tags : [Letter -> SUBSET AnyLabel], crossed : SUBSET Letter, begun : Nat]

\* What a change is about to write is its delta over what the row still holds,
\* but for the rows that another change has reached in the meantime.
PlansAreCurrent ==
    \A r \in Tagger :
        /\ change[r].step = "idle" => change[r].on = {}
        /\ DOMAIN change[r].next = change[r].on
        /\ \A m \in (change[r].on \cap letters) \ meant.crossed :
             change[r].next[m] = Applied(tags[m], change[r].add, change[r].remove)

LabelInvariant == LabelType /\ PlansAreCurrent /\ LabelLossNeedsOverlap

\* A client that changes no labels has a change of the right type.
LEMMA UnchangedType == Unchanged \in Change
<1>1. [m \in {} |-> {}] \in [{} -> SUBSET AnyLabel]
  OBVIOUS
<1>2. [m \in {} |-> {}] \in Plan
  BY <1>1 DEF Plan
<1>3. QED
  BY <1>2 DEF Unchanged, Change

\* The invariant of the label changes holds at first.
LEMMA LabelInvariantInit == LabelInit => LabelInvariant
<1> SUFFICES ASSUME LabelInit PROVE LabelInvariant
  OBVIOUS
<1>1. tags \in [Letter -> SUBSET AnyLabel]
  BY DEF LabelInit, AnyLabel
<1>2. LabelType
  BY <1>1, UnchangedType DEF LabelInit, LabelType
<1>3. PlansAreCurrent /\ LabelLossNeedsOverlap
  BY DEF LabelInit, PlansAreCurrent, LabelLossNeedsOverlap, Unchanged
<1>4. QED
  BY <1>2, <1>3 DEF LabelInvariant

\* Reading the labels and planning the delta keeps it.
LEMMA DeltaStartKeeps ==
  ASSUME LabelInvariant, NEW r \in Tagger, NEW on \in SUBSET Letter,
         NEW add \in SUBSET Label, NEW remove \in SUBSET Label, DeltaStart(r, on, add, remove)
  PROVE  LabelInvariant'
<1> DEFINE next == [m \in on |-> Applied(tags[m], add, remove)]
           c == [step |-> "write", on |-> on, add |-> add, remove |-> remove, next |-> next]
<1>1. next \in Plan
  <2>1. next \in [on -> SUBSET AnyLabel]
    BY DEF LabelInvariant, LabelType, Applied, AnyLabel
  <2>2. QED
    BY <2>1 DEF Plan
<1>2. c \in Change
  BY <1>1 DEF Change
<1>3. \A m \in on : next[m] = Applied(tags[m], add, remove)
  OBVIOUS
<1>4. /\ c.on = on /\ c.add = add /\ c.remove = remove /\ c.step = "write"
      /\ DOMAIN c.next = on
      /\ \A m \in on : c.next[m] = Applied(tags[m], add, remove)
  BY <1>3
<1>5. /\ change' = [change EXCEPT ![r] = c]
      /\ meant' = [meant EXCEPT !.begun = @ + 1]
      /\ UNCHANGED <<tags, letters>>
  BY DEF DeltaStart, Begins
<1> HIDE DEF c, next
<1>6. LabelType'
  BY <1>2, <1>5 DEF LabelInvariant, LabelType
<1>7. meant'.crossed = meant.crossed /\ meant'.tags = meant.tags
  BY <1>5 DEF LabelInvariant, LabelType
<1>8. PlansAreCurrent'
  BY <1>4, <1>5, <1>7 DEF LabelInvariant, LabelType, PlansAreCurrent
<1>9. LabelLossNeedsOverlap'
  BY <1>5, <1>7 DEF LabelInvariant, LabelLossNeedsOverlap
<1>10. QED
  BY <1>6, <1>8, <1>9 DEF LabelInvariant

\* Writing the planned labels keeps it: other plans over the same rows are crossed.
LEMMA DeltaEndKeeps ==
  ASSUME LabelInvariant, NEW r \in Tagger, DeltaEnd(r)
  PROVE  LabelInvariant'
<1> DEFINE c == change[r]
           on == c.on \cap letters
<1>1. /\ c \in Change /\ c.step = "write"
      /\ tags' = [m \in Letter |-> IF m \in on THEN Written(c, m) ELSE tags[m]]
      /\ change' = [change EXCEPT ![r] = Unchanged]
      /\ UNCHANGED letters
  BY DEF DeltaEnd, LabelInvariant, LabelType
<1>2. meant'.tags = [m \in Letter |-> IF m \in on THEN Applied(meant.tags[m], c.add, c.remove)
                                      ELSE meant.tags[m]]
  BY DEF DeltaEnd, LabelInvariant, LabelType
<1>3. meant'.crossed = meant.crossed \cup
        {m \in on : \E q \in Tagger \ {r} : change[q].step = "write" /\ m \in change[q].on}
  BY DEF DeltaEnd, LabelInvariant, LabelType
<1>4. \A m \in on \ meant.crossed : tags'[m] = Applied(tags[m], c.add, c.remove)
  BY <1>1 DEF LabelInvariant, LabelType, PlansAreCurrent, Written, Change
<1>5. LabelType'
  <2>1. meant' \in [tags : [Letter -> SUBSET AnyLabel], crossed : SUBSET Letter, begun : Nat]
    <3>1. meant'.tags \in [Letter -> SUBSET AnyLabel]
      BY <1>1, <1>2 DEF LabelInvariant, LabelType, Applied, Change, AnyLabel
    <3>2. meant'.crossed \in SUBSET Letter
      BY <1>1, <1>3 DEF LabelInvariant, LabelType
    <3>3. \E x, y : meant' = [meant EXCEPT !.tags = x, !.crossed = y]
      BY DEF DeltaEnd
    <3>4. QED
      BY <3>1, <3>2, <3>3 DEF LabelInvariant, LabelType
  <2>2. tags' \in [Letter -> SUBSET AnyLabel]
    <3>1. ASSUME NEW m \in on PROVE c.next[m] \in SUBSET AnyLabel
      <4>1. PICK S \in SUBSET Letter : c.next \in [S -> SUBSET AnyLabel]
        BY <1>1 DEF Change, Plan
      <4>2. DOMAIN c.next = c.on
        BY DEF LabelInvariant, PlansAreCurrent
      <4>3. QED
        BY <4>1, <4>2
    <3>2. QED
      BY <1>1, <3>1 DEF LabelInvariant, LabelType, Written
  <2>3. QED
    BY <1>1, <2>1, <2>2, UnchangedType DEF LabelInvariant, LabelType
<1>6. PlansAreCurrent'
  <2> SUFFICES ASSUME NEW q \in Tagger
               PROVE  /\ change'[q].step = "idle" => change'[q].on = {}
                      /\ DOMAIN change'[q].next = change'[q].on
                      /\ \A m \in (change'[q].on \cap letters') \ meant'.crossed :
                           change'[q].next[m] = Applied(tags'[m], change'[q].add, change'[q].remove)
    BY DEF PlansAreCurrent
  <2>1. CASE q = r
    BY <1>1, <2>1 DEF LabelInvariant, LabelType, Unchanged
  <2>2. CASE q # r
    <3>1. change'[q] = change[q]
      BY <1>1, <2>2 DEF LabelInvariant, LabelType
    <3>2. change[q].step \in {"idle", "write"}
      BY DEF LabelInvariant, LabelType, Change
    <3>3. ASSUME NEW m \in (change[q].on \cap letters) \ meant'.crossed
          PROVE  m \notin on /\ tags'[m] = tags[m] /\ m \notin meant.crossed
      <4>1. m \notin on
        BY <1>3, <2>2, <3>2, <3>3 DEF LabelInvariant, PlansAreCurrent
      <4>2. QED
        BY <1>1, <1>3, <3>3, <4>1 DEF LabelInvariant, LabelType
    <3>4. QED
      BY <1>1, <3>1, <3>3 DEF LabelInvariant, PlansAreCurrent
  <2>3. QED
    BY <2>1, <2>2
<1>7. LabelLossNeedsOverlap'
  <2> SUFFICES ASSUME NEW m \in letters \ meant'.crossed
               PROVE  tags'[m] = meant'.tags[m]
    BY <1>1 DEF LabelLossNeedsOverlap
  <2>1. m \in Letter /\ m \notin meant.crossed /\ tags[m] = meant.tags[m]
    BY <1>3 DEF LabelInvariant, LabelType, LabelLossNeedsOverlap
  <2>2. QED
    BY <1>1, <1>2, <1>4, <2>1
<1>8. QED
  BY <1>5, <1>6, <1>7 DEF LabelInvariant

\* Replacing the labels of one message in one statement keeps it.
LEMMA ReplaceKeeps ==
  ASSUME LabelInvariant, NEW m \in Letter, NEW labels \in SUBSET Label, Replace(m, labels)
  PROVE  LabelInvariant'
<1>1. /\ tags' = [tags EXCEPT ![m] = labels]
      /\ UNCHANGED <<letters, change>>
      /\ meant'.tags = [meant.tags EXCEPT ![m] = labels]
      /\ meant'.crossed = IF \E q \in Tagger : m \in change[q].on
                          THEN meant.crossed \cup {m} ELSE meant.crossed
  BY DEF Replace, LabelInvariant, LabelType
<1>2. LabelType'
  <2>1. meant' \in [tags : [Letter -> SUBSET AnyLabel], crossed : SUBSET Letter, begun : Nat]
    <3>1. meant'.tags \in [Letter -> SUBSET AnyLabel] /\ meant'.crossed \in SUBSET Letter
      BY <1>1 DEF LabelInvariant, LabelType, AnyLabel
    <3>2. meant'.begun = meant.begun + 1
      BY DEF Replace, LabelInvariant, LabelType
    <3>3. meant' = [tags |-> meant'.tags, crossed |-> meant'.crossed, begun |-> meant'.begun]
      BY DEF Replace, LabelInvariant, LabelType
    <3>4. QED
      BY <3>1, <3>2, <3>3, meant.begun \in Nat DEF LabelInvariant, LabelType
  <2>2. tags' \in [Letter -> SUBSET AnyLabel]
    BY <1>1 DEF LabelInvariant, LabelType, AnyLabel
  <2>3. QED
    BY <1>1, <2>1, <2>2 DEF LabelInvariant, LabelType
<1>3. PlansAreCurrent'
  BY <1>1 DEF LabelInvariant, LabelType, PlansAreCurrent
<1>4. LabelLossNeedsOverlap'
  BY <1>1 DEF LabelInvariant, LabelType, LabelLossNeedsOverlap
<1>5. QED
  BY <1>2, <1>3, <1>4 DEF LabelInvariant

\* Deleting a message keeps it.
LEMMA DropKeeps ==
  ASSUME LabelInvariant, NEW m \in Letter, Drop(m)
  PROVE  LabelInvariant'
BY DEF Drop, LabelInvariant, LabelType, PlansAreCurrent, LabelLossNeedsOverlap

\* Every step of the label changes keeps the invariant.
LEMMA LabelInvariantNext == LabelInvariant /\ [LabelNext]_labelVars => LabelInvariant'
<1>1. ASSUME LabelInvariant, LabelNext PROVE LabelInvariant'
  BY <1>1, DeltaStartKeeps, DeltaEndKeeps, ReplaceKeeps, DropKeeps DEF LabelNext
<1>2. ASSUME LabelInvariant, UNCHANGED labelVars PROVE LabelInvariant'
  BY <1>2 DEF labelVars, LabelInvariant, LabelType, PlansAreCurrent, LabelLossNeedsOverlap
<1>3. QED
  BY <1>1, <1>2

(* However many clients change the labels of however many messages at once,  *)
(* a label is lost only where two deltas overlapped on a message             *)
(* (batchUpdateLabels, updateThreadLabels).                                  *)
THEOREM LabelsLost == LabelSpec => []LabelLossNeedsOverlap
<1>1. LabelInvariant => LabelLossNeedsOverlap
  BY DEF LabelInvariant
<1>2. QED
  BY <1>1, LabelInvariantInit, LabelInvariantNext, PTL DEF LabelSpec

-----------------------------------------------------------------------------
(* The send gate *)

SendRecord == [step : {"idle", "check", "send", "count"}, to : Address \cup {"none"},
               month : 0 .. MaxMonth]

Reason == Blocking \cup {"none", "soft_bounce"}

GateType ==
    /\ month \in 1 .. MaxMonth
    /\ entries \in [Address -> Reason]
    /\ sent \in [1 .. MaxMonth -> Nat]
    /\ sends \in [Sender -> SendRecord]
    /\ tally \in [sends : Nat, reports : Nat, mails : [1 .. MaxMonth -> Nat], lost : Nat]

\* The sends that month t's quota let through, before and after their mail.
Pending(t) == {p \in Sender : sends[p].step \in {"check", "send"} /\ sends[p].month = t}
Counting(t) == {p \in Sender : sends[p].step = "count" /\ sends[p].month = t}

\* No send is ahead of the calendar.
MonthsPass ==
    /\ \A p \in Sender : sends[p].step # "idle" => sends[p].month \in 1 .. month
    /\ \A t \in 1 .. MaxMonth : t > month => tally.mails[t] = 0

\* What is still to come of a month is part of its overrun, and the mails of this
\* month are in the counter, about to be, or lost.
OverrunIsInFlight ==
    \A t \in 1 .. MaxMonth :
        tally.mails[t] + Cardinality(Pending(t)) <= SendQuota + Cardinality(Sender) - 1 + tally.lost

MailsAreCounted ==
    \A t \in 1 .. MaxMonth :
        t = month => tally.mails[t] <= sent[t] + tally.lost + Cardinality(Counting(t))

GateInvariant == GateType /\ MonthsPass /\ OverrunIsInFlight /\ MailsAreCounted

\* The senders are finitely many, and so are those of any part of them.
LEMMA SomeSenders ==
  ASSUME NEW S \in SUBSET Sender
  PROVE  IsFiniteSet(S) /\ Cardinality(S) \in Nat /\ Cardinality(S) <= Cardinality(Sender)
         /\ Cardinality(Sender) \in Nat
BY FS_Subset, FS_CardinalityType, SendGateAssumption DEF SendGateAssumption

\* Two kinds of sender that have nobody in common are no more than all of them.
LEMMA ApartSenders ==
  ASSUME NEW S \in SUBSET Sender, NEW T \in SUBSET Sender, S \cap T = {}
  PROVE  Cardinality(S) + Cardinality(T) <= Cardinality(Sender)
<1>1. IsFiniteSet(S) /\ IsFiniteSet(T) /\ S \cup T \in SUBSET Sender
  BY SomeSenders
<1>2. Cardinality(S \cup T) = Cardinality(S) + Cardinality(T) - Cardinality(S \cap T)
  BY <1>1, FS_Union
<1>3. Cardinality(S \cap T) = 0
  BY FS_EmptySet
<1>4. QED
  BY <1>1, <1>2, <1>3, SomeSenders

\* The numbers the quota argument adds up.
LEMMA GateNumbers ==
  ASSUME GateInvariant, NEW t \in 1 .. MaxMonth
  PROVE  /\ tally.mails[t] \in Nat /\ sent[t] \in Nat /\ tally.lost \in Nat /\ SendQuota \in Nat
         /\ Cardinality(Pending(t)) \in Nat /\ Cardinality(Counting(t)) \in Nat
         /\ Cardinality(Sender) \in Nat
         /\ tally.mails[t] + Cardinality(Pending(t)) <= SendQuota + Cardinality(Sender) - 1 + tally.lost
<1>1. Pending(t) \in SUBSET Sender /\ Counting(t) \in SUBSET Sender
  BY DEF Pending, Counting
<1>2. SendQuota \in Nat
  BY SendGateAssumption DEF SendGateAssumption
<1>3. tally.mails[t] \in Nat /\ sent[t] \in Nat /\ tally.lost \in Nat
  BY DEF GateInvariant, GateType
<1>4. tally.mails[t] + Cardinality(Pending(t)) <= SendQuota + Cardinality(Sender) - 1 + tally.lost
  BY DEF GateInvariant, OverrunIsInFlight
<1>5. QED
  BY <1>1, <1>2, <1>3, <1>4, SomeSenders

\* A history that is counted on keeps its type.
LEMMA TallyType ==
  ASSUME GateInvariant,
         tally' = [sends |-> tally'.sends, reports |-> tally'.reports, mails |-> tally'.mails,
                   lost |-> tally'.lost],
         tally'.sends \in Nat, tally'.reports \in Nat, tally'.lost \in Nat,
         tally'.mails \in [1 .. MaxMonth -> Nat]
  PROVE  tally' \in [sends : Nat, reports : Nat, mails : [1 .. MaxMonth -> Nat], lost : Nat]
OBVIOUS

\* A step that only takes senders out of the pending and leaves the rest alone.
LEMMA FewerPending ==
  ASSUME GateInvariant, GateType', UNCHANGED <<month, sent, tally>>,
         \A t \in 1 .. MaxMonth : Pending(t)' \subseteq Pending(t) /\ Counting(t)' = Counting(t),
         MonthsPass'
  PROVE  GateInvariant'
<1>1. OverrunIsInFlight'
  <2> SUFFICES ASSUME NEW t \in 1 .. MaxMonth
               PROVE  tally.mails[t] + Cardinality(Pending(t)') <=
                        SendQuota + Cardinality(Sender) - 1 + tally.lost
    BY DEF OverrunIsInFlight
  <2>1. Pending(t) \in SUBSET Sender /\ Pending(t)' \in SUBSET Pending(t)
    BY DEF Pending
  <2>2. /\ Cardinality(Pending(t)') <= Cardinality(Pending(t))
        /\ Cardinality(Pending(t)') \in Nat
    BY <2>1, SomeSenders, FS_Subset
  <2>3. QED
    BY <2>2, GateNumbers
<1>2. MailsAreCounted'
  BY DEF GateInvariant, GateType, MailsAreCounted
<1>3. QED
  BY <1>1, <1>2 DEF GateInvariant

\* The invariant of the send gate holds at first.
LEMMA GateInvariantInit == GateInit => GateInvariant
<1> SUFFICES ASSUME GateInit PROVE GateInvariant
  OBVIOUS
<1> USE SendGateAssumption DEF SendGateAssumption
<1>1. GateType
  BY DEF GateInit, GateType, SendRecord, Idle, Reason
<1>2. MonthsPass
  BY DEF GateInit, MonthsPass, Idle
<1>3. \A t \in 1 .. MaxMonth : Pending(t) = {} /\ Counting(t) = {}
  BY DEF GateInit, Pending, Counting, Idle
<1>4. Cardinality({}) = 0 /\ Cardinality(Sender) \in Nat
  BY FS_EmptySet, SomeSenders
<1>5. \A t \in 1 .. MaxMonth : tally.mails[t] = 0 /\ sent[t] = 0
  BY DEF GateInit
<1>6. tally.lost = 0 /\ month = 1 /\ 1 \in 1 .. MaxMonth
  BY DEF GateInit
<1>7. \A t \in 1 .. MaxMonth : Cardinality(Pending(t)) = 0 /\ Cardinality(Counting(t)) = 0
  BY <1>3, <1>4
<1>8. OverrunIsInFlight /\ MailsAreCounted
  BY <1>4, <1>5, <1>6, <1>7 DEF OverrunIsInFlight, MailsAreCounted
<1>9. QED
  BY <1>1, <1>2, <1>8 DEF GateInvariant

\* A new month keeps it: nothing is counted in it yet.
LEMMA NewMonthKeeps == ASSUME GateInvariant, NewMonth PROVE GateInvariant'
<1> USE SendGateAssumption DEF SendGateAssumption
<1>1. month' = month + 1 /\ month < MaxMonth /\ UNCHANGED <<entries, sent, sends, reports, tally>>
  BY DEF NewMonth
<1>2. GateType'
  BY <1>1 DEF GateInvariant, GateType
<1>3. MonthsPass'
  BY SMTT(30), <1>1 DEF GateInvariant, GateType, MonthsPass
<1>4. OverrunIsInFlight'
  BY <1>1 DEF GateInvariant, OverrunIsInFlight, Pending
<1>5. MailsAreCounted'
  <2> SUFFICES ASSUME NEW t \in 1 .. MaxMonth, t = month'
               PROVE  tally.mails[t] <= sent[t] + tally.lost + Cardinality(Counting(t))
    BY <1>1 DEF MailsAreCounted, Counting
  <2>1. tally.mails[t] = 0
    BY <1>1 DEF GateInvariant, GateType, MonthsPass
  <2>2. QED
    BY <2>1, GateNumbers
<1>6. QED
  BY <1>2, <1>3, <1>4, <1>5 DEF GateInvariant

\* A send that begins fills in the blank one.
LEMMA FreshSend ==
  ASSUME NEW s \in SendRecord, NEW a \in Address, NEW t \in 0 .. MaxMonth
  PROVE  [s EXCEPT !.step = "check", !.to = a, !.month = t] = [step |-> "check", to |-> a, month |-> t]
<1> DEFINE u == [s EXCEPT !.step = "check", !.to = a, !.month = t]
<1>1. /\ DOMAIN u = {"step", "to", "month"}
      /\ u.step = "check" /\ u.to = a /\ u.month = t
      /\ u \in SendRecord
  BY DEF SendRecord
<1> HIDE DEF u
<1>2. u = [step |-> "check", to |-> a, month |-> t]
  BY <1>1 DEF SendRecord
<1>3. QED
  BY <1>2 DEF u

\* A send that the quota lets through is within the overrun.
LEMMA SendBeginsKeeps ==
  ASSUME GateInvariant, NEW p \in Sender, NEW a \in Address, SendBegins(p, a)
  PROVE  GateInvariant'
<1> USE SendGateAssumption DEF SendGateAssumption
<1>1. /\ sends[p] = Idle /\ UNCHANGED <<month, entries, sent, reports>>
      /\ tally' = [tally EXCEPT !.sends = @ + 1]
  BY DEF SendBegins
<1>2. /\ tally'.mails = tally.mails /\ tally'.lost = tally.lost
      /\ tally' = [sends |-> tally.sends + 1, reports |-> tally.reports, mails |-> tally.mails,
                   lost |-> tally.lost]
  BY <1>1 DEF GateInvariant, GateType
<1>a. tally' \in [sends : Nat, reports : Nat, mails : [1 .. MaxMonth -> Nat], lost : Nat]
  <2>1. /\ tally.sends \in Nat /\ tally.reports \in Nat /\ tally.lost \in Nat
        /\ tally.mails \in [1 .. MaxMonth -> Nat]
    BY DEF GateInvariant, GateType
  <2>2. tally.sends + 1 \in Nat
    BY <2>1
  <2>3. QED
    BY <1>2, <2>1, <2>2
<1>3. CASE OverQuota(month)
  <2>1. sends' = sends
    BY <1>3 DEF SendBegins
  <2>2. GateType'
    BY <1>1, <1>a, <2>1 DEF GateInvariant, GateType
  <2>3. QED
    BY <1>1, <1>2, <2>1, <2>2
    DEF GateInvariant, MonthsPass, OverrunIsInFlight, MailsAreCounted, Pending, Counting
<1>4. CASE ~OverQuota(month)
  <2> DEFINE s == [step |-> "check", to |-> a, month |-> month]
  <2>1. sends' = [sends EXCEPT ![p] = s]
    <3>1. [Idle EXCEPT !.step = "check", !.to = a, !.month = month] = s
      <4>1. Idle \in SendRecord /\ month \in 0 .. MaxMonth
        BY DEF Idle, SendRecord, GateInvariant, GateType
      <4>2. QED
        BY <4>1, FreshSend
    <3>2. QED
      BY <1>4, <3>1 DEF SendBegins
  <2>2. s \in SendRecord
    BY DEF SendRecord, GateInvariant, GateType
  <2>3. GateType'
    BY <1>1, <1>a, <2>1, <2>2 DEF GateInvariant, GateType
  <2>4. MonthsPass'
    BY <1>1, <1>2, <2>1 DEF GateInvariant, GateType, MonthsPass
  <2>5. \A t \in 1 .. MaxMonth :
          Counting(t)' = Counting(t) /\ Pending(t)' = Pending(t) \cup (IF t = month THEN {p} ELSE {})
    BY SMTT(30), <1>1, <2>1 DEF GateInvariant, GateType, Counting, Pending, Idle
  <2>6. MailsAreCounted'
    BY <1>1, <1>2, <2>5 DEF GateInvariant, GateType, MailsAreCounted
  <2>7. OverrunIsInFlight'
    <3> SUFFICES ASSUME NEW t \in 1 .. MaxMonth
                 PROVE  tally.mails[t] + Cardinality(Pending(t)') <=
                          SendQuota + Cardinality(Sender) - 1 + tally.lost
      BY <1>2 DEF OverrunIsInFlight
    <3>1. CASE t # month
      BY <2>5, <3>1 DEF GateInvariant, OverrunIsInFlight
    <3>2. CASE t = month
      <4>1. /\ Pending(t)' \in SUBSET Sender /\ Counting(t) \in SUBSET Sender
            /\ Pending(t)' \cap Counting(t) = {}
        BY <1>1, <2>5 DEF Pending, Counting, Idle
      <4>2. Cardinality(Pending(t)') + Cardinality(Counting(t)) <= Cardinality(Sender)
        BY <4>1, ApartSenders
      <4>3. /\ Cardinality(Pending(t)') \in Nat /\ Cardinality(Counting(t)) \in Nat
            /\ Cardinality(Sender) \in Nat
        BY <4>1, SomeSenders
      <4>4. sent[t] < SendQuota
        BY <1>4, <3>2, GateNumbers DEF OverQuota
      <4>5. tally.mails[t] <= sent[t] + tally.lost + Cardinality(Counting(t))
        BY <3>2 DEF GateInvariant, MailsAreCounted
      <4>6. QED
        BY <4>2, <4>3, <4>4, <4>5, GateNumbers
    <3>3. QED
      BY <3>1, <3>2
  <2>8. QED
    BY <2>3, <2>4, <2>6, <2>7 DEF GateInvariant
<1>5. QED
  BY <1>3, <1>4

\* Reading the suppression list keeps it.
LEMMA CheckListKeeps == ASSUME GateInvariant, NEW p \in Sender, CheckList(p) PROVE GateInvariant'
<1> USE SendGateAssumption DEF SendGateAssumption
<1>1. /\ sends[p].step = "check" /\ UNCHANGED <<month, entries, sent, reports, tally>>
      /\ \/ sends' = [sends EXCEPT ![p] = Idle]
         \/ sends' = [sends EXCEPT ![p] = [sends[p] EXCEPT !.step = "send", !.to = "none"]]
  BY DEF CheckList
<1>2. /\ Idle \in SendRecord /\ Idle.step = "idle"
      /\ sends \in [Sender -> SendRecord]
      /\ sends[p] \in SendRecord
  BY DEF GateInvariant, GateType, SendRecord, Idle
<1> DEFINE s == [sends[p] EXCEPT !.step = "send", !.to = "none"]
<1>3. s \in SendRecord /\ s.step = "send" /\ s.month = sends[p].month
  BY <1>2 DEF SendRecord
<1> HIDE DEF s
<1>4. /\ sends' \in [Sender -> SendRecord]
      /\ \A q \in Sender \ {p} : sends'[q] = sends[q]
      /\ \/ sends'[p].step = "idle"
         \/ sends'[p].step = "send" /\ sends'[p].month = sends[p].month
  <2>1. \E t \in {Idle, s} : sends' = [sends EXCEPT ![p] = t]
    BY <1>1 DEF s
  <2>2. QED
    <3>1. CASE sends' = [sends EXCEPT ![p] = Idle]
      BY <1>2, <3>1
    <3>2. CASE sends' = [sends EXCEPT ![p] = s]
      BY <1>2, <1>3, <3>2
    <3>3. QED
      BY <2>1, <3>1, <3>2
<1>5. GateType'
  BY <1>1, <1>4 DEF GateInvariant, GateType
<1>6. MonthsPass'
  BY <1>1, <1>4 DEF GateInvariant, GateType, MonthsPass
<1>7. \A t \in 1 .. MaxMonth : Pending(t)' \subseteq Pending(t) /\ Counting(t)' = Counting(t)
  BY <1>1, <1>4 DEF Pending, Counting
<1>8. QED
  BY <1>1, <1>5, <1>6, <1>7, FewerPending

\* A mail the transport refuses keeps it.
LEMMA MailRefusedKeeps == ASSUME GateInvariant, NEW p \in Sender, MailRefused(p) PROVE GateInvariant'
<1> USE SendGateAssumption DEF SendGateAssumption
<1>1. /\ sends[p].step = "send" /\ UNCHANGED <<month, entries, sent, reports, tally>>
      /\ sends' = [sends EXCEPT ![p] = Idle]
  BY DEF MailRefused
<1>2. GateType'
  BY <1>1 DEF GateInvariant, GateType, SendRecord, Idle
<1>3. MonthsPass'
  BY <1>1 DEF GateInvariant, GateType, MonthsPass, Idle
<1>4. \A t \in 1 .. MaxMonth : Pending(t)' \subseteq Pending(t) /\ Counting(t)' = Counting(t)
  BY <1>1 DEF GateInvariant, GateType, Pending, Counting, Idle
<1>5. QED
  BY <1>1, <1>2, <1>3, <1>4, FewerPending

\* A mail taken moves its send from the pending to the counting.
LEMMA TakeMailKeeps == ASSUME GateInvariant, NEW p \in Sender, TakeMail(p) PROVE GateInvariant'
<1> USE SendGateAssumption DEF SendGateAssumption
<1> DEFINE u == sends[p].month
<1>1. /\ sends[p].step = "send" /\ UNCHANGED <<month, entries, sent, reports>>
      /\ tally' = [tally EXCEPT !.mails[u] = @ + 1]
      /\ sends' = [sends EXCEPT ![p].step = "count"]
  BY DEF TakeMail
<1>2. u \in 1 .. month /\ u \in 1 .. MaxMonth
  BY <1>1 DEF GateInvariant, GateType, MonthsPass
<1>3. tally'.mails = [tally.mails EXCEPT ![u] = @ + 1] /\ tally'.lost = tally.lost
  BY <1>1 DEF GateInvariant, GateType
<1>4. GateType'
  <2>1. sends' \in [Sender -> SendRecord]
    BY <1>1 DEF GateInvariant, GateType, SendRecord
  <2>2. tally'.mails \in [1 .. MaxMonth -> Nat]
    <3>1. tally.mails \in [1 .. MaxMonth -> Nat]
      BY DEF GateInvariant, GateType
    <3>2. QED
      BY <1>2, <1>3, <3>1
  <2>3. /\ tally' = [sends |-> tally'.sends, reports |-> tally'.reports, mails |-> tally'.mails,
                     lost |-> tally'.lost]
        /\ tally'.sends \in Nat /\ tally'.reports \in Nat /\ tally'.lost \in Nat
    BY <1>1 DEF GateInvariant, GateType
  <2>4. QED
    BY <1>1, <2>1, <2>2, <2>3, TallyType DEF GateInvariant, GateType
<1>5. /\ \A q \in Sender \ {p} : sends'[q] = sends[q]
      /\ sends'[p].step = "count" /\ sends'[p].month = u
  BY <1>1 DEF GateInvariant, GateType, SendRecord
<1>6. MonthsPass'
  <2>1. \A t \in 1 .. MaxMonth : t # u => tally'.mails[t] = tally.mails[t]
    BY <1>2, <1>3 DEF GateInvariant, GateType
  <2>2. \A t \in 1 .. MaxMonth : t > month => t # u
    BY <1>2 DEF GateInvariant, GateType
  <2>3. \A t \in 1 .. MaxMonth : t > month' => tally'.mails[t] = 0
    BY <1>1, <2>1, <2>2 DEF GateInvariant, MonthsPass
  <2>4. \A q \in Sender : sends'[q].step # "idle" => sends'[q].month \in 1 .. month'
    BY <1>1, <1>2, <1>5 DEF GateInvariant, MonthsPass
  <2>5. QED
    BY <2>3, <2>4 DEF MonthsPass
<1>7. \A t \in 1 .. MaxMonth :
        /\ Pending(t)' = IF t = u THEN Pending(t) \ {p} ELSE Pending(t)
        /\ Counting(t)' = IF t = u THEN Counting(t) \cup {p} ELSE Counting(t)
  BY <1>1, <1>5 DEF Pending, Counting
<1>8. /\ p \in Pending(u) /\ p \notin Counting(u)
      /\ Pending(u) \in SUBSET Sender /\ Counting(u) \in SUBSET Sender
  BY <1>1 DEF Pending, Counting
<1>9. /\ Cardinality(Pending(u) \ {p}) = Cardinality(Pending(u)) - 1
      /\ Cardinality(Counting(u) \cup {p}) = Cardinality(Counting(u)) + 1
      /\ Cardinality(Pending(u)) \in Nat /\ Cardinality(Counting(u)) \in Nat
  BY <1>8, SomeSenders, FS_AddElement, FS_RemoveElement
<1>10. OverrunIsInFlight'
  <2> SUFFICES ASSUME NEW t \in 1 .. MaxMonth
               PROVE  tally'.mails[t] + Cardinality(Pending(t)') <=
                        SendQuota + Cardinality(Sender) - 1 + tally.lost
    BY <1>3 DEF OverrunIsInFlight
  <2>1. tally.mails[t] + Cardinality(Pending(t)) <= SendQuota + Cardinality(Sender) - 1 + tally.lost
    BY DEF GateInvariant, OverrunIsInFlight
  <2>2. CASE t # u
    BY <1>3, <1>7, <2>1, <2>2
  <2>3. CASE t = u
    <3>1. tally'.mails[t] = tally.mails[t] + 1 /\ tally.mails[t] \in Nat
      BY <1>2, <1>3, <2>3 DEF GateInvariant, GateType
    <3>2. Cardinality(Pending(t)') = Cardinality(Pending(t)) - 1
      BY <1>7, <1>9, <2>3
    <3>3. QED
      BY <1>9, <2>1, <2>3, <3>1, <3>2
  <2>4. QED
    BY <2>2, <2>3
<1>11. MailsAreCounted'
  <2> SUFFICES ASSUME NEW t \in 1 .. MaxMonth, t = month
               PROVE  tally'.mails[t] <= sent[t] + tally.lost + Cardinality(Counting(t)')
    BY <1>1, <1>3 DEF MailsAreCounted
  <2>1. tally.mails[t] <= sent[t] + tally.lost + Cardinality(Counting(t))
    BY DEF GateInvariant, MailsAreCounted
  <2>2. CASE t # u
    BY <1>3, <1>7, <2>1, <2>2
  <2>3. CASE t = u
    <3>1. tally'.mails[t] = tally.mails[t] + 1
      BY <1>2, <1>3, <2>3, GateNumbers DEF GateInvariant, GateType
    <3>2. Cardinality(Counting(t)') = Cardinality(Counting(t)) + 1
      BY <1>7, <1>9, <2>3
    <3>3. QED
      BY <2>1, <3>1, <3>2, GateNumbers
  <2>4. QED
    BY <2>2, <2>3
<1>12. QED
  BY <1>4, <1>6, <1>10, <1>11 DEF GateInvariant

\* A count that is written or lost keeps it.
LEMMA CountSentKeeps ==
  ASSUME GateInvariant, NEW p \in Sender, NEW written \in BOOLEAN, CountSent(p, written)
  PROVE  GateInvariant'
<1> USE SendGateAssumption DEF SendGateAssumption
<1> DEFINE u == sends[p].month
<1>1. /\ sends[p].step = "count" /\ UNCHANGED <<month, entries, reports>>
      /\ sends' = [sends EXCEPT ![p] = Idle]
      /\ sent' = IF written THEN [sent EXCEPT ![month] = @ + 1] ELSE sent
      /\ tally' = IF written THEN tally ELSE [tally EXCEPT !.lost = @ + 1]
  BY DEF CountSent
<1>2. u \in 1 .. month /\ u \in 1 .. MaxMonth /\ month \in 1 .. MaxMonth
  BY <1>1 DEF GateInvariant, GateType, MonthsPass
<1>3. /\ tally'.mails = tally.mails /\ tally'.lost = tally.lost + (IF written THEN 0 ELSE 1)
      /\ sent'[month] = sent[month] + (IF written THEN 1 ELSE 0)
      /\ sent[month] \in Nat /\ tally.lost \in Nat /\ tally.mails \in [1 .. MaxMonth -> Nat]
  BY SMTT(30), <1>1, <1>2 DEF GateInvariant, GateType
<1>4. GateType'
  <2>1. sends' \in [Sender -> SendRecord] /\ sent' \in [1 .. MaxMonth -> Nat]
    BY SMTT(30), <1>1 DEF GateInvariant, GateType, SendRecord, Idle
  <2>2. /\ tally' = [sends |-> tally'.sends, reports |-> tally'.reports, mails |-> tally'.mails,
                     lost |-> tally'.lost]
        /\ tally'.sends \in Nat /\ tally'.reports \in Nat
    BY <1>1 DEF GateInvariant, GateType
  <2>3. tally'.lost \in Nat /\ tally'.mails \in [1 .. MaxMonth -> Nat]
    BY <1>3
  <2>4. QED
    BY <1>1, <2>1, <2>2, <2>3, TallyType DEF GateInvariant, GateType
<1>5. MonthsPass'
  BY <1>1, <1>3 DEF GateInvariant, GateType, MonthsPass, Idle
<1>6. \A t \in 1 .. MaxMonth :
        /\ Pending(t)' = Pending(t)
        /\ Counting(t)' = IF t = u THEN Counting(t) \ {p} ELSE Counting(t)
  BY <1>1 DEF Pending, Counting, GateInvariant, GateType, Idle
<1>7. p \in Counting(u) /\ Counting(u) \in SUBSET Sender
  BY <1>1 DEF Counting
<1>8. /\ Cardinality(Counting(u) \ {p}) = Cardinality(Counting(u)) - 1
      /\ Cardinality(Counting(u)) \in Nat
  BY <1>7, SomeSenders, FS_RemoveElement
<1>a. tally'.lost \in Nat /\ tally'.lost >= tally.lost
  BY <1>3
<1>9. OverrunIsInFlight'
  <2> SUFFICES ASSUME NEW t \in 1 .. MaxMonth
               PROVE  tally.mails[t] + Cardinality(Pending(t)) <=
                        SendQuota + Cardinality(Sender) - 1 + tally'.lost
    BY <1>3, <1>6 DEF OverrunIsInFlight
  <2>1. QED
    BY <1>a, GateNumbers
<1>10. MailsAreCounted'
  <2> SUFFICES ASSUME NEW t \in 1 .. MaxMonth, t = month
               PROVE  tally.mails[t] <= sent'[t] + tally'.lost + Cardinality(Counting(t)')
    BY <1>1, <1>3 DEF MailsAreCounted
  <2>1. tally.mails[t] <= sent[t] + tally.lost + Cardinality(Counting(t))
    BY DEF GateInvariant, MailsAreCounted
  <2>2. /\ Cardinality(Counting(t)') >= Cardinality(Counting(t)) - 1
        /\ Cardinality(Counting(t)') \in Nat
    <3>1. CASE t # u
      BY <1>6, <3>1, GateNumbers
    <3>2. CASE t = u
      <4>1. Counting(t)' = Counting(t) \ {p} /\ Counting(u) \ {p} \in SUBSET Sender
        BY <1>6, <1>7, <3>2
      <4>2. Cardinality(Counting(u) \ {p}) \in Nat
        BY <4>1, SomeSenders
      <4>3. QED
        BY <1>8, <3>2, <4>1, <4>2
    <3>3. QED
      BY <3>1, <3>2
  <2>3. sent'[t] + tally'.lost = sent[t] + tally.lost + 1 /\ sent'[t] \in Nat
    BY <1>3
  <2>4. QED
    BY <1>a, <2>1, <2>2, <2>3, GateNumbers
<1>11. QED
  BY <1>4, <1>5, <1>9, <1>10 DEF GateInvariant

\* A bounce or an edit of the list: it changes nothing the quota depends on.
LEMMA ListKeeps ==
  ASSUME GateInvariant, entries' \in [Address -> Reason], UNCHANGED <<month, sent, sends>>,
         tally' = tally \/ tally' = [tally EXCEPT !.reports = @ + 1]
  PROVE  GateInvariant'
<1>1. tally'.mails = tally.mails /\ tally'.lost = tally.lost
  BY DEF GateInvariant, GateType
<1>2. GateType'
  BY DEF GateInvariant, GateType
<1>3. QED
  BY <1>1, <1>2 DEF GateInvariant, MonthsPass, OverrunIsInFlight, MailsAreCounted, Pending, Counting

\* Storing a bounce report keeps it.
LEMMA ReportStepKeeps == ASSUME GateInvariant, NEW r \in Reporter, ReportStep(r) PROVE GateInvariant'
<1>1. entries \in [Address -> Reason]
  BY DEF GateInvariant, GateType
<1>2. ASSUME NEW source \in {"dsn", "provider"}, NEW hard \in SUBSET Address,
             NEW soft \in SUBSET Address, ReportBegins(r, source, hard, soft)
      PROVE  GateInvariant'
  BY <1>1, <1>2, ListKeeps DEF ReportBegins, Work
<1>3. ASSUME NEW a \in Address, StoreHard(r, a) PROVE GateInvariant'
  BY <1>1, <1>3, ListKeeps DEF StoreHard, Work, Reason, Blocking
<1>4. ASSUME NEW a \in Address, TouchSoft(r, a) PROVE GateInvariant'
  BY <1>1, <1>4, ListKeeps DEF TouchSoft, Work
<1>5. ASSUME NEW a \in Address, InsertSoft(r, a) PROVE GateInvariant'
  BY <1>1, <1>5, ListKeeps DEF InsertSoft, Work, SoftReason, Reason
<1>6. ASSUME NEW a \in Address, StoreFails(r, a) PROVE GateInvariant'
  BY <1>1, <1>6, ListKeeps DEF StoreFails, Work
<1>7. QED
  BY <1>2, <1>3, <1>4, <1>5, <1>6 DEF ReportStep

\* An edit of the suppression list keeps it.
LEMMA EditKeeps ==
  ASSUME GateInvariant, NEW a \in Address, Edit(a, "manual") \/ Removed(a)
  PROVE  GateInvariant'
BY ListKeeps DEF Edit, Removed, GateInvariant, GateType, Reason, Blocking

\* Every step of the send gate keeps the invariant.
LEMMA GateInvariantNext == GateInvariant /\ [GateNext]_gateVars => GateInvariant'
<1>1. ASSUME GateInvariant, GateNext PROVE GateInvariant'
  BY <1>1, NewMonthKeeps, SendBeginsKeeps, CheckListKeeps, TakeMailKeeps, MailRefusedKeeps,
     CountSentKeeps, ReportStepKeeps, EditKeeps DEF GateNext, Send
<1>2. ASSUME GateInvariant, UNCHANGED gateVars PROVE GateInvariant'
  <2>1. UNCHANGED <<month, entries, sent, sends, tally>>
    BY <1>2 DEF gateVars
  <2>2. QED
    BY <1>2, <2>1, ListKeeps DEF GateInvariant, GateType
<1>3. QED
  BY <1>1, <1>2

(* However many clients send at once, and whatever counts are lost, the     *)
(* overrun of a month's quota is bounded by the requests in flight (the     *)
(* check and the count of core/usage.ts).                                   *)
THEOREM QuotaOverrunBounded == GateSpec => []QuotaOverrun
<1>1. GateInvariant => QuotaOverrun
  <2> SUFFICES ASSUME GateInvariant, NEW t \in 1 .. MaxMonth
               PROVE  tally.mails[t] <= SendQuota + Cardinality(Sender) - 1 + tally.lost
    BY DEF QuotaOverrun
  <2>1. QED
    BY GateNumbers
<1>2. QED
  BY <1>1, GateInvariantInit, GateInvariantNext, PTL DEF GateSpec

(* Whatever bounces are stored in between, an address that blocks is only    *)
(* unblocked by the account (db/suppressions.ts).                            *)
THEOREM BlocksAreKept == GateSpec => OnlyRemovalUnblocks
<1>1. GateInvariant /\ [GateNext]_gateVars =>
        [\A a \in Address : entries[a] \in Blocking /\ entries'[a] \notin Blocking => Removed(a)]_gateVars
  <2> SUFFICES ASSUME GateInvariant, GateNext, NEW a \in Address,
                      entries[a] \in Blocking, entries'[a] \notin Blocking
               PROVE  Removed(a)
    OBVIOUS
  <2>1. entries \in [Address -> Reason]
    BY DEF GateInvariant, GateType
  <2>2. ~NewMonth
    BY DEF NewMonth
  <2>3. ASSUME NEW p \in Sender, Send(p) PROVE FALSE
    BY <2>3 DEF Send, SendBegins, CheckList, TakeMail, MailRefused, CountSent
  <2>4. ASSUME NEW r \in Reporter, ReportStep(r) PROVE FALSE
    <3>1. ASSUME NEW b \in Address, StoreHard(r, b) PROVE FALSE
      BY <2>1, <3>1 DEF StoreHard, Blocking
    <3>2. ASSUME NEW b \in Address, InsertSoft(r, b) PROVE FALSE
      BY <2>1, <3>2 DEF InsertSoft, SoftReason, Blocking
    <3>3. ASSUME UNCHANGED entries PROVE FALSE
      BY <3>3
    <3>4. QED
      BY <2>4, <3>1, <3>2, <3>3 DEF ReportStep, ReportBegins, TouchSoft, StoreFails
  <2>5. ASSUME NEW b \in Address, Edit(b, "manual") PROVE FALSE
    BY <2>1, <2>5 DEF Edit, Blocking
  <2>6. ASSUME NEW b \in Address, Removed(b) PROVE Removed(a)
    BY <2>1, <2>6 DEF Edit, Removed
  <2>7. QED
    BY <2>2, <2>3, <2>4, <2>5, <2>6 DEF GateNext
<1>2. QED
  BY <1>1, GateInvariantInit, GateInvariantNext, PTL DEF GateSpec, OnlyRemovalUnblocks

-----------------------------------------------------------------------------
(* The webhooks: their rows *)

Row == [row : BOOLEAN, events : SUBSET Event, active : BOOLEAN]

RowEdit == [step : {"idle", "create", "update"}, hook : Hook \cup {First}, next : Row,
            fields : SUBSET {"events", "active"}]

Key == {<<w, m, e>> : w \in Hook, m \in Report, e \in Event}

RowType ==
    /\ hooks \in [Hook -> Row]
    /\ edits \in [Editor -> RowEdit]
    /\ past \in [asked : [Hook -> Row], crossed : SUBSET Hook, late : SUBSET Key, twice : SUBSET Key,
                 edits : Nat, made : SUBSET (Hook \cup {First})]

\* A webhook that was deleted does not come back: an identifier is made once.
RowsAreMade ==
    \A w \in Hook : IF hooks[w].row THEN w \in past.made ELSE hooks[w] = NoRow

EditsKnowTheirRow ==
    \A c \in Editor :
        /\ edits[c].step # "idle" => edits[c].hook \in Hook /\ edits[c].next.row
        /\ edits[c].step = "update" => edits[c].hook \in past.made
        /\ edits[c].step = "create" =>
             /\ edits[c].hook \notin past.made
             /\ \A d \in Editor \ {c} : edits[d].step = "create" => edits[d].hook # edits[c].hook

\* What an update leaves out is what the row it will write still holds.
UpdatesAreCurrent ==
    \A c \in Editor :
        LET e == edits[c]
        IN  e.step = "update" /\ e.hook \notin past.crossed /\ hooks[e.hook].row =>
              /\ "events" \notin e.fields => e.next.events = hooks[e.hook].events
              /\ "active" \notin e.fields => e.next.active = hooks[e.hook].active

RowInvariant ==
    RowType /\ RowsAreMade /\ EditsKnowTheirRow /\ UpdatesAreCurrent /\ LostUpdateNeedsOverlap

\* Two rows that agree on every field are the same.
LEMMA SameRow ==
  ASSUME NEW a \in Row, NEW b \in Row, a.row = b.row, a.events = b.events, a.active = b.active
  PROVE  a = b
BY DEF Row

\* The absent row and the idle client are of their types.
LEMMA RowConstants ==
  /\ NoRow \in Row /\ ~NoRow.row
  /\ Still \in RowEdit /\ Still.step = "idle"
BY DEF NoRow, Row, Still, RowEdit

\* The invariant of the webhook rows holds at first.
LEMMA RowInvariantInit == HookInit => RowInvariant
<1> SUFFICES ASSUME HookInit PROVE RowInvariant
  OBVIOUS
<1>1. \A w \in Hook : hooks[w] = IF w = First THEN [row |-> TRUE, events |-> Event, active |-> TRUE] ELSE NoRow
  BY DEF HookInit
<1>2. hooks \in [Hook -> Row]
  BY DEF HookInit, Row, NoRow
<1>3. edits \in [Editor -> RowEdit] /\ \A c \in Editor : edits[c].step = "idle"
  BY RowConstants DEF HookInit
<1>4. /\ past.asked = hooks /\ past.crossed = {} /\ past.made = {First}
      /\ past \in [asked : [Hook -> Row], crossed : SUBSET Hook, late : SUBSET Key, twice : SUBSET Key,
                   edits : Nat, made : SUBSET (Hook \cup {First})]
  BY <1>2 DEF HookInit
<1>5. RowType
  BY <1>2, <1>3, <1>4 DEF RowType
<1>6. RowsAreMade
  BY <1>1, <1>4, RowConstants DEF RowsAreMade
<1>7. EditsKnowTheirRow /\ UpdatesAreCurrent /\ LostUpdateNeedsOverlap
  BY <1>3, <1>4 DEF EditsKnowTheirRow, UpdatesAreCurrent, LostUpdateNeedsOverlap
<1>8. QED
  BY <1>5, <1>6, <1>7 DEF RowInvariant

\* What an edit that begins does to the rows and the history: nothing.
LEMMA BegunEdit ==
  ASSUME RowInvariant, NEW c \in Editor, NEW e \in RowEdit, EditBegins(c, e)
  PROVE  /\ edits[c].step = "idle" /\ edits' = [edits EXCEPT ![c] = e] /\ UNCHANGED hooks
         /\ past'.asked = past.asked /\ past'.crossed = past.crossed /\ past'.made = past.made
         /\ past'.late = past.late /\ past'.twice = past.twice
         /\ RowType'
<1>1. /\ edits[c] = Still /\ edits' = [edits EXCEPT ![c] = e] /\ UNCHANGED <<hooks, gone, due, jobs>>
      /\ past' = [past EXCEPT !.edits = @ + 1]
  BY DEF EditBegins
<1>2. /\ past'.asked = past.asked /\ past'.crossed = past.crossed /\ past'.made = past.made
      /\ past'.late = past.late /\ past'.twice = past.twice /\ past'.edits = past.edits + 1
      /\ past' = [asked |-> past'.asked, crossed |-> past'.crossed, late |-> past'.late,
                  twice |-> past'.twice, edits |-> past'.edits, made |-> past'.made]
  BY <1>1 DEF RowInvariant, RowType
<1>3. past'.edits \in Nat
  BY <1>2 DEF RowInvariant, RowType
<1>4. RowType'
  BY <1>1, <1>2, <1>3 DEF RowInvariant, RowType
<1>5. QED
  BY <1>1, <1>2, <1>4, RowConstants

\* A create that begins takes an identifier nobody has.
LEMMA CreateStartKeepsRows ==
  ASSUME RowInvariant, NEW c \in Editor, NEW w \in Hook, NEW events \in SUBSET Event,
         CreateStart(c, w, events)
  PROVE  RowInvariant'
<1> DEFINE e == [Still EXCEPT !.step = "create", !.hook = w,
                   !.next = [row |-> TRUE, events |-> events, active |-> TRUE]]
<1>1. /\ w \notin past.made /\ EditBegins(c, e)
      /\ \A d \in Editor : edits[d].step = "create" => edits[d].hook # w
  BY DEF CreateStart
<1>2. e \in RowEdit /\ e.step = "create" /\ e.hook = w /\ e.next.row
  BY DEF Still, RowEdit, Row
<1> HIDE DEF e
<1>3. /\ edits' = [edits EXCEPT ![c] = e] /\ UNCHANGED hooks /\ RowType'
      /\ past'.asked = past.asked /\ past'.crossed = past.crossed /\ past'.made = past.made
  BY <1>1, <1>2, BegunEdit
<1>4. edits'[c] = e /\ \A d \in Editor \ {c} : edits'[d] = edits[d]
  BY <1>3 DEF RowInvariant, RowType
<1>5. RowsAreMade' /\ LostUpdateNeedsOverlap'
  BY <1>3 DEF RowInvariant, RowsAreMade, LostUpdateNeedsOverlap
<1>6. EditsKnowTheirRow'
  BY <1>1, <1>2, <1>3, <1>4 DEF RowInvariant, EditsKnowTheirRow
<1>7. UpdatesAreCurrent'
  BY <1>2, <1>3, <1>4 DEF RowInvariant, UpdatesAreCurrent
<1>8. QED
  BY <1>3, <1>5, <1>6, <1>7 DEF RowInvariant

\* An update that begins has read the row it will write.
LEMMA UpdateStartKeepsRows ==
  ASSUME RowInvariant, NEW c \in Editor, NEW w \in Hook, NEW events \in SUBSET Event,
         NEW active \in BOOLEAN, NEW fields \in SUBSET {"events", "active"},
         UpdateStart(c, w, events, active, fields)
  PROVE  RowInvariant'
<1> DEFINE n == [row |-> TRUE,
                 events |-> IF "events" \in fields THEN events ELSE hooks[w].events,
                 active |-> IF "active" \in fields THEN active ELSE hooks[w].active]
           e == [step |-> "update", hook |-> w, fields |-> fields, next |-> n]
<1>1. hooks[w].row /\ EditBegins(c, e)
  BY DEF UpdateStart, Rows
<1>2. /\ n \in Row /\ n.row
      /\ "events" \notin fields => n.events = hooks[w].events
      /\ "active" \notin fields => n.active = hooks[w].active
  BY DEF Row, RowInvariant, RowType
<1> HIDE DEF n
<1>3. /\ e \in RowEdit /\ e.step = "update" /\ e.hook = w /\ e.next = n /\ e.fields = fields
  BY <1>2 DEF RowEdit
<1> HIDE DEF e
<1>4. /\ edits' = [edits EXCEPT ![c] = e] /\ UNCHANGED hooks /\ RowType'
      /\ past'.asked = past.asked /\ past'.crossed = past.crossed /\ past'.made = past.made
  BY <1>1, <1>3, BegunEdit
<1>5. edits'[c] = e /\ \A d \in Editor \ {c} : edits'[d] = edits[d]
  BY <1>4 DEF RowInvariant, RowType
<1>6. RowsAreMade' /\ LostUpdateNeedsOverlap'
  BY <1>4 DEF RowInvariant, RowsAreMade, LostUpdateNeedsOverlap
<1>7. EditsKnowTheirRow'
  <2>1. w \in past.made
    BY <1>1 DEF RowInvariant, RowsAreMade
  <2>2. QED
    BY <1>2, <1>3, <1>4, <1>5, <2>1 DEF RowInvariant, EditsKnowTheirRow
<1>8. UpdatesAreCurrent'
  BY <1>2, <1>3, <1>4, <1>5 DEF RowInvariant, UpdatesAreCurrent
<1>9. QED
  BY <1>4, <1>6, <1>7, <1>8 DEF RowInvariant

\* Inserting the row keeps the invariant: no update can know it yet.
LEMMA CreateEndKeepsRows ==
  ASSUME RowInvariant, NEW c \in Editor, CreateEnd(c)
  PROVE  RowInvariant'
<1> DEFINE w == edits[c].hook
           n == edits[c].next
<1>1. /\ edits[c].step = "create" /\ hooks' = [hooks EXCEPT ![w] = n]
      /\ past' = [past EXCEPT !.asked[w] = n, !.made = @ \cup {w}]
      /\ edits' = [edits EXCEPT ![c] = Still]
  BY DEF CreateEnd, EditEnds
<1>2. w \in Hook /\ n \in Row /\ n.row /\ w \notin past.made
  BY <1>1 DEF RowInvariant, RowType, RowEdit, EditsKnowTheirRow
<1>3. /\ past'.asked = [past.asked EXCEPT ![w] = n] /\ past'.crossed = past.crossed
      /\ past'.made = past.made \cup {w} /\ past'.late = past.late /\ past'.twice = past.twice
      /\ past'.edits = past.edits
      /\ past' = [asked |-> past'.asked, crossed |-> past'.crossed, late |-> past'.late,
                  twice |-> past'.twice, edits |-> past'.edits, made |-> past'.made]
  BY <1>1 DEF RowInvariant, RowType
<1>4. /\ edits'[c].step = "idle" /\ \A d \in Editor \ {c} : edits'[d] = edits[d]
      /\ hooks'[w] = n /\ \A v \in Hook \ {w} : hooks'[v] = hooks[v]
  BY <1>1, <1>2, RowConstants DEF RowInvariant, RowType
<1>5. RowType'
  BY <1>1, <1>2, <1>3, RowConstants DEF RowInvariant, RowType
<1>6. RowsAreMade'
  BY <1>2, <1>3, <1>4 DEF RowInvariant, RowsAreMade
<1>7. EditsKnowTheirRow'
  BY <1>1, <1>2, <1>3, <1>4 DEF RowInvariant, EditsKnowTheirRow
<1>8. UpdatesAreCurrent'
  BY <1>2, <1>3, <1>4 DEF RowInvariant, EditsKnowTheirRow, UpdatesAreCurrent
<1>9. LostUpdateNeedsOverlap'
  BY <1>1, <1>2, <1>3 DEF RowInvariant, RowType, LostUpdateNeedsOverlap
<1>10. QED
  BY <1>5, <1>6, <1>7, <1>8, <1>9 DEF RowInvariant

\* Writing the row keeps it: another update of the row is crossed from now on.
LEMMA UpdateEndKeepsRows ==
  ASSUME RowInvariant, NEW c \in Editor, UpdateEnd(c)
  PROVE  RowInvariant'
<1> DEFINE e == edits[c]
           w == e.hook
           others == {d \in Editor \ {c} : edits[d].step = "update" /\ edits[d].hook = w}
           old == past.asked[w]
           new == Asked(old, e)
<1>1. /\ e.step = "update" /\ hooks' = [hooks EXCEPT ![w] = UpdatedRow(w, e.next)]
      /\ edits' = [edits EXCEPT ![c] = Still]
  BY DEF UpdateEnd, EditEnds
<1>a. past' = [past EXCEPT !.asked[w] = new, !.crossed = IF others # {} THEN @ \cup {w} ELSE @]
  BY DEF UpdateEnd
<1>2. /\ e \in RowEdit /\ w \in Hook /\ e.next \in Row /\ e.next.row /\ w \in past.made /\ old \in Row
  BY <1>1 DEF RowInvariant, RowType, RowEdit, EditsKnowTheirRow
<1>3. /\ new \in Row
      /\ old.row => /\ new.row
                    /\ new.events = IF "events" \in e.fields THEN e.next.events ELSE old.events
                    /\ new.active = IF "active" \in e.fields THEN e.next.active ELSE old.active
      /\ ~old.row => new = old
  BY <1>2 DEF Row, Asked
<1> HIDE DEF new
<1>4. /\ past'.asked = [past.asked EXCEPT ![w] = new]
      /\ past'.crossed = IF others # {} THEN past.crossed \cup {w} ELSE past.crossed
      /\ past'.made = past.made /\ past'.late = past.late /\ past'.twice = past.twice
      /\ past'.edits = past.edits
      /\ past' = [asked |-> past'.asked, crossed |-> past'.crossed, late |-> past'.late,
                  twice |-> past'.twice, edits |-> past'.edits, made |-> past'.made]
  BY <1>a DEF RowInvariant, RowType
<1>5. /\ edits'[c].step = "idle" /\ \A d \in Editor \ {c} : edits'[d] = edits[d]
      /\ hooks'[w] = UpdatedRow(w, e.next) /\ \A v \in Hook \ {w} : hooks'[v] = hooks[v]
  BY <1>1, <1>2, RowConstants DEF RowInvariant, RowType
<1>6. UpdatedRow(w, e.next) \in Row /\ UpdatedRow(w, e.next).row = hooks[w].row
  BY <1>2, RowConstants DEF UpdatedRow, RowInvariant, RowType, Row
<1>7. RowType'
  BY <1>1, <1>2, <1>3, <1>4, <1>6, RowConstants DEF RowInvariant, RowType
<1>8. RowsAreMade'
  BY <1>2, <1>4, <1>5, <1>6 DEF RowInvariant, RowsAreMade, UpdatedRow
<1>9. EditsKnowTheirRow'
  BY <1>4, <1>5 DEF RowInvariant, EditsKnowTheirRow
<1>10. UpdatesAreCurrent'
  <2> SUFFICES ASSUME NEW d \in Editor, edits'[d].step = "update", edits'[d].hook \notin past'.crossed,
                      hooks'[edits'[d].hook].row
               PROVE  /\ "events" \notin edits'[d].fields =>
                           edits'[d].next.events = hooks'[edits'[d].hook].events
                      /\ "active" \notin edits'[d].fields =>
                           edits'[d].next.active = hooks'[edits'[d].hook].active
    BY DEF UpdatesAreCurrent
  <2>1. d # c /\ edits'[d] = edits[d]
    BY <1>5
  <2>2. edits[d].hook # w
    BY <1>2, <1>4, <2>1
  <2>3. edits[d].hook \in Hook /\ edits[d].hook \notin past.crossed
    BY <1>4, <2>1 DEF RowInvariant, EditsKnowTheirRow
  <2>4. hooks'[edits[d].hook] = hooks[edits[d].hook]
    BY <1>5, <2>2, <2>3
  <2>5. QED
    BY <2>1, <2>3, <2>4 DEF RowInvariant, UpdatesAreCurrent
<1>11. LostUpdateNeedsOverlap'
  <2> SUFFICES ASSUME NEW v \in Hook \ past'.crossed PROVE hooks'[v] = past'.asked[v]
    BY DEF LostUpdateNeedsOverlap
  <2>1. v \notin past.crossed /\ hooks[v] = past.asked[v]
    BY <1>4 DEF RowInvariant, LostUpdateNeedsOverlap
  <2>2. CASE v # w
    BY <1>2, <1>4, <1>5, <2>1, <2>2 DEF RowInvariant, RowType
  <2>3. CASE v = w /\ hooks[w].row
    <3>1. hooks'[w] = e.next /\ past'.asked[w] = new
      BY <1>2, <1>4, <1>5, <2>3 DEF UpdatedRow, RowInvariant, RowType
    <3>2. /\ "events" \notin e.fields => e.next.events = hooks[w].events
          /\ "active" \notin e.fields => e.next.active = hooks[w].active
      BY <1>1, <2>1, <2>3 DEF RowInvariant, UpdatesAreCurrent
    <3>3. new.row = e.next.row /\ new.events = e.next.events /\ new.active = e.next.active
      BY <1>2, <1>3, <2>1, <2>3, <3>2 DEF Row
    <3>4. QED
      BY <1>2, <1>3, <2>3, <3>1, <3>3, SameRow
  <2>4. CASE v = w /\ ~hooks[w].row
    <3>1. hooks'[w] = NoRow /\ hooks[w] = NoRow
      BY <1>2, <1>5, <2>4 DEF UpdatedRow, RowInvariant, RowsAreMade
    <3>2. past'.asked[w] = past.asked[w]
      BY <1>2, <1>3, <1>4, <2>1, <2>4 DEF RowInvariant, RowType
    <3>3. QED
      BY <2>1, <2>4, <3>1, <3>2
  <2>5. QED
    BY <2>2, <2>3, <2>4
<1>12. QED
  BY <1>7, <1>8, <1>9, <1>10, <1>11 DEF RowInvariant

\* Deleting a row keeps it.
LEMMA DeleteKeepsRows ==
  ASSUME RowInvariant, NEW w \in Hook, Delete(w)
  PROVE  RowInvariant'
<1>1. /\ hooks' = [hooks EXCEPT ![w] = NoRow] /\ UNCHANGED edits
      /\ past' = [past EXCEPT !.asked[w] = NoRow]
  BY DEF Delete
<1>2. /\ past'.asked = [past.asked EXCEPT ![w] = NoRow] /\ past'.crossed = past.crossed
      /\ past'.made = past.made /\ past'.late = past.late /\ past'.twice = past.twice
      /\ past'.edits = past.edits
      /\ past' = [asked |-> past'.asked, crossed |-> past'.crossed, late |-> past'.late,
                  twice |-> past'.twice, edits |-> past'.edits, made |-> past'.made]
  BY <1>1 DEF RowInvariant, RowType
<1>3. hooks'[w] = NoRow /\ \A v \in Hook \ {w} : hooks'[v] = hooks[v]
  BY <1>1 DEF RowInvariant, RowType
<1>4. RowType'
  BY <1>1, <1>2, RowConstants DEF RowInvariant, RowType
<1>5. RowsAreMade' /\ EditsKnowTheirRow'
  BY <1>1, <1>2, <1>3, RowConstants DEF RowInvariant, RowsAreMade, EditsKnowTheirRow
<1>6. UpdatesAreCurrent'
  BY <1>1, <1>2, <1>3, RowConstants DEF RowInvariant, EditsKnowTheirRow, UpdatesAreCurrent
<1>7. LostUpdateNeedsOverlap'
  BY <1>1, <1>2 DEF RowInvariant, RowType, LostUpdateNeedsOverlap
<1>8. QED
  BY <1>4, <1>5, <1>6, <1>7 DEF RowInvariant

\* The queue and the consumer only read the rows.
LEMMA ConsumerKeepsRows ==
  ASSUME RowInvariant, UNCHANGED <<hooks, edits>>, past'.asked = past.asked,
         past'.crossed = past.crossed, past'.made = past.made,
         past' \in [asked : [Hook -> Row], crossed : SUBSET Hook, late : SUBSET Key, twice : SUBSET Key,
                    edits : Nat, made : SUBSET (Hook \cup {First})]
  PROVE  RowInvariant'
BY DEF RowInvariant, RowType, RowsAreMade, EditsKnowTheirRow, UpdatesAreCurrent, LostUpdateNeedsOverlap

-----------------------------------------------------------------------------
(* The webhooks: their jobs *)

Job == [hook : Hook, mail : Report, event : Event, attempts : Nat, loaded : BOOLEAN]


\* An event happens once, so a delivery has one job, and only once it has happened.
JobsAreUnique ==
    /\ jobs \subseteq Job /\ due \subseteq Report \X Event
    /\ \A i, j \in jobs : KeyOf(i) = KeyOf(j) => i = j
    /\ \A j \in jobs : j.hook \in past.made /\ <<j.mail, j.event>> \notin due

\* A delivery that reached its endpoint after its webhook was deleted is not loaded
\* again: the webhook stays deleted, and every load reads it first.
LateIsOver ==
    \A k \in past.late :
        /\ k[1] \in past.made /\ ~hooks[k[1]].row
        /\ <<k[2], k[3]>> \notin due
        /\ \A j \in jobs : KeyOf(j) = k => ~j.loaded

JobInvariant == RowInvariant /\ JobsAreUnique /\ LateIsOver /\ NoRetryAfterDelete

\* The invariant of the jobs holds at first.
LEMMA JobInvariantInit == HookInit => JobInvariant
<1> SUFFICES ASSUME HookInit PROVE JobInvariant
  OBVIOUS
<1>1. due \subseteq Report \X Event
  BY DEF HookInit, Event
<1>2. jobs = {} /\ past.late = {} /\ past.twice = {}
  BY DEF HookInit
<1>3. QED
  BY <1>1, <1>2, RowInvariantInit DEF JobInvariant, JobsAreUnique, LateIsOver, NoRetryAfterDelete

\* A step of a row's editor leaves the queue alone, and brings no row back that was
\* made before.
LEMMA EditorKeepsJobs ==
  ASSUME JobInvariant, RowInvariant', UNCHANGED <<due, jobs>>,
         past'.late = past.late, past'.twice = past.twice,
         past.made \subseteq past'.made,
         \A w \in Hook : w \in past.made /\ ~hooks[w].row => ~hooks'[w].row
  PROVE  JobInvariant'
<1>1. JobsAreUnique'
  BY DEF JobInvariant, JobsAreUnique
<1>2. LateIsOver'
  <2> SUFFICES ASSUME NEW k \in past.late
               PROVE  /\ k[1] \in past'.made /\ ~hooks'[k[1]].row
                      /\ <<k[2], k[3]>> \notin due
                      /\ \A j \in jobs : KeyOf(j) = k => ~j.loaded
    BY DEF LateIsOver
  <2>1. k[1] \in Hook
    BY DEF JobInvariant, RowInvariant, RowType, Key
  <2>2. QED
    BY <2>1 DEF JobInvariant, LateIsOver
<1>3. QED
  BY <1>1, <1>2 DEF JobInvariant, NoRetryAfterDelete

\* No create, update or delete of a webhook disturbs the queue.
LEMMA EditorsKeepJobs ==
  ASSUME JobInvariant,
         \/ \E c \in Editor, w \in Hook, events \in SUBSET Event : CreateStart(c, w, events)
         \/ \E c \in Editor, w \in Hook, events \in SUBSET Event, active \in BOOLEAN,
               fields \in SUBSET {"events", "active"} : UpdateStart(c, w, events, active, fields)
         \/ \E c \in Editor : CreateEnd(c) \/ UpdateEnd(c)
         \/ \E w \in Hook : Delete(w)
  PROVE  JobInvariant'
<1> USE DEF JobInvariant
<1>1. past \in [asked : [Hook -> Row], crossed : SUBSET Hook, late : SUBSET Key, twice : SUBSET Key,
                edits : Nat, made : SUBSET (Hook \cup {First})]
  BY DEF RowInvariant, RowType
<1>2. ASSUME NEW c \in Editor, NEW w \in Hook, NEW events \in SUBSET Event, CreateStart(c, w, events)
      PROVE  JobInvariant'
  <2>1. RowInvariant'
    BY <1>2, CreateStartKeepsRows
  <2>2. UNCHANGED <<hooks, due, jobs>> /\ past' = [past EXCEPT !.edits = @ + 1]
    BY <1>2 DEF CreateStart, EditBegins
  <2>3. past'.late = past.late /\ past'.twice = past.twice /\ past'.made = past.made
    BY <1>1, <2>2
  <2>4. QED
    BY <2>1, <2>2, <2>3, EditorKeepsJobs
<1>3. ASSUME NEW c \in Editor, NEW w \in Hook, NEW events \in SUBSET Event, NEW active \in BOOLEAN,
             NEW fields \in SUBSET {"events", "active"}, UpdateStart(c, w, events, active, fields)
      PROVE  JobInvariant'
  <2>1. RowInvariant'
    BY <1>3, UpdateStartKeepsRows
  <2>2. UNCHANGED <<hooks, due, jobs>> /\ past' = [past EXCEPT !.edits = @ + 1]
    BY <1>3 DEF UpdateStart, EditBegins
  <2>3. past'.late = past.late /\ past'.twice = past.twice /\ past'.made = past.made
    BY <1>1, <2>2
  <2>4. QED
    BY <2>1, <2>2, <2>3, EditorKeepsJobs
<1>4. ASSUME NEW c \in Editor, CreateEnd(c) PROVE JobInvariant'
  <2>1. RowInvariant'
    BY <1>4, CreateEndKeepsRows
  <2>2. /\ hooks' = [hooks EXCEPT ![edits[c].hook] = edits[c].next] /\ UNCHANGED <<due, jobs>>
        /\ past' = [past EXCEPT !.asked[edits[c].hook] = edits[c].next, !.made = @ \cup {edits[c].hook}]
        /\ edits[c].step = "create"
    BY <1>4 DEF CreateEnd, EditEnds
  <2>3. past'.late = past.late /\ past'.twice = past.twice /\ past.made \subseteq past'.made
    BY <1>1, <2>2
  <2>4. edits[c].hook \notin past.made
    BY <2>2 DEF RowInvariant, EditsKnowTheirRow
  <2>5. \A w \in Hook : w \in past.made /\ ~hooks[w].row => ~hooks'[w].row
    BY <2>2, <2>4 DEF RowInvariant, RowType
  <2>6. QED
    BY <2>1, <2>2, <2>3, <2>5, EditorKeepsJobs
<1>5. ASSUME NEW c \in Editor, UpdateEnd(c) PROVE JobInvariant'
  <2>1. RowInvariant'
    BY <1>5, UpdateEndKeepsRows
  <2> DEFINE w == edits[c].hook
  <2>2. /\ hooks' = [hooks EXCEPT ![w] = UpdatedRow(w, edits[c].next)] /\ UNCHANGED <<due, jobs>>
        /\ \E x, y : past' = [past EXCEPT !.asked[w] = x, !.crossed = y]
    BY <1>5 DEF UpdateEnd, EditEnds
  <2>3. past'.late = past.late /\ past'.twice = past.twice /\ past'.made = past.made
    BY <1>1, <2>2
  <2>4. \A v \in Hook : ~hooks[v].row => ~hooks'[v].row
    BY <2>2, RowConstants DEF UpdatedRow, RowInvariant, RowType
  <2>5. QED
    BY <2>1, <2>2, <2>3, <2>4, EditorKeepsJobs
<1>6. ASSUME NEW w \in Hook, Delete(w) PROVE JobInvariant'
  <2>1. RowInvariant'
    BY <1>6, DeleteKeepsRows
  <2>2. /\ hooks' = [hooks EXCEPT ![w] = NoRow] /\ UNCHANGED <<due, jobs>>
        /\ past' = [past EXCEPT !.asked[w] = NoRow]
    BY <1>6 DEF Delete
  <2>3. past'.late = past.late /\ past'.twice = past.twice /\ past'.made = past.made
    BY <1>1, <2>2
  <2>4. \A v \in Hook : ~hooks[v].row => ~hooks'[v].row
    BY <2>2, RowConstants DEF RowInvariant, RowType
  <2>5. QED
    BY <2>1, <2>2, <2>3, <2>4, EditorKeepsJobs
<1>7. QED
  BY <1>2, <1>3, <1>4, <1>5, <1>6

\* An event puts one job on the queue for each webhook that is there.
LEMMA EmitKeepsJobs ==
  ASSUME JobInvariant, NEW m \in Report, NEW event \in Event, NEW taken \in BOOLEAN, Emit(m, event, taken)
  PROVE  JobInvariant'
<1> USE DEF JobInvariant
<1>1. /\ <<m, event>> \in due /\ due' = due \ {<<m, event>>} /\ UNCHANGED <<hooks, gone, edits, past>>
      /\ jobs' = jobs \/ jobs' = jobs \cup Emitted(m, event)
  BY DEF Emit
<1>2. RowInvariant'
  BY <1>1, ConsumerKeepsRows DEF RowInvariant, RowType
<1>3. ASSUME NEW j \in Emitted(m, event)
      PROVE  j \in Job /\ j.mail = m /\ j.event = event /\ ~j.loaded /\ hooks[j.hook].row
  <2>1. PICK w \in Hook : /\ hooks[w].row
                          /\ j = [hook |-> w, mail |-> m, event |-> event, attempts |-> 1, loaded |-> FALSE]
    BY <1>3 DEF Emitted, Live
  <2>2. QED
    BY <2>1 DEF Job
<1>4. ASSUME NEW i \in Emitted(m, event), NEW j \in Emitted(m, event), KeyOf(i) = KeyOf(j)
      PROVE  i = j
  <2> DEFINE made(w) == [hook |-> w, mail |-> m, event |-> event, attempts |-> 1, loaded |-> FALSE]
  <2>1. PICK v \in Hook : i = made(v)
    BY DEF Emitted
  <2>2. PICK w \in Hook : j = made(w)
    BY DEF Emitted
  <2>3. i.hook = v /\ j.hook = w
    BY <2>1, <2>2
  <2>4. v = w
    BY <1>4, <2>3 DEF KeyOf
  <2>5. QED
    BY <2>1, <2>2, <2>4
<1>5. ASSUME NEW i \in jobs, NEW j \in Emitted(m, event) PROVE KeyOf(i) # KeyOf(j)
  BY <1>1, <1>3 DEF JobsAreUnique, KeyOf
<1>6. \A j \in Emitted(m, event) : j.hook \in past.made
  BY <1>3 DEF RowInvariant, RowsAreMade, Job
<1>7. JobsAreUnique'
  <2>1. \A j \in jobs' : j \in jobs \/ j \in Emitted(m, event)
    BY <1>1
  <2>2. jobs' \subseteq Job /\ due' \subseteq Report \X Event
    BY <1>1, <1>3 DEF JobsAreUnique
  <2>3. \A i, j \in jobs' : KeyOf(i) = KeyOf(j) => i = j
    BY <1>4, <1>5, <2>1 DEF JobsAreUnique
  <2>4. \A j \in jobs' : j.hook \in past.made /\ <<j.mail, j.event>> \notin due'
    BY <1>1, <1>3, <1>6, <2>1 DEF JobsAreUnique
  <2>5. QED
    BY <1>1, <2>2, <2>3, <2>4 DEF JobsAreUnique
<1>8. LateIsOver'
  BY <1>1, <1>3 DEF LateIsOver
<1>9. QED
  BY <1>1, <1>2, <1>7, <1>8 DEF NoRetryAfterDelete

\* A job that is handed on keeps its delivery.
LEMMA NextTry ==
  ASSUME NEW j \in Job, NEW k,
         k = [j EXCEPT !.loaded = TRUE]
           \/ k = [j EXCEPT !.loaded = FALSE, !.attempts = IF j.attempts <= MaxRetries THEN j.attempts + 1
                                                           ELSE j.attempts]
  PROVE  k \in Job /\ KeyOf(k) = KeyOf(j) /\ k.hook = j.hook /\ k.mail = j.mail /\ k.event = j.event
<1>1. CASE k = [j EXCEPT !.loaded = TRUE]
  BY <1>1 DEF Job, KeyOf
<1> DEFINE n == IF j.attempts <= MaxRetries THEN j.attempts + 1 ELSE j.attempts
<1>2. n \in Nat
  BY DEF Job
<1> HIDE DEF n
<1>3. CASE k = [j EXCEPT !.loaded = FALSE, !.attempts = n]
  BY <1>2, <1>3 DEF Job, KeyOf
<1>4. QED
  BY <1>1, <1>3 DEF n

\* A job gives way to another try of itself, or to nothing.
LEMMA ReplacedJob ==
  ASSUME JobsAreUnique, NEW j \in jobs, NEW S, due' = due, past'.made = past.made,
         jobs' = (jobs \ {j}) \cup S,
         \A k \in S : k \in Job /\ KeyOf(k) = KeyOf(j) /\ k.hook = j.hook /\ k.mail = j.mail
                      /\ k.event = j.event,
         \A i, k \in S : i = k
  PROVE  JobsAreUnique'
<1>1. \A k \in jobs' : k \in jobs \ {j} \/ k \in S
  OBVIOUS
<1>2. \A k \in jobs \ {j} : KeyOf(k) # KeyOf(j)
  BY DEF JobsAreUnique
<1>3. \A i, k \in jobs' : KeyOf(i) = KeyOf(k) => i = k
  BY <1>1, <1>2 DEF JobsAreUnique
<1>4. \A k \in jobs' : k \in Job /\ k.hook \in past.made /\ <<k.mail, k.event>> \notin due
  BY <1>1 DEF JobsAreUnique
<1>5. QED
  BY <1>3, <1>4 DEF JobsAreUnique

\* Loading a job reads the webhook first.
LEMMA LoadKeepsJobs ==
  ASSUME JobInvariant, NEW j \in jobs, Load(j)
  PROVE  JobInvariant'
<1> USE DEF JobInvariant
<1> DEFINE S == IF Deliverable(j) THEN {[j EXCEPT !.loaded = TRUE]} ELSE {}
<1>1. jobs' = (jobs \ {j}) \cup S /\ UNCHANGED <<hooks, gone, due, edits, past>>
  BY DEF Load, Settle
<1>2. j \in Job
  BY DEF JobsAreUnique
<1>3. \A k \in S : k \in Job /\ KeyOf(k) = KeyOf(j) /\ k.hook = j.hook /\ k.mail = j.mail
                   /\ k.event = j.event
  BY <1>2, NextTry
<1>4. (\A i, k \in S : i = k) /\ (S # {} => hooks[j.hook].row)
  BY DEF Deliverable, Live
<1> HIDE DEF S
<1>5. JobsAreUnique'
  BY <1>1, <1>3, <1>4, ReplacedJob
<1>6. RowInvariant'
  BY <1>1, ConsumerKeepsRows DEF RowInvariant, RowType
<1>7. LateIsOver'
  <2> SUFFICES ASSUME NEW k \in past.late, NEW i \in jobs', KeyOf(i) = k
               PROVE  ~i.loaded
    BY <1>1 DEF LateIsOver
  <2>1. CASE i \in jobs
    BY <2>1 DEF LateIsOver
  <2>2. CASE i \in S
    <3>1. k[1] = j.hook
      BY <1>3, <2>2 DEF KeyOf
    <3>2. QED
      BY <1>4, <2>2, <3>1 DEF LateIsOver
  <2>3. QED
    BY <1>1, <2>1, <2>2
<1>8. QED
  BY <1>1, <1>5, <1>6, <1>7 DEF NoRetryAfterDelete

\* A post that reaches a deleted webhook is the last of its delivery.
LEMMA PostKeepsJobs ==
  ASSUME JobInvariant, NEW j \in jobs, NEW reached \in BOOLEAN, NEW answered \in BOOLEAN,
         Post(j, reached, answered)
  PROVE  JobInvariant'
<1> USE DEF JobInvariant
<1> DEFINE key == <<j.hook, j.mail, j.event>>
           late == reached /\ ~hooks[j.hook].row
           S == IF ~answered /\ RetriesLeft(j)
                THEN {[j EXCEPT !.loaded = FALSE,
                                !.attempts = IF j.attempts <= MaxRetries THEN j.attempts + 1 ELSE j.attempts]}
                ELSE {}
<1>1. /\ jobs' = (jobs \ {j}) \cup S /\ UNCHANGED <<hooks, gone, due, edits>> /\ j.loaded
      /\ past' = [past EXCEPT !.twice = IF late /\ key \in past.late THEN @ \cup {key} ELSE @,
                              !.late = IF late THEN @ \cup {key} ELSE @]
  BY DEF Post
<1>2. j \in Job /\ KeyOf(j) = key
  BY DEF JobsAreUnique, KeyOf
<1>3. key \in Key /\ key \notin past.late
  <2>1. j.hook \in Hook /\ j.mail \in Report /\ j.event \in Event
    BY <1>2 DEF Job
  <2>2. key \in Key
    BY <2>1 DEF Key
  <2>3. key \notin past.late
    BY <1>1, <1>2 DEF LateIsOver
  <2>4. QED
    BY <2>2, <2>3
<1>4. \A k \in S : k \in Job /\ KeyOf(k) = KeyOf(j) /\ k.hook = j.hook /\ k.mail = j.mail
                   /\ k.event = j.event
  BY <1>2, NextTry
<1>5. (\A i, k \in S : i = k) /\ (\A k \in S : ~k.loaded)
  BY <1>2 DEF Job
<1> HIDE DEF S
<1>6. /\ past'.late = IF late THEN past.late \cup {key} ELSE past.late
      /\ past'.twice = past.twice /\ past'.asked = past.asked /\ past'.crossed = past.crossed
      /\ past'.made = past.made /\ past'.edits = past.edits
      /\ past' = [asked |-> past'.asked, crossed |-> past'.crossed, late |-> past'.late,
                  twice |-> past'.twice, edits |-> past'.edits, made |-> past'.made]
  BY <1>1, <1>3 DEF RowInvariant, RowType
<1>7. RowInvariant'
  <2>1. past' \in [asked : [Hook -> Row], crossed : SUBSET Hook, late : SUBSET Key, twice : SUBSET Key,
                   edits : Nat, made : SUBSET (Hook \cup {First})]
    BY <1>3, <1>6 DEF RowInvariant, RowType
  <2>2. QED
    BY <1>1, <1>6, <2>1, ConsumerKeepsRows
<1>8. JobsAreUnique'
  BY <1>1, <1>4, <1>5, <1>6, ReplacedJob
<1>9. LateIsOver'
  <2> SUFFICES ASSUME NEW k \in past'.late
               PROVE  /\ k[1] \in past.made /\ ~hooks[k[1]].row
                      /\ <<k[2], k[3]>> \notin due
                      /\ \A i \in jobs' : KeyOf(i) = k => ~i.loaded
    BY <1>1, <1>6 DEF LateIsOver
  <2>1. CASE k \in past.late
    BY <1>1, <1>5, <2>1 DEF LateIsOver
  <2>2. CASE k = key /\ late
    <3>1. j.hook \in past.made /\ ~hooks[j.hook].row /\ <<j.mail, j.event>> \notin due
      BY <2>2 DEF JobsAreUnique
    <3>2. \A i \in jobs' : KeyOf(i) = key => i \in S
      BY <1>1, <1>2 DEF JobsAreUnique
    <3>3. QED
      BY <1>5, <2>2, <3>1, <3>2
  <2>3. QED
    BY <1>6, <2>1, <2>2
<1>10. QED
  BY <1>6, <1>7, <1>8, <1>9 DEF NoRetryAfterDelete

\* Deleting a message keeps it.
LEMMA DeleteReportKeepsJobs ==
  ASSUME JobInvariant, UNCHANGED <<hooks, due, jobs, edits, past>>
  PROVE  JobInvariant'
<1>1. RowInvariant'
  BY ConsumerKeepsRows DEF JobInvariant, RowInvariant, RowType
<1>2. QED
  BY <1>1 DEF JobInvariant, JobsAreUnique, LateIsOver, NoRetryAfterDelete

\* Every step of the webhooks keeps the invariant.
LEMMA JobInvariantNext == JobInvariant /\ [HookNext]_hookVars => JobInvariant'
<1>1. ASSUME JobInvariant, HookNext PROVE JobInvariant'
  <2>1. \A events \in {{"message.received"}, Event} : events \in SUBSET Event
    BY DEF Event
  <2>2. CASE \E c \in Editor, w \in Hook, events \in {{"message.received"}, Event} :
               \/ CreateStart(c, w, events)
               \/ \E active \in BOOLEAN, fields \in SUBSET {"events", "active"} :
                    UpdateStart(c, w, events, active, fields)
    BY <1>1, <2>1, <2>2, EditorsKeepJobs
  <2>3. CASE \E c \in Editor : CreateEnd(c) \/ UpdateEnd(c)
    BY <1>1, <2>3, EditorsKeepJobs
  <2>4. CASE \E w \in Hook : Delete(w)
    BY <1>1, <2>4, EditorsKeepJobs
  <2>5. CASE \E m \in Report : DeleteReport(m) \/ \E event \in Event, taken \in BOOLEAN : Emit(m, event, taken)
    BY <1>1, <2>5, DeleteReportKeepsJobs, EmitKeepsJobs DEF DeleteReport
  <2>6. CASE Consume
    BY <1>1, <2>6, LoadKeepsJobs, PostKeepsJobs DEF Consume
  <2>7. QED
    BY <1>1, <2>2, <2>3, <2>4, <2>5, <2>6 DEF HookNext
<1>2. ASSUME JobInvariant, UNCHANGED hookVars PROVE JobInvariant'
  BY <1>2, DeleteReportKeepsJobs DEF hookVars
<1>3. QED
  BY <1>1, <1>2

(* Whatever webhooks, clients and retries there are, an update is lost only  *)
(* to another one of the same webhook (updateWebhook).                       *)
THEOREM UpdatesLost == HookSpec => []LostUpdateNeedsOverlap
<1>1. JobInvariant => LostUpdateNeedsOverlap
  BY DEF JobInvariant, RowInvariant
<1>2. QED
  BY <1>1, JobInvariantInit, JobInvariantNext, PTL DEF HookSpec

(* A delivery reaches the endpoint of a deleted webhook at most once, however *)
(* often the queue hands its job out (deliverJob).                            *)
THEOREM DeletedIsNotRetried == HookSpec => []NoRetryAfterDelete
<1>1. JobInvariant => NoRetryAfterDelete
  BY DEF JobInvariant
<1>2. QED
  BY <1>1, JobInvariantInit, JobInvariantNext, PTL DEF HookSpec

-----------------------------------------------------------------------------
(* Webhooks: the tries of a delivery *)

\* No job was handed out more often than the queue hands one out.
TriesBounded == \A j \in jobs : j.attempts \in 1 .. (MaxRetries + 1)

QueueInvariant == JobInvariant /\ TriesBounded

\* A job that is in the queue says how many tries its delivery has left.
LEMMA TriesOfJob ==
  ASSUME JobsAreUnique, NEW j \in jobs
  PROVE  TriesLeft(KeyOf(j)) = MaxRetries + 2 - j.attempts
<1> DEFINE tries == {i \in jobs : KeyOf(i) = KeyOf(j)}
<1>1. tries = {j}
  BY DEF JobsAreUnique
<1> QED
  BY <1>1 DEF TriesLeft

\* A delivery without a job has none.
LEMMA TriesOfNone ==
  ASSUME NEW k, \A j \in jobs : KeyOf(j) # k
  PROVE  TriesLeft(k) = 0
BY DEF TriesLeft

\* The tries of a delivery are a matter of the jobs of that delivery.
LEMMA TriesSame ==
  ASSUME NEW k, \A j : KeyOf(j) = k => (j \in jobs <=> j \in jobs')
  PROVE  TriesLeft(k)' = TriesLeft(k)
<1>1. {j \in jobs : KeyOf(j) = k} = {j \in jobs' : KeyOf(j) = k}
  OBVIOUS
<1> DEFINE Tries(T) == IF T = {} THEN 0 ELSE MaxRetries + 2 - (CHOOSE j \in T : TRUE).attempts
<1>2. TriesLeft(k) = Tries({j \in jobs : KeyOf(j) = k})
  BY DEF TriesLeft
<1>3. TriesLeft(k)' = Tries({j \in jobs' : KeyOf(j) = k})
  BY DEF TriesLeft, KeyOf
<1> HIDE DEF Tries
<1> QED
  BY <1>1, <1>2, <1>3

\* At first the queue is empty.
LEMMA QueueInvariantInit == HookInit => QueueInvariant
BY JobInvariantInit DEF HookInit, QueueInvariant, TriesBounded

\* What a consumer does with a job: it drops it, loads it, or hands it back with a try less.
JobMoves(j, S) ==
    /\ jobs' = (jobs \ {j}) \cup S /\ due' = due
    /\ \/ S = {}
       \/ S = {[j EXCEPT !.loaded = TRUE]} /\ ~ j.loaded
       \/ S = {[j EXCEPT !.loaded = FALSE, !.attempts = j.attempts + 1]}
            /\ j.attempts <= MaxRetries /\ j.loaded

\* Load and Post are such moves.
LEMMA ConsumerMoves ==
  ASSUME QueueInvariant, NEW j \in jobs,
         Load(j) \/ \E reached, answered \in BOOLEAN : Post(j, reached, answered)
  PROVE  \E S : JobMoves(j, S)
<1>1. CASE Load(j)
  BY <1>1 DEF Load, Settle, JobMoves
<1>2. ASSUME NEW reached \in BOOLEAN, NEW answered \in BOOLEAN, Post(j, reached, answered)
      PROVE  \E S : JobMoves(j, S)
  <2>1. CASE answered \/ ~ RetriesLeft(j)
    <3>1. jobs' = (jobs \ {j}) \cup {} /\ due' = due
      BY <1>2, <2>1 DEF Post
    <3> QED
      BY <3>1 DEF JobMoves
  <2>2. CASE ~ answered /\ RetriesLeft(j)
    <3>1. j.attempts <= MaxRetries
      BY <2>2 DEF RetriesLeft
    <3>2. jobs' = (jobs \ {j}) \cup {[j EXCEPT !.loaded = FALSE, !.attempts = j.attempts + 1]}
          /\ due' = due /\ j.loaded
      BY <1>2, <2>2, <3>1 DEF Post
    <3> QED
      BY <3>1, <3>2 DEF JobMoves
  <2> QED
    BY <2>1, <2>2
<1> QED
  BY <1>1, <1>2

\* The job that follows is of the same delivery.
LEMMA MovedFacts ==
  ASSUME QueueInvariant, NEW j \in jobs, NEW S, JobMoves(j, S), NEW k \in S
  PROVE  /\ k \in Job /\ KeyOf(k) = KeyOf(j) /\ k.attempts \in 1 .. (MaxRetries + 1)
         /\ k.loaded => k.attempts = j.attempts /\ ~ j.loaded
         /\ ~ k.loaded => k.attempts = j.attempts + 1 /\ j.loaded
<1>1. j \in Job /\ j.attempts \in 1 .. (MaxRetries + 1) /\ MaxRetries \in Nat
  BY WebhookAssumption DEF QueueInvariant, JobInvariant, JobsAreUnique, TriesBounded
<1>2. CASE k = [j EXCEPT !.loaded = TRUE] /\ ~ j.loaded
  BY <1>1, <1>2 DEF Job, KeyOf
<1>n. PICK n : n = j.attempts + 1
  OBVIOUS
<1>3. CASE k = [j EXCEPT !.loaded = FALSE, !.attempts = n] /\ j.attempts <= MaxRetries /\ j.loaded
  <2>1. n \in 1 .. (MaxRetries + 1) /\ n \in Nat
    BY <1>1, <1>n, <1>3
  <2>2. k \in Job /\ KeyOf(k) = KeyOf(j) /\ k.attempts = n /\ ~ k.loaded
    BY <1>1, <1>3, <2>1 DEF Job, KeyOf
  <2> QED
    BY <1>n, <1>3, <2>1, <2>2
<1> QED
  BY <1>n, <1>2, <1>3 DEF JobMoves

\* A step of a consumer keeps the bound, moves the tries of one delivery, and moves them
\* by one, to none, or not at all; if it took a loaded job, it moved them.
LEMMA ConsumerTries ==
  ASSUME QueueInvariant, JobInvariant', NEW j \in jobs, NEW S, JobMoves(j, S)
  PROVE  /\ TriesBounded'
         /\ \A k : k # KeyOf(j) => TriesLeft(k)' = TriesLeft(k)
         /\ TriesLeft(KeyOf(j)) \in Nat /\ TriesLeft(KeyOf(j)) > 0
         /\ \/ TriesLeft(KeyOf(j))' = 0
            \/ TriesLeft(KeyOf(j))' = TriesLeft(KeyOf(j)) - 1
            \/ TriesLeft(KeyOf(j))' = TriesLeft(KeyOf(j)) /\ ~ j.loaded
<1>1. /\ j \in Job /\ j.attempts \in 1 .. (MaxRetries + 1) /\ MaxRetries \in Nat
      /\ \A i \in jobs : KeyOf(i) = KeyOf(j) => i = j
  BY WebhookAssumption DEF QueueInvariant, JobInvariant, JobsAreUnique, TriesBounded
<1>2. jobs' = (jobs \ {j}) \cup S
  BY DEF JobMoves
<1>3. TriesBounded'
  BY <1>2, MovedFacts DEF TriesBounded, QueueInvariant
<1>4. \A k : k # KeyOf(j) => TriesLeft(k)' = TriesLeft(k)
  <2> SUFFICES ASSUME NEW k, k # KeyOf(j) PROVE TriesLeft(k)' = TriesLeft(k)
    OBVIOUS
  <2>1. \A i : KeyOf(i) = k => (i \in jobs <=> i \in jobs')
    BY <1>2, MovedFacts
  <2> QED
    BY <2>1, TriesSame
<1>5. TriesLeft(KeyOf(j)) = MaxRetries + 2 - j.attempts
  BY TriesOfJob DEF QueueInvariant, JobInvariant
<1>6. CASE S = {}
  <2>1. \A i \in jobs' : KeyOf(i) # KeyOf(j)
    BY <1>1, <1>2, <1>6
  <2>2. TriesLeft(KeyOf(j))' = 0
    BY <2>1 DEF TriesLeft, KeyOf
  <2> QED
    BY <1>1, <1>3, <1>4, <1>5, <2>2
<1>7. ASSUME NEW k \in S PROVE TriesLeft(KeyOf(j))' = MaxRetries + 2 - k.attempts
  <2>1. k \in jobs' /\ KeyOf(k) = KeyOf(j)
    BY <1>2, MovedFacts
  <2>2. {i \in jobs' : KeyOf(i) = KeyOf(j)} = {k}
    BY <2>1 DEF JobInvariant, JobsAreUnique, KeyOf
  <2> QED
    BY <2>1, <2>2 DEF TriesLeft, KeyOf
<1>8. CASE S # {}
  <2>1. PICK k \in S : k.attempts \in 1 .. (MaxRetries + 1) /\ k \in Job
                       /\ (k.loaded => k.attempts = j.attempts /\ ~ j.loaded)
                       /\ (~ k.loaded => k.attempts = j.attempts + 1 /\ j.loaded)
    BY <1>8, MovedFacts
  <2>2. TriesLeft(KeyOf(j))' = MaxRetries + 2 - k.attempts
    BY <1>7
  <2>3. CASE ~ k.loaded
    BY <1>1, <1>3, <1>4, <1>5, <2>1, <2>2, <2>3
  <2>4. CASE k.loaded
    BY <1>1, <1>3, <1>4, <1>5, <2>1, <2>2, <2>4
  <2> QED
    BY <2>3, <2>4
<1> QED
  BY <1>6, <1>8

\* A step that is no consumer's adds, at most, a first try for deliveries whose event happens.
Starts == \E m \in Report, event \in Event :
            /\ <<m, event>> \in due /\ due' = due \ {<<m, event>>}
            /\ jobs' = jobs \/ jobs' = jobs \cup Emitted(m, event)

\* Every step is one of a consumer, starts deliveries, or leaves queue and events alone.
LEMMA StepKinds ==
  ASSUME [HookNext]_hookVars
  PROVE  \/ UNCHANGED <<due, jobs>>
         \/ Starts
         \/ \E j \in jobs : Load(j) \/ \E reached, answered \in BOOLEAN : Post(j, reached, answered)
<1>1. CASE \E c \in Editor, w \in Hook, events \in {{"message.received"}, Event} :
             \/ CreateStart(c, w, events)
             \/ \E active \in BOOLEAN, fields \in SUBSET {"events", "active"} :
                  UpdateStart(c, w, events, active, fields)
  BY <1>1 DEF CreateStart, UpdateStart, EditBegins
<1>2. CASE \E c \in Editor : CreateEnd(c) \/ UpdateEnd(c)
  BY <1>2 DEF CreateEnd, UpdateEnd, EditEnds
<1>3. CASE \E w \in Hook : Delete(w)
  BY <1>3 DEF Delete
<1>4. CASE \E m \in Report : DeleteReport(m) \/ \E event \in Event, taken \in BOOLEAN : Emit(m, event, taken)
  BY <1>4 DEF DeleteReport, Emit, Starts
<1>5. CASE Consume
  BY <1>5 DEF Consume
<1>6. CASE UNCHANGED hookVars
  BY <1>6 DEF hookVars
<1> QED
  BY <1>1, <1>2, <1>3, <1>4, <1>5, <1>6 DEF HookNext

\* The jobs of an event.
LEMMA EmittedFacts ==
  ASSUME NEW m \in Report, NEW event \in Event, NEW j \in Emitted(m, event)
  PROVE  j \in Job /\ j.attempts = 1 /\ ~ j.loaded /\ KeyOf(j) = <<j.hook, m, event>> /\ j.hook \in Hook
<1>1. PICK w \in Hook : j = [hook |-> w, mail |-> m, event |-> event, attempts |-> 1, loaded |-> FALSE]
  BY DEF Emitted
<1> QED
  BY <1>1 DEF Job, KeyOf

\* The mapping of HookDelivery.
Awaited == {k \in Deliveries : <<k[2], k[3]>> \in due}
Left == [k \in Deliveries |-> TriesLeft(k)]

\* A delivery that waits for its event has no job.
LEMMA AwaitedHasNone ==
  ASSUME JobsAreUnique, NEW k \in Deliveries, <<k[2], k[3]>> \in due
  PROVE  \A j \in jobs : KeyOf(j) # k
BY DEF JobsAreUnique, KeyOf

\* Deliveries start with their event, with all their tries.
LEMMA StartsHappen ==
  ASSUME QueueInvariant, JobInvariant', Starts
  PROVE  TriesBounded' /\ Queue!Happen
<1>1. PICK m \in Report, event \in Event :
        /\ <<m, event>> \in due /\ due' = due \ {<<m, event>>}
        /\ jobs' = jobs \/ jobs' = jobs \cup Emitted(m, event)
  BY DEF Starts
<1>2. \A j \in jobs' : j \in jobs \/ j \in Emitted(m, event)
  BY <1>1
<1>3. TriesBounded'
  BY <1>2, EmittedFacts, WebhookAssumption DEF TriesBounded, QueueInvariant
<1> DEFINE started == {k \in Awaited : \E j \in jobs' : KeyOf(j) = k}
<1>4. Awaited' \subseteq Awaited
  BY <1>1 DEF Awaited
<1>5. ASSUME NEW k \in started PROVE k \notin Awaited' /\ TriesLeft(k)' = MaxRetries + 1
  <2>1. k \in Deliveries /\ <<k[2], k[3]>> \in due
    BY DEF Awaited
  <2>2. PICK j \in jobs' : KeyOf(j) = k
    OBVIOUS
  <2>3. j \notin jobs
    BY <2>1, <2>2, AwaitedHasNone DEF QueueInvariant, JobInvariant
  <2>4. j \in Emitted(m, event)
    BY <1>2, <2>3
  <2>5. j.attempts = 1 /\ k[2] = m /\ k[3] = event
    BY <2>2, <2>4, EmittedFacts
  <2>6. k \notin Awaited'
    BY <1>1, <2>5 DEF Awaited
  <2>7. {i \in jobs' : KeyOf(i) = k} = {j}
    BY <2>2 DEF JobInvariant, JobsAreUnique, KeyOf
  <2>8. TriesLeft(k)' = MaxRetries + 2 - j.attempts
    BY <2>7 DEF TriesLeft, KeyOf
  <2> QED
    BY <2>5, <2>6, <2>8, WebhookAssumption
<1>6. ASSUME NEW k \in Deliveries, k \notin started PROVE TriesLeft(k)' = TriesLeft(k)
  <2>1. ASSUME NEW j, KeyOf(j) = k, j \in jobs', j \notin jobs PROVE FALSE
    <3>1. j \in Emitted(m, event)
      BY <1>2, <2>1
    <3>2. k[2] = m /\ k[3] = event
      BY <2>1, <3>1, EmittedFacts
    <3>3. k \in Awaited
      BY <1>1, <3>2 DEF Awaited
    <3> QED
      BY <1>6, <2>1, <3>3
  <2>2. \A j : KeyOf(j) = k => (j \in jobs <=> j \in jobs')
    BY <1>1, <2>1
  <2> QED
    BY <2>2, TriesSame
<1>7. started \in SUBSET (Awaited \ Awaited')
  BY <1>5
<1>8. Left' = [k \in Deliveries |-> IF k \in started THEN MaxRetries + 1 ELSE Left[k]]
  BY <1>5, <1>6 DEF Left
<1> HIDE DEF started
<1>9. Queue!Happen
  BY <1>4, <1>7, <1>8 DEF Queue!Happen, Awaited, Left
<1> QED
  BY <1>3, <1>9

\* A consumer takes a try from one delivery, gives it up, or has only loaded it.
LEMMA ConsumersTry ==
  ASSUME QueueInvariant, JobInvariant', NEW j \in jobs, NEW S, JobMoves(j, S)
  PROVE  [Queue!Next]_(Queue!vars)
<1> DEFINE k == KeyOf(j)
<1>1. k \in Deliveries
  BY DEF QueueInvariant, JobInvariant, JobsAreUnique, Job, KeyOf, Deliveries
<1>2. Awaited' = Awaited
  BY DEF JobMoves, Awaited
<1>3. /\ \A x : x # k => TriesLeft(x)' = TriesLeft(x)
      /\ TriesLeft(k) \in Nat /\ TriesLeft(k) > 0
      /\ TriesLeft(k)' \in {0, TriesLeft(k) - 1, TriesLeft(k)}
  BY ConsumerTries
<1> HIDE DEF k
<1>4. Left' = [Left EXCEPT ![k] = TriesLeft(k)'] /\ Left[k] = TriesLeft(k)
  BY <1>1, <1>3 DEF Left
<1>5. CASE TriesLeft(k)' = 0
  BY <1>1, <1>2, <1>3, <1>4, <1>5 DEF Queue!Next, Queue!GiveUp, Awaited, Left
<1>6. CASE TriesLeft(k)' = TriesLeft(k) - 1
  BY <1>1, <1>2, <1>3, <1>4, <1>6 DEF Queue!Next, Queue!Try, Awaited, Left
<1>7. CASE TriesLeft(k)' = TriesLeft(k)
  <2>1. Left' = Left
    BY <1>1, <1>3, <1>7 DEF Left
  <2> QED
    BY <1>2, <2>1 DEF Queue!vars, Awaited, Left
<1> QED
  BY <1>3, <1>5, <1>6, <1>7

\* Every step keeps the bound, is one of the deliveries', and takes a try for each post.
LEMMA QueueNext ==
  ASSUME QueueInvariant, JobInvariant', [HookNext]_hookVars
  PROVE  /\ TriesBounded' /\ [Queue!Next]_(Queue!vars)
         /\ \A j \in jobs : j.loaded /\ j \notin jobs' => TriesLeft(KeyOf(j))' < TriesLeft(KeyOf(j))
<1>1. CASE UNCHANGED <<due, jobs>>
  <2>1. \A k : TriesLeft(k)' = TriesLeft(k)
    BY <1>1, TriesSame
  <2>2. Awaited' = Awaited /\ Left' = Left
    BY <1>1, <2>1 DEF Awaited, Left
  <2> QED
    BY <1>1, <2>2 DEF Queue!vars, Awaited, Left, QueueInvariant, TriesBounded
<1>2. CASE Starts
  <2>1. jobs \subseteq jobs'
    BY <1>2 DEF Starts
  <2> QED
    BY <1>2, <2>1, StartsHappen DEF Queue!Next
<1>3. ASSUME NEW j \in jobs, NEW S, JobMoves(j, S)
      PROVE  /\ TriesBounded' /\ [Queue!Next]_(Queue!vars)
             /\ \A i \in jobs : i.loaded /\ i \notin jobs' => TriesLeft(KeyOf(i))' < TriesLeft(KeyOf(i))
  <2>1. TriesBounded' /\ [Queue!Next]_(Queue!vars)
    BY <1>3, ConsumerTries, ConsumersTry
  <2>2. ASSUME NEW i \in jobs, i.loaded, i \notin jobs' PROVE TriesLeft(KeyOf(i))' < TriesLeft(KeyOf(i))
    <3>1. i = j
      BY <1>3, <2>2 DEF JobMoves
    <3> QED
      BY <1>3, <2>2, <3>1, ConsumerTries
  <2> QED
    BY <2>1, <2>2
<1> QED
  BY <1>1, <1>2, <1>3, StepKinds, ConsumerMoves

\* At first every delivery waits for its event or never happens.
LEMMA QueueInit == HookInit => Queue!Init
<1> SUFFICES ASSUME HookInit PROVE Queue!Init
  OBVIOUS
<1>1. \A k : TriesLeft(k) = 0
  BY TriesOfNone DEF HookInit
<1>2. Awaited \subseteq Deliveries /\ Left = [k \in Deliveries |-> 0]
  BY <1>1 DEF Awaited, Left
<1> QED
  BY <1>2 DEF Queue!Init, Awaited, Left

\* The invariant holds always.
LEMMA QueueInvariantHolds == HookSpec => []QueueInvariant
<1>1. QueueInvariant /\ [HookNext]_hookVars => QueueInvariant'
  BY JobInvariantNext, QueueNext DEF QueueInvariant
<1> QED
  BY <1>1, QueueInvariantInit, PTL DEF HookSpec

(* Whatever webhooks, events, edits and answers there are, the queue keeps to *)
(* HookDelivery: a delivery starts once, with its event, is tried at most     *)
(* MaxRetries + 1 times, and is over for good (deliverBatch).                 *)
THEOREM WebhooksDeliver == HookSpec => QueueSpec
<1>1. QueueInvariant /\ [HookNext]_hookVars => [Queue!Next]_(Queue!vars)
  BY JobInvariantNext, QueueNext DEF QueueInvariant
<1> QED
  BY <1>1, QueueInit, QueueInvariantHolds, PTL DEF HookSpec, QueueSpec, Queue!Spec

(* No post is free: with each, its delivery has a try less left, so consumers *)
(* that die and endpoints that fail cannot keep a job in the queue for ever.  *)
THEOREM EveryPostCounts == HookSpec => PostsUseTries
<1>1. QueueInvariant /\ [HookNext]_hookVars =>
        [\A j \in jobs : j.loaded /\ j \notin jobs' => TriesLeft(KeyOf(j))' < TriesLeft(KeyOf(j))]_hookVars
  BY JobInvariantNext, QueueNext DEF QueueInvariant
<1> QED
  BY <1>1, QueueInvariantHolds, PTL DEF HookSpec, PostsUseTries
=============================================================================
