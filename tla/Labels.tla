------------------------------- MODULE Labels -------------------------------
(***************************************************************************)
(* The labels of the messages of one inbox: the PATCH of a message, the    *)
(* batch change and the change of a whole thread, of core/labels.ts,       *)
(* core/messages.ts and core/threads.ts.  The last two read the labels,    *)
(* apply a delta and write the result back in one batch.                   *)
(***************************************************************************)
EXTENDS Naturals, FiniteSets

CONSTANTS
    Letter,       \* the messages, all of one thread
    Label,        \* labels
    Tagger,       \* requests that change labels
    MaxLabels,    \* MAX_LABELS
    MaxChanges    \* bound: changes begun

ASSUME LabelAssumption == MaxLabels \in Nat \ {0} /\ MaxChanges \in Nat

VARIABLES
    tags,      \* the labels of each message
    letters,   \* the messages that are there
    change,    \* the change under way of each request
    meant      \* history: what each message should carry, and what overlapped

labelVars == <<tags, letters, change, meant>>

Unchanged == [step |-> "idle", on |-> {}, add |-> {}, remove |-> {}, next |-> [m \in {} |-> {}]]

LabelInit ==
    /\ letters = Letter
    /\ tags \in [Letter -> {{}, {CHOOSE l \in Label : TRUE}}]
    /\ change = [r \in Tagger |-> Unchanged]
    /\ meant = [tags |-> tags, crossed |-> {}, begun |-> 0]

\* applyLabelDelta: the removals come first.
Applied(old, add, remove) == (old \ remove) \cup add

\* Every message on its own: one too many labels fails the whole change.
Fits(next) == \A m \in DOMAIN next : Cardinality(next[m]) <= MaxLabels

Begins(r, c) ==
    /\ change[r] = Unchanged /\ meant.begun < MaxChanges
    /\ meant' = [meant EXCEPT !.begun = @ + 1]
    /\ change' = [change EXCEPT ![r] = c]
    /\ UNCHANGED <<tags, letters>>

\* batchUpdateLabels names messages that must all exist; updateThreadLabels takes
\* those the thread has.
DeltaStart(r, on, add, remove) ==
    LET next == [m \in on |-> Applied(tags[m], add, remove)]
    IN /\ on # {} /\ on \subseteq letters
       /\ add \cup remove # {}
       /\ Fits(next)
       /\ Begins(r, [step |-> "write", on |-> on, add |-> add, remove |-> remove, next |-> next])

\* Mutant: every row gets the labels of the first.
WrittenAlike(c, m) == c.next[CHOOSE n \in c.on : TRUE]

Written(c, m) == c.next[m]

\* updateMessagesLabels: one D1 batch, and a message deleted meanwhile is passed.
DeltaEnd(r) ==
    LET c == change[r]
        on == c.on \cap letters
        crossing == {q \in Tagger \ {r} : change[q].step = "write"}
    IN /\ c.step = "write"
       /\ tags' = [m \in Letter |-> IF m \in on THEN Written(c, m) ELSE tags[m]]
       /\ meant' = [meant EXCEPT
             !.tags = [m \in Letter |-> IF m \in on THEN Applied(meant.tags[m], c.add, c.remove)
                                        ELSE meant.tags[m]],
             !.crossed = @ \cup {m \in on : \E q \in crossing : m \in change[q].on}]
       /\ change' = [change EXCEPT ![r] = Unchanged]
       /\ UNCHANGED letters

\* updateMessageLabels replaces the labels, in one statement.
Replace(m, labels) ==
    /\ m \in letters /\ Cardinality(labels) <= MaxLabels /\ meant.begun < MaxChanges
    /\ tags' = [tags EXCEPT ![m] = labels]
    /\ meant' = [meant EXCEPT
          !.begun = @ + 1, !.tags[m] = labels,
          !.crossed = IF \E q \in Tagger : m \in change[q].on THEN @ \cup {m} ELSE @]
    /\ UNCHANGED <<letters, change>>

Drop(m) ==
    /\ m \in letters
    /\ letters' = letters \ {m}
    /\ UNCHANGED <<tags, change, meant>>

LabelNext ==
    \/ \E r \in Tagger, on \in SUBSET Letter, add, remove \in SUBSET Label :
         DeltaStart(r, on, add, remove)
    \/ \E r \in Tagger : DeltaEnd(r)
    \/ \E m \in Letter, labels \in SUBSET Label : Replace(m, labels)
    \/ \E m \in Letter : Drop(m)

\* The label changes on their own.
LabelSpec == LabelInit /\ [][LabelNext]_labelVars
-----------------------------------------------------------------------------
(* A message carries what the changes of its labels, one after the other,  *)
(* say it carries, unless two of them overlapped on it (messages.ts:423).  *)
LabelLossNeedsOverlap ==
    \A m \in letters \ meant.crossed : tags[m] = meant.tags[m]
=============================================================================
