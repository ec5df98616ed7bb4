------------------------------ MODULE SendGate ------------------------------
(***************************************************************************)
(* What a send passes before the transport takes it, the monthly quota of  *)
(* core/usage.ts and the suppression list of core/suppressions.ts, and     *)
(* what changes them in the meantime: other sends, bounces reported by     *)
(* email or by a provider, and the account's own edits of the list.  Each  *)
(* statement is a step; one account, one recipient for each send.          *)
(***************************************************************************)
EXTENDS Naturals, FiniteSets

CONSTANTS
    Address,      \* the recipients
    Sender,       \* requests that send
    Reporter,     \* bounce reports being stored
    SendQuota,    \* QUOTA_MESSAGES_SENT_PER_MONTH
    MaxMonth,     \* bound: months that pass
    MaxSends,     \* bound: sends started
    MaxReports,   \* bound: bounce reports and edits of the list
    MaxLost       \* bound: counter writes that fail

ASSUME SendGateAssumption ==
    /\ IsFiniteSet(Sender) /\ Sender # {}
    /\ SendQuota \in Nat \ {0}
    /\ MaxMonth \in Nat \ {0} /\ MaxSends \in Nat /\ MaxReports \in Nat /\ MaxLost \in Nat

VARIABLES
    month,     \* monthPeriod()
    entries,   \* the reason each address is suppressed for, "none" without a row
    sent,      \* usage.messages_sent of each month
    sends,     \* the send of each request
    reports,   \* the bounce report of each reporter
    tally      \* history: sends and reports begun, mails, and counts lost

gateVars == <<month, entries, sent, sends, reports, tally>>

Blocking == {"hard_bounce", "manual", "provider"}
Idle == [step |-> "idle", to |-> "none", month |-> 0]
NoReport == [source |-> "none", todo |-> {}, soft |-> {}, missed |-> {}]

GateInit ==
    /\ month = 1
    /\ entries = [a \in Address |-> "none"]
    /\ sent = [t \in 1 .. MaxMonth |-> 0]
    /\ sends = [p \in Sender |-> Idle]
    /\ reports = [r \in Reporter |-> NoReport]
    /\ tally = [sends |-> 0, reports |-> 0, mails |-> [t \in 1 .. MaxMonth |-> 0],
                lost |-> 0]

NewMonth == month < MaxMonth /\ month' = month + 1 /\ UNCHANGED <<entries, sent, sends, reports, tally>>
-----------------------------------------------------------------------------
(* sendMessage, replyToMessage, forwardMessage and the draft sends *)

\* Mutant: the count may reach one more than the limit.
OverQuotaLate(t) == sent[t] > SendQuota

OverQuota(t) == sent[t] >= SendQuota

SendBegins(p, a) ==
    /\ sends[p] = Idle /\ tally.sends < MaxSends
    /\ tally' = [tally EXCEPT !.sends = @ + 1]
    /\ sends' = IF OverQuota(month) THEN sends
                ELSE [sends EXCEPT ![p] = [Idle EXCEPT !.step = "check", !.to = a, !.month = month]]
    /\ UNCHANGED <<month, entries, sent, reports>>

\* assertRecipientsNotSuppressed
CheckList(p) ==
    /\ sends[p].step = "check"
    /\ LET r == sends[p]
       IN sends' = [sends EXCEPT ![p] = IF entries[r.to] \in Blocking THEN Idle
                                        ELSE [r EXCEPT !.step = "send", !.to = "none"]]
    /\ UNCHANGED <<month, entries, sent, reports, tally>>

\* The transport takes the mail; its row and its event are stored with it.
TakeMail(p) ==
    LET r == sends[p]
    IN /\ r.step = "send"
       /\ tally' = [tally EXCEPT !.mails[r.month] = @ + 1]
       /\ sends' = [sends EXCEPT ![p].step = "count"]
       /\ UNCHANGED <<month, entries, sent, reports>>

MailRefused(p) ==
    /\ sends[p].step = "send"
    /\ sends' = [sends EXCEPT ![p] = Idle]
    /\ UNCHANGED <<month, entries, sent, reports, tally>>

\* recordSent, in the month it is by now; a write that fails is logged.
CountSent(p, written) ==
    /\ sends[p].step = "count"
    /\ ~written => tally.lost < MaxLost
    /\ sent' = IF written THEN [sent EXCEPT ![month] = @ + 1] ELSE sent
    /\ tally' = IF written THEN tally ELSE [tally EXCEPT !.lost = @ + 1]
    /\ sends' = [sends EXCEPT ![p] = Idle]
    /\ UNCHANGED <<month, entries, reports>>
-----------------------------------------------------------------------------
(* The suppression list *)

Work(r, next) == reports' = [reports EXCEPT ![r] = next] /\ UNCHANGED <<month, sent, sends>>

\* recordBounce of an arriving DSN stores its recipients one after the other,
\* recordProviderBounce of a notification all at once.
ReportBegins(r, source, hard, soft) ==
    /\ reports[r] = NoReport /\ tally.reports < MaxReports
    /\ hard \cup soft # {} /\ hard \cap soft = {}
    /\ tally' = [tally EXCEPT !.reports = @ + 1]
    /\ Work(r, [source |-> source, todo |-> hard \cup soft, soft |-> soft, missed |-> {}])
    /\ UNCHANGED entries

Rest(r, a) == IF reports[r].todo = {a} THEN NoReport
              ELSE [reports[r] EXCEPT !.todo = @ \ {a}, !.soft = @ \ {a}, !.missed = @ \ {a}]

Turn(r, a) == a \in reports[r].todo /\ (reports[r].source = "dsn" => reports[r].missed \subseteq {a})

\* upsertSuppression replaces whatever entry the address has.
StoreHard(r, a) ==
    /\ Turn(r, a) /\ a \notin reports[r].soft
    /\ entries' = [entries EXCEPT ![a] = IF reports[r].source = "dsn" THEN "hard_bounce" ELSE "provider"]
    /\ Work(r, Rest(r, a)) /\ UNCHANGED tally

\* recordSoftBounce first updates the time of the row, if there is one.
TouchSoft(r, a) ==
    /\ Turn(r, a) /\ a \in reports[r].soft \ reports[r].missed
    /\ Work(r, IF entries[a] # "none" THEN Rest(r, a) ELSE [reports[r] EXCEPT !.missed = @ \cup {a}])
    /\ UNCHANGED <<entries, tally>>

\* Mutant: the row that appeared in between is replaced.
SoftReplaces(a) == "soft_bounce"

SoftReason(a) == IF entries[a] = "none" THEN "soft_bounce" ELSE entries[a]

\* Then it inserts, touching the time alone of a row that appeared in between.
InsertSoft(r, a) ==
    /\ a \in reports[r].missed
    /\ entries' = [entries EXCEPT ![a] = SoftReason(a)]
    /\ Work(r, Rest(r, a)) /\ UNCHANGED tally

\* A statement fails: the other recipients are stored all the same, and the
\* provider of a notification, which gets an error, may report it again.
StoreFails(r, a) ==
    /\ Turn(r, a)
    /\ Work(r, Rest(r, a))
    /\ UNCHANGED <<entries, tally>>

\* addSuppression and removeSuppression
Edit(a, reason) ==
    /\ tally.reports < MaxReports
    /\ tally' = [tally EXCEPT !.reports = @ + 1]
    /\ entries' = [entries EXCEPT ![a] = reason]
    /\ UNCHANGED <<month, sent, sends, reports>>

Removed(a) == entries[a] # "none" /\ Edit(a, "none")

Send(p) ==
    \/ \E a \in Address : SendBegins(p, a)
    \/ CheckList(p) \/ TakeMail(p) \/ MailRefused(p)
    \/ \E written \in BOOLEAN : CountSent(p, written)

ReportStep(r) ==
    \/ \E source \in {"dsn", "provider"}, hard, soft \in SUBSET Address :
         ReportBegins(r, source, hard, soft)
    \/ \E a \in Address : StoreHard(r, a) \/ TouchSoft(r, a) \/ InsertSoft(r, a) \/ StoreFails(r, a)

GateNext ==
    \/ NewMonth
    \/ \E p \in Sender : Send(p)
    \/ \E r \in Reporter : ReportStep(r)
    \/ \E a \in Address : Edit(a, "manual") \/ Removed(a)

\* The gate on its own.
GateSpec == GateInit /\ [][GateNext]_gateVars
-----------------------------------------------------------------------------
(* A soft bounce is stored by an update and, when no row was there, by an  *)
(* insert.  Whatever happens in between, an address that is blocked stays  *)
(* blocked until the account itself removes the entry                      *)
(* (db/suppressions.ts:60).                                                *)
OnlyRemovalUnblocks ==
    [][\A a \in Address : entries[a] \in Blocking /\ entries'[a] \notin Blocking
            => Removed(a)]_gateVars

(* The quota is read before the mail and counted after it, in the month it *)
(* is by then.  The mails that one month's quota let through exceed it by  *)
(* no more than the other requests in flight and the counts that were      *)
(* lost; a count that goes to the next month lets no further mail through  *)
(* (usage.ts:90).                                                          *)
QuotaOverrun ==
    \A t \in 1 .. MaxMonth :
        tally.mails[t] <= SendQuota + Cardinality(Sender) - 1 + tally.lost
=============================================================================
