------------------------------- MODULE Intake -------------------------------
(* What becomes of a mail at the door: the refusals of ingestInbound in their  *)
(* order, the spam score (spam.ts), the recognition of bounces (bounce.ts),    *)
(* and the labels a stored mail gets.  A mail is described by what the rules   *)
(* look at; matching the patterns in its text is left out.  The steps are the  *)
(* sender's, who attaches one more file, and the receipt.                      *)
EXTENDS Naturals, Sequences, FiniteSets, FiniteSetsExt, SequencesExt

CONSTANTS
  Thresholds,     \* pairs of SPAM_LABEL_THRESHOLD and SPAM_REJECT_THRESHOLD
  MaxAttachments  \* bound: files attached

ASSUME IntakeAssumption == Thresholds \subseteq Nat \X Nat /\ MaxAttachments \in Nat

VARIABLES
  policy,  \* [label, reject], fixed
  email,   \* what the mail says
  stored   \* {} until received, then the refusal or the labels

intakeVars == <<policy, email, stored>>

----------------------------------------------------------------------------
(* The mail without its attachments.  auth is the sequence of                  *)
(* Authentication-Results headers; threaded that it answers another mail.      *)
Auth(s, k, m) == [spf |-> s, dkim |-> k, dmarc |-> m]

Plain ==
  [size |-> "ok", to |-> "box", quota |-> "ok", tag |-> "",
   auth |-> <<>>, id |-> "given", date |-> "given", shown |-> "",
   from |-> "a", replyTo |-> "", envelope |-> "a",
   subject |-> "plain", threaded |-> "no", body |-> "text", links |-> {}, lists |-> {},
   dsn |-> "no", blocks |-> <<>>, files |-> <<>>]

Block(a, action, status) == [address |-> a, action |-> action, status |-> status]

\* The values each field is varied over.
Values ==
  [Plain EXCEPT
     !.size = {"ok", "over"}, !.to = {"box", "nobody"}, !.quota = {"ok", "used"},
     !.tag = {"", "todo", "unread", "bounce"},
     !.auth = {<<>>, <<Auth("fail", "none", "fail")>>, <<Auth("", "pass", ""),
               Auth("softfail", "fail", "")>>},
     !.id = {"given", "missing"}, !.date = {"given", "missing"}, !.shown = {"", "a", "other"},
     !.from = {"", "a"}, !.replyTo = {"", "a", "b"}, !.envelope = {"", "a", "b"},
     !.subject = {"plain", "caps", "marks", "re"}, !.threaded = {"no", "yes"},
     !.body = {"text", "html", "both", "urls", "none"}, !.links = {{}, {"thin"}, {"many", "mismatch"}},
     !.lists = {{}, {"list-unsubscribe", "bulk"}},
     !.dsn = {"no", "report", "daemon"},
     !.blocks = {<<>>, <<Block("x", "delayed", "4"), Block("x", "failed", "5")>>,
                 <<Block("x", "failed", "5"), Block("", "failed", "5"), Block("y", "failed", "")>>},
     !.files = {<<>>}]

\* Two more mails to start from: one that is likely spam, one that reports a bounce.
Forged ==
  [Plain EXCEPT !.auth = <<Auth("fail", "none", "fail")>>, !.body = "urls"]

Returned ==
  [Plain EXCEPT !.dsn = "report", !.envelope = "",
     !.blocks = <<Block("x", "delayed", "4"), Block("x", "failed", "5")>>]

\* Every mail that differs from one of these in one field.
Mails ==
  UNION {{[m EXCEPT ![f] = v] : v \in Values[f]} : m \in {Plain, Forged, Returned}, f \in DOMAIN Plain}

(* An attachment: its last two extensions, its content type, and of an archive *)
(* the extensions of its entries, or that it cannot be read.                   *)
File(previous, last, type, entries) ==
  [previous |-> previous, last |-> last, type |-> type, entries |-> entries]

Files ==
  {File("", "pdf", "other", {}), File("pdf", "docx", "other", {}),
   File("pdf", "exe", "other", {}), File("", "js", "other", {}),
   File("", "docm", "office", {}), File("", "docm", "other", {}),
   File("", "zip", "other", {"pdf", "js"}), File("", "zip", "archive", {"exe"}),
   File("", "", "archive", {"unreadable"}),
   File("", "", "delivery-status", {}), File("", "gz", "dmarc report", {})}

----------------------------------------------------------------------------
(* scoreSpam.                                                                 *)
SPAM_WEIGHTS ==
  [spf_fail |-> 25, spf_softfail |-> 10, dkim_fail |-> 20, dkim_none |-> 8, dmarc_fail |-> 30,
   missing_message_id |-> 10, missing_date |-> 5, from_display_address |-> 20,
   reply_to_other_domain |-> 10, from_not_envelope_domain |-> 12, subject_all_caps |-> 8,
   subject_punctuation |-> 8, subject_fake_reply |-> 10, html_only |-> 6,
   html_thin_with_links |-> 12, many_link_domains |-> 8, link_text_mismatch |-> 20,
   mostly_urls |-> 10, list_unsubscribe |-> 3, precedence_bulk |-> 5,
   attachment_executable |-> 60, attachment_double_extension |-> 40, attachment_script |-> 30,
   attachment_macro_office |-> 25, archive_executable |-> 60, archive_unknown |-> 15]

SPAM_MAX_SCORE == 100

\* One or two of each list stand for it.
EXECUTABLE_EXTENSIONS == {"exe"}
SCRIPT_EXTENSIONS == {"js"}
MACRO_EXTENSIONS == {"docm"}
DOCUMENT_EXTENSIONS == {"pdf", "docx", "zip"}

If(condition, reason) == IF condition THEN {reason} ELSE {}

\* authValue: the first header that names the method.
AuthValue(headers, method) ==
  LET named == SelectSeq(headers, LAMBDA h : h[method] # "")
  IN IF named = <<>> THEN "" ELSE named[1][method]

AuthReasons(m) ==
  LET spf == AuthValue(m.auth, "spf")
      dkim == AuthValue(m.auth, "dkim")
  IN UNION {If(spf = "fail", "spf_fail"), If(spf = "softfail", "spf_softfail"),
            If(dkim = "fail", "dkim_fail"), If(dkim = "none", "dkim_none"),
            If(AuthValue(m.auth, "dmarc") = "fail", "dmarc_fail")}

Differ(d, e) == d # "" /\ e # "" /\ d # e

IdentityReasons(m) ==
  UNION {If(m.id = "missing", "missing_message_id"), If(m.date = "missing", "missing_date"),
         If(m.from # "" /\ m.shown \notin {"", m.from}, "from_display_address"),
         If(Differ(m.from, m.replyTo), "reply_to_other_domain"),
         If(Differ(m.from, m.envelope), "from_not_envelope_domain")}

SubjectReasons(m) ==
  UNION {If(m.subject = "caps", "subject_all_caps"), If(m.subject = "marks", "subject_punctuation"),
         If(m.subject = "re" /\ m.threaded = "no", "subject_fake_reply")}

\* thin and mismatch are about links of the html part; a body that is mostly urls is long enough to judge.
HasHtml(m) == m.body \in {"html", "both"}

BodyReasons(m) ==
  UNION {If(m.body = "html", "html_only"),
         If(HasHtml(m) /\ "thin" \in m.links, "html_thin_with_links"),
         If(m.body # "none" /\ "many" \in m.links, "many_link_domains"),
         If(HasHtml(m) /\ "mismatch" \in m.links, "link_text_mismatch"),
         If(m.body = "urls", "mostly_urls")}

ListReasons(m) ==
  If("list-unsubscribe" \in m.lists, "list_unsubscribe") \cup If("bulk" \in m.lists, "precedence_bulk")

IsArchive(f) == f.type = "archive" \/ f.last = "zip"

ArchiveReasons(f) ==
  CASE ~IsArchive(f) -> {}
    [] IsArchive(f) /\ "unreadable" \in f.entries -> {"archive_unknown"}
    [] OTHER -> If(f.entries \cap EXECUTABLE_EXTENSIONS # {}, "archive_executable")
                  \cup If(f.entries \cap SCRIPT_EXTENSIONS # {}, "attachment_script")

AttachmentReasons(f) ==
  UNION {If(f.last \in EXECUTABLE_EXTENSIONS, "attachment_executable"),
         If(f.previous \in DOCUMENT_EXTENSIONS \ {f.last}, "attachment_double_extension"),
         If(f.last \in SCRIPT_EXTENSIONS, "attachment_script"),
         If(f.last \in MACRO_EXTENSIONS /\ f.type = "office", "attachment_macro_office"),
         ArchiveReasons(f)}

LastFileReasons(m) ==                    \* mutant: only the last attachment is looked at
  IF m.files = <<>> THEN {} ELSE AttachmentReasons(Last(m.files))

FileReasons(m) == UNION {AttachmentReasons(f) : f \in Range(m.files)}

Reasons(m) ==
  UNION {AuthReasons(m), IdentityReasons(m), SubjectReasons(m), BodyReasons(m), ListReasons(m),
         FileReasons(m)}

Score(m) == Min({SPAM_MAX_SCORE, MapThenSumSet(LAMBDA r : SPAM_WEIGHTS[r], Reasons(m))})

RejectsAttachment(reasons) == {"attachment_executable", "archive_executable"} \cap reasons # {}

----------------------------------------------------------------------------
(* detectBounce.                                                              *)
Kind(block) ==
  CASE block.action = "delayed" -> "soft"
    [] block.action = "failed" /\ block.status = "5" -> "hard"
    [] block.action = "failed" /\ block.status = "4" -> "soft"
    [] OTHER -> "none"

RecipientsIn(blocks) == SelectSeq(blocks, LAMBDA b : b.address # "" /\ Kind(b) # "none")

\* The delivery-status parts of a report, else the text of a daemon's automatic answer;
\* of two entries for an address the first counts.
HasStatusPart(m) == \E f \in Range(m.files) : f.type = "delivery-status"

Bounces(m) ==
  LET found == IF (m.dsn = "report" /\ HasStatusPart(m)) \/ m.dsn = "daemon"
               THEN RecipientsIn(m.blocks) ELSE <<>>
  IN {[address |-> found[i].address, kind |-> Kind(found[i])] :
        i \in {j \in DOMAIN found : \A k \in 1..j-1 : found[k].address # found[j].address}}

\* readDmarcReports (module Dmarc) finds one.
HasReport(m) == \E f \in Range(m.files) : f.type = "dmarc report"

----------------------------------------------------------------------------
(* ingestInbound up to its first write.                                       *)
InboundLabels(m) ==
  UNION {{"received"}, {IF Score(m) >= policy.label THEN "spam" ELSE "unread"},
         If(Bounces(m) # {}, "bounce"), If(HasReport(m), "dmarc"), If(m.tag # "", m.tag)}

AssessSpam(m) ==
  CASE RejectsAttachment(Reasons(m)) -> "550 attachment type not accepted"
    [] policy.reject > 0 /\ Score(m) >= policy.reject -> "550 rejected as spam"
    [] OTHER -> ""

Refusal(m) ==
  CASE m.size = "over" -> "552 message too large"
    [] m.size # "over" /\ m.to = "nobody" -> "550 no such inbox"
    [] m.size # "over" /\ m.to # "nobody" /\ m.quota = "used" -> "552 quota exceeded"
    [] OTHER -> AssessSpam(m)

IntakeInit ==
  /\ \E t \in Thresholds : policy = [label |-> t[1], reject |-> t[2]]
  /\ email \in Mails
  /\ stored = {}

Attach(f) ==
  /\ stored = {} /\ Len(email.files) < MaxAttachments
  /\ email' = [email EXCEPT !.files = Append(@, f)]
  /\ UNCHANGED <<policy, stored>>

Receive ==
  /\ stored = {}
  /\ stored' = IF Refusal(email) # "" THEN {Refusal(email)} ELSE InboundLabels(email)
  /\ UNCHANGED <<policy, email>>

IntakeNext == Receive \/ \E f \in Files : Attach(f)

\* The door on its own.
IntakeSpec == IntakeInit /\ [][IntakeNext]_intakeVars

----------------------------------------------------------------------------
\* How hard a mail is treated: surfaced, filed as spam, refused.
Severity(m) ==
  CASE Refusal(m) # "" -> 2
    [] Refusal(m) = "" /\ Score(m) >= policy.label -> 1
    [] OTHER -> 0

(* One more attachment never helps a mail in: it lowers neither the score nor  *)
(* the severity of the verdict, and a mail with an executable the reader sees, *)
(* by the name of an attachment or of an entry of a listed archive, stays out  *)
(* whatever the thresholds.  One in an archive too large or unreadable is not  *)
(* seen: it only scores as unknown (email/spam.ts:222).                        *)
NeverSofter ==
  /\ Score(email') >= Score(email)
  /\ Severity(email') >= Severity(email)
  /\ (\E f \in Range(email'.files) : (f.entries \cup {f.last}) \cap EXECUTABLE_EXTENSIONS # {}) =>
       Refusal(email') # ""

AttachmentsOnlyAdd == [][NeverSofter]_intakeVars

(* docs/api.md: mail at or above the label threshold is "stored with labels    *)
(* [received, spam] instead of [received, unread], so a filter on unread does  *)
(* not surface it".                                                            *)
SpamIsNotUnread == ~({"spam", "unread"} \subseteq stored)
=============================================================================
