-------------------------------- MODULE Dmarc --------------------------------
(* DMARC aggregate reports: reading them out of the attachments of a received  *)
(* mail, storing each once although receivers send it again, and the totals    *)
(* getDeliverability answers with.  A report is stored by two statements, its  *)
(* row and then a batch with its records; several workers take in mails at     *)
(* once, a statement may fail (which is logged) and a worker may die.          *)
(*                                                                             *)
(* The XML is left out: an attachment says which steps of reading it fail.     *)
EXTENDS Naturals, Sequences, FiniteSets, FiniteSetsExt, SequencesExt

CONSTANTS
  Report,      \* reports by their org_name and report_id
  Receiver,    \* workers that take in mails
  MaxRecords,  \* DMARC_MAX_RECORDS
  MaxMails,    \* bound: mails delivered
  MaxFailures  \* bound: statements that fail and workers that die

ASSUME DmarcAssumption ==
  MaxRecords \in Nat \ {0} /\ MaxMails \in Nat /\ MaxFailures \in Nat

VARIABLES
  content,   \* what each report says, fixed
  mail,      \* the attachments of the mail that is delivered, fixed
  reports,   \* dmarc_reports: the sequence of inserted rows, each named by its report
  records,   \* dmarc_records: pairs of a row of reports and a record
  receiver,  \* per worker [at, row, todo]: todo holds the places in mail of the reports left
  delivered, \* mails that reached a worker
  failures

dmarcVars == <<content, mail, reports, records, receiver, delivered, failures>>

----------------------------------------------------------------------------
\* An attachment: its archive kind by type or name, its sizes, whether it unpacks,
\* and which of the required elements its XML lacks.
GoodFile(r) ==
  [archive |-> "gzip", input |-> "ok", xml |-> "ok", lacks |-> {}, report |-> r]

UnreadFiles(r) ==
  {[GoodFile(r) EXCEPT !.archive = "none"], [GoodFile(r) EXCEPT !.input = "over"],
   [GoodFile(r) EXCEPT !.xml = "broken"], [GoodFile(r) EXCEPT !.lacks = {"date_range"}]}

ReadsArchive(f) == f.archive \in {"gzip", "zip"} /\ f.input = "ok"

Unpacks(f) == f.xml = "ok"              \* within DMARC_MAX_XML_BYTES, and gunzip does not throw

\* parseDmarcXml without its records.
Complete(f) ==
  f.lacks \cap {"feedback", "report_metadata", "report_id", "org_name", "domain", "date_range"} = {}

\* parseDmarcAttachment is not null; readDmarcReports keeps those, named here by their places.
Readable(f) == ReadsArchive(f) /\ Unpacks(f) /\ Complete(f)

ReadReports(files) == {i \in DOMAIN files : Readable(files[i])}

\* The records a report is stored with: the first MaxRecords, less those without source_ip.
Kept(r) ==
  LET rows == content[r].records IN
  {i \in 1..Len(rows) : i <= MaxRecords /\ rows[i].ip}

----------------------------------------------------------------------------
Result(ip, n, dkim, spf) == [ip |-> ip, count |-> n, dkim |-> dkim, spf |-> spf]

\* Record lists: one that passes, one that fails, one with no address, one too long.
RecordLists ==
  {<<>>, <<Result(TRUE, 2, TRUE, FALSE), Result(TRUE, 1, FALSE, FALSE)>>,
   <<Result(FALSE, 5, TRUE, TRUE), Result(TRUE, 1, FALSE, TRUE), Result(TRUE, 3, TRUE, TRUE)>>}

\* In the window, with any of the lists; and of another account, or too old.
Contents ==
  [ours : {TRUE}, recent : {TRUE}, records : RecordLists]
  \cup {[ours |-> o, recent |-> ~o, records |-> <<Result(TRUE, 2, FALSE, FALSE)>>] : o \in BOOLEAN}

ReportMails ==
  LET files == UNION {{GoodFile(r)} \cup UnreadFiles(r) : r \in Report} IN
  {<<f>> : f \in files} \cup {<<f, GoodFile(r)>> : f \in files, r \in Report}

Idle == [at |-> "idle", row |-> 0, todo |-> {}]

\* The loop of recordDmarcReports takes the reports in the order of the attachments.
Reading(todo) == IF todo = {} THEN Idle ELSE [at |-> "report", row |-> 0, todo |-> todo]
Current(w) == mail[Min(receiver[w].todo)].report

DmarcInit ==
  /\ content \in [Report -> Contents]
  /\ mail \in ReportMails
  /\ reports = <<>> /\ records = {}
  /\ receiver = [w \in Receiver |-> Idle]
  /\ delivered = 0
  /\ failures = 0

\* ingestInbound, as far as recordDmarcReports: the same mail to another inbox, or again.
Deliver(w) ==
  /\ receiver[w] = Idle /\ delivered < MaxMails
  /\ delivered' = delivered + 1
  /\ receiver' = [receiver EXCEPT ![w] = Reading(ReadReports(mail))]
  /\ UNCHANGED <<content, mail, reports, records, failures>>

\* The loop goes on to the next report.
Skipped(w) == Reading(receiver[w].todo \ {Min(receiver[w].todo)})

InsertedBlind(r) == Append(reports, r)   \* mutant: no ON CONFLICT (org_name, external_report_id)

\* insertDmarcReport: ON CONFLICT DO NOTHING.
Inserted(r) == IF r \in Range(reports) THEN reports ELSE Append(reports, r)

StoreReport(w) ==
  /\ receiver[w].at = "report"
  /\ reports' = Inserted(Current(w))
  /\ receiver' = [receiver EXCEPT ![w] =
       IF reports' = reports THEN Skipped(w) ELSE [@ EXCEPT !.at = "records", !.row = Len(reports')]]
  /\ UNCHANGED <<content, mail, records, delivered, failures>>

\* insertDmarcRecords: one batch; row is what the insert returned.
StoreRecords(w) ==
  /\ receiver[w].at = "records"
  /\ records' = records \cup ({receiver[w].row} \X Kept(Current(w)))
  /\ receiver' = [receiver EXCEPT ![w] = Skipped(w)]
  /\ UNCHANGED <<content, mail, reports, delivered, failures>>

\* A statement throws, which recordDmarcReports logs, or the worker dies.
StoreFails(w) ==
  /\ receiver[w] # Idle /\ failures < MaxFailures
  /\ failures' = failures + 1
  /\ receiver' \in {[receiver EXCEPT ![w] = after] : after \in {Skipped(w), Idle}}
  /\ UNCHANGED <<content, mail, reports, records, delivered>>

DmarcNext == \E w \in Receiver : Deliver(w) \/ StoreReport(w) \/ StoreRecords(w) \/ StoreFails(w)

\* The reports on their own.
DmarcSpec == DmarcInit /\ [][DmarcNext]_dmarcVars

----------------------------------------------------------------------------
(* getDeliverability.                                                         *)

InWindow(r) == content[r].ours /\ content[r].recent

\* dmarcTotals: the count of the report rows, and the sums over their records.  A record
\* is named here by its report and its place in it.
TotalsOver(rows, stored) ==
  LET Entry(p) == content[p.report].records[p.nth]
      SumIf(Holds(_)) == MapThenSumSet(LAMBDA p : Entry(p).count, {p \in stored : Holds(Entry(p))})
  IN [reports |-> rows,
      messages |-> SumIf(LAMBDA e : TRUE),
      pass |-> SumIf(LAMBDA e : e.dkim \/ e.spf),
      dkim_pass |-> SumIf(LAMBDA e : e.dkim),
      spf_pass |-> SumIf(LAMBDA e : e.spf)]

Rows == {i \in DOMAIN reports : InWindow(reports[i])}

Totals ==
  TotalsOver(Cardinality(Rows),
    {[row |-> p[1], report |-> reports[p[1]], nth |-> p[2]] : p \in {q \in records : q[1] \in Rows}})

\* dmarcWarnings, the pass rate against DMARC_PASS_RATE_WARN, and the silence.
Warning(totals) ==
  CASE totals.messages > 0 /\ totals.pass * 100 < totals.messages * 95 -> "pass rate"
    [] totals.messages = 0 /\ totals.reports = 0 -> "silence"
    [] OTHER -> "none"

----------------------------------------------------------------------------
\* What the delivered mail says, each report once.
Said ==
  LET told == {r \in {mail[i].report : i \in ReadReports(mail)} : delivered > 0 /\ InWindow(r)}
  IN TotalsOver(Cardinality(told),
       UNION {{[row |-> 0, report |-> r, nth |-> i] : i \in Kept(r)} : r \in told})

(* However often a report is delivered, by how many workers at once and in how *)
(* many attachments of a mail, its messages are counted once: the totals never *)
(* exceed what the distinct reports say, and equal it, warnings included, once *)
(* everything delivered is stored and nothing failed on the way.               *)
CountedOnce ==
  /\ \A n \in DOMAIN Said : Totals[n] <= Said[n]
  /\ (failures = 0 /\ \A w \in Receiver : receiver[w] = Idle) =>
       Totals = Said /\ Warning(Totals) = Warning(Said)
=============================================================================
