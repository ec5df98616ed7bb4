# A TLA+ verification of intray

intray is a Cloudflare Worker that gives agents email inboxes: mail arrives through Email Routing,
lands in D1 (rows) and R2 (objects), and is read, answered, drafted and deleted over HTTP and MCP.
This directory models the parts of it whose correctness depends on the order in which things
happen, checks them with TLC on small instances, and proves the central results with TLAPS for
every instance. File and line references are to the repository's `src/`, `docs/` and `migrations/`.

The one fact about the platform everything rests on: each HTTP request, arriving email, cron run and queue
batch is a Worker invocation of its own; all of them run at once and interleave at every `await`. A D1
statement is atomic, `db.batch` is one transaction, foreign keys cascade, an R2 put, get or delete is
atomic per key (a delete of several keys is not, and may throw with some of them gone), and an invocation
may be killed between any two of these. So a model has one action per D1 statement or batch and per R2
operation, a `pc` and a record of local variables per worker, and a `Kill` action. What a worker read
earlier stays in its locals, as stale as it is in the code.

## 1. Inventory

| component | state it keeps | operations | what is hard | what makes it correct |
|---|---|---|---|---|
| drafts (`core/drafts.ts`, `db/drafts.ts`) | rows of `drafts` (status, send_at, body), objects `drf/{id}/{n}` | create, update, delete, send; `drainDueDrafts` from the cron | overlapping drains, sends and edits; status read, then awaits, then write; kills after the claim; attachments written in place | at most one email per time the draft was opened; only scheduled drafts drain; a sending row has a worker; a sent row its stored message; a draft that can be sent has its attachments, unless a drain mailed it before |
| messages and threads (`core/messages.ts`, `core/threads.ts`, `db/messages.ts`, `db/threads.ts`) | rows of `threads`, `messages`, `attachments`; objects `raw/`, `att/` | send, reply, forward, delete, batch delete, delete thread, label updates | five derived facts (count, date, thread, bytes, objects) written by separate statements; reads that decide a later batch | rows keep their objects; counts count; deletes take what they name |
| inbound ingest (`email/inbound.ts`, `email/threading.ts`) | as above | `handleEmail`, `receiveInbound` | a dozen awaits between the quota check and the last write; a throw redelivers | stored whole, in the thread it answers |
| usage (`core/usage.ts`, `db/usage.ts`) | one counter row per account and period | `recordReceived`, `recordSent`, `recordStorageDelta`, the quota checks | check-then-act; the clamp at zero; double release | the counter follows the rows |
| long poll (`waiter.ts`, `waitForMessage`) | the waiting promises of a Durable Object per inbox | wait, notify, timeout | notify against registration and timeout; `created_at` is taken long before the insert | a wait returns when there is mail after `since`, empty early only for a cause, and no mail is skipped |
| accounts, codes, keys (`core/accounts.ts`, `core/keys.ts`, `db/otps.ts`, `db/keys.ts`) | `accounts`, `otps`, `api_keys` | signup, verify, create and revoke keys | two verifications at once; the counters of codes and attempts | a code verifies once; a verified pending key replaces the others |
| OAuth (`core/oauth.ts`, `db/oauth.ts`) | `oauth_clients`, `oauth_sessions`, `oauth_codes` | register, authorize, submit email, submit code, token | several tabs of one session; a code exchanged twice | one token per code |
| organizations (`core/orgs.ts`, `db/orgs.ts`, `db/memberships.ts`, `db/invites.ts`) | `orgs`, `org_members`, `org_invites` | create, invite, accept, change role, remove | last-admin and first-org checks before the write | an org keeps an admin; an invite is used once |
| inboxes, routing, domains (`core/inboxes.ts`, `core/routing.ts`, `core/domains.ts`, `lib/cloudflare.ts`) | `inboxes`, `domains`, rules and DNS records at Cloudflare | create, delete, verify | external rule and row written one after the other; a domain deleted under a new inbox | no row without its route, no inbox on a deleted domain |
| webhooks (`core/webhooks.ts`, `db/webhooks.ts`) | `webhooks`, the queue | `emitEvent`, `deliverBatch`, edits | at-least-once, unordered, six tries | delivered or dropped after the last try; never to a deleted webhook |
| suppressions and bounces (`core/suppressions.ts`, `email/bounce.ts`, `email/notifications.ts`) | `suppressions` | record a bounce or complaint, list, remove | events in any order, repeated | a block is never weakened by a softer event |
| spam score, bounce and tag rules at the door (`email/spam.ts`, `email/bounce.ts`, `email/inbound.ts`) | none | score, verdict, recognition of a bounce, labels | boundaries, several attachments, order of the refusals | more evidence never softens the verdict |
| DMARC reports (`email/dmarc.ts`, `core/deliverability.ts`, `db/dmarc.ts`) | `dmarc_reports`, `dmarc_records` | read from attachments, store, sum | the same report to several inboxes at once, a report and its records in two statements | every message is counted once |
| mail transports (`email/transports/*`) | a session with the provider | choose, SMTP, SES, Resend, the send binding | every reply may refuse, the connection may break after the mail was taken | credentials only over TLS; failed means not taken unless the connection broke |
| access (`core/principal.ts`, `core/keys.ts`, `http/*`, `mcp/*`) | keys, scopes, memberships | authenticate, the scope and role checks of every operation | two surfaces, pending keys, revocation during a request, an OAuth exchange after a recovery | recovery leaves only keys of its own line, or names how another came; a scoped key reaches its inboxes only, on either surface |
| adapters' formatting (`schemas`, `http/openapi.ts`, `core/serialize.ts`), outbound building, pagination cursors, MIME parsing, audit, crypto helpers, the rest of `scripts/` | none, or append-only | translation | formatting and I/O | not modelled: no state of their own that another part reads |

Interactions: the HTTP and MCP adapters call the core services; the cron calls the drafts; a draft
send goes through `sendMessage` or `replyToMessage` and so through `persistOutbound`; ingest and
`persistOutbound` write the mailbox, then `emitEvent` (webhook queue), the waiter and the usage
counters; deleting an inbox or a thread cascades to what hangs off it.

Every hazard found while reading, with its line and the property that covers it (or why none does),
is listed in `PROJECT.json` under `hazards`.

## 2. Modules and plan

| module | models | checked in |
|---|---|---|
| `Drafts`, with `DraftDelivery` the abstract specification it implements and `DraftsProofs` | drafts and the cron | `MCDrafts` |
| `Mailbox`, with `MailboxProofs` and `MailboxCallsProofs` | messages, threads, attachments, storage | `MCMailbox` |
| `Identity`: the tables; `Accounts`, `OAuth`, `Orgs` extend it, `IdentitySystem` composes them; with `IdentityProofs` | accounts, codes, keys; the authorization flow; organizations | `MCIdentity` |
| `LongPoll`, `Webhooks` with `HookDelivery` the abstract specification it implements, `SendGate`, `Labels`, with `LongPollProofs` and `ServicesProofs` | the wait; webhooks and their queue; quota and suppression list; labels | `MCServices` |
| `Domains`, extended by `Routes`, with `RoutingProofs` | custom domains; inboxes, their routing rules and the setup's reconciliation | `MCRouting` |
| `Access`, `Transports`, `Dmarc`, `Intake`, with `RulesProofs` | who may call what; the wire to the provider; DMARC reports; the door for mail | `MCRules` |

`MCServices` and `MCRules` hold components that share no state: each behaviour runs one of them and
leaves the others at rest, so that a run explores their sum and not their product. `IdentitySystem` and
`Routes` compose theirs over the same tables.

What is left: the parts of the type invariant of `Identity` that no other proof needs, and models of
what section 11 lists.

## 3. Drafts

`drafts` is the D1 table (`NoRow` is no row), `bucket` the R2 objects of each draft, each holding
the number of the call that wrote it, `clock` is `now()`. Requests serve create, update, delete and
send calls; `Crons` are overlapping runs of the scheduled handler. A body is the call that wrote its
text, the number of its attachments and the call that wrote their bytes.

| actions | code |
|---|---|
| `CreateStart`, `PutObject`*, `CreateInsert` | `createDraft`: validate, `putAttachments`, `insertDraft` |
| `UpdateStart`, `PutObject`*, `UpdateWrite` or `UpdateRefused`, `UpdateReread`, `RemoveObject`*, `RemovalDone` | `updateDraft`: status check on the row read, objects, `resolveSendAt` (which may refuse, late), the UPDATE by id, the SELECT after it, the stale objects |
| `DeleteStart`, `DeleteRemove`, `RemoveObject`*, `RemovalDone` | `deleteDraft` |
| `SendStart` or `DrainStart`, `ClaimWon` or `ClaimMissed`, `LoadObject`*, `DispatchMail` or `DispatchRefused`, `PersistDone` or `PersistThrows`, `MarkSent`, `RemoveObject`*, `RemovalDone` | `sendDraft`, `drainDueDrafts` with `drainOne`: claim by a conditional UPDATE, load, `dispatch`, `persistOutbound`, mark, drop the objects |
| `DrainThrowsLate`, `MarkFailed` | the `catch` blocks; `drainOne` has the mark and the sweep inside its `try`, `sendDraft` has not |
| `Kill`, `Tick` | the invocation dies; the minute passes |

The history variables (`taken`, `openings`, `mails`, `stored`, `lost`) only record: `openings[d]` is
the sequence of statuses the row was opened with (by a create, an update or a failure), so "this
email was sent under the n-th opening" can be said. `DraftDelivery` is the promise without rows or
workers: a draft is granted permits one at a time, each permit is used for at most one email,
permits may lapse. `Drafts` implements it by the mapping at the end of the module: an open row is a
permit, and so is a claim in hand whose email is not out.

`DrainThrowsLate` may come after any number of `RemoveObject` steps: R2's delete of several keys can
throw with none, some or all of them gone, and `drainOne` then marks the draft `failed`, which can be
sent again. The properties about files name that as the one exception: an email of the draft, handed
over by a drain, is stored already (`DrainedAmong`). So the first email of a draft is never short of a
file, and a draft loses none to a send that failed before its email was out.

Left out: validation of a body, reading and listing drafts, the resolution of a reply's parent (a
missing one is a refusal), texts of errors. What happens inside `persistOutbound` is `Mailbox`.

### Runs

`CHECK_DEADLOCK FALSE` in every cfg: the calls are bounded, so the model stops when they are used up,
and the program itself may be idle.

| run | bounds | shows |
|---|---|---|
| `drafts` | 1 draft, 2 requests, 2 cron runs, 1 attachment, 3 calls, clock 0..1, 1 kill, lists of 1 | `OneMailPerOpening`, `DrainOnlySendsScheduled`, `SendingIsHeld`, `SentIsStored`, the inductive `ClaimInvariant`, and `DeliverySpec` |
| `drafts_drain` | 2 drafts, 1 request (create, send), 2 cron runs, 2 attachments, lists of 2, 1 kill | `OpenDraftHasFiles`, `MailCarriesFiles` |
| `drafts_live` | 2 drafts, 1 request, 1 cron run, lists of 1, clock 0..2, no kill, fair | `DueIsTaken`, `ClaimIsResolved` |
| `drafts_closed` | the fewest calls that show it | a documented promise the code does not keep (section 9) |

Why these bounds are enough: the conflicts are between two holders of a view of one row, and three
calls allow a create and any two conflicting calls beside two drains; a third worker adds no new
pair. Two drafts matter only where drafts meet, in the list of a drain, so they are in the runs
about lists and starvation. For the safety properties of the first run the theorems below remove
the bounds altogether.

Fairness (`FairSpec`): weak fairness of each worker's next step, because the runtime carries an
invocation it started to its end, and weak fairness of the start of a drain, because the trigger
fires every minute. Users are not fair: no call is ever owed. Kills are excluded in that run, since a
claim whose worker was killed does stay `sending` for good; the documentation says so
(`docs/architecture.md:411`), and `SendingIsHeld` shows it is the only way.

`MailCarriesFiles` passes when no update replaces attachments and fails when one does, with no drain
to blame: the passing run leaves `update` out, and the configuration `drafts_files` is the failing one.

## 4. Mailbox

One inbox of one account. `threads`, `messages`, `attachments` are the D1 tables, `bucket` the set of
R2 keys in use (`<<m, 0>>` for `raw/{m}.eml`, `<<m, n>>` for `att/{m}/{n}`), `storage` the account's
`storage_bytes`. A message's number is both its id and its `created_at`, drawn where the code draws
them, and a new thread gets the number of its first message.

| actions | code |
|---|---|
| `ReceiveStart`, `PutRaw`, `PutPart`*, `ResolveThread`, `GetThread` | `ingestInbound` up to the thread; `FindThread` is the oldest stored message among the references |
| `SendStart` or `ReplyStart`, `GetThread`, `SendMail` or `SendRefused` | `sendMessage`, `forwardMessage`, `replyToMessage` up to the transport's answer |
| `InsertThread`, `InsertMessage`, `PutObject`*, `InsertAttachment`*, `Touch`, `Record`, `InsertThrows` | the rest of `ingestInbound` and `persistOutbound`; an insert whose parent row is gone throws on its foreign key |
| `DeleteStart`, `Weigh`, `FindRow`, `SelectKeys`, `RemoveMessage`, `Release`, `DeleteObjects`, `ListRemaining`, then `RecountThread` or the steps of a thread's deletion | `deleteMessage` |
| `BatchStart`, `Weigh`, `SelectKeys`, `SelectSurvivors`, `RemoveMessages`, `Release`, `DeleteObjects` | `batchDeleteMessages` over `db.deleteMessages` |
| `DropStart`, `Weigh`, `LookupThread`, `SelectRaws`, `SelectFiles`, `DropThread`, `Release`, `DeleteObjects` | `deleteThread` |
| `StorageWriteLost` | `record` and `recordStorageDelta` swallow their errors |
| `Kill` | the invocation dies or an await throws; a redelivered email is a further receive call |

Left out here: participants, subjects, search text and the text of attachments, which no step reads,
and what other modules have: labels, the monthly count, `emitEvent`, suppressions, DMARC rows.
Each row and each attachment weighs one byte, which keeps sums and tells who forgot what.

| run | bounds | shows |
|---|---|---|
| `mailbox` | 2 workers, 3 messages, 1 attachment each, 3 calls when any overlap and 5 when made in turn, 1 fault | `RowsHaveObjects`, `CountsAddUp`, `OneAtATimeIsConsistent` |
| `mailbox_cascade` | the fewest calls that show it | section 9 |

`RowsHaveObjects` holds over every interleaving and kill. `CountsAddUp` is about stores only: once a
delete reaches a thread its `message_count` may drift, because an increment that belongs to a row
already recounted comes on top. What deletes do promise is `OneAtATimeIsConsistent`: calls made one
after the other leave count, date, thread, bytes and objects exactly right. Three calls let a store
and two deletes, or two stores and a delete, meet in all ways; five in turn let three messages be
stored and deleted through two threads.

Two properties say what goes with a delete. `OnlyNamedIsDeleted`, the promise of `docs/api.md:508-509`,
is violated in `mailbox_cascade`: a message stored meanwhile goes with the thread. `UnnamedLossNeedsOverlap`
is what remains true, and is a theorem: it takes an overlap, and no fault alone, even of an earlier call,
makes a delete take what it does not name. TLC checks it in the configuration `mailbox_named`
(`MCMailbox`), kept beside the runs.

## 5. Identity, OAuth and organizations

`db` is the set of tables, `req[p]` what request `p` remembers between its statements, `hist` what
the properties need to know of the past. Every `pc` names the statement that comes next; `Abort` lets
a request end before any of them, which is a throw, a refused mail or a killed invocation.

| actions | code |
|---|---|
| `SignupStart`, `InsertAccount`, `JoinOrg`, `MarkAccepted`, `EnsureInbox`, `InsertSignupKey` | `signup`: a fresh address gets an active key, a repeat signup a pending one |
| `CountOtps`, `InsertOtp`, `MailOtp` | `issueOtp`, shared by signup and the OAuth form |
| `VerifyStart`, `CheckOtp`, `MissOtp`, `MarkVerified`, `DeleteOtps`, `ActivateKey`, `RevokeOtherKeys` | `verify` with `consumeOtp` |
| `CreateKeyStart`, `MintKey`, `RevokeKeyStart`, `RevokeKey` | `createApiKey`, `revokeApiKey` |
| `BeginAuthorization`, `EmailStart`, `BindSession`, `CodeStart`, `InsertGrant`, `EndSession`, `ExchangeStart`, `ClaimGrant` | `core/oauth.ts` |
| `CreateOrgStart` .. `ProvisionInbox` | `core/orgs.ts`; `CountAdmins` is `requireNotLastAdmin` |

Run `identity`: two requests at a time, two accounts, in six scenarios (`Verifying`, `Rotating`,
`Authorizing`, `Founding`, `Managing`, `Crowning`) that each fix the calls in play, the tables at the start and
the bounds of codes, keys and time; one code an hour, one attempt a code, lifetimes of one or two
ticks, so every limit and expiry is met. Two requests are enough because each conflict is between a
read and one foreign write; `Crowning` lets the operator play the third part.

What holds is stated with the overlap that breaks it: `GuessesBounded` (one guess more for each
further request), `KeepsAKey`, `AdminLossNeedsOverlap`, `SecondOrgNeedsOverlap`; without a
reservation: `GrantBuysOneKey` and `GrantsAreProved`. `orgs_admin` (`Founding` and `Managing`
only) shows the overlap of the last but one.

## 6. The services around the mailbox

`LongPoll`: `email[m]` goes from accepted (its `created_at` taken) to inserted to told; `waiter` is
the Durable Object, which forgets all when evicted; a poll goes ask, list, park, and is woken or timed
out, or falls back to polling when the object cannot be reached. `ParkedMissesNothing` is the reason
`lastNotifiedAt` exists. `SkipsOnlyStragglers` says exactly which mail a client that keeps asking from
its newest `created_at` never sees: what was inserted after the client had passed it, and what shares
the `created_at` of the last message of a full page. `DeleteMail` takes a message at any time and tells
the object nothing, which goes on remembering its `created_at`: a wait may be woken for a message that
is gone when the table is read again, and answers empty before its deadline. So may one woken for a
message that is not newer than its `since`. `EmptyNeedsCause` says that nothing else ends one so, and that
what was told and is still there is in the answer; that any wait ends early is against
`docs/api.md:488` (`poll_blocks`, section 9).

`Webhooks`: rows, edits that read then write, the jobs of the queue with their tries. `taken` of
`Emit` is whether the queue accepts a batch. The consumer `Load`s the row and `Post`s; the queue may
hand a job out again after a post, at most `MaxRetries` times. `SendGate`: one account's monthly
count and suppression rows, with sends, bounces (a soft one is an UPDATE then an INSERT) and the
account's edits. `Labels`: three ways to change labels, two of them read-modify-write.

`HookDelivery` is the queue without rows, jobs or consumers: an event starts some of the deliveries that
wait for it, once; a delivery is tried a bounded number of times, may be given up on, and never starts
again. `Webhooks` implements it (`QueueSpec`), with a delivery's tries read off its job; `PostsUseTries`
ties the abstract count to the code: every post takes a try from its own delivery. Both are theorems;
the run checks the first, and the configuration `queue_tries` (`MCServices`), kept beside the runs, the
second on the same instance.

Run `services`: one client and two emails with pages of one; two webhooks, two editors, one retry; two
senders with a quota of one over two months, one reporter; two messages, two labels, a limit of one.
The overlapping pairs are all there, and one eviction, lost notification or lost count; either email may
be deleted once it is stored.

Fairness, in `MCServices` only: the clock and the timers run and D1 answers a poll (weak fairness of
each client's steps), and the queue hands its jobs out (weak fairness of `Consume`). The platform
promises both; no user, mail or edit is fair. `Answered` and `QueueDrains` rest on it.

## 7. Domains and routes

`domain` is the row, `zone` what Cloudflare holds for it (sending subdomain, routing, records with
`"ours"` for those the code wrote), `calls[p]` the request of a caller with its step. `AttemptFails` is an
error of the Cloudflare client, `CallCut` a deletion that throws or any call whose invocation is killed,
`ZoneWithdrawn` a zone the token no longer sees. `Routes` adds the rules that target the Worker and the
setup's reconciliation: `SetupMode`, `SetupInboxes`, `SetupPlan`, `SetupCreate`, `SetupAdopt`,
`SetupRemove`, `SetupSwitch` (`scripts/lib/routing.ts` plans, `scripts/lib/steps/routing.ts` executes;
`SetupAdopt` writes only the rows whose rule differs from the planned one).

Run `routing`: two callers with three calls, one address on the custom domain and one on the own, two DNS
records of which one may replace an older one, one fault, one run of the setup. One domain is enough:
nothing relates two but their number. `LeftoversNeedFault`, `StrandedNeedsOverlap` and
`UnreachableNeedsFault` say that what is left behind has a fault or an overlap to blame. A deletion that
was cut short is no such fault for the first: the row goes last and keeps its records, so one that is
repeated takes the rest out; only a first `addDomain` that failed or was cut before its row named anything
leaves what no later call finds. `SetupReconciles` says that an undisturbed setup repairs whatever came
before.

## 8. Access, transports, DMARC, the door

`Access` lists the tools of `mcp/tools.ts` and the routes of `http/routes` and, for each operation,
what `core` demands of the caller (inbox, full scope, membership, admin, deployment), and lets keys be
minted, revoked, recovered, bought by an OAuth exchange or revoked with the membership of their account
(`RemoveStart`, `RevokeAccount`), and boxes come and go, while requests are under way. `HttpAnswer` and
`McpAnswer` are what a key gets on each surface; `ScopedReachesInboxesOnly` is about both. A key's `root`
is the key its line of minting began with: `SurvivorNeedsOverlap` says what recovery leaves alive. `codes`
counts the authorization codes of an account that wait for their exchange: `Approve` adds one,
`ExchangeStart` claims one and `RedeemKey` mints, before, during or after a recovery. A recovery touches no
code, so a code approved before it buys a full key after it; such keys, and what was minted along them,
are an exception the property names (`exchanged`, which a later recovery empties again).

`Transports` runs one send: the choice from the environment, then the SMTP session one reply at a time
(any reply code at any point, or the connection closing), or one request whose answer is mapped.
`server` is what the far side saw. `Dmarc`: two workers take the same mail of one or two attachments,
each good or failing one of the checks of the reader; a report in the window of the totals has one of
three lists of records, one outside it a single record; a failure or a kill comes once. `Intake`: every
mail that differs from a plain, a forged or a returned one in one field, with up to two attachments of
eleven kinds, under the default thresholds and under one that never rejects; matching patterns in the
text is an input of the model, every condition on the result is in it.

Run `rules`: one account and the operator, one address, two requests, three keys, one code at a time, one
kill, the account an admin, a member or outside the org of the operator; two recipients, reply codes of
every class and one that is no number, one hang-up; two reports, two workers, two deliveries.
`scoped_usage` is its violated companion.

## 9. Where the code departs from its documents

Runs whose counterexample shows it:

- `drafts_closed`: an update whose status check preceded a claim rewrites a row that is being sent
  or was sent, and the draft is emailed again (`docs/api.md:594`).
- `mailbox_cascade`: a message stored between the survivors query and the batch of a batch delete
  is deleted with the thread (`docs/api.md:508-509`).
- `orgs_admin`: two admins who demote or remove each other at once leave the organization without one
  (`docs/architecture.md:598`).
- `scoped_usage`: a key with only inbox scopes reads the account's usage, over REST and over MCP
  (`docs/api.md:191-196`).

Further configurations that TLC refutes, kept beside the runs and not among them, each to be run by
hand (`tlc -config X.cfg M`):

- `drafts_delete` (`MCDrafts`): a delete removes a sending draft (`docs/api.md:594-595`).
- `drafts_early` (`MCDrafts`): a drain works through a list read at its start and claims by status
  alone, so a draft rescheduled meanwhile goes out before its new `send_at` (`docs/api.md:587-588`).
- `drafts_failed` (`MCDrafts`): a draft whose email went out is marked `failed` when a later step
  throws (`docs/api.md:583`).
- `drafts_files` (`MCDrafts`): an update refused for its `send_at` has already overwritten the
  attachments, and the next send mails them (`docs/api.md:586`, `docs/architecture.md:389-390`).
- `poll_blocks` (`MCServices`): a wait is woken for a message that is not newer than its `since`, or that is
  deleted before the table is read again, and ends empty before its deadline (`docs/api.md:488`).
- `mailbox_empty` (`MCMailbox`): two batch deletes each take the other's message for a survivor and
  leave an empty thread (`docs/api.md:508-509`).
- `mailbox_quota` (`MCMailbox`): the storage quota is checked for the raw bytes of an email and charged
  with its attachments as well (`docs/api.md:844-846`).
- `setup_zone` (`MCRouting`): the setup creates a rule in its own zone for an inbox of a custom domain
  and makes the row name it (`docs/architecture.md:245-249`).
- `spam_unread` (`MCRules`): spam sent to the tag `unread` of an address is labelled `unread`
  (`docs/api.md:243-244`).
- `transport_codes` (`MCRules`): an error of the send binding that `sendOrMapError` does not know
  answers `internal_error` (`docs/api.md:128-131`).

## 10. Proofs

TLAPS proves the following for every value of the constants, from the named assumptions of the
modules alone (`DraftsAssumption`, `MailboxAssumption`, `IdentityAssumption`, ...: numbers are numbers,
the sets that are counted are finite, `None` is no account). Every theorem of the form
`Spec => []Inv` rests on an inductive invariant that was model-checked first.

| module | invariant | theorems |
|---|---|---|
| `DraftsProofs` | `ClaimInvariant` | `TypeCorrect`, `OneMail`, `DrainSendsScheduled`, `SendingHeld`, `SentStored`, `DraftsDeliver` (refinement of `DraftDelivery`) |
| `DraftsProofs` | `FilesInvariant` | `OpenDraftsKeepFiles`, `MailsCarryFiles` |
| `MailboxProofs` | `MailboxInvariant` | `EveryRowHasItsObject`, `ThreadsCountTheirMail` |
| `MailboxCallsProofs` | `OneAtATime`, `AloneInvariant` | `OneAtATimeStaysConsistent`, `OnlyOverlapsTakeUnnamed` (an action property) |
| `IdentityProofs` | `IdentityInv` | `GuessesStayBounded`, `AKeyIsKept`, `GrantsBuyOneKey`, `GrantsStayProved`, `AdminsAreKept`, `OneOrgWithoutOverlap` |
| `RoutingProofs` | `RoutingInv`, `Alone` | `LeftoversHaveAFault`, `StrandedInboxesMetADeletion`, `InboxesAreReachable`, `SetupsReconcile` (an action property) |
| `LongPollProofs` | `PollInvariant` | `NothingIsMissed`, `EarlyHasACause`, `OnlyStragglersSkipped` |
| `ServicesProofs` | `LabelInvariant`, `GateInvariant`, `JobInvariant` | `LabelsLost`, `QuotaOverrunBounded`, `BlocksAreKept` (an action property), `UpdatesLost`, `DeletedIsNotRetried` |
| `ServicesProofs` | `QueueInvariant` | `WebhooksDeliver` (refinement of `HookDelivery`), `EveryPostCounts` (an action property) |
| `RulesProofs` | `TransportInvariant`, `AccessInvariant` | `PasswordsStayInTls`, `FailuresAreHonest`, `RecoveryHolds` |
| `RulesProofs` | `IntakeInvariant`, `DmarcInvariant` | `EvidenceOnlyAdds` (an action property), `ReportsCountOnce` |

The services and the rules are proved component by component, each under a specification of its own
(`LabelSpec`, `GateSpec`, `HookSpec`, `PollSpec`, `TransportSpec`, `AccessSpec`, `IntakeSpec`,
`DmarcSpec`); `MCServices` and `MCRules` run the same actions, one component per behaviour.
`IdentitySystem` is the composition of `Accounts`, `OAuth` and `Orgs` that `MCIdentity` checks and
`IdentityProofs` proves about.

**Drafts.** `OneMailPerOpening` speaks of emails already out, but what prevents the second one is a
fact about claims. `ClaimsAreFresh` says it: a claim in a worker's hand is of an opening that happened,
that no email has used and that no other worker holds, and the present opening of an open row is in
nobody's hand. `RowFitsOpening` ties the row's status to its last opening, which gives the drain's
property; `MessageInHand` says the message a worker is about to write into the row went out for its
draft, which gives the sent row's. `CallFitsLabel` types the local variables by label. The steps are
first classified by what they do to the parts the invariant reads (an opening, a claim, an email handed
over, an outcome written, a kill, or nothing), so each conjunct is proved once per kind of step and not
once per action; the refinement uses the same classification, with an opening as `Grant`, an email as
`Deliver`, and the rest as `Withdraw` or a stutter.

The two theorems about files have the hypothesis `UserOps \subseteq {"create", "send"}`, which is also how
the run `drafts_drain` checks the properties: with updates they are false (`drafts_files`, section 9),
since an update overwrites the objects of a row before it knows whether it may write the row, and a
delete takes them from under a send that still lists them. `FilesInvariant` says who may touch the
objects of a draft: its creator, alone, until the row is inserted, and then whoever holds the claim, also
alone; at each label it says how many of the objects are put, loaded or swept. A send that fails gives
the row back untouched, so the claim can be won again; only a row that is `sent` may be without its objects,
or one that a drain marked `failed` over a removal that threw, whose email is then stored.

**Mailbox.** That a row keeps its objects depends on what a delete carries from its reads to its
writes. `MailboxInvariant` says which messages are unborn (their number is not drawn, or their worker
has not inserted them) and which threads are fresh (only the worker that made them can name them), and
what each worker holds at each label: nobody else stores its message, the objects it is about to name
are put, and the keys a delete is about to remove belong to messages that are gone and, since nobody is
going to insert their number, cannot come back. The count follows from the same facts: the worker that
inserted a row, and nobody else, owes the thread its increment.

`OneAtATimeIsConsistent` is about states between calls, where five facts that separate statements write
must agree. `OneAtATime` says by how much they disagree inside a call: at each label, the objects put
ahead of their rows and those left behind by rows removed (`ObjectsSettle`), the bytes not yet counted or
given back (`BytesSettle`), the thread whose count and date are behind (`ThreadsSettle`), and that what the
call has read is still so (`StoreKnows`, `DeleteKnows`), all for the one call under way. Each step moves
these differences along and the last leaves none; a call that ends early has nothing to settle, because
alone it never meets the errors that overlaps cause (`InsertsDoNotThrow`). The sums are cardinalities,
which the library's facts about finite sets add and split (`WeightSplits`, `RowInserted`,
`AttachmentInserted`), so no induction is needed. The hypothesis is the property's own, no overlap and no
fault so far, and the number of calls, messages and attachments is unbounded.

`AloneInvariant` is smaller, since it must survive faults: while nothing overlapped, what the one delete
under way has read of its threads (`ReadingsHold`: who survives in them, or that nobody does) is still so
when it acts on it. A call cut off earlier may have left counts, bytes and objects wrong, but no delete
decides by those which rows to take.

**Identity.** `IdentityInv` has five parts: the shape of the tables and of what requests remember, and
one part for each kind of stale read. `CodesInv` counts the guesses in flight as well as those on the
row, which is what `GuessesBounded` needs to be inductive. `GrantsInv` says that a key is minted only by
the request that changed the grant's row, and that a code form holds the proof of its session before it
writes the grant. `KeysInv` says that the pending key a verification works with is not revoked under it
but in the ways `KeepsAKey` excepts. `OrgsInv` says that a change which has passed the count of admins
leaves another admin, and that a founder between its two statements is alone in its org. Every action
works on one part, or two, and is quiet for the others (`CodesQuiet` .. `OrgsQuiet`); each part is shown
once to survive a quiet step.

The attempt to prove `AdminLossNeedsOverlap` as it first stood failed for a good reason. `createOrg`
inserts the org and then its founder's membership, with `ON CONFLICT DO NOTHING`; in between the
operator may invite the founder's own address as a plain member, and if the founder's signup joins by
that invite first, the founder's insert changes nothing and the org has no admin. No two changes of
members overlap there. The property now counts that overlap too (`JoinOrg` records it), and the scenario
`Crowning` makes TLC meet it. In the other direction, `QuotaOverrun` turned out to hold without one of
its reservations (sends counted in a later month than they were checked in), which was dropped.

**Domains and routes.** `RoutingInv` has three parts besides the types, one for each property, because
the properties fail for different reasons. `Tidy` says what a call about the domain knows of the zone
while no two such calls overlapped: a verification and a deletion hold the tag and all the records, a
deletion has taken out every record that is no longer on its list, and when either is cut short the row
still holds all of them for the next. `Apart` says that a deletion under
way has met no creation, so neither pulls the ground from under the other. `Kept` is about the rules:
`Denotes`, that a number stored in a row, in a request or in the setup's plan names a rule of that
address or one that is gone, so that nobody removes another's rule by its number; `Creates`, that the rule an
undisturbed creation has made is still there and known to it alone when the row is written; `SetupHolds`,
that the setup removes no rule of an address with an inbox and has a rule, or plans one, for every own
inbox before it turns the catch-all off. `UnreachableNeedsFault` is then inductive with them
(`Reached`). `SetupReconciles` needs `Alone` on top: while no call on an inbox meets the setup, the rows
it read are the rows there are, and each own inbox is on its list or has the rule that the plan names.

**Long poll.** `PollInvariant` relates the object's memory to what each request may still miss:
`lastNotifiedAt` covers every notification that came before a request parks, times pass in the order in
which rows are created, and a request is woken only for something: a message that is still newer than its
`since` and in the table, or one of the causes of `EmptyNeedsCause`.

**Labels, the gate, webhooks.** `PlansAreCurrent`: a label change writes what it read unless another
crossed it. `OverrunIsInFlight`: whoever passed the quota check and is not yet counted is a sender in
flight, so the overrun is counted in senders and lost counts (hence `MaxMonth` at least one).
`RowInvariant` and `JobInvariant`: an edit writes what it read and asked for, unless crossed; a job is
in the queue or in one consumer's hand; a consumer that loaded the row before its deletion is the only
one that may still post. The refinement needs one fact more, `TriesBounded`, and `Happen`, `Try` and
`GiveUp` are what `Emit`, a redelivery and the end of a job are; every other step leaves all the tries as
they were.

**Transports and access.** The connection is encrypted in every step that may write a password, and a
thrown error that left mail with the server has met a broken connection. `SurvivorNeedsOverlap` needs to
know of every key which line it was minted along and which requests still carry an authentication by it,
and of a key an exchange bought that it was bought since the last recovery of its account.

**The door.** `AttachmentsOnlyAdd` compares two verdicts, with one attachment and without it. Every sign
of the first that the score counts is among those of the second (`ReasonsGrow`), weights are numbers, so
the sum grows, and stays grown when it is capped (`ScoreIsCapped`); with it grows the verdict
(`SeverityGrows`), and what the score does not decide, the refusal of executables and of archives that
hold them, stays (`ExecutablesStayOut`).

**DMARC.** `DmarcInvariant` says that a report has one row, whichever of its deliveries came first
(`StoredOnce`), that a worker between its two statements is at a row it made (`WorkInHand`), and that, as
long as nothing failed, every report delivered and every row without its records is in some worker's
hand (`NothingLost`). Then `CountedOnce` is about sums: the stored records, each without the number of its
row (`Bare`), are some of the records the reports hold, each at most once, and all of them when nothing
failed and no worker is at work; so the totals are bounded by, or equal to, what the reports say.

The score and the totals are sums over sets, folds of the library that compute by recursion on the set.
The library's induction theorems take an operator as a parameter and cannot be used, but a recursive
function over the subsets of a finite set is an ordinary value, and so is the set of the subsets at which
a law fails; the inclusion of those subsets is well-founded, so that set has a minimal element if it has
any (`SubsetInduction`). From there `TotalUnfolds` gives the equation of a sum, and the others its laws:
it is a number, splits over disjoint sets, grows with the set, and does not care how the elements are
named.

Every safety property that a passing run checks is a theorem. Only model-checked, and why:

- liveness (`DueIsTaken`, `ClaimIsResolved`, `Answered`, `QueueDrains`): reasoning from fairness is
  beyond the prover here. That a delivery cannot be tried for ever, the safety half of `QueueDrains`, is
  `WebhooksDeliver` with `EveryPostCounts`;
- of the type invariant of `Identity`, that rows name accounts and orgs that exist and that a member is in
  an org once: no property rests on it, and it is not proved.

## 11. Not modelled

Outbound building and address syntax, MIME parsing and writing, pagination cursors, OpenAPI, schemas and
serialization, hashing and signatures: pure functions of one input, for which unit tests do. The audit
log, which nothing but its own listing reads. The registration of OAuth clients and the checks of redirect
URIs and PKCE, the formats of the providers' bounce notifications, URL checks and signatures of webhooks:
conditions on one request's parameters, taken here as given. The extraction of attachment text, on which
nothing depends. In `Access`, who obtains an authorization code: `OAuth` has the session and the code
form, and here `Approve` stands for them, so any account may hold one (`docs/api.md:971` gives it 60
seconds). The interactive steps of the setup other than routing: run once by a person. Listing and
searching: they change nothing.
