# Verification of the VAAPP2 backend

VAAPP2 is a personal assistant that acts on its own: it reads mail, pays bills,
moves money between the owner's accounts, sends messages and keeps documents.
Its backend (`src/backend/app`, FastAPI with SQLAlchemy's asynchronous sessions
over PostgreSQL) does this through a durable workflow engine whose jobs call
external providers. What is hard in it is not any single handler but what
happens between them: a worker loses its lease and goes on, a process dies
between a commit and a POST, a provider answers late, wrongly or not at all,
two sessions hold different ideas of one row.

This directory holds TLA+ models of the engine and of the services that act
through it, the TLC configurations that check them on small instances, and proofs
checked by TLAPS for every value of the constants.

    tlc -workers 2 -config WorkflowEngine_races.cfg MCWorkflowEngine.tla
    tlc -workers 2 -config BillPayment_races.cfg MCBillPayment.tla
    tlc -workers 2 -config Services.cfg MCServices.tla
    tlapm WorkflowEngine_proofs.tla    # likewise BillPayment_, OneShotEffect_,
                                       # Communications_, Inbox_, Operations_, Owner_,
                                       # Services_

## 1. Inventory

Paths are relative to `src/backend/app/services` unless they say otherwise.

| Component | State | Operations | Hard part | Correct when |
|---|---|---|---|---|
| Workflow engine, `workflow_engine.py` | `workflow_runs`, `workflow_jobs`, `workflow_job_dependencies`; a worker's leased batch | create run, enqueue, lease, heartbeat, complete, fail, recover leases, auto-recover, compact, requeue | leases that expire under a running handler, maintenance sessions that write what they decided earlier, crashes | dependencies are honoured, starts are charged, every job settles, a run shows its jobs' outcome |
| Scheduler, `scheduler.py`, `../main.py` | APScheduler jobs, time-bucket keys | worker tick (5 s), watchdog (60 s), enqueue jobs | a tick overlaps the previous ones' leftovers | each bucket is enqueued once, the watchdog runs |
| Bill payment, `banking_service.py`, `../integrations/enable_banking.py` | `bills`, `payments`, `bank_accounts`, `oauth_states` | create payment, refresh, authorization callback, balance sync | the intent is committed before an irreversible POST | no bill is paid twice, the reserve is kept, a bill is shown paid only if it is |
| Payment recovery, `payment_recovery.py` | `payment_recovery_evidence` | reconcile uncertain payments | evidence that fits two payments | evidence is independent and found |
| Cash safety, `cash_safety.py` | none of its own | reservations, quarantine of interrupted creations | the cached balance lags the payments | nothing is released before the balance contains it |
| Own-account transfers, `financial_autopilot.py`, `own_transfer_recovery.py` | `own_account_transfers`, evidence | plan, create, authorize, refresh, reconcile | as bill payment, with two accounts | no transfer twice |
| Connector mutations, `connector_mutation_recovery.py`, `automation_engine.py` | `scheduled_connector_mutation_intents` | prepare, claim, call, complete, mark uncertain | crash after the claim | one call per occurrence |
| Gmail inbound, `gmail_sync_service.py` | `gmail_mailbox_states` (history cursor) | watch, history sync, full recovery | cursor set back, messages during recovery | no message is skipped |
| Gmail outbound, `gmail_delivery.py` | `gmail_outbound_messages` | prepare, send, reconcile | answer lost after the send | sent at most once, found when sent |
| Device communications, `communications_service.py` | `communication_actions`, dispatch claims | ingest, claim, complete | device dies after it acted, reports out of order | one device acts, success is never undone |
| Drive and archive, `drive_folder_recovery.py`, `document_archive_recovery.py` | recovery rows | create, search, adopt | creation whose answer is lost | one folder per name, one file per document |
| E-mail processing, `email_processor.py` | `email_messages`, `message_fingerprints`, the rows derived from a message | decide, file, archive, bill, close | three commits per message, fallback decisions repeated later | one bill, one task, whatever broke off |
| Action queue, `action_reconciler.py`, `communication_backlog_repair.py` | `email_messages.action_required`, `tasks` | reconcile, execute, close, repair | nothing locks the e-mail or makes a task unique | an action is done once and not forgotten |
| Authorizations, `specific_authorization.py`, `standing_authority.py` | proposals in `va_objectives`, `tasks`, audit rows of uses | authorize, decline, sweep | the text changes between display and send | declined stays declined, what goes out was shown |
| Relationships, `relationship_memory.py`, `contact_directory.py`, `relationship_preferences.py` | profiles, identities, preferences | scan, sync, merge, set a preference | merges by passes that cross | a person's addresses and wishes stay together |
| Autonomous core, `autonomous_core.py`, `communication_ownership.py` | events, objectives, steps, follow-ups, evidence | ingest, plan, execute, verify, chase, resume | verifies from other components' rows | an objective is closed only on real evidence, none is stuck |
| Intent dispatch and planner, `autopilot_service.py`, `autopilot_planner.py` | keys of the jobs they enqueued | dispatch, plan | one commit per job | a completed run did its jobs |
| Operational guardian, `operational_guardian.py` | objectives of its own | look for consents and authorizations that run out | rows replaced by new ones | the owner is asked in time and no longer than needed |
| Calendar, `calendar_ownership.py` | `calendar_mutations`, `calendar_event_mirrors` | prepare, look, submit, verify, sync | the owner and the attendees edit meanwhile | one event, changed only as it was seen |
| Browser operator, `browser_operator.py` | `browser_operations` | walk a plan, click, check, resume | a click whose effect is unknown | a side effect happens once |
| Portal documents, `portal_document_sync.py` | sources and items | list, download, ingest, one-time code | overlapping syncs, failures anywhere | what was listed arrives |
| Document obligations, `document_ownership.py` | `document_obligations`, `form_submissions` | read, fill, file, synchronise | profile facts change while a form is filed | a form is filed once |
| Telephony, `telephony_service.py` | `telephony_calls` | dial, callbacks, turns, reconcile, retry | callbacks and decisions overwrite each other | no redial after an outcome |
| Fulfilment, `fulfillment_service.py`, `operations_service.py` | requests, actions, ledgers of orders and cases | plan, dispatch, observe, authorize, dismiss | the request is settled by another run | ordered once, closed by evidence |
| Investment, `investment_autopilot.py`, `investment_recovery.py` | funding transfers, trade intents | fund, wait for the deposit, buy | overlapping passes at bank and exchange | a contribution is invested once |
| Forecasting, `financial_forecasting.py`, `financial_autopilot.py` | forecast runs, allocation actions, policies | forecast, plan, dispatch, resume | actions resumed under another forecast | moves stay within the surplus |
| Reconciliation, `financial_reconciliation.py`, `bank_statement_import.py` | transactions, statement rows, matches | import, match, spread, pair | every stage commits, passes overlap | a movement of money counts once |
| Briefings, `briefing_service.py`, `briefing_delivery.py`, the phone's `background_service.dart` | `briefing_deliveries`, the phone's storage | check, ask, show, prove | shown and proven at different moments | no gap between two briefings |
| Android client, `SmsReceiver.kt`, `VaNotificationListenerService.kt`, `VaBackendClient.kt` | outbox, markers | capture, flush, dispatch | two captures of one message, process death | a message becomes one event |

The remaining parts (statement parsers, schema migrations, OAuth of connectors,
wording and user interface) are listed with reasons in `PROJECT.json`.

How they interact: the scheduler and the autonomous core enqueue jobs; the
engine leases them and runs a handler in a database session of its own; a
handler calls the services above, which commit several times and call providers
in between; the owner's routes call the same services in their own sessions;
the watchdog repairs engine rows and interrupted money movements together.
Everything is shared through rows; there is no other channel. Two properties of
the persistence layer decide much of what follows (`core/database.py`,
`async_sessionmaker(..., expire_on_commit=False)`): a session keeps what it
loaded until it is told to refresh it, and an UPDATE names the primary key and
only the columns whose value differs from the loaded one. A check on a loaded
attribute is therefore a check on the past.

The hazards of the code, each at its line and with the properties that watch it,
are in `PROJECT.json`.

## 2. Modules

| Module | What it is |
|---|---|
| `HandlerOrder` | abstract: handlers run at least once, for admitted work, after what they depend on |
| `WorkflowEngine` | the engine: rows, workers, maintenance sessions, time; implements `HandlerOrder` |
| `MCWorkflowEngine` | its small instances |
| `WorkflowEngine_proofs` | its theorems |
| `BillPayment` | payment of bills by concurrent sessions against an unreliable bank |
| `MCBillPayment` | its small instances |
| `BillPayment_proofs` | its theorems |
| `OneShotEffect` | abstract: an effect in the world is claimed, attempted once, reported only when it happened |
| `ConnectorMutation`, `OwnTransfer` | the connector rules and the transfers between own accounts; both implement `OneShotEffect` |
| `GmailDelivery`, `DeviceDispatch`, `OutboundCall`, `CalendarBooking` | what is sent to other people: e-mail, SMS, calls, events |
| `GmailCursor`, `MailTriage`, `MessageIntake`, `Relationships` | what comes in: the mailbox, one message, the phone's messages, and from whom |
| `Objectives`, `SystemRecovery`, `OwnerPrompts`, `ActionQueue`, `Authorization` | what the core makes of it, and what it asks the owner |
| `PortalOperation`, `PortalDocuments`, `DriveArchive`, `FormObligations` | portals and documents |
| `Purchase`, `FulfilmentCases` | orders, deliveries and support cases |
| `Investment`, `Allocations`, `LedgerEvidence` | money: invested, moved by forecast, and what both learn from |
| `Briefings` | what the owner is told, and the proof that he was |
| `MCServices` | small instances of all of these services |
| `MCLedgerEvidence` | an instance of `LedgerEvidence` whose row resembles the bank's record too little |
| `OneShotEffect_proofs` | theorems about `ConnectorMutation`, `OwnTransfer`, `Allocations` |
| `Communications_proofs` | about `GmailDelivery`, `DeviceDispatch`, `OutboundCall`, `CalendarBooking`, `FulfilmentCases` |
| `Inbox_proofs` | about `GmailCursor`, `MailTriage`, `Relationships`, `MessageIntake`, `ActionQueue`, `Briefings` |
| `Operations_proofs` | about `PortalOperation`, `DriveArchive`, `Purchase`, `LedgerEvidence` |
| `Owner_proofs` | about `FormObligations`, `Investment`, `Objectives`, `Authorization`, `SystemRecovery`, `PortalDocuments`, `OwnerPrompts` |
| `Services_proofs` | the theorems of these five carried over to `MCServices` |

### WorkflowEngine

*State.* The columns of `workflow_jobs` that are read (`status`, `attempts`, `owner` for
`lease_owner`, `lastError`), two flags for time (`due`: `run_after` has passed; `expired`:
`lease_expires_at` has passed), the audit rows that count automatic recoveries, and
`runStatus`. A worker process has `batch` (the rows `worker_tick` still holds), `session`
(the job whose handler runs), `loadedOwner` and `loadedAttempts`, what its session loaded
of the row before the handler ran. A maintenance session has `stage` (the next query of
its program) and `plan` (the updates it decided on and has not committed). `done` and
`starts` are history.

*Actions.* `CreateWorkflow`, `EnqueueJob`, `LeaseDueJobs`, `HeartbeatJob`,
`CompleteJob`, `FailJob` are the functions of those names; each includes the
refresh of the run. `StartHandler` and `SkipLostLease` are the two outcomes of
`execute_one_job`'s check; `FailRefused` is the `RuntimeError` that `fail_job`
raises when the lease is gone, which leaves `worker_tick` and abandons the batch.
`CrashWorker` is the death of the process. `StartMaintenance`, `ReadRows`,
`WriteRows` run one of five programs: the watchdog (recover leases, compact),
provider health (compact, auto-recover), the owner's "recover all" (compact,
requeue all), a single requeue, and the autonomous core's resumption of
user-required dead letters. `AbortMaintenance` is a crash or exception there.

*Why two steps.* A handler's session and a maintenance session read rows, go on
(await a provider, another row, the database), and write later; every other
operation reads and writes without an await that matters between, under a row
lock or after a fresh read. `CompleteJob` checks `loadedOwner` and not `owner`, because
`complete_job` compares an attribute that was loaded before the handler ran.
`FailJob` and `FailRefused` decide on `RowAsSeen`: `worker_tick` rolls back before it
calls `fail_job` (`workflow_engine.py:820-824`), and a rollback expires the session's
copy only if a transaction is open. If the handler's last statement was a commit, the
check of the lease and the comparison of `attempts` with `max_attempts` are made on the
copy from before the handler, and the UPDATE by primary key takes the lease from
whichever worker holds it now.

*Abstracted.* Error texts are model values classified by `Transient` and
`UserRequired`; payloads and results are left out; backoff is "later".

### BillPayment

*State.* `bill` and the columns of `payments` (`pay` is the status), the stored `redirect`
URL with its OAuth state row, `account` (which payments the cached balance contains, and
which completed rows are older than `last_synced_at`), a balance a sync has read and not
stored, the sessions (`pc`, `target`, `slot`, and what each has in memory: the `held`
account, the bank's answer `seen`, whether that is the `same` as the status it loaded,
whether one transaction alone `matched`), the row lock, and `bank`, what really became of
each payment. `misreported`, `overlooked` and `misled` are history.

*Actions.* `LoadBill`, `LockRows`, `InsertIntent`, `PostPayment` and the three
answers are `create_payment_for_bill` as the handler, the owner's sync or the
payment route call it. `RefreshPayment` and `AuthorizationReturns` ask the bank;
`WriteProviderStatus` writes what it answered. `AuthorizationFails` is the
callback with an error. `QuarantineStaleIntent`, `FetchTransactions` and
`WriteEvidence` are the recovery; `ReadBalance` and `StoreBalance` the balance
sync. `BankDecides` is the bank. `Crash` ends any session between two of its steps:
what it committed stays, its lock is freed.

*Abstracted.* Every bill costs one unit and there is one approved account, so
that amounts are cardinalities; the match by amount, days and creditor is the
relation `Alike`. What the bank lists for an uncertain payment (`Listable`) is whatever
matches, as in the code: booked payments always, pending and rejected ones perhaps, and
perhaps a credit, since amounts are compared without their sign (`Credits`). A single
match that is none of the bill's executed payments completes the payment; `misled`
records that. The creditor policy checks read rows that do not change; only
one balance sync is open at a time.

### The services

Every service module has the same layout: rows of the database as variables, one
record per session for what it has loaded and where it is, a few variables for the
provider or the phone, and history variables only where a property speaks of the
past. A session step ends where the code commits or awaits a provider; what lies
between is one action, with every write of it. `…Dies` and `Crash…` actions end a
session between two of its steps. Names of actions follow the functions (the line
ranges are in `PROJECT.json`).

*The abstract effect.* `OneShotEffect` has four steps per intent: `Claim`, `Attempt`,
`Perform`, `Report`. An attempt needs a claim and is the only one; a report needs the
effect. `ConnectorMutation` implements it with the rows of its intents (claimed: no
longer "prepared"), the calls to the provider and what the provider carried out;
`OwnTransfer` with the rows of transfers, the orders posted, what the bank holds, and
the transfers that are known by an id. The other services have a promise that is
weaker (an e-mail that is in doubt may be searched for and sent once more by a
session that began before) or a different one, stated in their property.

*ConnectorMutation.* `lastRun`, `mutation` (the intent's status), `ruleSession`,
`mutated`, `calls`, `ruleClock`. `LoadRules` to `EndRun` are
`run_connector_automation_rules` with `prepare_`, `claim_scheduled_connector_mutation`
and the provider's call; `Suppress` is the replay status. All rules have one interval.

*OwnTransfer.* `moved`, `known`, `sca`, `allotment`, `linked`, `booked`, `atBank`,
`orders`, `misread`, `mover`, `sourceLock`. Budget and allocation actions plan a
transfer under the row lock, insert it under a unique key, post it; refresh, callback,
quarantine and recovery by a listed transaction follow, whatever the transaction's
status. All amounts are equal, so that any transaction fits any transfer: the worst case
for the evidence.

*GmailDelivery.* `outbound`, `mailbox`, `mailer`, `posts`, `early`.
`send_or_reconcile_gmail_outbound` and `ensure_gmail_outbound_verified` work on the
row as loaded: search SENT, record the submission, send, record the answer. A session
that loaded the row while it was "prepared" submits although another one has meanwhile
(finding 4); `early` names the sessions that can.

*GmailCursor.* `cursor`, `mail`, `inInbox`, `forgotten`, `watching`, `sync`.
`history_sync`, `full_recovery_sync`, `sync_gmail` and the watch; a message is its
position in Gmail's history, and `mail` the status of its row: none, processed, or
deferred when no analysis could be had. A session takes a message, reads its row, and
writes at the end of `process_single_message` whatever the row says by then. The cursor
goes past a deferred message; only another look by `sync_gmail` comes back to it.
`passedOver` is what a recovery scan was too short for.

*DeviceDispatch.* One SMS: `action`, `claimant`, `step`, `uplink`, and per phone its
worker, its marker and whether the carrier owes an answer. A request to
`claim_communication_action` or `complete_communication_action` loads the action without
a lock when it is posted (`uplink` keeps what it `seen`) and commits later, so that other
requests, the worker, the receiver, the carrier's callback and the objective's step come
in between; the step too reads the failed action and puts it back later (`FindFailed`,
`RetryFailedAction`). `causes` says why a message may go out a second time: a phone sent
or gave it up without holding the claim, a failure was applied from a stale row while the
message was under way, the step put back an action that no longer had failed.

*DriveArchive.* `intent`, `bound`, `onDrive`, `searchable`, `record`, `owned`,
`ingestion`. The folder and the file follow the same protocol: prepare, search, claim,
create, bind or record the doubt. A path has one component.

*PortalOperation.* `operation` (status, step, marker of the side effect), `runnable`
jobs, `browser` sessions with the row as they hold it, `clicked`. The engine may run a
job again, the owner may resume: nothing claims the operation.

*OutboundCall.* `call`, `errand`, `dialer`, `turn`, `reader`, `line`. A session saves
the columns that it changed of the row that it loaded (`SaveCall`); callbacks may be
lost, repeated or late; a next attempt is only created.

*CalendarBooking.* `event` at Google with its version, `booking`, `courier`,
`requests` that Google may still serve, `mirror`. Updates carry If-Match; the owner
and the attendees change the event at any moment.

*Objectives.* `plan` (steps by position), `chaser`, `events`, `stage` and `batch` of
the cycle. The reply, its wait and every chase are steps; `ReadDue` and `RecordDue`
are the two halves of `process_due_followups`, because an answer may cancel between.

*Authorization.* `case`, `draft` (version of the text), `replyPlan`, `uses`,
`decider`. The owner's two requests and the sweep read a proposal and commit later.

*ActionQueue.* `letter` (the flag and what it asks for), `queue` of tasks, `proof`
(audit records), `plan` of the reply's objective, `hand`. `Reconcile` reads, `Settle`
writes; `Execute`, `Send`, `RecordSent` are the owner's execution.

*MailTriage.* One message: its row, the remembered decision (`fingerprint`), `bills`
by creditor name, `chores`, the row lock, and what each session has not committed. A
session commits up to three times and gives up the lock with the first.

*MessageIntake.* `outbox` and `request` of the phone, `flush` of its worker, `rows` of
events. The outbox is one stored list, which each thread loads, changes and stores whole
in two steps, without synchronisation; it is limited (`OutboxLimit`, the oldest give
way), reads as empty when it cannot be decrypted and is not stored when it cannot be
encrypted (`KeyFaults`). `discarded` records the messages that went this way. The same
SMS is captured by the receiver and by the listener; the backend takes both for one
message within two minutes, and repairs what got past that. The worker's flush is
modelled; that of the app's own button (`MainActivity.kt:238`) is not.

*Relationships.* `people`, `owner` of each identity, `facts` (preferences), `scribe`.
A pass reads the owners, and applies at its end: a new profile, an identity more, or a
merge into the oldest. A profile is the set of identities in its key.

*SystemRecovery.* `work` (jobs with the class of their error and what replaced them),
`run`, `step`, `manual`. The owner's run becomes an objective, which puts jobs to the
engine one commit at a time; dead letters are requeued, superseded and taken back.

*OwnerPrompts.* One `row` that asks for the owner (with the periods for which it asks and
the `latest` one), its `event`, its `prompt` (objective) per period, `cycle` sessions.
Three stages (seed, process, reconcile) for payments, tasks and dead letters; the guardian
for consents that run out.

*PortalDocuments.* `source` (status, challenge, one-time code), `papers` (items),
`fetcher`, `archive`. A sync lists, downloads and ingests; another one, the owner's
test and a deletion may run meanwhile.

*FormObligations.* `duty`, `filings`, `formOp`, `profile`, `clerk`. A form is filled
with the profile as it is, filed as an operation, and replaced when the operation
could not submit; listing routes do the same work as jobs.

*Purchase.* `purchase`, `deeds` (actions, each with its browser operation), `ordered`,
`fulfiller`. A run observes its last action, or opens and dispatches one. Observation
and its commit are one step; runs that cross there conflict (`RunBreaks`).

*FulfilmentCases.* `ledger`, `request`, `objective`, `checks`, `agent`. As `Purchase`,
for deliveries and support cases, whose ledgers e-mails keep.

*Investment.* `contribution` with its trade, `debitOf`, `transit`, `buys`, `investor`.
Fund from the bank, wait for the deposit (or for a balance that has grown by the amount,
wherever it came from), submit the order under a client id, trace it when the answer was
lost; each pass works with the statuses it loaded.

*Allocations.* `cash`, `purse`, `policy`, `ahead`, `runs`, `actions`, `funder`. The
forecast is computed (base and cautious scenario over a scaled month); a plan moves
from operating accounts to the first wallet that lacks something; actions left behind
are resumed by the next cycle.

*LedgerEvidence.* `live`, `imported`, `attached`, `noted`, `marked`, `matched`,
`keeper`. Every stage of a reconciliation pass is a step, because each commits. The score
of a row and a bank's record is one of the classes that `_match_score`'s thresholds tell
apart (`Likeness`: not a candidate, below 0.55, below 0.64, above); `BestOf` takes the
record most alike, and asks for more when there are several. Statements may overlap, and
rows may resemble the records of other movements or their own too little; the property
says for which movements the counts are right (`ToldApart`, `IsClear`).

*Briefings.* `news`, `deliveries`, `phone`. A check asks for the window since the last
proven briefing, shows it, remembers the proof, and sends it now or at a later check.

## 3. Runs

| Run | Asks | Instance | States |
|---|---|---|---|
| `engine_races` | the safety of the engine; `ImplementsHandlerOrder` | 2 jobs in a run, one after the other; 2 workers, 1 maintenance session, 2 attempts, no automatic recovery | 2.5 M |
| `engine_live` | does every job settle; does the engine come to rest | the same jobs outside a run, 1 worker, 1 session, 1 automatic recovery | 239 k |
| `payment_races` | the safety of payments | 2 bills, 2 payments, 2 sessions, funds 2, reserve 1 | 1.2 M |
| `payment_recovery` | are interrupted and executed payments found out | 1 bill, 2 payments, 1 session | 5.1 k |
| `services` | the safety of the 25 services; that two of them implement `OneShotEffect` | below | 2.5 M |
| `double_payment`, `shared_evidence`, `sync_stamp` | findings 1 to 3 | 2 bills, 2 payments, 2 sessions | |
| `mail_twice` | finding 4 | 1 mail, 2 sessions | |
| `unclaimed_sms` | finding 5 | 1 phone, 1 request at a time | |
| `lost_sms` | finding 6 | 2 messages | |
| `counted_twice` | finding 7 | 1 movement, 1 row, 1 session | |

*Why the bounds are enough to be interesting.* Two workers and a maintenance
session are what it takes to recover a lease, lease the job again and have the
first worker come back; a chain of two jobs has a dependent; two attempts make a
retry and an exhaustion different; a run of two jobs tells "all" from "some".
The instance is symmetric in the workers. Two sessions race for one bill, or for
the funds of two; funds 2 and reserve 1 allow exactly one payment; two payments
let one be repeated. Bills and sessions are symmetric there. `MaxAttempts`,
`MaxAuto`, `Payments` and `Funds` bound the counters; the owner's requeue resets
`attempts`, so no other bound is needed. Automatic recoveries are left to `engine_live`:
with them the instance of `engine_races` takes longer than a run may, and the theorems hold
for any `MaxAuto`.

*One run for the services.* They share no variable, so `MCServices` holds them side by
side: the initial state chooses the service that runs, and the others rest. The state
space is the sum of theirs, not the product. All are instantiated over one set of cells
`v1` to `v12`, because a variable costs TLC time in every state. Each property is
`service = ... =>` the service's own one; those of the connector rules and the transfers
say that the first state and every step of the service are ones of `OneShotEffect`
(`EffectInit`, `EffectStep`). Deadlock is not checked: every service comes to rest when
its bounds are used up.

*Its bounds.* Two sessions wherever sessions race: all races described in the hazards are
between two, and the sessions are symmetric. One row of a kind that is independent of the
others (one mail, one file, one contribution, one mutation), two where rows meet (two
proposals under one daily limit, two messages with one text, two identities of one
contact, the statements of two accounts and a second export of one of them, whose row
resembles the bank's record less, two sources of money). `RequestLimit` is 2, so that a
claim or a result is overtaken by another; `OutboxLimit` is 1, so that the second message
finds a full outbox, and `KeyFaults` holds both faults. An SMS is followed up to the first
of its causes (`UntilCaused`): what it does after that the property leaves open but for
"completed only if sent", which the theorem covers in every state. Two attempts, so that
the last differs from the first; counters one above what a property forbids (`MaxPosts`,
`MaxCreates`, `BuyLimit`, `BillLimit` and `ActionLimit` are 2 where 1 is allowed, so that
a repetition can show). The world changes once or twice (`EditLimit`, `TurnLimit`,
`NewsLimit`, `MailLimit`). Larger instances were checked once each, without an error:
`SystemRecovery` with both sync parts (400,000 states); `ActionQueue` with two kinds at
once (163,014); `Allocations` with more turns and cycles (4.5 M and 5.15 M);
`FulfilmentCases` with more checks and news (542,334 and 2.48 M); `Briefings` to tick 3
with a lookback of 2 (1.77 M); `Relationships` with 4 identities and 3 profiles (5 M);
`FormObligations` with 3 profile changes (3.59 M).

*Properties.*

- `DependenciesHonoured`, `ImplementsHandlerOrder`: the `has_blocker` clause holds
  up although completed rows can be put back to retry by a stale watchdog.
- `StartsAreCharged`, `AttemptOverrun`: attempts are charged at the lease, so a
  job that kills its process runs out of them; a lease can be given back with an
  old decision, once for each maintenance session and once for each worker but the
  one that took the last attempt.
- `SettledRunReported`: a run whose jobs have all settled shows their outcome.
- `EveryJobSettles`: no job stays between states, except behind a dependency that
  settled without completing (which the code leaves blocked).
- `QuietWithoutOwner`: retries and recoveries are bounded when no failure is
  classified `user_required`; with one they are not (section 5).
- `PaidOnce`: the bank holds two payments of one bill only if it reported one of
  them as failed: crashes, lost answers, duplicate handlers and the quarantine
  never pay twice on their own.
- `ReserveKept`: everything the bank accepted leaves the safety reserve, except
  after such a report or the sync of finding 3.
- `PaidBillsWereSettled`: a bill is shown paid only when the bank executed one of
  its payments, or on the word of a single listed match that was something else
  (`misled`: finding 2). Nothing but that match can show it wrongly: no late
  answer, refresh, callback or older evidence.
- `IntentsResolve`, `SettlementRecognised`: the quarantine takes over an
  interrupted creation; an executed payment is found by its id or by its
  transaction, unless it was given up without an id or several match.

Of the services (each is stated with its exceptions at the end of its module; the
exceptions are the code's, not the model's):

- `TypesOK`: no service writes a status that its table does not know.
- `MutationsAreOneShot`, `MovesAreOneShot`: the refinements of `OneShotEffect`.
- `LateSessionsDoNotSend`: no message goes to Gmail before its row says so, none is reported
  that Gmail did not accept, and after the first submission is on record only a session
  that was already at work on it submits again. That such a session does is finding 4.
- `CursorPassesNoUnreadMail`: a message before the cursor is on record, processed or
  deferred, has left the INBOX, or was out of a recovery scan's reach.
- `SmsRepeatsAreCaused`: claim and marker together; a second dispatch, or a retry of what
  was sent, needs a cause on record. That the receiver sends without a claim, the first of
  the causes, is finding 5.
- `ArchivedOnce`, `EffectsAreNotReplayed`, `PurchaseIsOnce`, `InvestedOnce`,
  `FormFiledOnce`, `BilledOnce`: an effect happens once through every failure, doubt and
  resumption; the exceptions (an overlap of two jobs, a run that overtook another, two
  passes with one contribution in hand, a form prepared by two sessions, sessions past
  the row lock) are history variables, each set by the step where the code lets it happen.
- `NoRedialAfterOutcome`, `BookedAsSeen`: the order of callbacks and the edits of others
  never redial a settled errand nor overwrite a version that was not looked at.
- `ChasedUntilAnswered`: what waits for a counterparty will be chased or told.
- `RepliesAreAsDecided`: what the owner declined is not planned, and what goes out on
  his word is the text that he was shown.
- `ClearMoneyCountsOnce`, `PeopleStayThemselves`, `DoneMeansDone`, `PromptsAreCurrent`,
  `ActionsEndOnce`: one pass that runs alone sets right whatever overlapping or broken
  passes left, and what is called done was done. For money this is claimed of movements
  that are told apart from others, whose one row resembles the bank's record enough; that
  others count twice is finding 7.
- `PortalDocumentsArrive`: a sync that was neither cut by its limit nor failed leaves
  nothing of its listing out, even if others run beside it.
- `MovesStayWithinForecast`: the moves of a plan stay within its surplus, unless a cycle
  began to resume them while the plan went on, and the cautious low point above the floor.
- `CasesEndByEvidence`, `MessagesAreKept`, `BriefingsLeaveNoGap`: a case is closed by
  evidence; a message that no other write to the outbox discarded becomes an event of its
  own, or is still in the outbox (those that were discarded are finding 6); a briefing
  leaves out nothing that a later one does not cover.

## 4. Fairness

`WorkflowEngine`: weak fairness of leasing, of executing the batch, of a handler
that returns or raises, of a maintenance session's next query, and of time:
APScheduler fires the worker and the watchdog for as long as the process lives
(`scheduler.py:327-358` and the intervals in `start_scheduler`). Strong fairness
of the watchdog's program: the one modelled session can be taken by other
programs and each pass can be aborted, but the code opens a new session every
minute and is not killed in all of them. No fairness of crashes, heartbeats,
enqueueing or the owner's buttons.

`BillPayment`: weak fairness of a session's own next step (each request has a
timeout), of the quarantine; strong fairness of the banking autopilot's
transaction fetch and refresh of each payment, for the same reason as above.
None of the bank's decision, of the owner's return from the bank's page, of
loading a bill or of the balance sync.

The services are checked for safety only: their modules state no fairness, and their
properties no progress beyond "after a pass that ran alone".

## 5. Findings

1. **A gateway error is read as a rejection** (`double_payment`). Every status of
   400 and more becomes "failed", a 502 after the bank took the payment included;
   the retried job pays again.
2. **One transaction is evidence for two payments** (`shared_evidence`). The
   uniqueness is per payment and transaction. Nor is the transaction asked to be
   booked, or a debit: pending and rejected rows and credits are matches as well.
3. **A balance is stamped later than it was taken** (`sync_stamp`). A payment
   completed during the balance request is released although the balance does not
   contain it.
4. **A prepared e-mail is submitted twice** (`mail_twice`). Two sessions load the row as
   "prepared"; neither locks it or reads it again. The second one searches SENT before the
   first one's message is to be found there, and submits it too, which the documents
   (V1.0.13) and the comment beside the check exclude.
5. **The receiver of SMS sends without a claim** (`unclaimed_sms`). `SmsReceiver` hands the
   reply it was answered with to the carrier after setting the phone's own marker;
   V1.0.16 asks for the backend's claim before every dispatch. The action stays "pending"
   until the result arrives, and another phone may claim it.
6. **An SMS is dropped from the outbox** (`lost_sms`). Every thread loads, changes and
   stores the whole list: what another one queued in between is gone. So is everything
   after a failed decryption, the oldest beyond 200 entries, and what was queued during a
   flush, which empties the outbox at its end.
7. **A movement counts twice** (`counted_twice`). A statement row whose score stays below
   0.55 (0.64 among several records) is not matched. A card payment that was booked a day
   later reaches 0.50: row and record both count, although the pass ran alone.

The engine departs from its documents in four more places. They are in `WorkflowEngine`
as they are in the code, its properties leave room for them, and no run of their own shows
them:

- A lost lease stops neither a completion nor a failure. The check in `complete_job`
  (`workflow_engine.py:651`, "workflow lease ownership changed before completion") and the
  one in `fail_job` may look at the row as it was before the handler ran, and the UPDATEs
  name only the id: a worker whose lease was recovered and given to another completes,
  retries or dead-letters the job and clears the other's lease (`CompleteJob`, `FailJob`).
- Compaction drops work. Dead letters with the same type and error are "obsolete duplicate
  attempts" (docs/V0.5.2_GMAIL_SELF_HEALING.md:52), though they belong to different bills;
  `superseded` rows are never taken up again, and the planner's version key returns the
  superseded row for ever (`WriteRows`).
- A run is completed too early, although "workflow completion is verified from durable
  workflow state" (README.md:105 of the repository). Jobs are enqueued one commit at a
  time; the run completes with its first job and `enqueue_job` does not reopen it, while
  the core takes its status as evidence (`EnqueueJob`, `Refresh`).
- Automatic requeueing is unbounded, where docs/V0.6.1_VALIDATION.md:33 has "a bounded
  recovery budget": the core requeues `user_required` dead letters of a run whenever the
  capability is available, without a count (the program "resume").

Seen in the documents only, no run: `quarantine_stale_creation_intents` sets
`requires_user_action` and opens an approval task (`cash_safety.py:134-156`),
which docs/V1.0.10_PAYMENT_UNCERTAINTY_RECOVERY.md:13 says never happens; the
recovery clears both later.

Behaviour met while modelling the services, for which no document or test says
otherwise. It is in the models as it is in the code; where a property would fail, the
exception is a history variable that names it. The most serious ones first.

- *Fulfilment.* A run that holds a row which another run settled creates a new action:
  the purchase is made twice. So does a conflict over an evidence key, which writes
  "blocked_system" over "completed". The owner's authorization of a `needs_user` request
  never dispatches it. A crash after `_ensure_action`'s commit leaves the request stuck.
  `upsert_order` overwrites the owner's "not_order"; overlapping runs call a support
  line twice; cancelled purchases that still execute do not count in the month.
- *Device communications.* `find_cross_transport_duplicate` skips events that
  have an action, so an SMS that was answered automatically gets a second event and
  reply. A notification's id has no time: an identical later message is dropped. A late
  failure report releases a claim, and one that was loaded before a success undoes it
  (`complete_communication_action` reads the action without a lock).
- *Relationships.* After a merge the loser's preference keeps its `source_ref`, so that
  `routine_auto_send=False` silently stops applying. A pass that crosses another may
  split a joined contact until the next pass over it (met in the proof).
- *Core.* A crash after the "running" commit leaves a step running for ever; an answer
  does not cancel a follow-up that is dispatching; `process_due_followups` overwrites a
  concurrent cancellation; a second dead letter of a requeued job is never shown
  (`autonomous_core.py:2398`).
- *Recovery.* When a dead letter's own objective is processed before the run's, the
  run's step stays "blocked_user" although the run completes. A superseded part of a
  run blocks its planner for ever. A dispatch that raises midway completes the run
  without its planner.
- *Action queue.* Execution has no claim: a crash after the send sends again. A reply
  that is queued as an objective gets an "Approve reply" task too (`routes.py:485-505`).
  A task the owner cancels is created anew by the reconciliation of the same route.
- *Authorization.* A decline that races with a sweep is overwritten and the reply goes
  out; the fingerprint does not bind the recipient; two cycles can exceed the daily cap.
- *Investment.* A crash while "creating" is never quarantined and blocks funding for
  ever; overlapped passes submit again; an HTTP error of the price request escapes after
  the "submitting" commit.
- *Transfers and forecast.* A 5xx is read as failed; `rcvd` and `pdng` are not active.
  The gap of a wallet is not lowered by the plan's own moves; actions are resumed with
  their old amounts; a crash mid-plan leaves the plan "planning".
- *Documents.* The deadline is part of an obligation's key: another reading files the
  form again. A session that loaded the obligation before its first form can take it
  back to an older form (met in the proof). A document record is committed before
  `_financial_ownership`: a crash between them skips it for ever.
- *Portals.* A blocked navigation after a side effect sets "failed"; resume during an
  engine retry runs two jobs at once; rows that always fail starve later ones.
- *E-mail processing.* The bills table has no key: fallback and AI may bill under two
  names, and overlapped sessions twice.
- *Calendar.* Attendees who answer before verification are chased anyway; an event the
  owner deleted before verification is tried until the attempts run out.
- *Telephony.* The reconciliation and the dispatch's answer write stale columns over
  webhooks; a turn decided after the provider's end leaves the errand unfinished.
- *Statements.* A pass that read a row before another marked its pair counts internal
  money until the next pass; of two exports that list one movement the second counts
  beside the bank's record.
- *Guardian.* Re-consent inserts a new bank connection: the old one's "Renew" objective
  never closes.
- *Gmail.* The history listing follows added messages only; a bounded scan can be too
  short; a message that the analysis deferred is behind the cursor, and only a later
  `sync_gmail` that still lists it among the newest tries again.
- *Briefings.* With two enabled periods ready the phone shows them in turn every quarter
  of an hour until midnight (`background_service.dart:196-198` says it does not show one
  twice); an e-mail stored after a briefing that covers its time is in no briefing.
- *Connectors.* The OAuth configuration is read before the refresh call and written back
  whole after it.

Hazards that no property covers yet: paging of
transactions (`payment_recovery.py:217`), two refreshes of one run at once
(`workflow_engine.py:513`), the rollback in `enqueue_job` (`workflow_engine.py:565`), a
failed payment that leaves its bill "payment_initiated" (`banking_service.py:377`), and
the reclassification of bills (`financial_reconciliation.py:285`, in `PROJECT.json`).

## 6. Proofs

`WorkflowEngine_proofs` proves, for any sets of jobs, workers, sessions, runs and
errors, any dependency relation and any bounds:

- `TypeCorrect`: `Spec => []TypeOK`.
- `DependenciesHonouredHolds`: `Spec => []DependenciesHonoured`. The property is
  not inductive: a row is leased before its handler starts, and its dependency's
  row can leave `completed` meanwhile. `OrderInv` adds that a completed row has a
  successful handler behind it (`done`) and that the dependencies of everything in
  a batch are done; `done` never becomes false again, and that closes the
  induction.
- `StartsAreChargedHolds`: `Spec => []StartsAreCharged`. `ChargeInv` adds that a
  job in the batch of the worker that holds its lease has a start left: the lease
  charged one, and it leaves the batch when it starts.
- `EngineImplementsHandlerOrder`: `Spec => ImplementsHandlerOrder`. `RowInv` says
  that every job with an update in a plan, and every job in a session, has a row;
  each step then admits, starts, returns or stops one handler or stutters. All of
  the maintenance maps to stutters.

- `AttemptOverrunHolds`: `Spec => []AttemptOverrun` for any finite set of
  sessions. A lease does not look at `max_attempts`; `OverrunInv` therefore bounds
  a sum: the attempts of a row, its next lease if it is leasable, and the retries
  that sessions have decided on and not committed. A lease or a commit moves one
  unit inside the sum, and a retry is decided below the maximum only, where the
  bound holds whatever the sessions do. Workers whose handler may still fail on the
  row as they loaded it count like sessions: all but the one that took the last
  attempt, which saw that there is none left.
- `SettledRunReportedHolds`: `Spec => []SettledRunReported`. Per run, a step
  refreshes it after the write, or leaves one of its rows unsettled, or changes
  none of its settled rows; `RunInv` says that jobs enter only runs that exist.

They rest on `EngineAssumption`. So every safety property the engine's run checks
is also a theorem.

`BillPayment_proofs` proves, for any bills, payments, sessions, funds and reserve
(`PaymentAssumption`):

- `TypeCorrect`: `Spec => []TypeOK`.
- `PaidOnceHolds`: `Spec => []PaidOnce`. A payment is *open* when the bank holds it,
  or a session is about to post it, and nobody has called it failed. `OpenInv`: an
  open payment is active, so the duplicate check sees it; two open payments never
  share a bill; and while a session holds the lock after its check no payment of
  its bill opens. It needs that one session creates a payment and posts it once
  (`CreatorInv`), that a final answer in a session's memory is still what the bank
  says (`AnswerInv`: a stale "rejected" may end a payment only if the bank has
  rejected it), and that nothing is known of a payment before its row (`WorkInv`,
  `RowInv`).
- `PaidBillsWereSettledHolds`: `Spec => []PaidBillsWereSettled`, for any relation
  `Alike` and any credits. `MatchInv` is what a session that found its one
  transaction remembers: a payment of the bill was executed, or the bank misled it;
  settlements and a payment's bill are final.
- `ReserveKeptHolds`: `Spec => []ReserveKept` for any finite payments table.
  `ReserveInv` leaves room for all open payments, and for one more while a session
  holds the lock after its check. The check counts those the loaded balance
  contains and those it still holds reserved; every open payment is in one of the
  two, because a copy of the account releases only what its balance contains, as
  long as no sync overlooked one.

`PaymentInv` was also checked by TLC as an invariant of the `payment_races`
instance before it was proved.

The services' theorems hold for any sessions, rows and bounds their assumptions admit.
The assumptions are those of the modules: a marker value such as `NoMail` is not a member
of the set that it stands beside, limits are natural numbers, and, where a proof counts or
adds up, a table is finite (`Proposals`, `News`, the accounts of `Allocations`). Each proof
has the same shape: the invariant says what a session's copy may still be relied on for, a
lemma says that a session which moves without writing a row disturbs nobody, one lemma per
action shows that the action keeps the invariant, and the theorem combines them. What each
invariant adds to the property, and why:

- `OneShotEffect_proofs`. `ConnectorInv`: the claim is unique, so that an occurrence in
  a session's hands is "submitting" and has not been sent. `MoverInv`: a session that is
  about to insert holds the lock, and an inserter is alone with its row until the bank
  has answered. From these `ConnectorImplementsOneShot` and `MovesImplementOneShot` map
  every step to one of the four abstract ones or to a stutter, for the refinement
  mappings that the run uses. `MovesAreAccountedFor`: the day's limit holds, and what
  counts as verified was paid (`MoneyInv`: one transaction is the evidence of one move;
  `BudgetInv`: what the bank holds is counted by the rows, and a session that is about
  to insert has room for one more).
  `MovesAreFunded` is about `Allocations`, and its `FundInv` has five parts.
  *Books*: the run of an action was planned, a session's step fits what it has in hand,
  and an open run has one planner, which is in an open plan. *Funds*: unless a cycle
  shares the run's actions, the run's live moves (those the bank may still take and those
  it has taken), less the one in the planner's hand, and what the planner has left are
  within the surplus together; so a move that is in the planner's hand is counted once,
  as left or as taken, up to the commit that notes it. Of a run without a planner the
  live moves alone are. *Calm*: while a planner is alone the policies are tidy, what the
  forecast spares at present covers what is left, and each wallet but the savings lacks
  at least the gap the planner noted (in both an amount that is taken and not yet noted
  is allowed for, and so is spending); this is why no transfer strains the floor or a
  target. *RunsOK*: the surplus of a run is what its fingerprint spares, and the
  cautious low point is not above the other one. *ChosenOK*: the role that the owner
  chose is the policy's.
  The sums of amounts are functions of finite sets. What the proof needs of them
  (`SumEmpty`, `SumPick`, `SumRemove`, `SumOrder`, `SumUnion`) is proved once, by an
  induction over the subsets of a finite set that is stated with a set of subsets
  instead of an operator; so is what the least of a finite set of numbers is (`LeastIs`,
  `LeastOrder`). From these follow that a forecast is monotone in the money on the
  accounts and shifts with it (`CashOrder`, `CashShift`, `LowOrder`).
- `Communications_proofs`. `MailInv`: a session's copy that has no attempt on it though
  the row has one was taken before the first submission was recorded. `DeviceInv`:
  a request that reports success, or has loaded a sent action, tells of a message that the
  carrier took; without a cause on record the phone whose message is in the air holds the
  claim, and the phone that holds it after the carrier took the message keeps its marker.
  `CallInv`: a verdict "verified" was confirmed wherever a copy of the row holds it, and
  a next attempt exists only when the call is over. `BookingInv`: versions only grow on
  their way from the event over a look and the row to a request. `BookingBounds`, for the
  types alone: each version of the event is an edit by others or a request served, so
  that the limits of both bound the versions. `CaseInv`: only an action that is complete
  shows what a page said, and what a session is about to dispatch is in its hands alone;
  as long as nobody overtook a refusal, request and objective say the same.
- `Inbox_proofs`. `CursorInv`: every message up to what a session will store is settled
  (processed or deferred on record, gone from the INBOX, or out of reach), or still on the
  session's list. `TriageInv`: a session that is about to bill found no bill, and nobody
  has billed since, unless sessions were at work at once. `RelationInv`: a preference lost
  in a merge stays out of sight because ids are not used again, and a pass that runs alone
  has read the owners as they are. `IntakeInv`: what the flush has posted of what it
  loaded is an event with the backend, or on its way there; a thread takes a message out
  of the outbox only when it is such an event, and what a receiver is about to store has
  its message, so that what any other write drops is on record as discarded; events stand
  for one SMS at most. `ActionInv`: unless hands crossed, the reply is in one hand at
  most, and that Gmail accepted it is on record or known to a hand; what a reconciliation
  leaves alone is taken care of. `BriefInv`: a briefing that was shown told what is in its
  window, but for what newer things crowded out, and what lies before its window is
  covered by the proven deliveries or older than a briefing may look back. It needs that
  some hours have a greatest one (`MaxIs`), from the well-foundedness of `<`.
- `Operations_proofs`. `OperationInv`: without an overlap every click is at the marker or
  before it, until the portal has shown that all is done. `DriveInv`: an item that may
  still be claimed does not exist and nobody creates it. `PurchaseInv`: as long as nobody
  overtook a settled request its only action is closed only with it. `LedgerInv` holds for
  any `Likeness` and any overlap of exports and has three layers: what no crossing can
  undo (only a side of a pair is called internal, a matched row has its record), what is
  true of a session's plan though it is old, and how far a session has come that nobody
  has crossed, stage by stage; when it commits its last stage, the third layer is the
  property.
- `Owner_proofs`. `FormInv`: the obligation names the one form that could be submitted,
  and only one that could not is replaced. `InvestInv`: where a session may still order,
  nothing was ordered. `AuthInv`: a decided proposal that no two sessions crossed no
  longer waits, and every pick waited when it was read; the picks of the one cycle at work
  count in the cap. `ObjInv`: only the last attempt's message may be unverified, and a
  chase is due only when all messages went out, so that the chase the core is told of is
  the last attempt and has no message yet. `RecoveryInv`: a job may go on in many ways,
  but what is completed or replaced stays so, and whoever called a run or a step completed
  saw all its jobs done. `PaperInv`: what a sync has found is ingested, in its hands or
  still to be fetched, whoever else writes the rows. `PromptInv`: a session that saw a
  need from the start of its cycle has seeded its event and made its objective, and one
  that nobody crossed writes to the objective what the row says.

- `Services_proofs` states all invariants of the services, and their four temporal
  properties, as theorems of `MCServices!Spec`, for all values of its constants that its
  assumptions (`InboxAssumed` and so on) admit. The service that runs is chosen once
  (`ServiceIsKept`); while it is the one in question every step is a step of its module
  over the cells, so that the module's specification holds (`CursorRuns` and so on) and
  its theorems apply; while it is another the property says nothing. A lemma per service
  (`CursorAlike` and so on) says that the module as `MCServices` instantiates it and as
  the module of its proofs extends it is the same. `ServicesAreTyped` puts the type
  invariants together (`CursorTyped` and so on): each initial state chooses one of the
  services, and `TypesOK` asks for the types of that one.

Proofs that did not go through corrected the models:

- `MailTriage` types its counters only if one bill fits (`BillLimit > 0`), and
  `CalendarBooking` its versions only if the first one does (`EditLimit > 0`).
- A session with an older copy of an obligation counts as a take-over (`retaken`), and a
  pass that crosses another ends what is known of a joined contact (`together`). Both
  exceptions are behaviours of the code that no small instance had shown before.
- `OwnerPrompts` read the latest period of an authorization off the row's status, which
  is right for two periods only; the row now keeps it (`latest`).
- In `Allocations` the exception of two sessions at one action missed that a cycle may
  resume what it read as planned long after the planner has given the amount to another
  move, a session noted a transfer as it now is instead of as it was told, and a cycle's
  second reconciliation was missing.
- One property says more than it did: a sync of a portal need not run alone for what it
  listed to arrive.

So every invariant and every action property that a passing run checks, and all three
refinements, are theorems. Left to TLC are the liveness properties (`EveryJobSettles`,
`QuietWithoutOwner`, `IntentsResolve`, `SettlementRecognised`), as fairness and `ENABLED`
are out of the prover's reach, and the counterexamples of the findings.

## 7. Plan

1. *(done)* `WorkflowEngine`, `HandlerOrder`, `BillPayment`: runs and theorems.
2. *(done)* `OneShotEffect` and the services, in one run whose initial state chooses the
   service; `ConnectorMutation` and `OwnTransfer` shown to implement it.
3. *(done)* Proofs of the refinements and of the services' properties.
4. *(done)* Proofs of `Allocations`, with the lemmas about sums that it needs, and of
   `TypesOK` as a whole.
5. The refresh of a run as two transactions under read-committed isolation, and a
   composition of `SystemRecovery` with the promises of `WorkflowEngine`.

## 8. Not modelled

The backlog repairs of old releases (`workflow_engine.py:250-421`) run once at startup;
`SystemRecovery` has one of them outstanding. Handlers are opaque to the engine: they
return or raise; what those of the services do is in the services' modules, which share
no state with it. Parsers, prompts, risk rules, wording, learned budgets and styles, the
import of broker statements and the user interface compute values that no property here
depends on, or choose freely in the models. Login, credentials and evidence of the
browser operator, inbound calls, RemoteInput replies, the other kinds of fulfilment and
the objectives that the AI plans freely are left out. OAuth of the connectors and
schema migrations are I/O over single rows. The exact simplifications of each module are
listed at its head. Two refreshes of a run that overlap, paging of transactions, and
concurrent balance syncs are simplified as said above.
