# FBS_CHZ in TLA+

Paths below are relative to the repository. The Python packages are `src/wbcz`
(core, Windows agent), `src/wbcz_web` (backend) and `src/wbcz_ui` (desktop).

## 1. The system

A seller imports Wildberries workbooks into a multi-tenant backend. For every
marking code (KIZ) the backend decides, from the WB history and a fresh Chestny
ZNAK (True API) snapshot, whether the code must be withdrawn from circulation
or returned to it. Approved decisions become write operations. Only a Windows
agent, which holds the signing certificate, talks to True API: it pulls jobs
from the backend over HTTP, executes them and posts results back. An older
local program does the same work on one machine over SQLite.

| component | state | operations | hard behaviour |
|---|---|---|---|
| write-operation store (`repositories/agent.py`) | `write_operations` rows | prepare, accept_signature, reserve_submit, complete_submit, apply_poll_status, reconciliation_result, mark_manual_review | ambiguous creates, late results, terminal states |
| agent job queue (`repositories/agent.py`, `services/agent_orchestration.py`) | `agent_jobs` rows: state, lease, result | enqueue by stable id, fetch_one, complete, follow-ups | lease expiry, duplicate delivery, replay |
| Windows agent (`wbcz/windows_agent.py`, `windows_agent_runtime.py`) | SQLite replay ledger, rate windows; the job in hand | run_once for write, poll, CIS, report and health jobs | crash between any two steps, two processes, transport errors |
| control (`wbcz/control_engine.py`, `services/wb_sequence.py`, `services/control.py`) | `checks` rows | decide, sequence policy, apply control results | stale snapshots, results out of order |
| imports and bulk actions (`services/imports.py`, `workspace.py`, `kiz_transaction_lock.py`) | `events`, `checks`, operations; advisory locks | import_xlsx, execute_bulk_actions, prepare_approved_write | READ COMMITTED transactions, lock order |
| physical printing (`wbcz/physical_printing.py`, `printing_agent_v2.py`, `services/printing.py`, `physical_printing.py`, `printing_sensitive_delivery.py`) | jobs, items, executions, reservations, keys; the agent's ledger and key file | create, reprint, authorise, issue, acknowledge, render, spool, report | ambiguous spool outcome, bounded disclosure |
| label templates (`services/printing.py`) | templates and numbered versions | create, new version, archive | unlocked read of the newest number |
| printer discovery (`services/printer_profiles.py`, `wbcz/printer_profiles.py`) | discovery runs, observations, profiles | request, fetch, complete, fail, approve, disable | printers change during and after a discovery |
| reports M11 and worker (`services/reports.py`, `repositories/reports.py`, `services/worker_runtime.py`, `wbcz/m11_reports.py`) | report jobs, artifacts, upload bindings, review cases | claim, generate, publish, fail, retry; CREATE, TASK_GET, RESULTS, DOWNLOAD; scheduler tick | lapsed leases, late publication, one remote CREATE |
| turnover and aggregation documents (`wbcz/turnover.py`, `aggregation.py`, `services/turnover.py`, `aggregation.py`, `document_lifecycle.py`) | operation ledger, evidence, document id and status | validate, queue, record the remote id, read status, reconcile | effects that appear one by one, stale evidence |
| audit history (`services/audit_history.py`, `repositories/audit.py`) | one hash chain per scope, heads, checkpoints | append, replay by key, checkpoint, seal, verify | concurrent appends, stale heads, unlocked verification |
| integration settings (`services/integration_settings.py`, `integration_secrets.py`, `integration_status.py`) | credential versions, True API connection, certificate observations, health checks | set, activate, adopt, revoke, reconcile; select, inventory, check | remote provider between two commits, crashes, answers of a replaced agent |
| agent bindings (`services/agent_bindings.py`, `agent_enrollment.py`) | tokens, bindings, machine credentials | enroll, create, rotate, disable | one-time tokens, lost answers |
| request budgets (`windows_agent_runtime.py`, `wb_fbs.py`, `services/production_hardening.py`) | a sliding window, a token bucket | consume, charge | the clock is read before the lock |
| members and sessions (`services/authorization.py`, `services/auth.py`) | roles, invitations, password version, sessions, throttle | change role, remove, invite, accept; login, change password, disable | decisions on rows read before the lock |
| local program (`wbcz/write_pipeline.py`, `wbcz/event_store.py`, `status_verifier.py`, `wbcz_ui`) | SQLite events, previews, documents, operations; client cache | import, check, track, prepare, sign, submit, poll, reconcile | threads over one file, two processes, crashes |
| foundations (EDO Lite, SUZ, Ozon, CIS inventory, reference products, workbook parser) | none of their own | typed validation of external payloads | - |

What makes them correct: a document is posted at most once and only with the
bytes that were signed; a final verdict agrees with what True API really did;
no operation is created for an event that a later WB event has superseded; an
item is sent to a printer at most once; a report that is called ready opens; an
untouched audit chain is unbroken and is called so; a rotation never leaves a
connection without a readable credential; an organisation keeps an owner; what
was decided on a stale row is refused or harmless.

`PROJECT.json` lists every component, the hazards at their source lines and
the properties that cover them.

## 2. Modules

| module | models |
|---|---|
| `OperationStore` | the write-operation row and the transitions of store and broker, as functions of a row and a result |
| `WritePath` | backend, job queue, agent processes, replay ledger, network and True API; EXTENDS `OperationStore` |
| `SubmissionContract` | the abstract promise: one post, one verdict, verdicts only on evidence. `WritePath` and `LocalPipeline` both implement it |
| `ControlDecision`, `DecisionCycle` | `decide()`, the sequence policy and the confirmation rule as operators; one event and its code through control, document effect, interference, reconciliation |
| `KizControl` | imports, control runs and bulk writes as transactions with KIZ locks; EXTENDS `ControlDecision` |
| `PrintDelivery`, `PrintSpool` | the backend half of printing; the physical handlers, the agent's run and Windows on top of it |
| `ReportStore`, `Reports` | the report row, artifacts, retry policy and upload binding as functions; workers, scheduler, agent and dispenser around them |
| `TurnoverRules`, `AggregationRules` | document contracts, preconditions and confirmation rules as operators |
| `DocumentOperations` | turnover and aggregation operations from the first read to the verdict, with the registry outside |
| `AuditChain` | the hash chains under concurrent transactions, tampering and verification |
| `Records` | composition of `DocumentOperations` and `AuditChain` |
| `SecretRotation` | the credential of a WB or Ozon connection and its provider |
| `AgentBindings`, `CertificateSelection` | enrollment and bindings; connection, inventories and health checks on top of them |
| `RateLimits` | the durable window and the token bucket |
| `IntegrationSettings` | composition of `SecretRotation`, `CertificateSelection`, `RateLimits` |
| `LiveCheck`, `DocumentTracker`, `LocalPipeline` | the local program: dry run, document tracking, write pipeline |
| `Desktop` | composition of the three |
| `Memberships`, `Sessions`, `PrinterDiscovery`, `LabelTemplates` | members and invitations; password and sessions of a user; discoveries and profiles; template versions |
| `Administration` | composition of the four |
| `MC...` | constant values and symmetry sets for TLC |
| `WritePathProofs`, `ControlProofs`, `PrintSpoolProofs`, `ReportsProofs`, `RecordsProofs`, `SettingsProofs`, `DesktopProofs`, `AdministrationProofs` | theorems and proofs, one module per component or composition |

The four compositions put components side by side that write none of each
other's rows. A behaviour therefore follows one of them: a variable (`record`,
`kind`, `face`, `side`) is drawn once in Init. What components do share is
inside one module: bindings and connections (`CertificateSelection` extends
`AgentBindings`), role changes and sessions (`Memberships`).

Definitions called "wrong variant" are plausible bugs. They are never used by a
specification; each one shows that a property can fail.

### WritePath

* `ops` is `write_operations`. `PREPARED` never appears: `prepare` inserts the
  row and moves it to `AWAITING_SIGNATURE` in one transaction. `SIGNED` and
  `SUBMITTING` exist only inside the transaction of `_apply_write_result`.
* `jobs` is `agent_jobs`. `_stable_job_id` is a digest of purpose, operation
  and seed, so a job is identified by (operation, purpose, poll attempt).
  `expired` says that `lease_expires_at` has passed.
* `ledger` is the agent's SQLite table `windows_agent_write_replay`; processes
  share it. A second machine with a ledger of its own is not modelled
  (docs/M15_WINDOWS_AGENT_OPERATIONS.md forbids it).
* `net` holds result requests; they are delivered in any order, and at most
  `MaxFaults` crashes and losses happen. A lost *answer* to a delivered result
  needs no action: the agent ignores answers.
* `posts[o]` records every create request and what True API made of it; it is a
  history variable the code does not have.

One action per step: `PrepareApprovedWrite`, `Fetch`, `Inspect`, `LocalFailure`,
`SignAndClaim`, `PostCreate`, `CreateRaises`, `CreateResponds`, `RecordResult`,
`PollRead`, `ReconciliationRead`, `Submit`, `SubmitResult` (replay check, core,
job completion and follow-up in one transaction), `LeaseExpires`, `Crash`,
`Lose`, `RemoteStep`. A result is reduced to the fields the backend branches on:
the broker applies a result by its *fields*, not by the job's purpose.

### KizControl

`txn[t]` is a request handler: where it is, the locks it still wants, its
uncommitted rows and operations. A step is one statement or a run of statements
that no other transaction can observe in between; statements read committed
data only. The advisory locks disappear with `Commit` and `Rollback`.
`ApplyControl` takes no lock, as in the code. `DeadlockAbort` is PostgreSQL's
deadlock detection.

### PrintDelivery and PrintSpool

* An item is a job and a code; an execution is an attempt at an item.
  `exec.boundary` stands for `spool_submitting_at`, `printer[j]` for the binding
  of the job's printer profile. Time is `lapsed`; `acked` is the order of
  `payload_delivered_at`.
* `ledger` and `localKey` are on the agent's disk and survive `Crash`; `run` is
  memory. `started` counts the spool jobs Windows made of an execution.
* Every call of the agent is handled and answered, handled with its answer
  lost, or refused or lost. The agent routes commit also when a handler rejects,
  so `IssueEnds` and `AcknowledgeMismatch` keep their changes.
* The agent's actions follow `open_verify_ack_then_consume` and
  `PhysicalPrintRuntime.execute` wherever something durable or remote happens.
  The queue answers the *oldest* delivered execution, which need not be the one
  whose code is in memory (`Control`, `SameCode`).
* `Faults` says which faults a configuration admits.

### ReportStore and Reports

A report row carries its origin, state, lease owner, attempt and snapshot. A
worker claims (`Claim`), generates and publishes (`Publish`, one transaction
with the audit event keyed by the report), or fails (`ExecutionFails`, then
`HandleFailure` in a new transaction); it may crash anywhere and may return
after its lease lapsed. A remote report is driven by agent jobs: the agent
fetches (`Fetch`, which consults its replay ledger), posts (`PostCreate`,
`CompleteCreate`), reads (`ReadStep`), downloads and uploads (`Download`), and
submits (`Submit`); the backend's answer decides the next step. `Ages` is the
retry deadline. `SchedulerTick` opens a review for an ambiguous CREATE of a
tenant and `ResolveReview` closes one. Artifact files are encrypted under the
snapshot of the attempt that wrote them, which is what `Opens` compares.

### DocumentOperations

A caller reads codes (`Read`, `Expire`), has a document checked against the
snapshots (`ValidateTurnover`, `ValidateCancel`, `ValidateAggregation`), queues
it (`QueueTurnover`, `QueueAggregation`), records the id it got, reads the
document's status, reads the codes again and reconciles. The registry
(`Create`, `Process`, `Appear`, `SoldElsewhere`) is external: it checks a
document against its own state, accepts none that concerns a code (a child of a
package it takes apart included) still waiting for another document, and the
effects it accepted appear one by one. `hist` keeps
the history semantics the reconciliation asks for. `Causes`, `Emissions` and
`Quantity` choose the branches of the rules a configuration exercises.

### AuditChain

A hash is the sequence of everything that went into it: equal hashes have equal
inputs. `disk` is committed, `work[t]` flushed by transaction t, `held[t]` the
head rows it has locked, `loaded[t]` the heads its session keeps in memory
(`Peek` loads one without a lock; the locked read does not refresh it). The
verifier reads head, rows and checkpoints in separate statements without a lock.

`Tamper` is a change or the removal of a stored event behind the program's
back, at most once. `tampered` says whether the stored rows must show it. A
change, and most removals, are `TRACED`. One removal is `HIDDEN`: the last event
goes while a session still holds the head of the event before it. That session's
next append takes the removed event's place, with its number and a correct
link, and the chain is whole again. No verifier that reads only the database can
tell, so `VerdictsSound` promises nothing for `HIDDEN`. The proof found this
case, which the bounds of the run had not reached.

### SecretRotation, AgentBindings, CertificateSelection, RateLimits

* `set_secret` stages at the provider, commits the pending version, activates
  at the provider without the row lock, locks and adopts. Each part is an
  action of an administrator's request, and the request may die between any
  two. `secret` are the row's columns, `provider` what the provider keeps,
  `resting` the versions an administrator revoked.
* A token is exchanged once; the answer that carries the machine credential may
  be lost (`holds`). One ACTIVE primary binding exists at a time.
* `AllowSecondary` says whether an administrator activates a second, non-primary
  agent (`agent_bindings.create` with activate and not primary). The run and the
  theorem assume that this does not happen: with it, the certificate list of one
  agent is compared with the inventory another one sent, and TLC refutes
  `ActiveReadyIsApplied`.
* `rows` are observation rows of a certificate by `observed_at`, `current` the
  thumbprints of the latest inventory, `last` what that inventory really said.
  A health check is `CHECKING` until an answer of *its* binding arrives.
* `limiter` is drawn once. A caller reads the clock, waits up to `Lag` for the
  lock and decides by that reading.

### LiveCheck, DocumentTracker, LocalPipeline

* `thread[t]` is a request in FastAPI's thread pool: prime the cache, look each
  code up, save the preview, look at the history again, demote. Store calls are
  transactions of their own; `cut` are events whose check died between its two
  writes (`ServerStops`).
* Two trackers read a status, ask, and store; `update_document` reads the status
  again inside its transaction.
* `row` is `write_operations` of the SQLite file, `pipe[p]` what a process has
  in hand between two transactions, `received` what True API was sent, `asked`
  the signing requests handed out (they may be answered at any time),
  `Reconfigure` a change of the organisation's paid flag, on which a return's
  bytes depend.

### Memberships, Sessions, PrinterDiscovery, LabelTemplates

A request resolves its scope (`request[r]`: user and role) and acts later under
the organisation's lock; its *own* membership row is not refreshed by that lock
(`SeenRole`). A login reads the user row, then locks the throttle row and
decides on what it read; a password change likewise, and `overlaid` records that
a change overwrote one it had not seen. A discovery is leased by the agent,
which may be slow, stop or return late; `latest` is the last one completed,
`approved` the printers approved since. A new template version reads the
maximum, inserts under a unique constraint and moves the pointer at commit.

## 3. Runs

| run | configuration | properties |
|---|---|---|
| `write_path_safety` | 1 operation, 2 agents, 2 polls, 2 faults, 2 messages in flight | `AtMostOneCreate`, `VerdictsAreTrue`, `WaitingIsDriven`, `EvidenceIsFinal`, `ImplementsContract` |
| `write_path_liveness` | 1 operation, 1 agent, 2 polls, 2 faults | `JobsComplete`, `ProcessingEnds` |
| `ambiguous_create` | 1 operation, 1 agent, no fault | violated; see findings |
| `decision_cycle` | all event facts x all snapshots | `EffectIsConfirmed`, `ConfirmationIsEvidence`, `OppositesExclude` |
| `kiz_control_safety` | 2 handlers, 2 codes, 3 events, 2 overlapping workbooks, 3 control runs | `WritesFollowHistory`, `ImportsNeverCollide`, `BatchesNeverCollide` |
| `print_attempts` | 1 item, 2 attempts, 2 agents, 2 key versions, 2 issues, all faults | `OneLabelPerItem`, `VerdictsMatchSpooler`, `DisclosureStaysSafe`, `LedgerLeadsSpooler`, `ConcludedIsFinal` |
| `print_jobs` | 2 jobs, 2 codes, 1 agent, 1 attempt, no lapse, no new key | `CompletedJobIsPrinted` |
| `reports` | 1 report of either origin, 2 workers, 2 attempts, 1 repeat of a remote read | `ReadyReportOpens`, `AtMostOneCreate`, `LocalReportsEnd`, `AmbiguityIsReviewed` |
| `records` | 2 operations over 2 codes and a package; a SYSTEM and a tenant chain with 2 transactions, 5 rows, 2 days | `ReconciledMeansVisible`, `OneDocument`, `ChainIntact`, `VerdictsSound` |
| `settings` | 2 administrators, 3 versions; 2 bindings, 1 token, 2 certificates, 1 connection, 1 check; 2 callers, 5 seconds | `ActiveSecretIsServed`, `ActiveReadyIsApplied`, `RatesRespected`, `CheckEnds` |
| `desktop` | 2 events of one code, 2 workbooks, 2 threads; 2 trackers, 1 document; 1 withdrawal and 1 return, 2 processes, 2 reconfigurations | `ReadyMeansOrdered`, `FinalStatusStays`, `ExactBytesSigned`, `KeepsContract` |
| `administration` | 3 users, 1 invitation, 2 requests; 2 logins, 2 changes, 2 sessions; 1 printer, 3 shapes, 3 discoveries; 4 edits | `LastOwnerStays`, `InvitationsStayBacked`, `UsableMeansCurrent`, `ActiveMeansSeen`, `CurrentIsNewest` |

**Bounds.** Operations of the write path share nothing but the queue, so one
reaches every per-operation interleaving; the theorems cover any number. Two
agents are enough for the race between inspect and claim; two faults allow a
crash after the claim followed by a lost replay; two polls distinguish the
first, a middle and the last attempt. In KizControl two codes and two handlers
are the least with a lock cycle, and the third event supersedes the first. In
printing two attempts, two agents and two keys are the least in which a
disclosure outlives its key or a second attempt follows a first. Two workers
and two attempts are the least in which a stale worker publishes after its
successor. Two operations over shared codes let one change what the other's
evidence says, and a package with two children can be half taken apart. Five
rows, over both chains, hold a genesis, a first event with its checkpoint and a
second such pair; two days give a second checkpoint; the second chain shows that
locks are per chain. Two
administrators and three versions let a rotation overtake another and a third
follow. Five seconds exceed the window of four, two requests fill it. Two
events of one code, one undated, are the least with a history that cannot be
ordered. Three users give two owners and a bystander; four edits let two
collide, one archive and one follow; three discoveries let an older one be
approved after a newer.

**Deadlock.** Checked in `kiz_control_safety`, which reaches the lock cycle and
leaves it by the abort of one transaction. Off elsewhere: the behaviours end
(every job done, every bound used up).

**Fairness.** `WritePath!FairSpec`: the clock advances, so leases expire; the
agent loop (`agent_cli.py`, run) never stops fetching and `run_once` turns every
exception into a result; a request that is not lost is handled. `Reports!Fairness`:
a worker that runs claims and works on (`worker_runtime.py` loops), leases and
retry delays end, the scheduler ticks; none for crashes, operators, the agent or
the dispenser. `IntegrationSettings!FairSpec`: an agent that still authenticates
reports on the health job it was given, if only its failure; `CheckEnds` leaves
out the agent that was disabled or lost its credential.
Symmetry is used only where no liveness is checked.

**Finding.** `ambiguous_create`: a transport error after the send completes the
job with a result that has only an error, which does not touch the operation:
it stays `AWAITING_SIGNATURE`, where step 9 of
docs/M15_FIRST_REAL_WRITE_RUNBOOK.md asks for manual review or reconciliation.
It is never posted again. The same cause leaves an operation behind after a
local signing failure (`windows_agent_runtime.py:295`, whose comment calls it
retryable) and after a poll without a readable status (`windows_agent.py:1807`).

**Other observations made while modelling.** They are behaviour of the models,
and a property takes them into account where one speaks of that state.

* Printing: nothing concludes an execution after a crash behind StartDoc until
  its binding is disabled; docs/PRINTING_PHYSICAL_SPOOL.md counts such a crash as
  `UNKNOWN_AFTER_SPOOL`.
* Reports: a CREATE denied by the rate window is recorded as completed in the
  ledger, so its retry conflicts and the report fails without ever being posted;
  `fail()` of a stale worker turns a READY report FAILED; leases are not
  renewed; a report without a tenant can be published twice.
* Documents: reconcile does not look at `fetched_at`; `queue_prevalidated`
  trusts the boolean `verified_fresh`; a RECONCILED row can be set back to
  pending; an aggregation whose document is CHECKED_NOT_OK stays pending.
* Audit: the verifier, which takes no lock, may call a chain INVALID that grew
  under it; a verification from a later sequence skips the tail check.
* Settings: a request that dies after `provider.revoke` leaves a row naming a
  version that is gone; a health check has no timeout; a connection stays with
  the binding it was created for; a lost enrollment answer uses up the token.
* Budgets: because the clock is read before the lock, a window is shorter by up
  to the time a caller waited, and a late writer moves the bucket's
  `updated_at` back and earns the refill twice. `RatesRespected` states the law
  with these two allowances.
* Local program: a crash between `reserve_submit` and its result leaves
  SUBMITTING for ever; a non-200 poll goes to review; a server that stops
  between the two writes of a check leaves a READY preview behind.
* Administration: two password changes that read the same row write the same
  version; the EXPIRED mark of an invitation is rolled back with the refusal;
  `approve_observation` accepts an observation older than the latest discovery;
  a version may be added to a template archived meanwhile.

## 4. Proofs

Each theorem holds for every value of the constants under the named ASSUMEs of
the component's module: any number of operations, agents, workers, requests,
codes, attempts and faults, where the runs have two or three. None of the
properties is inductive as it stands; each proof rests on an invariant that
TLC checked first.

**`WritePathProofs`**: `WritePathTypeCorrect`; `CreateAtMostOnce`,
`VerdictsTrue`, `EvidenceFinal` from `Inv`; `WaitingOperationsDriven` from
`DriveInv`; `WritePathImplementsContract`.
  * `ClaimInv`: the ledger entry is `ABSENT` until a process claims it; at most
    one process is between its claim and its recorded result, while the entry is
    `RESERVED`, and nothing was posted before the claim.
  * `ResultInv`: every result, in the ledger, in hand, on the wire or stored, is
    true of the request it is about; documents only move forward, so it stays
    true however late it arrives.
  * `JobInv`: a poll or reconciliation job, and a message, belong to an
    operation whose document is registered.
  * `OperationInv`: the operation's own state is backed by such a result.
  * `DriveInv` relates an operation's state to its jobs: before the submission
    there is neither poll nor CIS read; an open WRITE job means
    `AWAITING_SIGNATURE`; every poll before a queued one is completed, so at most
    one is open; a CIS read exists only from `RECONCILIATION_REQUIRED` on. Hence
    the enqueue of a follow-up by its stable id never meets an old row, and no
    waiting operation is forgotten.
  * The refinement maps sent to the number of posts, truth to the state of the
    first post, verdict to the terminal state.

**`ControlProofs`**: `EffectsConfirmed`, `ConfirmationsAreEvidence`,
`OppositesNeverBothReady` of `CycleSpec`, for any timestamps. `ImportsApart`,
`BatchesApart`, `OperationsFollowHistory` of `KizControl` from `KizInv`: a
handler has inserted rows and created operations only for codes whose lock it
holds (`Protected`), and it is on its way to the locks it still needs
(`OnItsWay`). A commit changes the history of codes its handler has locked, so
nothing another handler decided under its own locks becomes stale.

**`PrintSpoolProofs`**: `PrintInv` (`PrintingAgrees`) and from it `OneLabelEver`,
`LedgerLeads`, `VerdictsAreTrue`, `DisclosureIsSafe`, `CompletionIsTrue` and the
action property `ConcludedExecutionsStay`.
  * `Row`: what an execution's row, its ledger entry and Windows say of each
    other; a label exists only behind the boundary and behind an irreversible
    ledger entry.
  * `Reserved`: a live reservation belongs to an execution that still waits for
    its code, and its key can be used.
  * `OneActive`: one attempt of an item has crossed the boundary or is open.
  * `RunAt`: what a process knows of its execution, by its position.
  * `ItemsAgree`: items follow their executions, jobs their items.

**`ReportsProofs`**: `OneCreateEver` (`CreateInv`: a reservation precedes the
POST and is never taken back) and `ReadyOpens` (`FileInv`: the audit event of
the completion is keyed by the report and not by the attempt, so one worker
publishes one output; after it the row is never claimable, and the snapshot the
row names stays the one the output was sealed with).

**`RecordsProofs`**: `ChainsStayIntact`, `VerdictsAreSound`,
`DocumentsStaySingle`, `ReconciledDocumentsAreVisible`, and `RecordsAreSound`
for the composition.
  * `DocumentInv`, under `CallerRereads`: an accepted effect that is not visible
    yet (`PendingInv`) is still untouched in the registry and in every snapshot
    the caller took since it saw the final status, because the registry accepts
    a document only in a state that its postcondition excludes
    (`AllowedBefore`, `RelationAllows`: one case per document kind) and a code
    waits for one document at a time (`ApartInv`). A verdict RECONCILED of the
    contract says the opposite of every code it looked at, so no effect is left
    but the ones it does not look at: the package's own state, and the relation
    of a code that the evidence saw outside any package. `AtkInv` is needed for
    a remark, whose rule says nothing of an ATK: an ATK holds codes of foreign
    emission only, which a remark never names. Without `CallerRereads` the
    theorem does not hold: the services take the snapshots the caller hands
    over.
  * `AuditInv`: of an untouched chain, the committed rows and every
    transaction's view are sound, the view extends the committed rows, and a
    head in a session's memory is an event of that view, perhaps an old one. An
    append from an old head would write a number that exists, which the unique
    constraint refuses. Of a chain with traced tampering, every view still shows
    it.
  * `VerInv`: what the verifier has read of a chain tampered with before it
    began cannot pass, and of an untouched chain that gained nothing it is the
    chain.
  * `LedgerInv`: a ledger row has one job, with its document.

**`SettingsProofs`**: `SecretsServed` (`SecretInv`: an activated version stays
served until it is revoked, so adopting it late is safe); `BudgetsKept`
(`RateInv`: every request of the last `Window - Lag` seconds is in the stored
history with a stamp at most `Lag` old; tokens given out and left never exceed
the burst plus the time earned plus what was set back); `CertificateIsApplied`
(`TrueApiInv`, one active agent); `SettingsAreSound`.

**`DesktopProofs`**: `PostedBytesWereSigned`, `PipelineKeepsContract`,
`FinalStatusKept`, `ReadyIsOrdered`, `DesktopIsSound`. `PipelineInv` consists of
  * `ReserveInv`: before the reservation nothing is posted and nobody submits;
    one process at most submits, and it has posted nothing while it is
    `reserved`. The row never returns to SIGNED, which makes it inductive;
  * `AnswerInv`: an answer in a process's hand is still true of the document
    when it is stored, since what True API decided stays decided; this is what
    the guards of the contract's `Conclude` need;
  * `BytesInv`: document and signature of a signed row agree, and neither
    changes from the signature on, so what `SendCreate` reads is what was
    signed whatever `Reconfigure`, late signatures and replays do.

`LiveInv`: requests work on imported events, and an event whose check is between
its two writes is the one that may be ready without order.

**`AdministrationProofs`**: `OwnerRemains`, `InvitationsBacked`,
`TemplatesCurrent`, `SessionsCurrent`, `ProfilesSeen`, `AdministrationIsSound`.
  * The owner rule counts active owners under the lock, but compares with the
    role the request *sees*. `OwnerRuleSuffices` shows that the stale view of
    the request's own row is harmless: whoever gets past the guards sees itself
    as a manager, and an ADMIN that was promoted meanwhile is refused on itself.
  * `NumbersInv`: a template number that was read is at most the next one, a
    flushed one is the next one and held by one transaction. Hence the pointer
    of a slower editor never goes back.
  * `SessionsInv`: whatever a login read or a session stores is of an earlier
    password version or of the password of today, as long as no change was
    written over another.
  * `PrinterInv`: the agent works on a discovery that exists.

The compositions are proved from their parts: a step of the whole is a step or a
stutter of each part, so each part's theorem carries over.

Only model-checked: liveness (`JobsComplete`, `ProcessingEnds`,
`LocalReportsEnd`, `AmbiguityIsReviewed`, `CheckEnds`), which is outside the
prover's reach. Every safety and action property the runs check is stated by a
theorem.

## 5. Not modelled, and what that assumes

* Answers below 500 other than 200/201 count as refusals, as the code counts
  them. Whether True API ever accepts with such a status is unknown.
* Signature and certificate checks of `accept_signature` always succeed: the
  agent checks the same values before it claims.
* One installation of the agent with a retained ledger file; in printing one
  process per binding with a retained ledger and key file. The loop that calls
  `execute` and its HTTP callbacks are not in the repository; a refused or
  unanswered call is taken to raise. Windows status observations change no
  verdict and are left out, as is `mark_completed`, which only tests call.
* Hashes do not collide and references are not guessed.
* Retention and deletion of report artifacts, report contents and formats;
  draining and heartbeats of workers; redaction, queries and exports of the
  audit; probes of WB and Ozon; throttling by address.
* Public registration: `config.py` refuses to start with it switched on.
* EDO Lite, SUZ and Ozon foundations, CIS inventory, reference products, the
  workbook parser and the document assembler: conversions and validators of
  external formats without state of their own.
* Request validation, CSRF, headers, views, the frontend, migrations, scripts
  and deployment.
* `WritePath` and `KizControl` composed over one code (a control read that races
  an operation in flight): the product is too large at useful bounds.

## 6. Plan

1. (done) The write path, control, KIZ transactions and printing; reports,
   documents, audit, settings, local program and administration; the proofs of
   section 4.
2. An abstract contract of printing (one label, one verdict) that `PrintSpool`
   implements.
