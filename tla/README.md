# citeaura in TLA+

citeaura measures how AI answer engines cite a brand and sells the work that
improves it. Behind the web pages it is a job system: an API inserts jobs into
PostgreSQL and publishes Celery messages through Redis, workers run an engine
process per job on the files of one project, a beat repairs what was lost, and a
ledger charges the calls made with the platform's own API keys. Around it stand
billing, accounts and quotas on the side of the customer, the files that a project
consists of, and the outside: engines that answer, mail, Google, GitHub. This
directory specifies these parts, checks them with TLC and proves with TLAPS what matters
most about them.

Paths below are relative to `src/`.

## 1. The system

| part | state it keeps | operations | hard behaviour |
|---|---|---|---|
| worker job lifecycle (`api/worker/worker_job_lifecycle.py`, `tasks.py`, `job_process.py`, `job_cancel.py`) | `jobs.status, attempt, cancel_requested_at, budget_reservation_status`, `projects.status` | claim, requeue, complete, cancel, fail, repair a lost commit | redelivery, crash, writes decided on an earlier read |
| requests and dispatch (`api/projects/*_routes.py`, `jobs.py`) | the same rows, `celery_task_id` | sample, pipeline action, create, retry, cancel, archive | two requests at once, a publish that fails after it succeeded |
| scheduler and sweeps (`api/worker/worker_maintenance.py`, `job_runtime.py`) | `schedule_next_run_at`, `trial_retests_json`, heartbeats | dispatch what is due, recover unpublished jobs, reclaim stale ones, reconcile usage, purge expired projects | acts on rows whose owners may still be alive |
| project lock (`api/adapters/locking.py`) | a Redis key with a TTL, a renewal thread | acquire, renew, lose, release | a holder that lost it and does not know |
| broker and beat (`api/worker/celery_app.py`) | messages, unacknowledged messages | deliver, redeliver, lose | at-least-once delivery |
| sampling budget (`api/adapters/sampling_control.py`) | `jobs.reserved_platform_calls`, the reservation status | reserve, release | concurrent reservations, reads of two sums |
| platform pool accounting (`api/billing/platform_pool.py`, `metering.py`, `api/worker/worker_isolation.py`) | `platform_usage`, `usage_counters`, `platform_usage_outbox` | record, persist to the outbox, reconcile, release stale reviews | retries of what was committed, overlapping reconciliations |
| delivery pipeline (`api/worker/worker_pipeline.py`) | files, the reservation of its job | fill the evidence gap, gate, package | a second engine run inside one job |
| engine process (`api/worker/job_runner.py`, `job_protocol.py`) | counts of calls | run, report, end | ended in the middle, or outliving its parent |
| Stripe billing (`api/billing/router.py`, `stripe.py`) | subscriptions, payments, event ledger | checkout, change, cancel, webhooks | duplicated, reordered and overlapping events |
| access, plans, limits (`api/billing/access.py`, `limits.py`, `starter_scan.py`) | plan, counts of projects and runs | check, consume | a check that another request makes at the same time |
| authentication (`api/auth/`) | session version, refresh tokens, reset links | log in, rotate, switch, revoke, reset | a rotation beside a reset |
| team (`api/team/`, `api/integrations/`) | memberships, invitations, API tokens | invite, accept, change, remove | the last owner, tokens of those who left |
| tickets and verification (`api/adapters/ticket_workflow.py`, `action_scope.py`, `engine/scripts/tasks.py`, `verify.py`) | the ticket list, its overlay, experiments | build, scope, merge, edit, verify, evaluate | two stores for one ticket, written one after the other |
| archive and restore (`api/adapters/archive.py`) | snapshots, their list, the directory | archive, prune, restore, retire, purge | files, objects and rows that part |
| brand facts (`api/adapters/brand_facts.py`, `engine/scripts/bootstrap.py`) | `facts.md`, the brand of the configuration | extract, save, upkeep, verify, check answers | models, users and upkeep write one file |
| generated assets (`engine/scripts/generate.py`, `api/adapters/generated_assets.py`) | the assets, marks of edits, the index | generate, save, normalize, render | a generation around a user's edits |
| delivery packages (`api/adapters/delivery_*.py`, `api/projects/delivery_routes.py`, `public.py`) | dated packages, staging, backups, shares | build, swap, send, download | a swap that dies in the middle, readers during it |
| crawl, audit and evidence (`engine/scripts/crawl.py`, `audit.py`, `api/adapters/crawl_evidence.py`, `audit_presentation.py`, `site_signals.py`) | `site.json`, `pages.jsonl`, `audit.json` | crawl, check signals, recover, put back, fold, audit, present | files of different crawls side by side |
| sampling and measurement (`engine/scripts/sample.py`, `api/adapters/measurement.py`) | sample files, metrics, cohorts | ask, fill gaps, measure, judge | runs that end halfway, settings that change |
| tenant context (`api/adapters/engine.py`, `engine/scripts/context_executor.py`) | ContextVars, and `os.environ`, a registry and patched methods of the process | enter, run, leave | tenants that share a process |
| outreach (`api/outreach/router.py`, `api/adapters/outreach.py`) | a draft, its revision and status, jobs | edit, confirm, send, retry, cancel | mail cannot be called back |
| publishing (`api/publishing/router.py`, `api/adapters/github_pr.py`, `publishing.py`) | channels, records of pulls and posts | save, open, list, post | answers that are lost |
| search data (`api/searchdata/`) | verifiers, sessions, tokens, snapshots | authorize, call back, choose, fetch, delete | no lock at all |
| local job queue (`engine/scripts/jobs.py`, `dashboard.py`) | claims, records, processes | start, wait, stop, sweep | several dashboards, processes that outlive them |
| projections, statistics, reports, rate limits, settings, admin views, web | rows and files derived from the others | recompute, render | little of their own |

How they meet: a request inserts a row (one active row per project, by a partial
unique index), reserves budget under an advisory lock, publishes a message and
stores its id. A worker receives the message, claims the row with a conditional
update, takes the project lock, runs the engine on the project's files, accounts
the calls, and writes the final status. Cancel, archive and the sweeps write the
same rows meanwhile; users' edits wait for the project lock, and some files are
written without it. Billing decides what a request may ask for.

What makes them correct: one active job per project; a job ends, and ends once;
no run is repeated while what it spent is unknown; a call is charged once, and is
not forgotten; sections under the lock that report success do not overlap; access
follows payment; an ended session stays ended; a plan's allowance is not exceeded;
what users wrote outlives every job; no verdict, package, mail or pull request
rests on something else than what was shown or confirmed.

`PROJECT.json` lists all components, also those that are not modelled, and the
hazards with the lines where they bite.

## 2. Modules

| module | what it is |
|---|---|
| `ProjectSlots` | the abstract promise: a project is a slot; a job enters an empty slot once, may be started there, and leaves it for good |
| `JobLifecycle` | requests, broker, workers, lock and sweeps over the job and project rows; implements `ProjectSlots` |
| `UsageAccounting` | reservations, engine runs, ledger, counter, outbox, reconciliation |
| `SerialSections` | the abstract promise of the project lock: a section that reports success had its turn from beginning to end |
| `ProjectLock` | the Redis lock, its renewal thread, the loss flag and the engine process under it; implements `SerialSections` |
| `LocalJobs` | the engine's own job queue for its local dashboards |
| `StripeBilling`, `Sessions`, `Team`, `Quotas` | subscriptions and webhooks; sessions of an account; members, invitations and keys; what a plan lets one create and sample |
| `Facts`, `Assets`, `Deliveries`, `Tickets`, `Crawls` with `PageAudit`, `Snapshots` | the files of one project, each with everyone who writes it |
| `Contexts`, `Outreach`, `Publishing`, `SearchData`, `Sampling` | where the program meets other tenants in its process, and the outside |
| `JobLifecycleProofs`, `UsageAccountingProofs`, `EngineProofs` (`ProjectLock`, `LocalJobs`), `AccountsProofs` (about `Team`, `Sessions`, `Quotas`, `StripeBilling` and the whole of `MCAccounts`), `WorkspaceProofs` (`Facts`, `Deliveries`, `Assets`, `Snapshots`, `Crawls`, `Tickets` and the whole of `MCWorkspace`), `OutwardProofs` (`Contexts`, `Outreach`), `IntegrationProofs` (`Publishing`, `SearchData`) | theorems and their TLAPS proofs |
| `CollectionLemmas` | lemmas the proofs share: induction over the subsets of a finite set, sums, folds, positions of sequences |
| `MCJobLifecycle`, `MCUsageAccounting` | symmetry sets; the `.cfg` files give the instances |
| `MCAccounts`, `MCEngine`, `MCWorkspace` with `MCSites`, `MCOutward` | put several modules into one run: a behaviour is of one of them (`part`), the others stay in one initial state. The parts share no state the properties speak of; where they do meet, one module holds both sides |

### JobLifecycle

One action is one database transaction. Where the code reads a row in one
statement, decides, and writes it unconditionally in a later one, there are two
actions, because PostgreSQL at READ COMMITTED lets another commit come between;
where the write is conditional (`UPDATE ... WHERE status = 'queued'`) or the row
is locked, there is one.

* Requests carry a program counter and what their code keeps in locals
  (`req`). `BeginAction`, `BeginRetry`, `CreateProject`, `DispatchDue` are the
  entries; `Insert` or `InsertConflict` decides by the index; `Publish` or
  `PublishRaises`, `RecordTaskId`, `DispatchFailed` follow. `RequestDies` ends the
  process at any point. Trial retests enter by `BeginAction` with kind
  `"retest"`, whose failed publish leaves the project status alone.
* `BeginCancel` picks the branch of `cancel_project_job` from the status it read;
  `CancelQueued`, `CancelQueuedMissed` and `CancelFlag` are the transactions
  behind it. `BeginArchive` and `Archive` are the check and the write of
  `archive_project_record`.
* Workers: `Delivery` is `prepare` with its outcomes (`IgnoreDelivery`,
  `RefuseAttempts`, `RefuseTenant`, `Claim`), then `TakeLock` or `LockTimeout`, the
  body (`Heartbeat`, `AccountUsage`, `ReserveGap`, `EndBody`) and the final
  status (`ReadToComplete`/`CommitDone`, `ReadToCancel`/`CommitCanceled`,
  `MarkFailed`, `CompletionLost`).
* Environment: `Crash`, `Redeliver`, `LoseMessage`, `LockExpires`, `GrowStale`.
  `stale` abstracts the heartbeat's age: the last sign of life lies before the
  cutoff of `reclaim_stale_jobs`.
* Sweeps: `RecoverPublish`, `RecoverLost`, `RecoverRefuse`, `Reclaim`,
  `Reconcile`.

Left out: progress, stages, log files, error texts (but for the mark of
unaccounted usage, which is the reservation status `review`), the calendar of
schedules, and which of the working statuses of a project is shown (all are
`"busy"`).

### UsageAccounting

The worker of a job is known by the job here; who claims it is the business of
`JobLifecycle`. All jobs belong to one tenant and one month, and calls stand for
calls and cost, which the code sums side by side. A canceled job is `failed`: both
paths treat the reservation alike.

* `ReadUsage`, `ReadReserved`, `Reserve`/`Refuse`: `reserve` under
  `pg_advisory_xact_lock`. `record_usage` takes no such lock, so the two sums are
  two actions.
* `Call` counts a call when it is made; `EndRun` hands the counts to the parent;
  `Record`, `RecordRaises`, `GiveUpRecording`, `Persist`, `PersistRaises` and
  `TimeLimit` are the three attempts of `_account_usage` and the outbox. A raise
  may or may not have committed (`"ack"`).
* `Complete`, `Fail`, `Crash`, `Redeliver` and `Reclaim` are the ends of a job as
  far as they touch its reservation.
* `Scan`, `Load`, `Replay`, `ReplayRaises`, `Mark`, `CommitMark`,
  `ReconcilerDies`, `ReleaseStale`: `reconcile_usage_outbox`. The beat does not
  wait for the previous reconciliation, so several may overlap; a replay is
  committed by `record_usage` in a session of its own before the event is marked.
  `Scan` takes any of the pending events, since those with a later
  `next_attempt_at`, or beyond the limit of a hundred, are left out.

`spent` is a history variable: the calls that were really made.

### ProjectLock and LocalJobs

`ProjectLock` counts time in renewal intervals. `TakeKey`, `Acquire`, `AcquireTimeout`,
`AcquireError` are the ends of `lock.acquire`; `Extend`, `RenewAnswered`, `RenewFails`
the renewal thread; `EndBody`, `FreeKey`, `ReleaseAnswered`, `ReleaseFails` the way
out; `StartEngine`, `EngineWorks`, `EngineEnds`, `Watch` the engine process of
`run_job_process` and its watcher. A command whose answer is lost may have been
executed. `Crash` kills a worker; an engine that has not yet asked the kernel to
die with its parent goes on.

`LocalJobs` has a step for each access to a file: the exclusive creation of the claim,
the record, the start of the process, the waiter, the stop, the sweep.

### StripeBilling, Sessions, Team, Quotas

* `StripeBilling`: a webhook is a receipt and a transaction of two actions, the read
  that locks its row and the commit, which a unique index may refuse; Stripe repeats
  what was not answered, in any order. An owner's request (`Caller`) is two actions as
  well, `BeginCheckout`, `BeginChange`, `BeginCancel` and the end of each, since the
  call of Stripe lies between its read and its write. Stripe keeps the answer it gave
  under an idempotency key: the key of a change is made of subscription, plan and
  amount (`stripe.py:183`), so a change back to a plan that was left a short time
  before is answered from memory and changes nothing at Stripe, while the row is
  written. `lost` says that this happened; `AccessFollowsPayment` excepts it.
* `Sessions`: `session_version` is read and written without a lock, so ending all
  sessions is two actions; a refresh token and a reset link are locked, so their
  use is one.
* `Team`: a request of an owner is at a `Desk`, one of the API's processes: what it
  checked and read (`BeginInvite`, `BeginMember`, `BeginRevoke`, `BeginKey`,
  `ReadOwners`) and what it writes afterwards (`InsertInvite`, `ChangeMember`,
  `RemoveMember`, `FinishRevoke`, `IssueKey`) are steps of their own, except under
  `with_for_update`. `ChangeUser`, `ChangeWorkspace`, its side effects `RunEffect` and
  `EffectFails`, and `RequestDies` stand beside them.
* `Quotas`: `Request` is a request up to its row lock on the tenant; the choice of
  engines by keys, searches and prices, projects per plan, trial runs and retests
  by day.

### Facts, Assets, Deliveries, Tickets, Crawls, Snapshots

A job holds the project lock, so its steps interleave with deaths and with the
writers that take no lock, and edits fall between jobs.

* `Facts`: a claim is a value; `Bootstrap` fills facts from site or model,
  `Normalize` is the upkeep, `SaveFacts` and `PatchBrand` are users, `SampleAnswers`
  and `SaveFactcheck` the check of answers.
* `Assets`: one asset per family that the code treats in its own way;
  `GenerateBegins`, `GenerateWrites`, `GenerateRestores`, `GenerateIndexes` are a
  generation inside `preserve_manual_asset_edits`; `Save...` the four writes of an
  edit; `Deliver` the rendering.
* `Deliveries`: `BuildStages`, `BuildChecks`, `MovesAside`, `MovesIn`, `BuildEnds` are
  `_build_delivery` and its swap; downloads list first and read later.
* `Tickets`: `BuildTickets`, `ScopeTickets`, `PutBackManual`, `PutBackWorkflow`,
  `VerifyTickets`, `RecordVerification`, `EvaluateEffects` are the writes of a job in the
  order of the pipeline, each to one of the two stores, and `JobDies` may come between
  any two. `UpdateTickets` (what people ask is one of `Changes`: status with `blocked`
  and `wontfix`, owner, note), `UpdateExperiment`, `CreateOffsite` are people; a rate is a
  ticket whose title names what was measured, so a later build may give another one.
  The comment at `experiments.py:18` says that `inconclusive` returns to observation;
  no code does so, and the model has no such step.
* `Crawls`: `WritesSite` and `WritesPages` are two writes of `crawl.py`; `Settles` is the
  recovery of `resilient_crawl_evidence`; `PageAudit` holds the pure parts - audit
  of a page, fold of equivalent pages, the fifteen checks - as operators on records.
* `Snapshots`: one file at a time is hashed, added and restored, so that writers
  without the lock come between; `Retire`, `Sweep...` and `Recreate` are the life of
  the directory.

### Contexts, Outreach, Publishing, SearchData, Sampling

* `Contexts`: each resource of the process (environment, registry, guard, patched
  methods, locks) is taken and given back in the order of `with_tenant_context`;
  a thread's `pc` stands between two of them.
* `Outreach`: the draft is a file, the job a row, the mail external; each of them
  changes in a step of its own.
* `Publishing`: `MakeBranch`, `UploadFile`, `OpenPull`, `RecordPull` are the calls of
  `github_pr.create`; a destination may do what was asked and lose the answer.
* `SearchData`: a request is in a thread between any two accesses to Redis, Google
  and the snapshot file.
* `Sampling`: `AskNext` is one answer of one engine; `Check` and `Gate` are the evidence
  of a delivery before and after it sampled its gaps.

## 3. Runs

All instances are exhaustive. `CHECK_DEADLOCK FALSE` everywhere: a behaviour whose
bounded jobs, attempts and faults are used up stops, and so may the real system
when there is nothing to do. Each fault, edit or request of an instance is taken
from a budget (`Scenarios`, `Customers`, `Mishaps`, `Upsets`, `Occasions`, `Budgets`,
...), one of a small set per behaviour: which things may meet in one behaviour is
written there.

| run (cfg) | question | instance |
|---|---|---|
| `crash` (MCJobLifecycleCrash) | exclusive claims, bounded starts, no run repeated unaccounted, nothing reactivated | 2 jobs, 2 workers, 1 request (action, retry); 2 faults of crash, loss, duplicate, Redis; slow workers |
| `requests` (MCJobLifecycleRequests) | implements `ProjectSlots`; one active job; ended jobs release; results and cancellations stay | 2 jobs, 1 worker, 2 requests (action, retry, cancel, schedule); 1 crash, lost commit or lost message |
| `projects` (MCJobLifecycleProjects) | busy projects have a job | 2 jobs, 2 requests (create, archive, schedules, retests, tenant changes); 1 crash, lost commit or dead request |
| `liveness` (MCJobLifecycleLiveness) | every job ends | 1 job, 2 workers, up to 4 messages, 2 faults of six kinds |
| `books` (MCUsageAccountingBooks) | counter = ledger; nothing charged twice; reservations fit | 2 jobs with 2 runs each, a limit for one, 1 engine, 2 reconciliations, 4 faults of four kinds |
| `reviews` (MCUsageAccountingReviews) | nothing spent is forgotten; settled is complete; events are replayed and reviews end | 1 job, 2 engines, 2 calls each, 2 reconciliations, 4 faults of three kinds |
| `accounts` (MCAccountsAccounts) | access and books follow payment; ended sessions; owners and keys; allowances | 2 handlers and callers, 2 plans, 8 events, 4 seconds, periods of 2; 3 tokens (2 with a reset link), 2 endings; 2 people, 2 requests at once; 2 projects, 2 askers, 3 days |
| `engine` (MCEngineEngine) | successful sections never overlapped; a loss stops the engine, an abandoned key expires; local records and processes agree | 2 processes, a TTL of 3 renewal intervals, 3 failures; 2 dashboards, 2 starts |
| `workspace` (MCWorkspaceWorkspace) | facts are owned; edits and reviews last; packages survive and pass the gate; tickets outlast their rebuild; evidence stays and no check passes without it; snapshots restore | 2 texts of a fact; 2 versions; 2 days; up to 4 jobs on the tickets; six URLs and 4 budgets of crawls; 3 files, 2 snapshots kept |
| `outward` (MCOutwardOutward) | tenants stay apart; mail follows confirmations; records match; authorizations hold; verdicts match evidence | 3 threads, 5 loads; 2 editors, 2 workers, 2 send jobs; 2 clients, 2 repositories; 2 users, 2 projects, 3 properties; 3 engines, 2 questions |

Why these bounds are enough to be interesting: two workers and a duplicate give
every double delivery; two requests give every race at the unique index; four
faults are what it takes to fail three attempts and the outbox, or three attempts
and a reconciliation; two engines separate a job's first accounted row from its
second; two reconciliations give the overlap in which each sees the other's event.
A TTL of three intervals is the code's own proportion, and three failures are what
ends its renewal thread. Two handlers give every overlap of two webhooks; the
second plan gives a change; four ticks are two paid periods. Three tokens are a
session, its successor and a copy. Two days separate a package from a rebuilt one
of the same day and from the next. Six URLs are a page, its equivalents, one that
redirects, one without text and one of another site. Three threads are two that
share a process and a pool's. Limits that cut a list (100 pulls, 20 candidates, 5
old snapshots) are 1 or 2, so that the cut happens.

The conditions of a run are part of its statement. `requests` has no failing
publish: the except branch of a dispatcher writes `failed` over whatever the row
has become, a cancellation included (`api/projects/sampling_routes.py:356`), which
`OutcomesAreFinal` would not survive; and no `create`, for a job that is canceled
while its project is created reserves budget that nothing releases. `reviews` has one
run per job, a reservation for it and no time limit, for the disagreements 4 and 5
below. `projects` has no failing publish either: a trial retest that cannot be
published leaves its project `processing`. `liveness` has a failing publish, and the
proofs have every fault. `SlowWorkers` lets a live worker miss heartbeats for the
whole stale window; where it is `FALSE` the run assumes that heartbeats arrive.
`SlowRequests` is `FALSE`: a request does not outlive the five minutes after which
`_recover_unpublished_jobs` takes its row. Exceptions inside the other properties
are named in the comment above each.

In `accounts` a behaviour of billing follows one of seven scenarios: what happens
besides the first payment - renewals with overlapping handlers and usage, a failed
renewal, an end with overlaps or with a second subscription, changes, refunds, a
session that expires. Two transactions are under way at once at most, one of them an
owner's; the clock stops at three where a change, or the overlaps of an end, multiply
what may happen in a second. Two refunds that are handled at the same time are the
one thing that the books do not survive (each handler adds what it read): `PaymentsAddUp`
asks for the refunds only where handlers do not overlap. A behaviour of the team is
about its invitations, about people an operator suspends or about the workspace he
disables (`focus`): with all three in one behaviour the instance does not end.

A property that joins several (`AccessFollowsPayment`, `RemediationLasts`, ...) is the
conjunction of named ones, each with its own comment.

### Disagreements found

Where the model does what a document, a comment or a test of the repository says
the program does not. The first two are runs that TLC refutes (`expect: violation`,
with the line quoted in `findings`); the others were met while modelling, their steps
are in the modules, and the properties above except them by name.

1. `abandoned_checkout`: a checkout that is never paid uses up the trial
   (`api/billing/router.py:614` against `access.py:47`).
2. `one_active`: two local dashboards start two processes for one project
   (`engine/scripts/jobs.py:157` against its docstring).
3. A cancel that commits between the check and the write of `mark_complete` is
   overwritten by `done` (`worker_job_lifecycle.py:243-247` against
   `tests/test_worker.py:1575`).
4. The calls of the second engine run of a delivery conflict with the first run's
   rows and are dropped (`platform_pool.py:174`, `worker_pipeline.py:109`, against
   `platform_pool.py:253`).
5. The soft time limit in the pause between two accounting attempts skips the outbox,
   and the reservation is released (`worker_isolation.py:96`).
6. A job that settles between the two reads of `estimate` is counted in neither sum
   (`sampling_control.py:277`), so the hard limit of `config.py:207` can be passed;
   nor is a reservation in review counted while its job runs
   (`sampling_control.py:147`).
7. `mark_failed` takes a project out of the archive when a job was inserted between
   the check and the write of `archive_project_record`.
8. A trial's second automatic retest, on day 14, finds the trial ended
   (`worker_maintenance.py:153` against its docstring and `docs/v2.1-metrics.md:19`).
9. A job that was accepted by `sample_project` with the pool is refused by
   `task_sample`, which passes `allow_pool=False` (`worker/tasks.py:377`).
10. A later build replaces a published package in its dated directory
    (`delivery_package.py:749-756`), which `delivery_routes.py:153` calls an immutable
    snapshot.
11. The verification of a page ticket asks for pages that are "evaluated" where the
    audit writes "scored" (`engine/scripts/verify.py:173`, `audit.py:113`), so a page
    that was fixed does not verify, against `api/adapters/action_scope.py:273`.
12. A delivery with an engine the user defined is refused for gaps it has filled
    (`worker_pipeline.py:63`), and a service cycle whose sampling was swallowed
    concludes on the answers of an earlier run (`worker_sampling.py:60`, against
    `:283`).
13. When the request that creates a project again dies before it has moved the old
    directory aside, the job it has already committed runs on the old files
    (`lifecycle_routes.py:237`, against the comment at `:238`); and the purge does not
    look again whether a project is still retired before it removes its directory
    (`worker_maintenance.py:296-311`).
14. A page the engine did not score passes checks that nobody saw passed, as its row
    has no issue codes (`audit_presentation.py:604`, against the comment at `:379`).
15. A redelivered send whose predecessor died while it was sending marks the draft as
    failed with its own error, not `send_unknown_after_lease`
    (`worker_external.py:60`, `outreach.py:286`, against `outreach.py:110`).
16. `list_prs` writes the status of a pull onto the record of another repository with
    the same number (`github_pr.py:148`), and a file may lose its approval between
    the check and the upload (`github_pr.py:193`, against the docstring at `:167`).
17. A Search Console token is kept until it expires when the callback ends with another
    error than its own (`searchdata/router.py:237`, against `oauth.py:1`), and a
    session that two requests read at once is used twice (`router.py:323`, against
    `oauth.py:186`).

A review flagged `platform_usage_accounting_pending` is never resolved by the
code; tests fix that as intended (an operator decides), so `OutboxDrains` excepts it.

## 4. Fairness

`FairSpec` of `JobLifecycle`: weak fairness for the steps of requests in flight, of
workers that hold a message, for the expiry of an abandoned lock, for the passing of
the stale window and for the two sweeps. The code justifies it: the tasks have time
limits, the lock a TTL, and the beat starts the sweeps every 60 seconds. Delivery of a message is
*not* assumed: a lost message is exactly what the sweeps are for.

`FairSpec` of `UsageAccounting`: weak fairness for the steps of a job and of a
reconciliation, including its start. New jobs and gap reservations are not forced, and
faults are finite in a behaviour, as an outage that never ends would keep every
event pending.

`EngineSpec` of `MCEngine`: time passes, and the renewal and watcher threads of a live
process get to run; the body of a section may never end and Redis may stay
silent. A local start that has begun goes on, and the threads of the dashboards together
proceed; nothing says that a process ends or that anything is started.

The other specifications state safety and action properties only, and assume no fairness.

## 5. Proofs

The theorems hold for every value of the constants that the named assumptions of the
modules allow: any number of projects, jobs, workers, requests, engines,
reconciliations, processes, people, tokens, mailers, threads, repositories, and every
choice of request kinds, faults and bounds. The assumptions say of a constant what the
code says of its column or setting, and that a value which stands for nothing (`"free"`,
`"nobody"`, `""`) is no member of the set beside it; sets that the code counts (people,
threads, jobs, engines) are finite. Five theorems ask for more: `ReservationsReturned` and
`OutcomesStay` (`Punctual`), `ProjectsHandedBack` (`HandsBack`), `UsageKept` (`OneRun`),
`RefundsCounted` (`RefundsApart`).
Each condition is the narrowest under which the property holds of this code; what is
outside of it is described with the theorem.

| theorem | property | module |
|---|---|---|
| `TypeCorrect`, `QueuedUnclaimed`, `OneActive`, `EndedStaysEnded`, `AttemptsStayBounded`, `UnaccountedNotRestarted`, `SlotsImplemented`, `ReservationsReturned`, `OutcomesStay`, `ProjectsHandedBack` | all of the runs `crash`, `requests`, `projects` | `JobLifecycleProofs` |
| `ChargedOnce`, `BooksTyped`, `CountedOnce`, `ReservedWithinLimit`, `UsageKept` | the safety properties of `books` and `reviews` | `UsageAccountingProofs` |
| `LockTypeCorrect`, `SectionsAreSerial` | types; the refinement of `SerialSections` | `EngineProofs` |
| `EndedAreDead` | types and `EndedIsDead`, the safety part of `LocalRecordsHold` | `EngineProofs` |
| `TypesHold`, `MembersHold`, `SessionsTyped`, `SessionsStayEnded` | `MembershipHolds`, `SessionsHold` and the types below them | `AccountsProofs` |
| `AllowancesKept` | `AllowancesHold` | `AccountsProofs` |
| `PaymentsAreRecorded` | `PaymentsRecorded`, the first part of `PaymentsAddUp` | `AccountsProofs` |
| `RefundsCounted` | `RefundsAddUp`, of `PaymentsAddUp`, where refunds of one charge do not overlap | `AccountsProofs` |
| `AccountsTyped` | `AccountsTypeOK`, of all parts of the accounts at once | `AccountsProofs` |
| `FactsTyped`, `FactsOwned` | types; `FactsAreOwned` | `WorkspaceProofs` |
| `DeliveriesTyped`, `PackagesHeld` | types; `PackagesHold` | `WorkspaceProofs` |
| `AssetsTyped`, `ReviewRespected` | types; `ReviewIsRespected` | `WorkspaceProofs` |
| `SnapshotsTyped`, `RestoreSafe` | types; `RestoreIsSafe` | `WorkspaceProofs` |
| `CrawlsTyped`, `PassesHaveEvidence`, `EvidenceIsKept` | types; `NoPassWithoutEvidence`, `EvidenceStays` | `WorkspaceProofs` |
| `TicketsTyped`, `RemediationHolds` | types; `RemediationLasts` | `WorkspaceProofs` |
| `WorkspaceTyped` | `WorkspaceTypeOK`, of all parts of a directory at once | `WorkspaceProofs` |
| `TenantsApart` | `ContextsStayApart` | `OutwardProofs` |
| `OutreachTyped`, `MailsFollow` | types; `MailsFollowConfirmations` | `OutwardProofs` |
| `RecordsKept` | `RecordsMatch` | `IntegrationProofs` |
| `FiguresAuthorized` | `AuthorizationsHold` | `IntegrationProofs` |

TLC was asked about an inductive invariant, on the instance of its run, before the proof.

**Jobs.** `JobLifecycleProofs` works in layers.

1. `IInv` is inductive: types, and that whatever a message, a worker or a request
   holds on to is a row that exists; a worker past the claim keeps its row from
   being queued, and a request that is about to insert a retry has seen its source
   ended. Types alone are not inductive: an action that writes
   `status[wmsg[w].job]` needs to know that there is such a row.
   `TypeCorrect` and `QueuedUnclaimed` are conjuncts.
2. Under `IInv` every step changes the rows in one of four ways (`RowChange`): not
   at all, a new row where the index allows it, a claim, or an end. The case
   analysis over all actions is done once.
3. `OneActive`, `EndedStaysEnded`, `AttemptsStayBounded`, `UnaccountedNotRestarted` and
   `SlotsImplemented` follow from `RowChange` (the two about starts with `StartsInv`,
   which relates starts and attempts). The refinement maps a project to the active job
   it has, which `OneActive` makes unique.
4. `Orderly` adds that a job is run by one worker at a time, that a message this worker
   could take for its own is not in the broker, and that what a request or a worker
   decided on is still so when it writes. This is where `Punctual` is needed: a
   duplicate message or a worker slower than the stale window puts two workers on one
   row; a publish that raised although it succeeded lets the request write `failed`
   over what the worker did; a creation, or a tenant that is refused, ends a row while
   another writer holds it. `ReservationsReturned` and `OutcomesStay` follow.
5. `BusyInv` follows a project from the step that makes it busy to the one that hands it
   back. `HandsBack` excludes two ways in which the code loses it: `create_project` sets
   the status without looking at its row again, so a cancellation or a recovery
   in between leaves a busy project without a job; and a retest whose dispatch failed
   keeps the status it had set. Every crash, lost message, slow worker and tenant change
   is allowed.

**Usage.** `UsageAccountingProofs`. A charge travels through copies: the worker's
count, the event, what a reconciliation has loaded, the usage row. `Charged` bounds
each copy by what was spent; it is inductive since every step copies and none adds
to a row that exists (`ChargedOnce`). The counter and the reservations are sums over
finite sets; their laws (`CollectionLemmas`, `SumIs` to `SumOfNothing`) are proved by induction over the
subsets of a finite set, as the induction theorems of the library take an operator that the provers cannot
instantiate. With them `CountedOnce`: a step changes a row and the counter by the same
amount, or neither. `ReservedWithinLimit` rests on the advisory lock: one job decides at a time
(`Alone`), and what it has read of the two sums bounds the others (`Decided`).
`UsageKept` tells the story of a run: `OnceInv` says what ledger, event, reservation and
flag hold at each of its points, for the one worker, and for any number of
reconciliations. A second run writes under the first one's key and its calls are dropped
(disagreement 4), a time limit between two attempts drops the outbox (5), and an estimate
of zero reserves nothing that could be kept for a review: these are the three
conditions of `OneRun`.

**The lock.** `EngineProofs`. The type invariant is all the refinement needs: the
key has one holder, so a step that takes, frees or expires the key changes the place of
its holder alone (`OthersUndisturbed`), and `project_lock` reports success only where it
sees its own token at the release. Each step is then a `Begin`, `Lose`, `Succeed` or
`Fail` of `SerialSections`, or is not seen there at all.

**Local jobs.** `EngineProofs`. An identifier is drawn by one start, which has no
process before it starts one (`StartsApart`). Whoever is about to write that a job ended,
the waiter, a stop or a sweep of any dashboard, has seen its process dead, or writes back
a record that names no process (`ProcessesKnown`).
A dead process stays dead, so the late write is true as well (`EndedAreDead`). That every
record is settled in the end is liveness.

**Accounts.** `AccountsProofs`. For the team: a change that takes an owner away counts,
among the owners it read before it waited for their locks, those who are owners still;
with two of them one is left, whoever became an owner meanwhile. A key dies with the
membership or the suspension of its creator, except for one whose request was
authorised before and committed after (`late`). For sessions: as long as no two endings overlapped, the version of
the account is the number of endings (`VersionCounts`), and a token, or a request that is
about to sign one, has as many endings behind it as its version says
(`SignedWhenBorn`): what is accepted was born after the last ending. A token of a family is no
younger than the family (`FamilyFirst`).

For allowances (`QuotaInv`): a request that has checked something still holds the
tenant's row (`TenantHeld`), so the room it found is there when it takes it
(`ImportRoom`, `ProjectRoom`): every other way to use it up waits for that row, and the ones
that do not wait only free it. A request owns the job row it has inserted until it has
published it (`OwnRow`). A day whose retest was or may still be run is marked as done; the
sweep can put back only what was done before its own day (`DaysDone`, `PutBack`). The theorem
assumes what `plans.py` says of the plans: a trial may open no more projects than
a starter plan, as a trial that becomes one keeps those it has.

For payments (`PaymentsInv`): an invoice that was paid is recorded by the handler that
answers it, except for one that finds its subscription ended. What makes that hard is the
way from the reading to the commit, where other handlers, the owner's requests and Stripe go
on. Every event has its own number and an invoice one payment (`EventsAreOne`); a subscription
has one row (`RowsAreOne`), and a row that has ended was ended by an event that was
applied and answered, of the same second or later (`RowsExplained`); the rows that handlers
and requests keep locked are apart (`LocksApart`), so what a handler is about to write about
its row is what it read of it (`CommitsExplained`). That includes the notice that
claims an invoice: if another handler has sent it, the invoice is in the ledger already.

For refunds (`RefundsInv`): an event tells of the sum that was refunded when Stripe sent it, and
a handler records what that sum has more than what is recorded. Events come in any order
and again, so a handler may find more recorded than its event tells of. `RefundCommits` says that
what is recorded, with what a handler is about to add, is at most what was refunded. Two
refunds of one charge that overlap read the same books and break it - the code takes no lock there -
so `RefundsCounted` assumes that they do not (`RefundsApart`); all else may overlap. The
charge of a subscription is its own (`InvoicesApart`).

Types are the first part (`BillingTypes`), and with the invariants of the other three
parts they make `AccountsInv`, which `AccountsTyped` rests on.

**The project's files.** `WorkspaceProofs`, one inductive invariant per part.

* Facts (`FactsInv`): every value in the site's pages, in the brand configuration and in both
  texts was seen on the site or typed by a user. Parsing, merging, rendering and the upkeep
  only choose among the values they are given (`EnsuredFacts`, `SyncFacts`), so
  nothing a model invented gets in, apart from the definition. `UserTextKept` is a step
  predicate: only the save of another text replaces a user's.
* Packages (`DeliveryInv`): what is staged has passed the gate from its check to its
  publication, and no backup of the day is left when a build moves the package aside, so that one
  move never overwrites the last package of a day (`BuildFits`). A reader has opened a
  path, not a package: whatever lies there, or is aside from there, until it ends passed the
  gate (`ReaderFits`).
* Assets (`AssetsInv`): a text that a user saved and the platform marked is in English, so that no
  upkeep replaces it; it is in the project or, while the engine writes, aside
  (`EditKept`). A save that is about to mark finds an English text, whoever wrote it last
  (`MarksEnglish`).
* Snapshots (`SnapshotInv`): a list names an object once, and what it calls available is
  there unless its deletion is known (`Sound`). This is said of the list on disk and of the
  copy a job has in hand, which it saves at its end; without it a job could bring back
  an entry whose object it has deleted. An object is in no list while it is uploaded and
  verified, and a restoration that may not overwrite finds nothing, or what it restores,
  where it writes (`JobFits`), also after one that died halfway.
* Crawls (`CrawlsInv`): the two files of the evidence tell of one crawl (`Match`), unless a
  job was killed between the two writes; where a crawl stands says which of them it has
  replaced, and the copy an autopilot made is such a pair (`RunHolds`). What folding does to a
  sequence of pages of any length - no URL is lost, one row has each of them - is an
  induction over its positions (`FoldIn`). Every row of the audit was made from a page of some
  crawl (`AreRows`), so a check the view passes is one that the page, or the crawl's own row of
  it, shows passed; the exception of disagreement 14 is in the property.
* Tickets (`TicketsInv`): the id of a ticket tells who wrote it, a rebuild,
  the scoping or a person (`Whole`), so what a job adds never takes the id of an offsite ticket.
  The offsite tickets are in the list or, from a build to the merge after it, in what the job
  remembers (`OffsiteKept`), and a script that has begun to rebuild still has its merge ahead
  (`Proper`). A step then either carries an experiment over or moves it by what its own state
  allows (`Carries`, `Comparable`).

**Contexts.** `OutwardProofs`. A thread that changes the process holds its lock
from before the change to after the restoration, so what it keeps to restore is the
process as it was, and what it finds between is its own (`Held`, with `Holder` for the
thread and `FreeProcess` for a process that nobody holds). The guard on the network is
shared, and is not under that lock: its count is the number of threads inside, so the original
comes back with the last one and stays away with any before (`GuardFits`). A task runs while the
thread it came from waits for it, with a copy of that thread's ContextVars (`TaskFits`).
`GuardedStays` shows for every chain of redirects that what a guarded request visits is
public and of the first host's site.

**Outreach.** `OutwardProofs`. The project lock is held from the claim of a draft
to its end, so the draft stays as it was confirmed while its mail is on the way
(`KeyHeld`, `OnItsWay`). A draft in the queue has sent nothing for its confirmation; one
left in `sending` has sent no more than runs died for it (`Budgeted`). A project has one
active job, and what mailers and requests point to exists (`OneRuns`, `JobsKnown`).

**Publishing.** `IntegrationProofs`. A request that talks to a destination has the process
to itself (`Alone`), so what it read of the two lists is what they still hold when it
writes them back (`ReadIsCurrent`), and its branch holds the files it has put there and
no other (`BranchHolds`). A list that is cut each time an entry is added holds the last
entries of all (`CutThenAdd`).

**Search data.** `IntegrationProofs`. A code is exchanged once, so one request at most
ever asks Google what an authorization may read, and nothing was built on that
authorization before it did (`Unheard`). What Google listed therefore only grows, and so
does every fact about it.

Proving showed places where the guards of a `CASE` overlapped and `CHOOSE` left the
branch open where the code's order of `if`s decides; those definitions were rewritten.

Only model-checked:

* liveness (`EveryJobEnds`, `OutboxDrains`, `LockRecovers`, and `RecordsSettle` in
  `LocalRecordsHold`): `ENABLED` and fairness
  are outside the prover's reach;
* what a recursive definition computes for every input, which is induction over data: the
  pure parts of `Sampling` and `PageAudit` against what they should be. Of the folds,
  `CollectionLemmas` proves what the invariants need, by induction over the positions;
* `AccessFollowsPayment`, and `LastEventAccepted` in `PaymentsAddUp`: they hold in scenarios
  only (the order in which Stripe's events arrive) and are stated for those;
* `VerdictsMatchEvidence` of `Sampling`; `OutwardTypeOK`, of which `OutreachTyped` proves a
  part.

## 6. Plan

Next, in this order:

1. The types of `Sampling` as a theorem, with which `OutwardTypeOK` would be one.
2. The sampling routes (`sample_project_gaps`, the quality of a sample), question
   readiness and the calendar of schedules as further operators of `Sampling` and
   `JobLifecycle`.

## 7. Not modelled

Rendering of documents and reports, statistics on samples, projections and the front
end keep no concurrent state; cryptography is external. Read-only routes, the admin
overviews, settings forms and rate limits are single statements. Clocks are
abstracted to "the window has passed", apart from the TTL of the lock, the periods
of billing and the days of trials and packages. Databases are taken to commit
atomically at READ COMMITTED; SQLite, which the tests use, is not distinguished. Files
are written by rename, so a reader sees one version or the other.
