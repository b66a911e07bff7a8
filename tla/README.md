# Delulu in TLA+

Delulu schedules and publishes posts to social platforms. Its services are
TypeScript (Effect), its data is in PostgreSQL at READ COMMITTED, and its
deferred work runs in Cloudflare Durable Objects, one object per job key. This
directory holds TLA+ modules that model the parts of it where steps of several
actors, restarts, lost answers and retries meet, TLC configurations that check
them on small instances, and theorems that TLAPS proves for every instance.

`PROJECT.json` lists components, runs, mutants (plausible bugs that each property
must detect), the source lines of every definition, findings, hazards and
theorems.

To check a run: `tlc -config <run>.cfg <MC module>.tla`. To check the proofs:
`tlapm <module>.tla` for `DurableJobProofs`, `JobLedgerProofs`, `PublishingProofs`,
`CancellationProofs`, `ReviewsProofs`, `AutomationsProofs`, `MediaProofs` and
`AgentRunsProofs`.

## 1. The system

Paths are relative to the root of the repository.

| Component | State | Operations | Talks to |
|---|---|---|---|
| Durable job object (`apps/api/src/durable-job.ts`, `job-runtime.ts`, `packages/services/src/jobs.ts`) | object storage (intents, active job, clean-up list, markers, alarm); SQL table `execution_receipts` | `JobService.enqueue`/`cancel` in the caller's transaction; `fetch`; `alarm` | every service that enqueues; `executeJob`, `failJob` |
| Publication of a target (`packages/worker/publish-target.ts`, `apps/api/src/execute-job.ts`) | `post_targets`, `posts.status` | load, acquire, call the provider, persist, finalize; give up | job object, provider adapters |
| PostService (`packages/services/src/posts.ts`, `packages/core/src/domain/post-behavior.ts`) | `posts`, `post_targets` | create, update, remove, retryTarget, updateTarget, publishNow | job object (by transaction) |
| Provider adapters (`packages/connections`) | `provider_state` of a target | publish, classify failures, resume an upload | providers |
| Reviews (`reviews.ts`) | `post_reviews`, `review_activity` | submit, approve, reject, comment | PostService's rows, job object |
| Billing, cancellation, retention (`billing-webhooks.ts`, `cancellation.ts`, `lifecycle.ts`, `billing-*.ts`, `subscription-access.ts`) | `subscriptions`, `cancellation_requests`, exports, deletions | webhook, request, cancel, reactivate, retention job, end of access | payment provider, job object, posts |
| Quota reservations (`quota-reservations.ts`, `quota.ts`) | `quota_reservations`, counters of `subscriptions` | reserve, commit, release, expire | job object |
| DM dispatch and automations (`dm-dispatch.ts`, `automation-*.ts`, `apps/api/src/automation-providers.ts`) | `automation_dm_dispatches`, `automation_comment_dispatches`, `automation_sessions`, counters of `subscriptions`, KV snapshots | evaluate an event, reserve, send and record a DM, reply to the comment, start and advance a session | webhook ingress, KV, Meta |
| Leases (`webhook-deliveries.ts`, `webhook-ingress.ts`, `maintenance-scheduler.ts`) | `webhook_deliveries`, maintenance leases | claim, complete, fail | automations, cron |
| Messaging (`messaging.ts`) | `message_deliveries` | queue, deliver | job object |
| Media (`media.ts`, `r2.ts`, `execute-job.ts`) | `media`, `media_imports`, the payer's count of bytes, R2 objects | create uploads, complete, import, remove; sweep, reclaim, delete | job object, posts |
| Agent workspaces (`agent-workspaces.ts`, `agent-*.ts`) | `agent_runs`, `agent_usage_ledger`, `agent_action_approvals`, turns | run, interrupt, take a response, resolve an approval, maintenance | agent runtime |
| Connections, OAuth, identity, transcriptions, analytics, ingress | one-time states, tokens, mirrors | look-ups and single-row updates | providers |
| API, MCP, CLI, web apps | none of their own | decode, authenticate, call a service | the services |

What is hard in it, and what makes each part correct:

- **Job object.** A business transaction and the object's storage commit
  separately. A receipt row decides which intents count, calls are delivered more
  than once and late, and the object may restart at any `await`. Correct means:
  only committed intents act, each at most once, the latest one decides, nothing
  is left without an alarm, attempts are bounded, and a failure is on record
  before the job is closed.
- **Publication.** A provider call is neither transactional nor, on most
  platforms, repeatable. Correct means: one creation per request; a recorded
  publication is shown; no target is left `publishing`; the post tells the truth
  about its targets.
- **PostService.** Its commands run between any two steps of an execution.
  Correct means: a published target is not taken back, and a target that waits has
  a job.
- **Reviews.** A decision reads a post and its review without a lock and writes by id
  later. Correct means: what an editor wrote is published only after somebody who may
  publish has approved that very content, and a pending review can be approved.
- **Quota.** Reservations are counted at reservation, commit, release and expiry by
  four actors and two clocks. Correct means: no unit is counted twice or given
  back twice, and the limit holds.
- **Cancellation.** Webhooks arrive repeated and out of order beside a retention job
  that deletes. Correct means: nothing of a reactivated payer is deleted, and what
  was promised to be deleted is.
- **DM dispatch and webhook deliveries.** Meta repeats events, claims lapse while their
  holder works, answers are lost, and two clocks reset the counters. Correct means: a
  DM is sent once unless nobody can know whether it was, a comment is answered once
  unless Meta reports an error for a reply it has made, and the limit of the plan holds.
- **Media.** Objects are in R2 and rows in PostgreSQL, and no transaction spans them.
  Correct means: what can be used exists and is counted, and what cannot be used is
  removed some day.
- **Agent runs.** The runtime answers late, twice or never, while users interrupt runs
  and decide approvals and maintenance ends runs. Correct means: the budget holds, a
  run that ends gives back what it held, and decisions are told once and count.
- **Maintenance leases, messaging.** Claims lapse while their holder works.

The hazards, each at its line and with the properties that would catch it, are in
`PROJECT.json`.

## 2. Modules

| Module | Models | Kind |
|---|---|---|
| `DurableJob` | one durable job object, the transactions that call it, its receipts, executor and restarts | detailed specification |
| `JobLedger` | what the object promises: committed intents take effect one by one, in one step | abstract specification |
| `MCDurableJob` | instance: two transactions, three intents | TLC |
| `DurableJobProofs` | the inductive invariant of `DurableJob` and six theorems | proofs |
| `JobLedgerProofs` | the order of the calls, and the step refinement of `JobLedger` | proofs |
| `Publishing` | one post, its targets, PostService's commands, the execution of their jobs, the end of a subscription | specification |
| `Publication` | what a target's owner is promised: put up, made, recorded and shown, in this order | abstract specification |
| `MCPublishing` | names for the targets of the instances | TLC |
| `PublishingProofs` | the inductive invariant of `Publishing`, six theorems from it, that nobody is stranded, and the refinement of `Publication` | proofs |
| `Cancellation` | one payer's requests, subscriptions and webhooks, and the retention job | specification |
| `MCCancellation` | the symmetry of its instances | TLC |
| `CancellationProofs` | the inductive invariant of `Cancellation` and five theorems | proofs |
| `Reviews` | the review of one post, its decisions, edits, retries and executions | specification |
| `MCReviews` | instance: an editor, two contents, two targets, two requests | TLC |
| `ReviewsProofs` | the inductive invariant of `Reviews` and four theorems | proofs |
| `Automations` | one automation and one person: deliveries, the engine, DMs, sessions, the reply | specification |
| `MCAutomations` | instance: the flow of the template "Grow followers (comments)" | TLC |
| `AutomationsProofs` | the inductive invariants of `Automations`, of DMs and of claims, and six theorems | proofs |
| `Media` | the media of one payer: rows, objects, imports, the count, the jobs that delete | specification |
| `MCMedia` | the symmetry of its instance | TLC |
| `MediaProofs` | the inductive invariant of `Media` and six theorems | proofs |
| `AgentRuns` | the runs of one agent workspace, their ledger and approvals | specification |
| `MCAgentRuns` | the symmetry of its instance | TLC |
| `AgentRunsProofs` | the inductive invariant of `AgentRuns` and five theorems | proofs |

### DurableJob

State: the transactions (`tx`), the stage of each call of `JobService.prepare`
(`stage`), the receipt rows (`witness`); the object's storage (`intents`,
`cleanup`, `active`, `marker`, `alarm`); the handler (`pc`, `subject`, `verdict`,
`late`), which a restart loses; and history (`applied`, `before`, `runs`,
`reported`).

Each `await` of `alarm()` ends a step, and `fetch` may run between any two steps
except inside `blockConcurrencyWhile`, whose body is one step. `FetchInterrupted` is
a fetch that stores the intent and is cut off before the alarm is set: the caller
times out and rolls back. A transaction may roll back one nested call
(`RollBackCall`), and the intents that are delivered twice or late are all those
once sent (`Fetch` needs only `stage[i] # "unsent"`). `Crash` is a restart at any
await. The limit of the list of intents (`MaxUnsettled`, 100 in the code) is a guard of
`Deliver`; a call that it refuses aborts its transaction, as `Abort` does. Left out:
`paused` and the inspection end points.

### Publishing

A target's job object is reduced to what `JobLedger` promises. An intent of a
committed transaction waits in `asked[t]`; the last one decides, which is exact
because no execution starts while an intent waits that the handler could have seen
(`NoSupersededRun`, proved and relied on; one that arrives after the handler has
settled is, to the execution, one that arrives a moment later). `job[t]` and `tries[t]` are its active job, `pc[t]` the place of its
execution.

| Code | Actions |
|---|---|
| PostService: `write` (create), `write` (update), `remove`, `retryTarget`, `updateTarget`, `publishNow` | `Init`, `Replace`, `Remove`, `Retry` then `RetryEnqueues` or `RetryDies`, `EditTarget`, `PublishNow` |
| billing webhook, `stopBilledWorkspaceWork` | `ChangeBilling`, `StopBilledWorkspaceWork` |
| job object | `TakeRequest`, `ClaimRun`, `ClaimExhausted`, `Answer` |
| `executeJob`, `processProgram` | `Gate`, `Load`, `Acquire`/`AcquireAbandoned`/`AcquireNot`, `ResolveFails`, `Persist`, `Settle` then `Roll` |
| `failBeforePublish`, `failJob` | `Refuse` then `Roll`, `GiveUp` then `Roll` |
| provider and adapter | `OpenSession`, `Create`, `Reject`, `SessionGone`, `Continue`, `AnswerLost`, `AnswerArrives` |
| time and failures | `Age`, `Throw`, `Crash` |

- *Transactions.* At READ COMMITTED a statement sees what is committed when it
  runs. `finalizeOutcome`, `failBeforePublish` and `failJob` update their own row,
  which locks it, and then read the other rows, which does not; they are two steps
  (`Settle`, `Refuse`, `GiveUp` or `AcquireAbandoned`, then `Roll`), and commands
  that need a row wait while it is `Locked`. Every other transaction locks what it
  reads and is one step. `retryTarget` is two transactions and so two steps.
- *Deadlocks.* `publishNow` locks the post and then its targets, the executor a
  target and then the post. PostgreSQL aborts one of the two: the command does not
  happen, or the execution throws (`Throw`).
- *Time.* `stale` holds the rows whose `updated_at` is 15 minutes old. Every UPDATE
  of a row sets it anew (the trigger of migration 0001). A row ages while no
  execution of it runs; when exactly it does makes no difference, since only
  `Acquire` looks at it and every execution looks at it first.
- *Platforms.* `Resumable` targets have an upload session that is stored before any
  byte is sent and can be asked what became of it (YouTube). `Unguarded` targets
  belong to a platform whose adapter classifies its create call like any other
  request, so that a lost answer is retryable (Facebook, Instagram, Threads,
  Pinterest, Bluesky, Farcaster). The others classify it with `fromUnknownCreate`
  (X, LinkedIn, TikTok), which makes a lost answer final.
- *Abstracted.* Content and validation: `Load` may refuse. The automations and
  clean-up jobs that `finalizeOutcome` enqueues in its transaction: their failure is
  `Throw`. `posts.published_at` and error texts. Editors and reviews are in `Reviews`.
- *History.* `created`, `uploaded` and `requests` count what the provider has made, the
  uploads it has, and what commands have asked for. `unasked` holds the targets that a
  command has put up without a job: a post without a time, a retry whose service died
  between its two transactions, an `updateTarget` without a time.

`Publication` knows nothing of jobs, rows, leases and answers. Its four variables are
the counts of commands and of creations, the targets on record and those shown; the
refinement mapping takes `requests`, `created`, `confirmed`, and the targets whose row
is `published`. A target is made only while it is not on record and, on a guarded
platform, fewer times than commands have put it up; it is recorded only when made,
shown only when recorded, and only a command takes it back.

### Cancellation

State: the provider's subscriptions (`phase`, `leaving`, `terms`) and the events it
has sent (`sent`); what the webhooks have written (`account`, `claimed`); the rows of
`cancellation_requests` (`status`, `origin`, `until`, `accepted`, `booked`); the
payer's media as rows and as objects (`rows`, `bytes`) and the `workspaces`; the calls
under way and what each has read (`call`); the job of each request and its execution
(`job`, `tries`, `place`, `todo`, `object`, `again`).

| Code | Actions |
|---|---|
| the payment provider and the payer's use of its portal and checkout | `Subscribe`, `ProviderUpdates`, `TermEnds` |
| `applyBillingWebhook` | `Deliver` |
| `start`, `acceptOffer`, `schedule`, `reactivate`, `handleCalendar` | `StartReads` `StartWrites`; `AcceptReads` `AcceptCredits` `AcceptWrites`; `ScheduleReads` `ScheduleTells` `ScheduleWrites`; `ReactivateReads` `ReactivateTells` `ReactivateWrites`; `CalendarReads` `CalendarWrites` |
| `abandon` | `Abandon` |
| `runRetention` | `LoadsNothing` or `Loads`, `Mark`, `List`, `Check`, `Remove`, `Forget`, `Last`, `Commit`, `Notify` |
| failures and time | `CallDies`, `Throws`, `DatePasses` |

- *Steps.* A call or an execution is one step for each `await` at which what it has
  read may become old. Reads that follow one another with nothing in between that
  depends on them are merged into the first. `abandon` repeats in the `WHERE` of its
  UPDATE what it has read, so that it is one step. The webhook is one transaction
  that first locks the payer's subscription, so that two events do not overlap.
- *Webhooks.* Events are applied in any order. An event delivered again is found in
  `billing_webhook_events` and changes nothing, so that a repetition needs no action.
  Every event has a time of its own, its place in `sent`.
- *Subscriptions.* The checkout of the API does not ask whether the payer has a
  subscription already. `Overlap` holds the subscriptions that may be bought while
  another one is live; with `Overlap = {}` the payer has one at a time.
- *Time.* A term lasts a month or a year and a call or an execution minutes, so that
  none is open when a term ends. `data_deletion_at` is kept as the term it counts
  from, and `due` holds the requests whose date has passed.
- *The job.* As in `Publishing`, the job object is what `JobLedger` promises: an
  enqueued intent takes effect between two executions (`rearmed`), a run that throws is
  repeated up to `MaxAttempts` times. `failJob` does nothing for this kind of job.
- *Abstracted.* Recipients, impact counts, the policy's dates, the text and the
  warnings of messages; the columns of `subscriptions` that no decision here reads;
  add-ons and transactions; `stopBilledWorkspaceWork`, which `Publishing` has.

### Reviews

State: the post (`post`, `shelf`, `content`, `creator`), its targets and the jobs that
wait (`target`, `jobs`), the row of `post_reviews` (`review`), and what each request to
`act` has read (`call`).

| Code | Actions |
|---|---|
| `ReviewService.act` | `Submit`, `Withdraw`, `Reject`, `Approve` (the reads and the checks), then `Submits`, `Withdraws`, `Rejects`, `Approves` (the transaction) or `Dies` |
| PostService: `write`, `updateTarget`, `retryTarget`, `publishNow`, `remove` | `EditorWrites`, `AdminWrites`, `EditorUpdatesTarget`, `AdminUpdatesTarget`, `RetryTarget`, `PublishNow`, `Remove` |
| the billing webhook; the execution of a job | `SubscriptionEnds`; `Executes` |

- *Steps.* `act` reads outside its transaction and writes by id, so that another
  decision or a command may come in between. The commands lock what they read.
- *Members.* Editors are the members whose posts wait for review; one other member,
  `Admin`, stands for those who may publish. That there is one makes no difference:
  they are told apart nowhere.
- *Composition.* `Reviews` has its own, coarser execution: the interleavings inside an
  execution are those of `Publishing`, whose commands are those of members who may
  publish. Times are left out: a job may run as soon as it is enqueued.
- *History.* `granted` holds the contents that `Admin` wrote, approved or put up;
  `passed` those put up by an approval that had read another content, or by an
  editor's retry; `unreviewed` those published before they were granted.

### Automations

State: the rows of `webhook_deliveries` (`delivery`, `overdue`) and what Meta has been
told (`answered`, and `doubled` when that 200 answered a repetition of an event still
being processed); the events whose claim was taken over (`overtaken`, history); the
reservations of DMs (`dispatch`, `expired`) and of replies
(`comment`); the counters (`usage`, `newMonth`); the sessions; the invocations (`inv`);
and history, of which `misread` counts the replies that Meta made and answered with an
error, after which the comment's row was deleted.

| Code | Actions |
|---|---|
| `WebhookDeliveryService` and `WebhookIngressService.process` | `Claim`, `Duplicate`, `Completes`, `Fails` |
| `evaluate`, `execute` | `ResolveComment`, `ResolveMessage`, `Decide`, `Leave` |
| `sendOnce`: `reserve`, the request, the receipt, `recordFailure` | `Reserve`, `Skip`, `Refuse`; `Accept`; `RecordSent`; `RecordUnknown`, `RecordNotSent` |
| `AutomationSessionService` | `StartSession`, `Advance` |
| `replyToCommentOnce` | `ReserveReply`, `AcceptReply`, `RecordReply`, `ReplyUnknown`, `ReplyRefused` |
| failures and time | `Throws`, `Dies`, `DeliveryLapses`, `DispatchLapses`, `MonthEnds`, `PeriodBegins` |

- *Requests.* A request to Meta is accepted in one step and answered in another. Any
  failure of `fetch` is "not sent" for a DM (the adapter cannot know better) and
  "unknown" for a reply. An answer that is not ok is "not sent" for both
  (automation-providers.ts:299), also a 5xx that Meta sends after it has taken the
  request: `RecordNotSent` and `ReplyRefused` may come before or after the
  acceptance. The `idempotency-key` header is not part of Meta's API and
  is not relied on.
- *Claims.* Both kinds lapse after five minutes whether their holder works or not.
- *Sessions.* The unique index allows one active session; what the KV store says counts
  only if the row is active, so that it is left out.
- *Abstracted.* Which automation matches, the text and the condition of a step (any
  outcome), contacts, the record of the run: its INSERT (automation-engine.ts:270)
  lacks the closing parenthesis of VALUES, and its failure is caught and logged.

### Media

State: `media` (`row`, `deleted`, `keyed`), `media_imports`, the objects in R2
(`stored`), the posts that refer to a file (`referred`), the payer's count (`used`), the
jobs (`sweeps`, `reclaims`, `purges`, how far their executions have come, and how many
attempts of each have failed, `tried`) and the requests (`call`).

| Code | Actions |
|---|---|
| `createUploads`, the client's upload | `CreateUpload`, `Put` |
| `complete`, `reserveMediaStorage` | `Complete` (or `Begins`), `Heads`, `Reserves`, `Commits` |
| `importFromUrl` | `Import`, `Refused`, `Fetched`, `Puts`, `SetsKey`, `Begins` ... `Commits`, `Imported`; `ImportLapses` |
| `remove`; references of posts | `Remove`; `Refer`, `Release` |
| `SweepPendingMedia`, `ReclaimMedia`, `DeleteMediaObject` | `Sweep` or `SweepFails`; `Looks`, `Reclaims` or `ReclaimFails`; `Purge`, then `Recounts` or `RecountsLate`, or `PurgeFails` |
| failures and time | `Dies`, `Age`, `DayBreaks` |

- *Units.* Every file is one unit long; the other workspaces of the payer store up to
  one (`elsewhere`), so that `Limit` binds.
- *Row locks.* A completion holds the payer's row from its reservation to its commit.
  The recount of a deletion is one UPDATE with a sub-select: at READ COMMITTED it
  adds up what is committed when it starts, may then wait for the row, and writes the
  old total (`blocked`, `total`). PostgreSQL evaluates the WHERE anew after the wait,
  but not what the sub-select has found in other tables.
- *Time.* The hour for which an upload URL is valid and the six hours of the sweep are
  one age (`aged`). A sweep is asked for once a day, by its key (`today`).
- *Abstracted.* Sizes, types and names of files, the SSRF checks and the download of an
  import.
- *Attempts.* A job that fails `MaxAttempts` times (jobs.ts:59) is closed: `failJob` does
  nothing for jobs of these kinds and nobody runs them again (`Closed`), unless the job
  is asked for anew, which gives it all its attempts, as does an execution that succeeds
  and is to look again later. A restart is a failure that spends an attempt. An execution
  cut off after its last statement is repeated with nothing left to do, so that this
  failure is left out.

### AgentRuns

State: `agent_runs` (`status`), `trial_turns_remaining` (`turns`), the ledger by run
(`reserved`, `released`, `charged`, each with the day of its entry), the approvals, the
calls in progress (`submitting`, `stopping`, `telling`, `overdue`) and the runs that the
runtime has been given (`heard`).

| Code | Actions |
|---|---|
| `run`, `compensateRejectedSubmission` | `Claim`; `Accepted`, `Refused`, `AcceptedUnheard`; `Compensates`, `SubmissionDies` |
| `interrupt` | `Interrupt`, then `Interrupted` or `InterruptionFails` |
| `completeExternalResponse` | `Responds` |
| `resolveApproval` | `Expires`, `Decides`, then `TellingFails` or `Settles`, then `Counts`; `DecisionDies` |
| `runMaintenance` | `Finds`, `TimesOut`, `ReleasesOverdue`, `MaintenanceDies` |
| time | `DayBreaks` |

- *Steps.* A statement, or a transaction, is one step; calls to the runtime lie between
  two of them. The runtime is external: it answers a run it has been given any number
  of times, also after its end, with any cost and any approvals.
- *Money.* The unit is one reservation, more than which no run costs; an actual cost is
  one unit or nothing. The monthly budget is computed as the daily one and left out.
- *Time.* A run may exceed its time at any moment; a day may end between any two steps.

## 3. Runs

Together the passing runs fire every action of every module.

| Run | Question | Instance | States |
|---|---|---|---|
| `job_safety` | Do only committed intents act, once and in order, with no work left without an alarm? | a schedule, and a cancel-and-reschedule in one transaction; duplicates, roll-backs and restarts within `DurableJob_safety.cfg` | 1.5 M |
| `job_liveness` | Do storage, alarms and receipts implement `JobLedger`, liveness included? Does every committed intent take effect, is every receipt removed, every job finished? | the same program | 114 k |
| `publishing_pair` | Is the post's `published` true? Does every step keep the promise of `Publication`? | 2 targets, which a third may replace, one unguarded, 1 command, 1 failure, 1 attempt | 2.8 M |
| `publishing_single` | Is anything created twice, left without a job, or lost after it was recorded? Does what was asked for settle? | 1 resumable target, 3 commands, 2 failures, 2 attempts | 685 k |
| `cancellation_calls` | Does a request only take effect when its subscription has ended, whatever calls overlap? | 2 requests, 2 callers, 4 calls, 2 subscriptions one after the other, 3 events, 1 failure | 390 k |
| `cancellation_retention` | Is the deletion complete, carried out and announced, and stopped when the payer is back? | 2 requests, 1 caller, 3 calls, 2 subscriptions that may overlap, 3 events, 3 objects in batches of 2, 1 failure, 2 attempts | 469 k |
| `reviews_flow` | Is anything published that nobody approved, and can what is pending be approved? | 1 editor, 2 contents, 2 targets, 2 requests; no bound on the length of a history | 556 k |
| `automations_flow` | Is an event handled by one request and to the end, is a DM or a reply repeated, is the limit exceeded? | 1 comment and 1 tap, 3 DMs and a condition, 2 invocations, 2 sessions, 1 lapse, 1 failure, 1 reset | 2.13 M |
| `media_storage` | Does what can be used exist, is it counted, has the rest a job that removes it until that is closed? | 2 files, 2 requests, 1 import key, 2 commands, 2 failed executions, 2 attempts | 2.39 M |
| `agents` | Does the budget hold, is an ended run settled, is each decision made once, each response taken once? | 2 runs, one after the other, 2 approvals, 1 failure | 3.56 M |

The bounds. Three intents in two transactions are the least with two conflicting
transactions and two intents of one. One failure can fall between any two steps, two
can hit an attempt and its repetition; two attempts are the least with which a
repetition can succeed and be exhausted. `publishing_pair` needs one attempt only: its
properties are about transactions of two targets that overlap, and a repeated attempt
goes through the same places. That a target replaced under way is not created twice is
proved (section 5), for every number of targets. The type invariants of `DurableJob`,
`Publishing`, `Reviews`, `Media` and `AgentRuns`, `NeverLeftPublishing` and
`PublishedIsFinal` are theorems (section 5) and have no run of their own. Three
commands let a target be edited, republished and cut off from billing in one history.

For a cancellation, three events are the announcement that the subscription is
leaving, its end, and the payer's return, in any order of arrival; two callers are
the least that overlap, and four calls let one of them start, schedule and reactivate
a request beside another. Three objects in batches of two need two runs of the job.

For a review, two requests are the least that overlap and two contents the least that
differ; the histories of `Reviews` need no bound. For an automation, two invocations
are the one that handles an event and the one that handles its repetition or the next
event, one lapse gives the claim of the first to the second, and a limit of two is
reached by a DM of each event, so that a third is skipped; a second session is started by
the repetition of the comment or by the second DM with a button. Two files are the least for
an import that is taken over (each attempt has a file) and for a recount beside a
completion; with `Limit` 2 and one unit elsewhere the second is refused. Two commands
are an import and its repetition, two completions, or a completion and a deletion
(creations are bounded by the files alone, sweeps and purges need no command, and a
request may end anywhere without counting as a failure); two failed executions and two
attempts let a job fail, be repeated, and be closed. Two runs and
one place to run in let a run begin while the end of the one before is still being
written; two approvals are the least whose last decisions overlap. The proofs of
`Reviews`, `Media` and `AgentRuns` remove these bounds.

`CHECK_DEADLOCK FALSE` in all configurations: when every job has ended, or the budgets
are used up, the system is simply at rest.

### Fairness

`DurableJob`: an alarm that is set fires, awaited calls return, and due times come
(weak fairness of the handler and of time). Callers, deliveries and restarts are not
fair. Cloudflare promises to fire an alarm at least once and to repeat it while it
throws.

`Publishing`: weak fairness of each object's service, execution and provider calls
taken together (the requests have time limits, so they end; nothing says that they
succeed), and strong fairness of `Age`: an execution that finds its row taken is
repeated after 15 minutes for ever, so that `Age` is enabled again and again between
two executions, and by then the row has aged. Nothing is assumed of commands and
failures.

`Cancellation`: weak fairness of each retention job's execution and of the passing of
its date. Nothing is assumed of webhooks, calls, terms and failures, of which there
are fewer than attempts: a job that has used up its attempts is not run again by
anybody, and its request stays as it is.

`Reviews`, `Automations`, `Media` and `AgentRuns` state no fairness and have no liveness
properties. `NothingLeaks` says instead that a job which would do the work exists,
or has failed in each of its attempts.

## 4. Where code and documents disagree

TLC's shortest history of each; `PROJECT.json` has the quotations of those that are
runs. The others are properties of their module too, without a run: put one in place
of the properties of a configuration of its module to see it (for `Publishing`,
`Publishing_race.cfg` with a command and a failure more, and an unguarded target for
`IdempotentTargets`; for `Cancellation`, `Cancellation_calls.cfg` with five calls).

| Run or property | What happens |
|---|---|
| run `publishing_race` | Two targets settle at the same time. Each transaction reads the other target as `publishing`, both call the post `publishing`, and nothing corrects it. |
| run `cancellation_late` | A payer whose request is `effective` subscribes again, and a later event of the new subscription is applied before its `subscription.active`, which is then stale. Only that event would take the request back: the workspaces of a payer who pays are deleted. |
| `IdempotentTargets` | The provider creates the post and its answer is lost. On an unguarded platform (instagram/publish.ts:46) that is retryable, and the job creates the post again, although "Each social target has its own durable publishing state and idempotent provider key" (publishing-lifecycle.mdx:27). |
| `RetryIsAtomic` (`NoneIsStranded` excuses this) | The service stops after `retryTarget` has made the row `pending` (posts.ts:543) and before it has enqueued the job. The row can no longer be retried, although "All cross-row changes are atomic" (posts.ts:121). |
| `InterruptionIsProtected` (and this) | `updateTarget` takes the time from a target whose execution has read the row but not acquired it, and the object restarts. The row stays `publishing` with no job. |
| `FailedMeansNone` | The subscription ends while one of two targets is published: the post is `failed`, not `partially_failed`. |
| `RestorationIsMeant` | An event sent before a cancellation was scheduled arrives after it, is not stale, speaks of a subscription that goes on, and takes the request back although the subscription is leaving. |
| `ScheduledIsKept` | `start` (or `handleCalendar`) has read the request, it is scheduled, and the UPDATE by id makes it `open` again. When the subscription ends, nothing becomes effective. |
| `CreditedOnce` | `acceptOffer` credits the wallet, the request is abandoned before it is marked, and the offer is accepted again for the next request. |
| `NoticeIsTrue` | The payer returns just before the final transaction, which does nothing. The notice that the data is deleted is sent all the same. |
| `EffectiveHasEnded` | With two subscriptions, the end of one makes the scheduled cancellation of the other effective before its term is over (`Overlap = {2}`). |
| `UnreviewedIsNotPublished` (`Reviews`) | An approval has compared the fingerprint, the editor rewrites the post, and the approval puts up the new content; or the subscription ends, which makes the targets `failed`, and the editor retries one. "Approval revalidates live membership and post content, so stale review decisions can be rejected" (guides/reviews.mdx:49). |
| `RejectedIsNotScheduled` (`Reviews`) | A post that was approved is submitted again and rejected, or two decisions overlap: its jobs still wait, and publish. |
| `PublishedStays` (`Reviews`) | `publishNow` leaves the review pending. It is approved after the publication, and the post is `scheduled` for ever. |
| `AcceptedIsHandled` (`Automations`) | Meta repeats an event while it is being processed and gets a 200. The first invocation fails, and the event is lost. |
| `ProcessedIsFinal` (`Automations`) | An invocation works for more than five minutes, a second one takes the claim and completes it, and the first marks the delivery failed. |
| `ButtonIsHeard` (`Automations`) | The answer to the first button leads to a second DM with a button, whose session expires the first; `advance` by id then makes the first active again (automation-sessions.ts:167) and the unique index refuses. The event is repeated, completes the new session, and the tap on the second button finds none. The template promises 'an "I'm following" button that re-checks status' (automation-templates.ts:88). |
| `RepliedOnce` (`Automations`; `CommentIsAnsweredOnce` excuses this) | Meta makes the reply and answers with a 5xx. The adapter calls that "not_sent" (automation-providers.ts:299), the row is deleted (automation-engine.ts:234), Meta delivers the event again, and the comment is answered twice. For posts the repository calls such an answer ambiguous, "so automatic retries cannot duplicate a post whose response was lost after the provider accepted it" (connections/src/errors.ts:194). |
| `NothingIsLeft` (`Media`; `NothingLeaks` excuses this) | `r2.remove` fails `maxAttempts` times (jobs.ts:59). The job is closed, `failJob` (execute-job.ts:165) does nothing, and the object stays in R2 without a job; its row is deleted, and nobody looks at it again. |
| `ResponseIsTakenOnce` (`AgentRuns`) | A response with actions is taken and the run waits for approval. An interruption makes it `interrupting`; the response is delivered again, and taken again. "database claims make delivery idempotent" (apps/api/src/index.ts:113). |
| `EndedStays` (`AgentRuns`) | The second UPDATE of `interrupt` has no condition (agent-workspaces.ts:805) and calls a completed run interrupted. |

More behaviours are in the models but contradict no document: `updateTarget` without
a time makes a failed row `pending` without a job; and when a post is updated while
its targets are being published, a late `failBeforePublish` of a deleted row, which
locks nothing, can overwrite the status of the post with what it read before
(`PublishedMeansAll` therefore says nothing of a post once its targets were replaced);
`ReclaimMedia` asks for references and deletes in two statements (execute-job.ts:67)
and `PostService` never asks whether a medium exists, so that a post may refer to a
file that is gone; two completions of one file count it twice until the next recount;
an interrupted agent run keeps its reservation, and so does one that maintenance has
timed out before it stopped; a release counts for the day on which it is entered, so
that a budget grows over midnight; a submission that failed only in appearance
(agent-workspaces.ts:760) has given back its reservation, and what it costs is never
charged.

## 5. Proofs

Everything in this section holds for all constants allowed by the named assumptions
(`IntentsAssumption`, `BoundsAssumption`, `NoJobAssumption`; `TargetsAssumption`,
`LimitsAssumption`; `CancellationAssumption`; `AdminAssumption`;
`AutomationsAssumption`; `LimitsAssumption` of `AgentRuns`; `MediaAssumption`,
`NoKeyAssumption`), which only say what the constants are.

### DurableJobProofs

`IInv` strengthens the properties to an inductive invariant. Its part `Witnesses` is
the argument for at-most-once: an applied intent is kept from being applied again by
its marker, by its place in the clean-up list, or by the absence of its row, and
each step that takes one of these away is preceded by one that establishes another.
`HandlerKnows` says that what the suspended handler read is still true when it
writes; `Attempts` ties the stored attempts to the executions made. Theorems:
`TypeCorrect`, `CommittedOnly`, `AtMostOnce`, `AcknowledgementHolds`,
`WorkHasAnAlarm`, `BoundedAttempts`.

### JobLedgerProofs

`Ordered` adds the order of the calls to `IInv`. Its parts: what was acknowledged when
a call was made stays acknowledged or is rolled back by its transaction (`Called`); an
intent with a receipt that has not taken effect is stored ahead of every call made
after its acknowledgement (`InOrder`), so the head of the list, which alone is applied,
is never a call that overtakes an older one; the active job has been applied
(`ActiveApplied`); and when the handler is about to claim, only intents that arrived
since it settled are stored (`NothingNew`).

The refinement needs `IInv` only. Each step of the object is mapped to the one of the
ledger that it is, or to none: ends and roll-backs of transactions to `Decide`, the
application of a settled intent to `Take`, the beginning and the end of an execution
and giving up to `Run`; deliveries, replays, receipts, alarms and restarts outside an
execution change nothing the ledger sees. The delicate case is `Take`: the ledger
takes an intent at most once and never one that was dropped, which is what `Witnesses`
and the receipt say of an intent that the handler applies.

Theorems: `LatestDecides`, `NothingIsSuperseded`, `StepsAreTheLedgers`.

### PublishingProofs

`IInv` is a conjunction of properties of one target at a time, so that a step of one
target need only be examined for that target (`UntouchedInv` does the rest).

- `Credit` is why nothing is created twice. `Due(t)` counts the creations that the
  target could still make without a new command: one if its row is pending, one if
  an attempt is about to call, one if a retryable outcome is about to make the row
  pending again, or, once there is an upload session, one if the session has no
  upload. What was created plus what is due never exceeds what was requested. Each
  step either moves a unit (acquiring: from the row to the call; opening a session:
  from the call to the session; a retryable failure: from the call to the outcome to
  the row), spends it (`Create`) or drops it. A crash drops it, because a row left
  `publishing` without a session is never called again. This fails, as it must, for
  unguarded platforms, where a lost answer makes a unit out of nothing.
- `Closed` is why no job ends with its target `publishing` and no record is lost: it
  holds when the execution has a final outcome, and nothing that others do
  afterwards breaks it. It needs `Failing` (a failing job only finalizes what is on
  record) and `Unrecorded` (only targets with nothing on record are attempted).
- `Unpublished`: nobody publishes a row while an attempt works on it.
- `Together`, for posts whose targets are not replaced: a transaction that is going
  to call the post published has seen all rows published, and until it commits no
  other step can take one back, because `publishNow` waits for its row.

Two more invariants build on `IInv`.

- `Planned`, for each target of a post that is kept, is why nobody is stranded. A
  cancelled intent and a job that is gone were announced in `unasked`; and a pending row
  that no intent to run will take up is in `retrying` or `unasked`, or has a job that is
  not over and whose execution is not about to report a final outcome, which would end
  it. With `Closed` (a job does not end with its row `publishing`) it gives
  `NoneIsStranded`. That the job comes to its end is liveness, which TLC checks.
- `Made`: an answer under way, an upload and a record come from a creation; who is about
  to settle a publication has it on record; and no target is shown before the post has
  it. With `Credit`, which bounds the creations, it gives the step refinement of
  `Publication`: `Create` of something new is `Make`, `Persist` is `Record`, the `Roll` that
  makes a row `published` is `Show`, the commands that count in `requests` are `PutUp`, and
  every other step changes nothing that `Publication` sees. `Publication` has no
  fairness, so that the theorem is the whole refinement.

Theorems: `PublishingTypeCorrect`, `CreatedOncePerRequest`,
`JobsLeaveNothingPublishing`, `RecordsAreShown`, `PublishedIsKept`,
`PublishedIsTrue`, `NobodyIsStranded`, `PublishingImplements`.

### CancellationProofs

`TypeOK` is inductive by itself; it holds `MayBeActive`, the partial unique index, to
its word. `BaseInv` adds `Recorded` and `Storage` and holds for every payer.
`Recorded` is why a request that took effect has a job: an execution that has not
decided to run again has an intent waiting, because the webhook that made the request
effective came during it and enqueued one. `Storage` is why a deletion is complete: a
row is forgotten only when its object is gone, and rows never come back.

The other parts are proved for a payer with one subscription at a time
(`Overlap = {}`, an assumption of the two theorems; `EffectiveHasEnded` shows that it
is needed).

- `Succession`: the events of a live subscription come after all others.
- `Accounts`: therefore, once the account is about a live subscription, every event
  of another one is stale; and every request and every call that has read the account
  is about the live subscription or one that has ended. A `cancelled` event that is
  not stale therefore finds only requests whose subscription has ended.
- `Justified`: no call that read the request before it was scheduled is still open
  when its term ends, and none begins after, so that nobody makes it active again.
- `Lost`: the check before each removal reads `deleting`; a request that is taken back
  between the check and the removal is never deleting again.

Theorems: `CancellationTypeCorrect`, `CondemnedKeepsItsJob`, `DeletionIsComplete`,
`CondemnationIsDue`, `OneObjectIsLostAtMost`.

### ReviewsProofs

`IInv` adds three parts to the types and `UnreviewedIsExcused`.

- `Provided`: while a job waits, the content is granted or excused. It is why nothing
  else is published: a job is enqueued by an approval, by members who may publish, and
  by retries, each of which adds the content to `granted` or to `passed`; and a
  write of an editor, which replaces the content, cancels every job.
- `Read`: a request to approve has compared what it shows with what it read, and only
  what was submitted is decided.
- `Matching`, stronger than `ReviewMatchesContent`: the review keeps to the content
  whatever its status, since the upsert replaces the fingerprint.

Theorems: `ReviewsTypeCorrect`, `UnreviewedHasAnExcuse`, `WaitingWasPutUp`,
`ReviewKeepsToContent`.

### AutomationsProofs

`IInv` has `Linked`, what the place of an invocation says of its record (who calls has
an event and a DM, who answers a message has a session), and the parts behind the
three properties.

- `Sendings`, for each event and DM: what was delivered, plus the invocations that are
  about to call, plus one while the row is free to be claimed, never exceeds one plus
  the excuses. A reservation moves the unit from the row to the call; a take-over after
  five minutes makes a new one and an excuse; `RecordNotSent` gives it back to the row,
  and is an excuse if Meta had taken the DM. Every settlement of a claim that was taken
  over keeps the sum, whatever the other one does in between.
- `Replying`, for each comment: who replies holds the row, alone; and while Meta can
  still be asked, because somebody is about to or because the row is free, every reply
  made so far was misread. The row is deleted only by the one who holds it: before the
  reply was made, which leaves the count, or after it, which adds to `misread`.
- `Reservations`, `Limit`, `GivenIsKnown`: open reservations are in `dms_reserved` or
  were forgotten by a reset; what is counted and what is open stay within the limit;
  what Meta took is counted, open or lost. `Limit` is not preserved without
  `Reservations`, because `reserve` compares the stored numbers.

`HandledByOne` is about events and needs little of the above. `Claimless` (an idle
invocation has no event) makes it inductive: a claim that takes nothing over finds the
row `none` or `failed`, so that nobody has the event; the end of a request finds the row
`processing` and itself alone at work, so that it cannot write over a row that somebody
has completed; and a 200 other than that of a repetition comes with `processed`. Once a
claim was taken over nothing of this holds, which is `ProcessedIsFinal` in section 4.

Theorems: `TypeCorrect`, `RepeatsExcused`, `CommentOnce`, `SoftLimitKept`,
`OneHandles`, `ProcessedStays`.

### AgentRunsProofs

`IInv` has four parts about each run (`Ledger`, `Ending`, `Told`, `Deciding`) and three
sums (`TurnsAreHeld`, `FewAreActive`, `SpendIsBounded`).

- `SpendIsBounded`: the claim is the only step that opens a reservation, and checks the
  sum first. Every other step takes a run out of `Open`, moves it from `Open` to what
  was charged (a run that was charged has had its reservation), or enters a release on a
  later day, which `CarriedOver` counts. Midnight empties all three. `Ledger` says in
  which order the entries of a run are made.
- `TurnsAreHeld`: a run fails only by a transaction whose UPDATE still finds it
  `submitted`, and gives one turn back.
- `Deciding` and `Told`: of two decisions one UPDATE finds `pending`, so that one is
  told; and of two counts the later one finds nothing open.

- `Taken`, an invariant of its own over `IInv`: a run that has been charged and that nobody
  has asked to stop has ended or waits. A second delivery then finds a status that it
  does not take, and of the others that write a status (the compensation, maintenance,
  the last decision) each finds another one than the `Ended`. `Interrupted` is the only
  UPDATE without a condition, and its runs are in `cut`.

Theorems: `AgentRunsTypeCorrect`, `BudgetIsKept`, `EndingSettles`,
`DecisionsAreCounted`, `UncutRunsStayEnded`.

### MediaProofs

`IInv` joins the properties with what they need of the requests.

- `Calls` says what each request has: one that is about to reserve has seen its object,
  which disappears only after `deleted_at` is set. The completion does not clear
  `deleted_at`, so that what it makes live has its object (`LiveHasObject`).
- `StorageIsCounted`: a reservation adds to the count before its file becomes live, and
  holds the payer's row until it does; a recount meets no such request, or has waited
  for one and is `overtaken`.
- `Imports` and `Keyed`: two requests of one key create a file each, a file gets its key
  before it is completed, and of those that are not deleted one has it.
- `AbandonedHasSweep` and `DeletedHasJob`: a job leaves its set when it has done its
  work, or in `DueAgain`, which closes it; and whatever gives it new attempts either puts
  it back or has removed the object.
- `Attempts`: a job has failed no more often than there were failures, and a closed one
  waits for no execution. A job is therefore closed after `MaxAttempts` failures and no
  sooner; with fewer, nothing is left behind, without exception.

Theorems: `MediaTypeCorrect`, `StorageStaysCounted`, `LiveFilesHaveObjects`,
`ImportsAreSingle`, `NothingIsLeaked`, `NothingIsLeftBehind`.

### Only model-checked

Liveness, since fairness and ENABLED are out of the prover's reach: `CommittedTakesEffect`,
`ReceiptsAreReclaimed`, `JobsAreNotForgotten` and the fairness part of `ImplementsLedger`
(`DurableJob`); `RequestsSettle` and `ConfirmedSettles` (`Publishing`);
`CondemnedIsSettled` and `DeletionIsAnnounced` (`Cancellation`). Every other property of
the passing runs is a theorem.

## 6. Mutants

Modules contain operators commented `Fault:`. Each is a plausible bug (a dropped
guard, a wrong comparison, a missing case) in the definition that follows it. No
action uses them; put in place of that definition, they must violate the property that
`PROJECT.json` names.

## 7. Plan

Done: `DurableJob` with `JobLedger`, `Publishing`, `Cancellation`, `Reviews`,
`Automations`, `Media`, `AgentRuns`, each with proofs. Left, in order:

1. `QuotaReservations`: reserve, commit, release, expire with row locks and two
   clocks; abstract specification: a counter with atomic take and give-back;
   properties: conservation (counter = committed + pending), limit, idempotency,
   progress despite deadlock victims. To prove: conservation and the limit for
   every number of reservations.
2. `billing-transfer.ts` (a payer changes under the requests of `Cancellation`) and the
   lifecycle messages; `Messaging` over `JobLedger`.
3. The lease of the maintenance scheduler, with the abstract lease that webhook
   deliveries could share; property: who completes holds the claim.
4. A composition of PostService with `DurableJob` instead of its reduction; liveness of
   the sweeps of `Media` and of the retries of `Automations`.

## 8. Not modelled

The user interfaces, the transport layers (HTTP, MCP, CLI), the adapters' requests,
identity mirroring, analytics, and the schema's migrations: they are look-ups,
conversions or single-row updates, and by far the most of the repository's lines.
What section 7 leaves is not modelled yet: quota reservations, transfers, messages,
maintenance leases. Connections, transcriptions and channel conversations are candidates
after that. `PROJECT.json` gives the reason for each.
