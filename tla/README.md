# AuraSpear platform: formal models

This directory holds TLA+ models of the concurrent core of the AuraSpear API, the TLC
configurations that check them on small instances and TLAPS proofs of their theorems. Each
definition is translated from the source file that `PROJECT.json` names under `map`; paths below
are relative to `src/apps/api/src` unless they begin with `src/`.

* [System](#the-system): components, state, interactions, what makes them correct
* [Modules](#the-modules): which module models which code, and how
* [Runs](#the-runs): what TLC checks, on which instance, and why it is enough
* [Proofs](#the-proofs): what holds for every value of the constants
* [Divergences](#where-code-and-documents-differ): documents the code does not keep
* [Not modelled](#not-modelled) and [Plan](#plan)

To repeat a check, in this directory: `tlc -workers 2 -config jobs_timely.cfg MCJobProcessor.tla`,
`tlapm JobProcessor_proofs.tla`.

## The system

AuraSpear is a multi-tenant security operations platform: a NestJS API (`src/apps/api`), a Next.js
client (`src/apps/web`), PostgreSQL through Prisma and Redis. The API is built to run as several
instances. They share the database and Redis and nothing else, every handler may stop at each
`await`, and no transaction raises the isolation level over READ COMMITTED. Its hard behaviours
come from there.

| Component | State | Operations | Talks to |
|---|---|---|---|
| Job processor (`modules/jobs/job-processor.service.ts`) | `activeJobs`, `redisConnected`, `shuttingDown` of an instance; keys `job:lock:<id>` | poll, lock, dispatch, run a handler, recover stale rows, shut down | job service, handlers, Redis |
| Job service (`jobs.service.ts`, `jobs.repository.ts`) | table `jobs` | enqueue, mark running, completed, failed, cancel, cancel all, retry, recover | everyone that enqueues |
| Job scheduler (`job-scheduler.service.ts`) | none but its interval | enqueue due work with idempotency keys | job service |
| Job handlers (`jobs/handlers/*`, `ai-agent-task.handler.ts`) | the rows they write (alerts, runs, reports, sessions) | `handle` | called by the processor, at least once |
| Authentication (`modules/auth`) | `RefreshTokenFamily`, `RefreshTokenRotation`, `UserSession`; keys `token:blacklist:*` | login, refresh, logout, guard | Redis, users control |
| Forced logout (`modules/users-control`) | the same rows | force logout of a user, a session, everyone | authentication tables and blacklist |
| Agent orchestrator (`modules/ai/orchestrator`) | none of its own | gate a task, enqueue its job | agent config, usage budget, job service |
| Agent schedules (`modules/ai/orchestrator/schedule`, `agent-scheduler.service.ts`) | table `AiAgentSchedule` | heartbeat every 30 s; toggle, pause, update, reset, bulk toggle | orchestrator |
| Agent configuration (`modules/agent-config`) | `TenantAgentConfig`: switch, limits and tokens used | read, update, toggle, reset, charge | AI service, orchestrator |
| AI agents, reports (`modules/ai-agents`, `modules/reports`) | `AiAgentSession`, `Report` | run or create, delete, record the outcome | jobs |
| AI service (`modules/ai`), usage budget (`modules/ai/usage-budget`) | the usage ledger, `AiFeatureConfig` | check, call the provider, charge | agent config, external models |
| AI write-back (`modules/ai/writeback`) | findings and their links | promote a finding to a case or an incident | cases, incidents |
| Case cycles (`modules/case-cycles`) | cycles with dates and a status | create, update, activate, close, delete | cases |
| Cases, incidents, detection rules, attack paths | numbered rows | create, delete; status changes | advisory locks of PostgreSQL |
| Connector sync (`modules/connector-sync`) | one flag per instance | periodic and manual sync | external systems |
| The remaining record modules | one row per record | create, read, update, delete | none of the above |

How they interact: producers insert rows into `jobs`; every instance polls that table and runs the
handler of the job's type, at least once; handlers write other tables. The guard of every request reads
the session row that login, refresh and logout write from other requests and other instances. The
heartbeat and other triggers of the system reach the job table through the orchestrator, which asks the
agent's quota and the feature's budget first; a user's run of an agent enqueues its job without. The AI
service asks both, and charges them after the provider has answered. Redis is an aid to jobs and
sessions: a lock before a run, a blacklist before a guard. It can be lost for good, because
`redis.module.ts` gives up reconnecting.

What is hard, and what must be right:

* **Jobs.** A poll reads rows, awaits locks, then acts on what it read. Locks have a fixed life
  that is not extended. Recovery goes by the age of the row alone. A run that failed, was recovered,
  crashed or was retried counts its attempts from a snapshot. Correct means: one runner for a job;
  nobody takes the row of a run that is alive; no job is given up before its runs failed as often as
  they may since it was created or retried; the slot counter equals the runs it counts; every job settles.
* **Sessions.** Refreshes with one token race, answers get lost, logouts come from elsewhere, Redis
  may be down, an expired family is marked after the answer. Correct means: one refreshable token
  per family; family, rotations and session tell one story; a client that presents each token once
  is never treated as a replay; after an answered logout nobody gets in, if it found the session; an
  ended family stays ended.
* **Tasks.** The record a user looks at and the job that fills it are two rows that nothing ties
  together, and a request may set the status of a report whatever its job does. Correct means: a completed
  job has its result, a record left running has a named cause, a task is counted once, and a record ends.
* **Quota and budget.** Checked before the provider is called, charged after it answered. Correct
  means: the overrun is bounded by what is under way, and everything charged is in the ledger.
* **Schedules.** Heartbeats of all instances act on rows that operators change meanwhile. Correct
  means: what is due is served, what is disabled stops, and an active schedule has a next run.
* **Cycles.** Rules over several rows (no two overlap, one is active) are checked on rows that were
  read earlier. Correct means: only requests that overtake each other break them.
* **Numbers.** The next number is the latest one in the order of text plus one. Correct means: a
  number drawn under the lock is free, and numbers rise, as long as text order is their order.

## The modules

| Module | Contents | Small instances | Theorems |
|---|---|---|---|
| `JobProcessor` | the `jobs` table, the Redis locks and the processor of every instance | `MCJobProcessor` | `JobProcessor_proofs` |
| `JobContract` | what the job subsystem promises to producers and handlers: the abstract specification | by the two modules that use it | `JobContract_proofs` |
| `Tasks` | the jobs of AI tasks and reports with their records; uses `JobContract` for the job | `MCTasks` | `Tasks_proofs` |
| `AiQuota` | quota of an agent and budget of a feature around calls and dispatched tasks | `MCAiQuota` | `AiQuota_proofs` |
| `AgentSchedule` | heartbeats and operators on the schedules of agents | `MCAgentSchedule` | `AgentSchedule_proofs` |
| `CaseCycles` | requests on the cycles of a tenant | `MCCaseCycles` | `CaseCycles_proofs` |
| `RecordNumbers` | creates, promotions and deletions on tables with a number | `MCRecordNumbers` | `RecordNumbers_proofs` |
| `AuthSession` | one login: its token family, rotations, session, blacklist keys and requests | `MCAuthSession` | `AuthSession_proofs` |

How they fit together: `JobProcessor` implements `JobContract`, and `Tasks` is built on the actions
of `JobContract` (`Contract!Start`, `Contract!Finish`, ...), so its handlers meet every order of runs,
crashes and recoveries that the processor may show them, and no detail of polls and locks. `AiQuota`
and `AgentSchedule` end where a job is enqueued, which is where the contract begins.

A step is always the code between two awaits: one SQL statement or transaction, one Redis command,
one call of a provider. Operators under a comment that begins with "Mutant" are plausible mistakes in
the definition that follows them. No specification uses them; each makes one property fail.
Variables and constants that a module's header calls history or bound decide nothing.

### JobProcessor

The synchronous dispatch loop is one step, too. Since `pollAndProcess` is not serialised (the interval
fires again while an earlier poll waits), a poll is a pair of an instance and one of its `Slots`.
`phase` says what a poll does with a job it read.

| Code | Model |
|---|---|
| columns `status`, `attempts`, `scheduledAt`, `startedAt` | `status`, `attempts`, `delay`, `age` |
| key `job:lock:<id>` and its EX | `lock`, the ticks it has left |
| the `Job` objects a poll holds | `snap`, their attempts, and `phase` "read" |
| `activeJobs`, `shuttingDown`, `redisConnected` | `active`, `closing`, `linked` |
| the guards of `pollAndProcess`, `findPendingJobs` | `PollAndProcess`, `FindBackgroundJobs`, `PollError` |
| `acquireLock` (SET EX NX) | `AcquireLock`, `LockRefused` |
| `dispatchLockedJobs` | `DispatchLockedJobs` |
| `processJob` | `MarkRunning`, `MarkCompleted`, `MarkFailed`, `MarkUnrecoverableFailure`, `Finally`, `ReleaseLock` |
| a rejected failure write inside `processJob` | `AbandonRun` |
| `recoverStaleJobs` | `RecoverStaleJobs` |
| `onModuleDestroy`, the process's end and a new start | `BeginShutdown`, `Restart` |
| the Redis `close` event with `retryStrategy` null | `LoseRedis` |

Time is relative and saturates: `lock` and `delay` count down, `age` counts up to the stale window.
So no clock needs a bound. Abstractions:

* Handlers return, throw or hang; their effects on other tables are not modelled.
* `jobs` are numbered in the order of `createdAt`. Which of several locked jobs are dispatched when
  not all of them fit is left open. Polls that find no row change nothing and are left out.
* `updateStatus` writes and reads the row back; if the second part fails the model takes the whole
  call as failed without effect.
* `failures`, `outdated` and `misled` are history. `failures` counts the runs of a job that failed since
  it was created or last retried: the handler threw, or a write of the row was refused (`Fault`), which the
  code handles alike. `outdated` are the runs that read the row before the last retry, `misled` the jobs
  whose attempts such a run has written since. No guard reads them.
* `main.ts` installs no handler for unhandled rejections, so a rejected dispatch promise ends the
  process (`AbandonRun`). It enables no shutdown hooks either; `BeginShutdown` covers an embedding
  that does, and `Restart` the plain end of a process.
* `enqueue` with an idempotency key returns the row that has it or creates one; the unique
  constraint settles a race within one statement, so a job of the model stands for one key.
* `ClientRow` is what a client can tell of a status. It maps `status` to the `row` of `JobContract`,
  whose `handler` is the set of runs in phase "running".

### JobContract

Two variables: the row of each job as clients see it, and the handlers that run for it. A handler
starts on a job that has none, on any row but an absent one: this is as far as the promise of "at least
once" goes, because a poll acts on the row as it read it. While the handler runs, only its own outcome,
or its loss with the instance, changes anything, and nothing else completes a job. Operators cancel what
waits and retry what was given up. `OneHandler` and `OutcomeIsOfTheHandler` say what this promises.

### Tasks

| Code | Model |
|---|---|
| `runAgent`, `createReport` (record, then job); the orchestrator's job alone | `CreateRecord`, `EnqueueTask` |
| `deleteAgent`, `deleteReport`; `updateReport` with a status | `Delete`; `UpdateReport` |
| `cancelJob`, `retryJob` | `CancelJob`, `RetryJob` |
| `markRunning` and the start of a handler; the same after a stale poll | `StartHandler`; `StartAgain` |
| `AiAgentTaskHandler.handle`, the report handler: look up, work, save | `Prepare`, `Work`, `SaveResult`, `SaveFailure` |
| the read after the write of `updateReportById`; the write-back of a system task, which swallows its errors | `AfterSave` |
| `markCompleted`, `handleJobError`; a rejected `markRunning` | `HandlerReturns`, `HandlerFails`; `Refuse` |
| the end of the process; `recoverStaleJobs` | `Crash`; `Recover` |

`record[j]` has one entry for each session or report of the task: entry 1 for tasks of users and for
reports, one per run for tasks of the system, which create a session in every run. `mishaps` remembers
per job what went wrong, so that properties can say what a bad outcome needs. A report's status may be
set by a request to any value at any time; `edited`, history too, remembers that it was since a handler
last wrote it. `updateReportById` is a write and a read, and either may fail: the handler then takes the
report as not saved although it is. Abstractions: answers, prompts and templates; `stopAgent` and edits of
an agent or of other fields of a report, which no handler looks at.

### AiQuota

| Code | Model |
|---|---|
| `getConfig`, `getAgentConfig` with `checkAgentQuota`, `checkBudget` in `executeAiTask` | `ReadFeature`, `ReadAgent`, `CheckBudget` |
| the connector, its answer or the fallback | `NoConnector`, `Answer` |
| `recordUsage`, then `incrementUsage`, either of which may fail | `RecordUsage`, `IncrementUsage` |
| `dispatchAgentTask`; `runAgentTask` of its job | `CheckDispatch`, `EnqueueTask`; `RunAgentTask` |
| `toggleAgent`, `updateAgentConfig`, `resetUsage`, the feature's update | the actions of the same names |
| the month that `getMonthlyTokenCount` asks for; the clock | `NewMonth`; `NewHour` |

One agent and its feature. Costs, models and connectors are left out; an answer is its number of
tokens. `peak` and `peakBudget` are the greatest limits there were, so that a lowered limit is not
taken for an overrun. No action turns the agent's counters back with time, as no code does.

### AgentSchedule

| Code | Model |
|---|---|
| `processDueSchedules` and the query `findDueSchedules` with its order and limit | `ProcessDueSchedules`, `Due`, `FirstBatch` |
| `dispatchSchedule`: `markRunStarted`, `dispatchAgentTask`, `markRunCompleted` | `MarkRunStarted`, `DispatchAgentTask` |
| `findAndVerifyAccess` of a request, and its later write | `FindAndVerifyAccess`; `ToggleEnabled`, `TogglePaused`, `UpdateSchedule`, `ResetToDefault` |
| `bulkToggle` (one `updateMany`); the end of a process | `BulkToggle`; `Crash` |

`nextRunAt` is null, future or past; `earlier` keeps the order of the past ones, which is all the query
uses. It is a weak order (`InOrder`): crons have the grain of a minute, so schedules become past
together (`BecomePast` of a set) and none of these is before another. The query has no tie-breaker, so
`FirstBatch` may cut off anywhere among equal ones. A computed next run is in the future when it is
written. A heartbeat is one of `Beats`, whichever instance it belongs to. `lastStatus`, streaks and
reasons report and decide nothing. `runNow` writes no schedule.

### CaseCycles

| Code | Model |
|---|---|
| `createCycle`, `updateCycle`: `checkDateOverlap`, then the write | `BeginCreate`, `BeginUpdate`, `CheckDateOverlap`, `CreateCycle`, `UpdateCycle` |
| `closeCycle`, `deleteCycle`: guard on the row read, then the write | `BeginClose`, `CloseCycle`, `BeginDelete`, `DeleteCycle` |
| `activateCycle` and the two updates of `activateCycleTransaction` | `BeginActivate`, `SeeActive`, `CloseOthers`, `ActivateCycle` |

The first update of the transaction is two steps, the snapshot it reads and the rows it then holds
(`MayWrite` makes the others wait for them), as READ COMMITTED has it. Days are midnights, "now" is
within a day, a missing end is after all days. `stale` and `overlap` of a request are history.

### RecordNumbers

| Code | Model |
|---|---|
| `pg_advisory_xact_lock` of a create, and the end of its transaction | `AcquireAdvisoryLock`, `Release` |
| the latest number in text order, and `buildNextSequenceNumber` | `After`, `Latest`, `NextNumber`, `DraftNumber` |
| the insert and its unique index; deletion of incidents, rules and paths | `InsertCreated`, `Fail`; `Delete` |
| `promote`: check, number without lock, insert, link, status | `CheckProposed`, `DraftNumber`, `InsertPromoted`, `LinkFinding`, `ApplyFinding` |

A number is its value and the width of its text, which grows beyond the padding when the value does
(`Text`, `Digits`). One year; `Tables`, `Pad`, `Promotable` and `Erasable` are constants, since the four
tables differ only in these. `Base` is the radix: 10 in the code, 2 where a run is to reach the end of a
padding with few rows, as the comparison of texts is the same in any radix. `loose` (rows that were
promoted) and `uneven` (tables that have had numbers of two lengths) are history.

### AuthSession

One login, because families of different logins share no row. A step is a transaction, a statement
or a Redis command. A token pair is named by its generation. `req` holds what each request does next
(`at`), the refresh and access tokens it works on and the effects of a revocation that are not done.

| Code | Model |
|---|---|
| `issueSession` | `CreateTokenFamily`, `CreateTokenRotation`, `CreateSessionRecord`, `LoginFails` |
| `verifyRefreshToken`, and the blacklist check | `StartRefresh` |
| `assertRefreshRotationCurrent` | `AssertRefreshRotationCurrent` |
| `assertFamilyNotExpired`, `expireRefreshTokenFamily` | `AssertFamilyNotExpired`, `ExpireRefreshTokenFamily` |
| `handleRefreshReplay`, `revokeRefreshTokenFamily` | `HandleRefreshReplay`, `RevokeRefreshTokenFamily` |
| `rotateRefreshTokenFamily` | `RotateRefreshTokenFamily` |
| `finalizeRefreshRotation` and the answer | `FinalizeRefreshRotation` |
| `AuthGuard`: `verifyAccessToken`, `touchSessionActivity` | `VerifyAccessToken`, `TouchSessionActivity` |
| `performLogout` | `PerformLogout`, then `Revoke` for each effect in any order |
| `forceLogoutUser`, `terminateSession`, `forceLogoutAll` | `ForceLogout`, then `Revoke` |
| a handler's return, a rejected call, a crash | `EndRequest` |
| JWT expiry; loss of Redis | `TokenExpires`; `RedisFails` |

Abstractions:

* A database transaction is one step. The code runs at READ COMMITTED; rotation, revocation and
  expiry all begin with a conditional update of the family row, whose lock puts them in an order.
* `late` holds the refresh tokens past their expiry. Verification tolerates 30 seconds, so a late
  token can still be presented, while its blacklist key has gone with the expiry itself. Access
  tokens do not expire in the model: that only lets more requests in.
* `expireRefreshTokenFamily` is called with `void`: it is a later step of a request whose client has
  its answer.
* A forced logout that finds no active session answers with success at once, as `forceLogoutUser` and
  `forceLogoutAll` do (`terminateSession` answers 404). `answered` tells such an answer before the session
  row was there ("missed") from one that found the session: a login between its family row and its session
  row outlives the first, and `LogoutEndsTheFamily` says that nothing else does.
* A failed call has no effect: a transaction that commits and whose acknowledgement is lost is left out.
* A client may lose the answer to a refresh (`delivered` does not grow) or use any token it was ever
  given. A request may stop after any step.
* Roles, tenants, passwords and `endImpersonation` are left out.

## The runs

| Run | Instance | Shows |
|---|---|---|
| `jobs_timely` | 2 instances, 2 jobs, 1 fault, 1 operator retry; lock 2 ticks, stale window 3 | `OneRunnerPerJob`, `LiveRunKeepsItsRow`, `GivesUpOnlyAfterMaxAttempts`, types |
| `jobs_pool` | 1 instance with 3 overlapping polls, 2 jobs, one of them without handler; 1 lost Redis connection, 1 retry | `CapacityRespected`, `AttemptsWithinBudget`, `RunningRowHasRunner` |
| `jobs_live` | 2 instances, 1 job, 2 faults, 1 retry, fairness | `RunningEnds`, `EveryJobSettles`, `SlotsComeBack`; `KeepsContract`: the refinement of `JobContract` |
| `jobs_overrun` (violation) | handlers may outlive the lock | a second runner appears |
| `auth_session` | 2 requests, generations 0 and 1, Redis may fail | `OneCurrentRotation`, `SessionEndsWithFamily`, `ReplayNeedsTwoPresentations`, `LogoutEndsTheFamily`, `NoAdmissionAfterLogout`, `EndedFamilyStaysEnded`, types |
| `schedules` | 2 schedules, also with one next run, batch of 1, 2 heartbeats, 2 overlapping requests, 1 crash, fairness | `OnlyStaleWritesStrand`, `DueIsServed`, `DisabledStops`, types |
| `numbers` | 2 transactions on cases (6 rows, 3 digits, promotions), rules (2 rows, 4 digits, deletions) and incidents (2 rows, 4 digits, promotions with 3), radix 2, 2 new numbers for each, 1 finding | `RefusedOnlyIfUneven`, `AppliedIsLinked`, `NumbersRise`, types |
| `incident_numbers` (violation) | 1 request at a time on incidents | a promotion makes later creates draw a taken number (`DraftIsFree`) |
| `cycles` | 2 cycles, 2 requests, 2 days | `OverlapNeedsAStaleCheck`, `SecondActiveNeedsAnOverlap`, `ActiveDeletedOnlyIfStale`, types |
| `tasks` | 1 task of any kind, 2 attempts, 1 retry, 2 faults, fairness | `CompletedJobHasResult`, `NoSilentOrphan`, `CountedOnce`, `SystemResultIsFinal`, `RecordEnds`, types |
| `quota` | 2 requests, 1 dispatched task, 1 period; limits 0 to 2, budget none or 1; 1 write of an administrator, 1 failed charge | `OverrunIsInFlight`, `BudgetOverrunIsInFlight`, `LedgerCovers`, types |
| `quota_hour` (violation) | 1 request | the hourly quota does not come back with the hour |

**Bounds.** Two actors are enough for most races in this code: a conflict is between one holder of stale
data and one writer. `jobs_pool` has three polls: one whose job runs, and two that still hold free slots
computed before it was dispatched. `MaxAttempts` 2 gives a first failure, which is retried, and a last
one; `Concurrency` 1 is a pool at its limit, and two jobs compete for it. `LockTtl` 2 below
`StaleWindow` 3 has a state for a live lock, an expired lock with a row that is not stale, and a stale
row; only the order of the two matters. `MaxFaults`, `MaxDrops`, `MaxRetries`, `MaxCrashes` and
`MaxRequests` cap crashes, failed calls, lost connections and requests of operators. In `auth_session`
no step compares more than two generations, so `MaxGen` 1 meets every case; `presented` counts up to 2,
as its property tells no more apart. In `schedules` a batch of 1 below 2 schedules leaves one out of
each query. In `numbers` the radix is 2, so cases go from 6 over 7 (111), the last number of their
padding, to 8 (1000), which sorts before it; a promoted incident is a digit shorter than the others.
Incidents can be deleted in the code, but in this run only rules are, which keeps `NumbersRise` a claim
about incidents before the first one is promoted; the theorems are about any `Erasable`. With radix 10
the text order of mixed paddings shows in `incident_numbers` within 6 numbers. In `cycles` two cycles
and two days have each relation of two ranges and of a range to today. The jobs of `tasks` are
independent but for the bounds, so one is enough; 2 faults make a repeated run fail again. In `quota` an
answer of 2 tokens goes over every limit, and the periods are checked and charged alike, so one stands
for the three; the theorems cover any number of requests.

**Assumptions of runs.** With `HandlersMeetTtl` time stands still when a key is about to expire under
its holder: it is the assumption the code makes about its handlers, and `jobs_overrun` is the same
system without it. `PromptCalls` lets time pass only while handlers run; it is set in the run that
looks for a counterexample, so that it needs a slow handler and nothing slower.

**Deadlock** is checked in the job runs, where time can always pass. It is not checked in the others,
where the bounds let the system stop: a login that failed halfway does nothing more, the requests of
operators are used up, the last day is reached, every number is issued, every task has settled, every
token is spent.

**Fairness.** Requests, operators, crashes and failed calls are never forced.

* `JobProcessor`: each poll, each step of a run, the recovery and time. The two `setInterval` timers
  keep firing, awaits end, clocks go on. A handler either returns or throws, except those in `Hanging`.
  A process that began to shut down ends and is started again. With a lost connection an instance polls
  no more, so the live run has `MaxDrops` 0.
* `AgentSchedule`: the heartbeat (a cron of every instance) and the steps of its dispatches, since awaits
  end; nothing else is needed. Starvation by other schedules is not excluded by fairness: `DueIsServed`
  depends on the order of the query.
* `Tasks`: `StartHandler`, `Recover` and the steps of a handler. That waiting jobs are started and stale
  ones recovered is what `EveryJobSettles` and `RunningEnds` show of the processor.

## The proofs

Each module is proved about for any number of its actors, rows and steps; the bounds of the runs are
only naturals there. Every invariant and every action property of the passing runs is proved, and so
are both uses of `JobContract`; of the properties that the runs check, liveness alone is left to TLC.

**JobProcessor_proofs**

* `TypeCorrect`: `TypeOK`.
* `MutualExclusion` and `RowsStayWithTheirRun`: if `HandlersMeetTtl`, then `OneRunnerPerJob` and
  `LiveRunKeepsItsRow`. Neither is inductive. `LockInvariant` adds that whoever may still use a lock
  finds its key alive (`HoldersHaveKey`), that a key has one such holder (`OneHolder`; "holder" includes
  the run that is done but has not sent its unowned DEL), and that the row of a live run is younger than
  the time its key has used up (`LiveRunIsYoung`). The last part is why `LockTtl <= StaleWindow` is
  assumed: no row of a live run can be stale.
* `AttemptsAreSpentByFailures`: `GivesUpOnlyAfterMaxAttempts`, without that assumption.
  `BudgetInvariant` says that the attempts of a row are covered by the failures since its last retry,
  unless an outdated run has written them (`misled`), and those of a snapshot unless its run is outdated.
  A retry sets both sides to 0 and makes the snapshots there are outdated, which is why the invariant
  needs `outdated`. So the theorem holds with overlapping runners, crashes and recoveries too.
* `CapacityIsKept`: `CapacityRespected`, for any number of overlapping polls. `CapacityInvariant` counts
  the runs of an instance; the dispatch loop is bounded by the slots that are free when it runs.
* `RunningRowsAreRun` and `AttemptsAreBounded`: `RunningRowHasRunner` and `AttemptsWithinBudget`, with
  `MaxFaults = 0`, as their run has it (the second with `HandlersMeetTtl` too). A crash leaves a row
  without runner by design. `RunnerInvariant` and `AttemptsInvariant` tell what each phase of a run
  knows of its row, `BetweenQueries` what a poll has read between its two queries.

**JobContract_proofs**

* `ContractKept`: under `HandlersMeetTtl` every step of `JobProcessor` is one of `JobContract` under the
  mapping of `Contract`, or changes nothing of it. It rests on `LockInvariance`: a handler starts on a job
  that no other runner has, and recovery finds no handler alive.
* `ContractPromises`: the contract implies `OneHandler` and `OutcomeIsOfTheHandler`. They follow from the
  contract alone, so they hold of whatever keeps it.

**AuthSession_proofs**

* `TypeCorrect`: `TypeOK`. The strengthening `TInv` says that a rotated generation has a successor.
* `TablesAgree`: `OneCurrentRotation`. `SessionsFollowFamilies`: `SessionEndsWithFamily`.
  `LogoutIsFinal`: `LogoutEndsTheFamily`. `LoggedOutIsOut`: the action property
  `NoAdmissionAfterLogout`. `EndedIsFinal`: the action property `EndedFamilyStaysEnded`. All from
  `SessionInvariant`: nothing is in anybody's hands before login wrote its last row (`LoginInOrder`), the
  three tables agree (`RowsAgree`), tokens that exist have rows (`TokensHaveRows`), and a revocation that
  no longer has its family effect to do has ended the family (`RevocationEnds`). The last part is about
  logouts that found the session; one that missed it is a reason to claim nothing of this login.
* `NoFalseReplay`: `ReplayNeedsTwoPresentations`. `PresentationsCounted` accounts for presentations:
  one for each generation that was rotated away and one for each request that works on a token. So a
  request that finds the family beyond its token was the second one with it.

**Tasks_proofs**

* `CompletedHasResult`, `OrphansHaveACause`, `TasksAreCountedOnce` and the action property of
  `SystemSessionEndsOnce`, all from `TasksInvariant`. `TaskInvariant` is about one task at a time: when a
  handler is at work (`AtWork`), which records there are (`InPlace`), what each step of a handler tells of
  its record (`Written`), what leaves one running (`NotOrphaned`), when it has been counted (`Counted`).
  A request that sets the status of a report disturbs the middle two, so both are about records that are
  not `edited`, and the end of a handler makes a record such again.
* `TypeCorrect`: `TypeOK`. That a job starts no more handlers than there are records for them does not
  come for free: `StartsInvariant` says what pays for a start, an attempt of the row, a retry of an
  operator, or a fault. A handler at work has an attempt that is not spent (`Paid`); a row without
  attempts that will run again owes one start to the fault that overtook its outcome (`Owed`).
* `TasksUseTheContract`: every step is one of `JobContract`. With `ContractKept`, the tasks meet the same
  contract from above that the processor keeps below.

**AiQuota_proofs**

* `TypeCorrect`, `QuotaOverrun` and `BudgetOverrun`. `QuotaInvariant` adds that the limits of the day are
  within their peaks (`WithinPeaks`) to the two bounds. Each request reserves `MaxTokens` from the check
  on; the reservation gives way to the charge, which is no greater.
* `LedgerIsComplete`: `LedgerCovers`. It is about sums over requests; `Total` counts them as the tokens of
  a set, one by one, so that no recursion over the requests is needed. `LedgerInvariant` has the two
  accounts: what was entered covers what was charged, and what the ledger misses is owed to tasks, to
  writes that failed, or to answers not yet entered.

**AgentSchedule_proofs**

* `TypeCorrect`, and `StrandingIsStale` for `OnlyStaleWritesStrand`, which needs the types alone: it is a
  claim about each single write.
* The safety side of `DueIsServed`, with equal next runs. `InOrder` says that `earlier` stays a weak order
  of the past schedules, through every write. From it: `WaitingKeepsItsPlace`, that only an update, which
  writes back a next run it had read, gets before a schedule that waits; `QueryHasAResult`, that the query
  of a heartbeat always has a result (`EveryPrefix`: a finite order has a first part of each size) and that
  two results differ in equal schedules only; `LongestWaitingIsServed`, that a schedule is in the result,
  however equal ones are cut off, as soon as fewer than a batch are before or equal to it.

**CaseCycles_proofs**: `TypeCorrect`, `OverlapsAreStale`, `SecondActiveIsARace`, `ActiveIsDeletedStale`.
`CycleInvariant` says of each request what it may be (`WellFormed`), that what it read still holds
unless it is stale (`Fresh`), and that a transaction without overlap is the only one and closes all that
is active (`Alone`).

**RecordNumbers_proofs**

* `PromotionsInOrder`: `AppliedIsLinked`, from `LinkInvariant`.
* `TypeCorrect`, `LockKeepsDraftsFree` and `NumbersInOrder`: `TypeOK`, `RefusedOnlyIfUneven` and
  `NumbersRise`. `NumberInvariant` says that a create holds the lock of its table (`Locked`), and of a table
  that has not had two lengths (`uneven`), that a draft comes after all rows but those promoted meanwhile
  (`CreatesAhead`), and that without deletions a draft follows a row that is there and is taken by now or
  comes after all (`DraftsInLine`). The last part is why two transactions without a common lock still
  insert in order: of two drafts one is inserted and the other refused. Among numbers of one length the
  order of texts is the order of the numbers (`LatestIsGreatest`).
* They assume nothing about paddings or how many numbers there are. That a table has had two lengths is
  the only thing they leave open, and it cannot be dropped: promotions pad incidents differently
  (`incident_numbers`), and case 1000 of a year sorts before case 999.

The assumptions are those on the constants: finite `Jobs` of naturals, positive `Concurrency`,
`MaxAttempts` and `LockTtl`, `LockTtl <= StaleWindow`; finite `Schedules`, `Cycles` and `Calls`; natural
limits and bounds.

**Only model-checked**: the liveness properties (`RunningEnds`, `EveryJobSettles`, `SlotsComeBack`,
`DueIsServed`, `DisabledStops`, `RecordEnds`), since the prover treats neither ENABLED nor fairness.

## Where code and documents differ

`run` names the run that shows it; the others were seen while translating, and the properties they
concern say what is left to hold.

| Document | Code | Run |
|---|---|---|
| `src/skills/backend/add-background-job.md:308`: the lock "guarantees one runner per job across instances" | the key has a fixed life, and recovery goes by the age of the row | `jobs_overrun` |
| `src/apps/api/src/common/utils/sequence-number.utility.ts:14-17`: given the most recent number, the next one is returned | a promoted incident is padded to 3 digits and stays the last in text order: every create after the first draws the same number and is refused | `incident_numbers` |
| the same lines | the latest case is found in the order of text, with 3 digits: after case 999 of a year comes 1000, which sorts before it, and every later create draws 1000 again (at 10000 for the other tables) | |
| `src/apps/api/docs/AI-AUTOMATION.md:324`: hourly, daily and monthly token limits | the counters are only incremented; nothing looks at `lastResetHour` | `quota_hour` |
| `src/docs/architecture/JOBS.md:155-166`: COMPLETED, FAILED and CANCELLED are terminal | `markRunning` does not look at the status | |
| `JOBS.md:208-209`: `retryJob` resets to `attempts=0` | `markFailed` writes the count of the row as its poll read it, before the retry as well (`GivesUpOnlyAfterMaxAttempts` names the case) | |
| `JOBS.md:305-307`: recovery prevents that a hung handler consumes a slot | recovery resets the row, not `activeJobs` | |
| `JOBS.md:297-299`: losing Redis "only pauses dispatch until Redis returns" | the client never reconnects (`retryStrategy: () => null`) | |
| `JOBS.md:88`: jobs without a handler stay PENDING forever | they become FAILED, as lines 132-133 say | |
| `src/docs/architecture/AUTH.md:155-156`: the check "lazily expires stale families" | it goes by the token that was presented; an old one expires a valid family | |
| `src/docs/SECURITY.md:64`: reuse is detected by family keys in Redis | nothing calls those functions; families are in the database | |
| `src/docs/OPERATIONS.md:453-457`: run state of schedules avoids duplicate work across instances | `markRunStarted` is unconditional and the job's key random: two heartbeats enqueue two jobs | |
| `src/apps/web/src/i18n/en.json:571`: ranges of cycles must not overlap | `closeCycle` writes an end date without the check | |
| `en.json:611`: activating a cycle deactivates the active one | not when two activations overlap (`SecondActiveNeedsAnOverlap`) | |
| `src/docs/ai/AI_GOVERNANCE.md:116-117`: usage is recorded on every real model call | `runAgentTask` neither checks nor records (`LedgerCovers` leaves those tokens out) | |
| `src/docs/ai/AI_APPROVAL_POLICY.md:113-115`: an approval record precedes execution | the job is enqueued first, and no mode or risk ever asks for an approval | |
| `add-background-job.md:225-226`: handlers do not swallow errors | the failed write of a system task's result is logged and the job is COMPLETED (`NoSilentOrphan` names the fault) | |
| `add-background-job.md:449`: handlers are re-run-safe | totals are added again when a saved task runs again (`CountedOnce` names the faults) | |

## Not modelled

* The job scheduler: it enqueues active rules once per window, with a key that names the window. The
  unique constraint decides within one statement what two instances do.
* The other job handlers: detection, correlation and normalisation runs are given an empty list of
  events, connector syncs call external systems, and no producer enqueues playbooks and hunts.
* Approvals: no code path creates one. Chat, memory, prompts and tools: calls of external models around
  writes of single rows.
* Connector synchronisation: one flag of an instance around a loop of external calls and upserts.
* The status machines of cases, incidents and alerts: one read and one write of one row, with nothing
  later that depends on the order in which two requests ended up.
* The record modules, notifications, dashboards, search, roles and tenants: independent rows, reads,
  or messages sent at most once. They have no protocol between actors.
* The web application, shared packages, seeds, DTOs, and rules that are pure functions of their input.

These are by far most of the repository's lines, so the map covers a small share of them: the models
cover the code in which several actors, crashes or retries meet. `PROJECT.json` lists every component
with its reason, and every hazard with the property that watches it or a note that says why none does.

## Plan

What is left, in order:

1. Larger instances of `tasks` and `quota` (two tasks that share the bounds, two periods), which do not
   finish in a few minutes today.
2. When the code changes: dispatched tasks that are charged belong into the bound of `OverrunIsInFlight`;
   approvals that are created, into a module between `AiQuota` and `JobContract`; a conditional
   `markRunStarted`, into a property of `AgentSchedule` that a due schedule is dispatched once.
