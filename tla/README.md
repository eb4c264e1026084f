# Verification of the ClickUp AI orchestrator

TLA+ models of the service in `src/`: a Go process that polls ClickUp lists, sets tasks that
wait for the AI to a processing status, starts a GitHub Actions workflow for each, and tracks
the tasks until people or agents have moved them on. The models are checked with TLC on small
instances; the theorems are proved with TLAPS for all values of the constants.

## 1. Inventory

| Component | Source | State it keeps | Operations | Correct when |
|---|---|---|---|---|
| Orchestrator | `internal/orchestrator/orchestrator.go` | retry map, `done`, `dispatchWg` | `Run`, `recoverProcessingTasks`, `tick`, `reconcile`, `dispatch`, `scheduleRetry`, `handleRetry`, `shutdown`, `Status` | a task is dispatched once, tracked while it runs, retried when dispatch failed; shutdown ends |
| AgentState | `internal/orchestrator/state.go` | `claimed`, `runningTasks` | `Claim`, `MarkRunning`, `Release`, snapshots | every claim is owned by a dispatch or a running task |
| ConcurrencyLimiter | `internal/orchestrator/limiter.go` | `active` | `TryAcquire`, `Release` | never above the limit; slots are given back once and never lost |
| Status mapping | `internal/clickup/models.go` | none | classification of statuses, status per phase | the seven statuses are distinct and each has one role |
| Process | `cmd/server/main.go` | project, limiter and pinger slices, `WaitGroup`, HTTP server | `main`, `initProjects`, `validateStatuses` | exactly the valid projects run; the process ends cleanly |
| ClickUp client | `internal/clickup/client.go` | none | `GetTasks` (paged), `GetTask`, `UpdateTaskStatus`, `GetStatuses`, `Ping` | a complete list, an error for every call that failed |
| Dispatcher | `internal/github/dispatcher.go` | none | `TriggerWorkflow`, `Ping` | one run per successful call |
| PR checker | `internal/github/pr_checker.go` | none | `IsFeaturePRMerged`, `IsSpecPRMerged` | merged iff the PR of this round is |
| App authenticator | `internal/github/auth.go` | token, expiry | `SetAuth`, `refreshToken` | an unexpired token, refreshed in time |
| Health | `internal/health/handler.go` | none | fan-out of pings per request | every project and service reported |
| Status endpoint | `internal/status/handler.go` | none | snapshot per request | a project's figures belong together |
| Configuration | `internal/config/*.go` | none | `Load`, `LoadProjects`, validation, defaults | bad projects are skipped, good ones complete |
| Agent workflow | `.github/workflows/agent.yaml` | the run | reports success or failure as a status | the status of the task it was started for |
| Logging | `internal/logging/logger.go` | none | - | - |

**Interaction.** `main` builds one client, dispatcher, PR checker, limiter and orchestrator per
project and runs each orchestrator in a goroutine. An orchestrator's loop and the goroutines
of its retry timers share AgentState, the limiter and the retry map, each under its own
lock; they reach ClickUp and GitHub through calls that can fail, be late, or take
effect although they report an error. The board is also written by people and by the workflow
runs. `/status` and `/health` read from HTTP goroutines. The authenticator is shared by all.

**What is hard.** `dispatch` and `release` are sequences of critical sections and calls, run by
the loop and by the retry callbacks at the same time. What `GetTasks` and `GetTask` returned
is old when it is used. A cancelled context makes every call fail, also those that clean up.
`select` chooses among ready cases at random. Nothing is persisted, so a restart forgets
which tasks were tracked, while the workflow runs and the PRs go on. A token, a page of a
list, a search result and a status shown are each read at one moment and used at another.
`PROJECT.json` lists the hazards line by line, with the properties that cover each, or the
reason why none does.

## 2. Modules

| Module | Content | Built on |
|---|---|---|
| `StatusMapping` | statuses and phases, pure operators | |
| `Orchestrator` | the loop, the retry callbacks, AgentState, limiter, retry map, board | `StatusMapping` |
| `AdmissionControl` | abstract: admit at most `Limit` tasks, none after a graceful close | refined by `Orchestrator` |
| `Service` | one project with its workflow runs, PRs, people and crashes | `Orchestrator` |
| `Backoff` | the delays of retries, pure operators | |
| `AppAuthenticator` | token cache, refresh under the mutex, fallback, with a clock | |
| `PRChecker` | branch search and fallback to the body search | |
| `MergeCheck` | abstract: one atomic check of a PR | refined by `PRChecker` |
| `ListPaging` | `GetTasks` page by page while the list changes | |
| `Config` | environment, projects file, defaults, validation, skipping | `StatusMapping` |
| `Startup` | `initProjects`, launch loop, HTTP server, signals, final wait | |
| `HealthEndpoint` | requests for `/health` in the process of `Startup` | `Startup` |

`MCOrchestrator`, `MCService`, `MCConfig` and `MCHealth` give the constants values for TLC; the
other modules take theirs from the `.cfg`.
`OrchestratorProofs`, `ServiceProofs`, `AppAuthenticatorProofs`, `PRCheckerProofs`,
`ListPagingProofs`, `BackoffProofs`, `ConfigProofs` and `StartupProofs` hold the theorems.

What a module takes from another is checked there: `Orchestrator` takes `GetTasks` for one
consistent list (`ListPaging.ReturnsWhole` says when it is), PR checks for atomic
(`PRChecker.ChecksAtomically`), and the mapping for valid (`Config.LoadedMappingsWork`).
Duplicates in the answer of `GetTasks` do no harm, since `Claim` refuses a claimed task.

## 3. How the models correspond to the code

### Orchestrator

Atomicity: one step is one critical section (`AgentState.mu`, `ConcurrencyLimiter.mu`,
`retryMu`) or one API call; local code rides along with the step before it. `pc` says where a
goroutine is; `task`, `phase` and `attempt` are its locals of those names.

* **Goroutines.** `Main` is `Run`. Each member of `Callbacks` is one retry timer: `armed` while
  `time.AfterFunc` waits, then the goroutine running `handleRetry`. A callback that schedules its
  own successor ends there, so the same member stands for the successor.
* **Shared state.** `claimed`, `running`, `active` are the fields of AgentState and of the
  limiter. `retryTimers[t]` is the timer of the `retryEntry` of `t`; the entry's attempt number
  is that timer's `attempt`. `done` is `Orchestrator.done`. `dispatchWg` is the set
  `Dispatching` of goroutines between `Add` and `Done`.
* **Recovery and loop.** `RecoverFetch`, `RecoverTask`, `Recovered`; `TickStart`; `StartShutdown`
  and `FinishShutdown`. In `sleep` a ready ticker is always possible; with a cancelled
  context both cases of `select` are. `FinishShutdown` may time out at any time (`forced`).
* **reconcile.** `ReconcileFetch` (GetTask and the decision of `reconcileTask`), `CheckPR`,
  `Advance`, then `DropState` and `DropSlot`, the two critical sections of `release`. Running IDs
  are taken in any order, as from a Go map.
* **tick.** `Poll` is `GetTasks` plus the filter; `ScanSkip`, `ScanDispatch`, `ScanDone` walk
  through the answer, testing `hasRetryPending` when the entry's turn comes. ClickUp's order
  of the tasks is left open.
* **dispatch.** `Claim`, `Acquire`, `Unclaim` (full limiter: claim returned; `tick` breaks, a
  retry ends), `Update`, `Trigger`, `Revert`, `ReleaseState`, `ReleaseSlot`, `ScheduleRetry`,
  `MarkRunning`, for both callers; a callback first passes `EnterDispatch`, the test of `done`.
  For `Main` that test is inlined since only `Main` sets `done`.
* **Retries.** `ScheduleRetry` with `Stop` on the timer it replaces (which helps only while that
  timer is `armed`), `Fire`, `HandleRetry` (the locked part), `RetryFetch`, then `EnterDispatch`,
  `GiveUp` or `ScheduleRetry`.
* **Calls.** A call succeeds or fails. A write that fails may have taken effect, as when
  the answer times out. After cancellation all calls fail.
* **Board.** `BoardMove` is everybody else: `MCOrchestrator` lets agents report success or
  failure and people take tasks up, withdraw them, approve a spec, close a task.
* In `main` the limiter and the PR checker are never nil; `PRCheckerEnabled` still covers a nil
  checker. `dispatch`'s error path for a status without phase is unreachable since both
  callers test `IsTriggerStatus` first.

### AdmissionControl

`admitted` is refined by the tasks running, those reconcile still holds, and those of goroutines
holding a slot; `closed` by a shutdown reported as graceful. Tasks in hand count until the slot
is returned, which is what makes `Limit` a bound on the counter as well.

### Startup

`InitProject` is one iteration of `initProjects` with any verdict of `validateStatuses`;
`pi.limiters` and `pi.pingers` grow in the same statement group as `pi.orchs`, so that one sequence
stands for the three. `Launch` is one iteration of the loop over `cfg.Projects`, index into
`pi.orchs` included, and `Start` its `wg.Add` and `go`. `wg` is the counter of main's `WaitGroup`, which
`RunReturns` lowers as the deferred `wg.Done`; `Wait` is `wg.Wait` and tests that counter only.
`Select` takes either ready channel. The process
ends as `stopped` (return of `main`), `exited` (`os.Exit(1)`), `panicked` or `killed` (a signal
before `NotifyContext`).

### Service

Every step of `Orchestrator` appears joined with what it does outside: `RunsAfter` is the other end
of `TriggerWorkflow` (an accepted request starts a run, one reported as failed may have), `Verdict`
ties the answer of `CheckPR` to the PRs, unless that call failed. `runs[t][ph]` counts the
workflow runs that have not reported. `RunSucceeds` and `RunFails` are their reports, with or without
a PR on the branch; `RunVanishes` is the job's time limit, after which none of its steps reports. A run
that has reported success may yet fail, by a step that comes after the report (`agent.yaml:246`) or by
the report's own lost answer, and reports the error status as well: `failing` counts those runs,
`RunFailsLate` is their second report. `MergePR` merges and leaves later work to new PRs. `Restart` is
a crash at any point followed by a new process: memory goes (`New`), the board, runs and PRs stay.
`BoardMoves` is people only here.

`stranded` is history, for the properties: the tasks that one of the steps of `GivenUp` has left in a
processing status, until somebody handles them or they leave that status. `Stranding` adds it to every
step and restricts none.

### Backoff

`calcRetryDelay` and `addJitter` by their arithmetic in milliseconds, the factor in hundredths
(0.75 to 1.24; the real one is finer, and below 1.25). `Shifted` is `1 << exp` up to the capped
exponent. `Delays(n)` are the times for which `scheduleRetry` may set the timer of attempt `n`;
`Orchestrator` lets a timer fire at any time after it is armed.

### AppAuthenticator

`lock` is `mu`; `Lock` takes it and decides by `Fresh`, the test of line 120; `Renew` and
`RefreshFails` are the two ends of `refreshToken` with what `SetAuth` does then, `now` being
read again as in line 125. A caller stays `sending` (or `fallback`) until its own request is
over (`Answered`), at most `RequestTimeout` later. A token stands for its expiry time.

### PRChecker and MergeCheck

`BranchSearch` and `BodySearch` are the two calls with their early returns in
`mergedWithFallback`; `BranchHits` and `BodyHits` are the loops over the answers. GitHub is the PRs'
states, the search index that lags behind, and the visibility of the repository (404 from
one, an error from the other). Under the refinement mapping an error is `unsure`, and so is an
`open` that rests on a 404.

### ListPaging

`Fetch` is one iteration of the loop in `GetTasks`; `Page` and `LastPage` are what ClickUp
answers, with `marking` for the cases its API leaves open. `Join` and `Leave` change the list
between requests. `joined`, `left` and `stayed` are history of the call.

### Config

`loadGitHubAuth`, `OpenFile`, `LoadEntry` (one iteration of the loop in `loadProjects`) and
`Loaded`. The `resolve...` operators are the functions of those names; `Accepted` is the
conjunction of the checks of `buildProjectConfig`, in which an error is just a
rejection. `Normal` stands for `strings.ToLower(strings.TrimSpace(...))`.

### HealthEndpoint

A request is followed in the process of `Startup`: `Ask` starts the pings of the projects that
passed the check (`Watched` is `pi.pingers`, which grows with `pi.orchs`), `Collect` is one
iteration of the loop over the channel together with the goroutine's send, which the channel's
capacity keeps from blocking, and `Answer` the reply. The next `Ask` starts from fresh variables.
Requests share nothing, so one at a time is followed. `Serving` lets a handler go on during the
server's shutdown, and ends it with the process. `Shown` is the map keyed by `Name`.

## 4. Runs

Runs that pass:

| Run | Instance | Result |
|---|---|---|
| `safety` | 2 tasks, 2 timers, limit 1, 1 fault, any initial board | `TypeOK`, `NoClaimLeak`, `SlotsAccounted`, `CapRespected`, `GracefulDrain`, `RetryMapSound`, `AdmissionControlled` (427 000 states) |
| `liveness` | 1 task, 2 timers, limit 1, 2 faults | `ShutdownTerminates`, `TriggerServed`, `SlotsComeBack` (251 000) |
| `service` | 1 task, 1 timer, limit 1; 1 fault; a crash, a run without a report or a late failure; rework after a review | `ServiceTypeOK`, `RunsBounded`, `ProcessingIsReal`, `RunsTracked`, `MergeCloses`, `StuckTaskRecovers`, `CrashRecovers` (416 000) |
| `startup` | 3 projects, 2 of one repository; any of them skipped; requests for `/health` | `HealthTypeOK` (`TypeOK` included), `ValidProjectsRun`, `StopsAfterRuns`, `ProcessEnds`, `AnswerComplete`, `FailuresShown`, `RequestAnswered` (67 000) |
| `auth` | 3 callers, time up to a second refresh | `TypeOK`, `HandedValid`, `OutlivesRequest`, `RefreshesSpaced`, `CallReturns` (173 000) |
| `pr_checker` | 3 PRs: branch only, both, marker only; 2 troubles | `TypeOK`, `ChecksAtomically`, `MergeNoticed` |
| `list_paging` | 4 tasks, pages of 2, 2 changes per call | `TypeOK`, `ReturnsWhole`, `ChangesDoOneHarm`, `CallEnds` (259 000) |
| `config` | all environments, files of 0 to 3 entries, two renamed statuses | `TypeOK`, `LoadedMappingsWork`, `EntriesIndependent`, `LoadedIsUsable` (508 000) |

The runs of `MCOrchestrator` also evaluate `DelaysAsDocumented`: for twelve attempts the delays
follow the documented formula, stay near it under jitter, and grow.

**Runs that expect a violation.** Each checks one statement of the repository's documents or
comments against what the code does; `PROJECT.json` quotes the statement.

1. `slot_leak`: a retry fires and deletes its entry (`orchestrator.go:487`); before its `GetTask`
   answers, `tick` dispatches the task and sets the processing status; the retry sees that
   status, concludes that the task is no longer its business and releases the state (`:506`),
   but it is the new dispatch's. That dispatch's slot is never returned. The comment at `:505`
   assumes that no slot can be held then.
2. `double_dispatch`: the same release takes the claim from a dispatch in progress, which then
   marks the task running without a claim. `Claim` tests only `claimed`, so the task can be
   dispatched again while in `runningTasks`, which SPEC.md:359 excludes.
3. `old_callback`: the attempt number does not identify an entry. While a callback waits for
   `GetTask` its entry is gone and `tick` can start a second chain of retries for the task; when
   the two reach the same count, a callback that has fired consumes the other's entry
   (`:483`). The effect is a retry without its delay, not a lost one.
4. `skipped_project`: one skipped project makes `main.go:107` index past `pi.orchs`, and the
   process panics, although `main.go:128` promises to go on with the valid projects.

**Exceptions in the properties.** Some guarantees of the documents hold only up to events that the
code does not handle. The properties state these events, and are false without them:

* `RunsBounded`, one run per task: a failed call may cost one run and one pending retry more. A
  dispatch whose answer is lost has started a run, and is reverted and retried
  (`orchestrator.go:383-386`); `tick` may start another run while the retry waits. A bound of one
  run per failure on the runs alone holds as long as one call fails, and is violated with two
  failures, two timers and limit 2: a waiting retry may become a run, so it has to be counted. A
  crash costs one more run, as the recovery reverts a task whose run goes on (`:220`), and so does a
  run that fails after its success report: its error status may take back the status of a newer run.
* `SlotsAccounted`: a failed call can cost a slot for good (see `slot_leak`). The property bounds the
  loss by one slot for each failed call.
* `MergeCloses`: after a restart a task in review is in nobody's `runningTasks`, so its merge is not
  looked for (`:270`); after a failed call the task of a run may be untracked too, as when the lost
  answer was `TriggerWorkflow`'s, and comes into review that way. A late failure takes its task out of
  review while a newer run may bring it back untracked.
* `StuckTaskRecovers` and `ProcessingIsReal` hold whatever calls fail and wherever the process crashes,
  except for a task that one of these steps (`GivenUp`) has left in a processing status: an update that
  reports an error but took effect (`:374`: no revert, and the retry gives up), a revert that fails
  (`:386`), a recovery whose `GetTasks` fails (`:202`) or whose revert of this task does (`:220`), and a
  run that ends without a report (`:305`, `agent.yaml:37`). The exception is that task only, and only
  until it is handled again. A failed trigger with its revert, a failed poll, failed reads of
  reconcile and of retries, a crash anywhere and a late failure are not excepted.
* `CrashRecovers` holds for stranded tasks too: the next start takes each out of its processing
  status, unless its own recovery of that task fails.
* `TriggerServed` excepts a limiter all of whose slots are lost, and `SlotsComeBack` one slot for each
  failed call; both are `slot_leak`.
* `RunsTracked` is about what comes before the first failing call, crash or late failure.
* `FailuresShown`: two projects of one repository share an entry of `/health`, and the later result
  hides the earlier one (`handler.go:73`).
* `ReturnsWhole` and `ChangesDoOneHarm`: a task that leaves an early page of the list hides one of a
  later page, and one that joins repeats one (`client.go:132`).

**Bounds.** `Callbacks` = 2: two chains of retries for one task, or one for each of two tasks, are
the case in which callbacks meet each other and the loop; when both are taken the loop's
`ScheduleRetry` waits, which only leaves out behaviours with a third timer. `MaxFaults`
counts failing calls before cancellation; one is enough to create a retry and a second to create
the next attempt, and after cancellation every call fails at no cost. `MaxAttempt` = 2: a
timer with a higher attempt stays armed; attempts below it grow only with faults or after
cancellation. With limit 1 and two tasks the limiter is full in most states. One task is enough for
liveness: it is refused by a limiter that still counts slots of its own earlier dispatches, and
waits there until they come back. A task that waits behind the review of another waits on people, of
whom nothing is assumed. `Service` has one task because its properties are about one task each and
tasks meet only in the limiter, which `safety` covers. `MaxMishaps` = 1 is one crash, one run without
a report or one late failure; each combines with the failing call in every order. One timer with one
attempt is what one fault can create. `ReviewMoves` sends a task back to the agent from either
review, so that several rounds follow one another. `TokenLife`, `Margin` and the timeouts keep
the order of 1 h, 5 min and 30 s, and `MaxTime` is enough for a second refresh. Pages of 2 with
4 tasks give a full last page, a partial one and an empty one. Attempt 12 is past both caps, which
apply from attempt 6 on. In `Config` two renamed statuses suffice for a collision with each other
or with a default. Three projects of which two share a name show both what is shared and what is
not. The theorems need none of these bounds.

**Fairness.** Each goroutine that can run is scheduled (weak fairness of `Main`'s and of each
callback's steps) and timers expire. `select` picks at random, so it does not prefer the ticker
for ever: strong fairness of `StartShutdown`. Nothing is assumed of people, agents, runs,
crashes or signals. In `Startup`, `main` and `Shutdown` proceed and a cancelled `Run` returns,
which is `ShutdownTerminates`; in `HealthEndpoint`, pings answer or time out and the handler
collects what there is. In `AppAuthenticator` a refresh ends, by its timeout at the latest,
and Go's mutex starves nobody (strong fairness of `Lock`). In `PRChecker` reconcile asks again at
every tick, and a repository is not hidden for ever; the index need not catch up. In `ListPaging`
every request is answered or fails, which the HTTP timeout sees to.

`Terminated` lets the system stop when `Run` has returned and no callback is left, `TimeOver`
when the clock has reached its bound, `Returned` when loading is over; every other deadlock would
be reported.

## 5. Proofs

`OrchestratorProofs` proves, from the named assumptions on the constants alone:

* `TypeCorrect`: `TypeOK` is inductive by itself, since it states which locals each
  program point relies on (`LocalsOK`) and that `todo` is empty outside reconcile.
* `ClaimsOwned`: `NoClaimLeak` is inductive relative to `TypeOK`.
* `DrainIsGraceful`, `RetryEntriesLive`: conjuncts of `ShutdownInv`, which adds that `done` is set
  exactly while `Main` is shutting down or has shut down. It is needed because a callback that
  has fired is stopped only by its own test of `done`.
* `SlotsAlwaysAccounted`, from two counting arguments. Every action has one of five effects on the
  running tasks, the slot holders and the counter (`SlotEffects`), and each effect preserves
  `SlotsCovered`. A goroutine that is about to release the limiter still counts as a slot holder, so
  the decrement is matched by its leaving that set. The other bound is not inductive: a slot is lost
  when a retry gives up and takes a running task or a claim that is not its own, long after the call
  that failed. `DebtInv` therefore also counts the claims and the goroutines that may come to give
  up (`Owing`): a failed call adds one to the debt a process may have, and giving up pays with it.
* `PromisesWhileCallsSucceed`: the three statements of the documents that `slot_leak`,
  `double_dispatch` and `old_callback` refute (`NoSlotLeak`, `DispatchesOnlyIdle`,
  `OldCallbackIgnored`) hold up to the first call that fails before a stop. In `FaultFree` no
  callback gets as far as dispatch: timers are set only by calls that fail because the process is
  being stopped, and then all fail. A task has one timer at most, because `Main` comes across it
  once (`OneEntry`). So a failing call is the only thing that brings these defects about.
* `CapAlwaysRespected`: the counter stays within the limit and, by `SlotsCovered`, covers the tasks.
* `ImplementsAdmissionControl`: the refinement; every step admits, withdraws, closes or stutters,
  with the room an admission needs derived from the counter.

`ServiceProofs` reuses the step lemmas of `OrchestratorProofs`: a step of the service is a step of
the orchestrator, a report of a run (which changes the board only), or a crash, which re-establishes
everything. Hence `ServiceTypeCorrect`, and `GuaranteesSurvive` and `PromisesSurvive`: the
orchestrator's invariants hold across crashes, runs that misreport and failures, however many, and
the promises across crashes and such runs as long as no call fails.

The other three theorems assume `Calm`, that people leave tasks in progress alone, as those of the
run `service` do (TLC evaluates it there); a person who moves such a task back has it worked on
twice.

* `RunsStayTracked` is about the behaviours up to the first failing call before a stop, the first
  crash and the first late failure (`Undisturbed`), and about no others. There the invariant is
  `CalmInv`: only `Main` dispatches, what `tick` has listed still waits on the board, and the tasks
  with a run are those shown as processing which `Main` has handed over. Once disturbed, a behaviour
  stays disturbed (`FaultsStay`, `CountsStay`), which is why the conditional is inductive.
* `NoTaskForgotten` holds with any number of failing calls, crashes, stops and misreporting runs.
  `ProcessingIsReal` is inductive relative to `ServiceTypeOK`: every step that brings a task into a
  processing status has somebody handle it, and every step after which nobody does has started a run,
  taken the status back, or is one that `GivenUp` names (`KeptOrGivenUp`). Each restart puts the tasks
  in a processing status back into the list of the recovery, wherever the crash came.
* `NoDoubleExecution` holds with any number of failures, crashes and late failures. The runs of a
  task are no inductive bound, as a goroutine may be about to start one. `CoverInv` counts, beside
  the live runs, the ways in which another can come about without a further failure (`Chances`): a
  dispatch at its trigger, a retry, a revert under way, and the board showing the task, or `Main`
  having seen it, as one to dispatch. No step but a failed call, a crash or a late failure adds more
  than it takes away; a failed call adds at most two, the others one.

`AppAuthenticatorProofs`: `AuthTypeCorrect`, `TokensValid`, `MarginCoversRequest` and
`NoNeedlessRefresh` for any number of callers and any times with `Margin > RequestTimeout` and
`TokenLife > InstallTimeout + RequestTimeout`; the invariants bound how long ago each caller began
what it does and relate the cached token to the moment it arrived.

`PRCheckerProofs`: `PRTypeCorrect`, and `ImplementsMergeCheck`, the refinement, whose invariant
keeps what a completed branch search has established while the world goes on.

`ListPagingProofs`: `PagingTypeCorrect`; `AnswerIsWhole`, by the invariant that an undisturbed `got`
is the prefix of the list before the next page; `JoiningIsSafe` and `LeavingIsSafe`, by invariants on
where in the list each task can be that is not, or is already, in `got`; together, `OneHarmOnly`.

`BackoffProofs`: `DelaysNearFormula` and `DelaysGrow` for every attempt, by cases on the capped
exponent. `ConfigProofs`: `ConfigTypeCorrect` (required texts there, intervals above zero, no
negative limit), `MappingsWork` and `UsableConfig` for every file and environment, and
`EntriesStandAlone`, by induction over the steps of the loop: each accepted entry that was passed is
at its place, the number of accepted ones up to it (`EntriesPlaced`). `StartupProofs`:
`StartupTypeCorrect`, `ProjectsStarted` and `StopIsClean` for any number of projects; the
strengthening `Progress` relates the loop index to the goroutines started, and `Counted` says that
the `WaitGroup` counts exactly the orchestrators that run; hence `wg.Wait` returns only when none
does, although projects end while others are being started. For the health endpoint,
`HealthTypeCorrect`, `AnswersAreComplete` and `FailuresAreShown` for any number of projects and any
names: `Accounted` says that the results received and the pings under way add up to two per project,
and that the keys shown are those of the pings collected; hence a count of two per project means
that nothing is under way. A request leaves the process's variables alone (`HealthStep`), so all
that is proved of `Startup` holds with it.

Only model-checked: every liveness property (fairness is beyond the proof system's reach),
and `FollowsFormula` (its reference has a power, defined by recursion over the attempts). Every
invariant of the passing runs is a theorem. The properties of the runs that expect a violation
are not, but `PromisesWhileCallsSucceed` says under which condition three of them hold.

## 6. Not modelled

* `/status` (`internal/status/handler.go`): a read of the running tasks, the retries and the counter,
  each under its own lock. It changes nothing and nothing depends on it. The comment at
  `orchestrator.go:117` calls the first two a snapshot, but they may be of two moments, and a task that
  a retry starts in between is shown in neither.
* Two projects that name the same ClickUp list: nothing in `initProjects` (`main.go:135`) or in the
  configuration keeps them from it, and two orchestrators then dispatch the same tasks from
  separate states. `Orchestrator` is about one project.
* The poll interval: a value above about 9.2e12 ms passes its check and overflows when `main.go:146`
  multiplies it. Polls happen at any time in `Orchestrator`.
* What a document leaves open: who should win when a person changes a task between the poll and the
  update, and whether a merged PR of an earlier round should close a task that was sent back
  (`pr_checker.go:131`; in the models it may, as in the code).
* Differences that need no model to be seen: SPEC.md:277-279 makes the start fail where the code skips
  the project; a run that failed is dispatched again by the next tick without the back-off of
  SPEC.md:326-328; the delays of docs/flow.md:87 are those before the jitter.
* How long callers of the authenticator wait: they queue on its mutex behind the refreshes of
  others, also when the cached token is still good (`auth.go:114-117`) and also those with a deadline of
  5 s, as the pings of `/health`. `CallReturns` says that each returns.
* The branch search of the PR checker asks for one page of PRs; the model takes it for all.
* Orphans of a restart: a callback of the old process is gone with it, but a request it had sent
  may still arrive; in `Service` it takes effect before the crash or not at all.
* The PAT authenticator (no state), signing of the JWT, parsing of the PEM key.
* The end of the process after `Run` has returned, in `Orchestrator`: callbacks may go on there,
  while the real ones may be cut short.
* The rate of the calls, and times other than those of `AppAuthenticator` and `Backoff`.
* What an agent does in a run; CI and release workflows.
* Logging, formats, URLs and JSON.
