---------------------------- MODULE Orchestrator ----------------------------
(***************************************************************************)
(* One project's Orchestrator (internal/orchestrator): the polling loop,   *)
(* the retry timers' callbacks and the state they share.                   *)
(*                                                                         *)
(* Goroutines.  Main runs Run: recovery, then ticks (reconcile, poll,      *)
(* dispatch) until the context is cancelled, then shutdown.  Every retry   *)
(* timer is one member of Callbacks: "armed" while time.AfterFunc waits,   *)
(* then the goroutine that runs handleRetry.  Both run dispatch.           *)
(*                                                                         *)
(* Atomicity.  A step is one critical section (AgentState.mu,              *)
(* ConcurrencyLimiter.mu, retryMu) or one API call; a goroutine's local    *)
(* code rides along with the step before it.  What an API call returned    *)
(* may be stale by the time the next step uses it.                         *)
(*                                                                         *)
(* The board is ClickUp's: people and agent runs move tasks along          *)
(* BoardMoves at any time.                                                 *)
(***************************************************************************)
EXTENDS StatusMapping, Integers

CONSTANTS
  Tasks,              \* the tasks of the project's ClickUp list
  Main,               \* the goroutine that runs Run
  Callbacks,          \* bound: retry timers alive at once, waiting or running
  NoTask, NoTimer,
  MaxConcurrentTasks, \* limiter.maxConcurrent, 0 = unlimited
  PRCheckerEnabled,   \* prChecker # nil
  BoardMoves,         \* pairs <<from, to>>: status changes made by others
  InitialStatuses,    \* statuses a task can have when the process starts
  MaxFaults,          \* bound: API calls that fail before the context is cancelled
  MaxAttempt          \* bound: a timer with a higher attempt does not fire

Process == {Main} \cup Callbacks

ASSUME OrchestratorAssumption ==
  /\ IsFiniteSet(Tasks) /\ NoTask \notin Tasks
  /\ IsFiniteSet(Callbacks) /\ Main \notin Callbacks /\ NoTimer \notin Callbacks
  /\ MaxConcurrentTasks \in Nat
  /\ PRCheckerEnabled \in BOOLEAN
  /\ BoardMoves \subseteq Statuses \X Statuses
  /\ InitialStatuses \subseteq Statuses
  /\ MaxFaults \in Nat /\ MaxAttempt \in Nat

VARIABLES
  board,       \* task -> its status in ClickUp
  claimed,     \* AgentState.claimed
  running,     \* keys of AgentState.runningTasks
  active,      \* ConcurrencyLimiter.active
  retryTimers, \* task -> the timer of its retryEntry, or NoTimer
  done,        \* Orchestrator.done
  cancelled,   \* the context passed to Run is cancelled (SIGINT, SIGTERM)
  pc,          \* goroutine -> the step it takes next
  task, phase, attempt, \* goroutine -> its locals of these names
  todo,        \* reconcile: running IDs it has not finished with
  list,        \* recovery and tick: entries of GetTasks still to be looked at
  faults       \* API calls that failed so far, see MaxFaults

sharedVars == <<claimed, running, active, retryTimers, done>>
localVars == <<pc, task, phase, attempt>>
loopVars == <<todo, list>>
callVars == <<board, faults>>
vars == <<board, claimed, running, active, retryTimers, done, cancelled,
          pc, task, phase, attempt, todo, list, faults>>

-----------------------------------------------------------------------------
(* Program points *)

MainPCs == {"boot", "recover", "sleep", "reconcile", "check_pr", "advance",
            "drop_state", "drop_slot", "scan",
            "draining", "drained", "forced"}

CallbackPCs == {"idle", "armed", "fired", "fetch", "reschedule", "enter", "give_up"}

ReconcilePCs == {"reconcile", "check_pr", "advance", "drop_state", "drop_slot"}

\* Between dispatchWg.Add and dispatchWg.Done.
DispatchPCs == {"claim", "acquire", "unclaim", "update", "trigger", "revert",
                "release_state", "release_slot", "schedule", "mark"}

\* Inside dispatch, having claimed the task and not yet given the claim up or
\* left it to the running task.
ClaimPCs == {"acquire", "unclaim", "update", "trigger", "revert", "release_state", "mark"}

\* Inside dispatch, having acquired a slot and not yet released it or left it to
\* the running task; inside release, having a slot to give back.
SlotPCs == {"update", "trigger", "revert", "release_state", "release_slot", "mark", "drop_slot"}

Dispatching == {p \in Process : pc[p] \in DispatchPCs}
Claimants   == {p \in Process : pc[p] \in ClaimPCs}
SlotHolders == {p \in Process : pc[p] \in SlotPCs}

Entries == [task : Tasks, phase : Phases]

\* A goroutine has a task in hand exactly at the steps that use it.
LocalsOK(p) ==
  /\ pc[p] \in DispatchPCs \cup (CallbackPCs \ {"idle"}) =>
       task[p] \in Tasks /\ phase[p] \in Phases /\ attempt[p] > 0
  /\ pc[p] \in {"check_pr", "advance", "drop_state"} => task[p] \in todo
  /\ pc[p] = "drop_slot" => task[p] \in Tasks

TypeOK ==
  /\ board \in [Tasks -> Statuses]
  /\ claimed \subseteq Tasks /\ running \subseteq Tasks
  /\ active \in Nat
  /\ retryTimers \in [Tasks -> Callbacks \cup {NoTimer}]
  /\ done \in BOOLEAN /\ cancelled \in BOOLEAN
  /\ pc \in [Process -> MainPCs \cup CallbackPCs \cup DispatchPCs]
  /\ pc[Main] \notin CallbackPCs
  /\ \A h \in Callbacks : pc[h] \notin MainPCs
  /\ task \in [Process -> Tasks \cup {NoTask}]
  /\ phase \in [Process -> Phases \cup {NoPhase}]
  /\ attempt \in [Process -> Nat]
  /\ \A p \in Process : LocalsOK(p)
  /\ todo \subseteq Tasks
  /\ todo # {} => pc[Main] \in ReconcilePCs
  /\ list \subseteq Entries
  /\ faults \in 0 .. MaxFaults

Init ==
  /\ board \in [Tasks -> InitialStatuses]
  /\ claimed = {} /\ running = {} /\ active = 0
  /\ retryTimers = [t \in Tasks |-> NoTimer]
  /\ done = FALSE /\ cancelled = FALSE
  /\ pc = [p \in Process |-> IF p = Main THEN "boot" ELSE "idle"]
  /\ task = [p \in Process |-> NoTask]
  /\ phase = [p \in Process |-> NoPhase]
  /\ attempt = [p \in Process |-> 0]
  /\ todo = {} /\ list = {}
  /\ faults = 0

-----------------------------------------------------------------------------
(* Calls to ClickUp and GitHub.  Once the context is cancelled every call    *)
(* fails.  A failed write may have taken effect: the error can be a timeout  *)
(* of the answer.                                                            *)

CallSucceeds == ~cancelled /\ UNCHANGED faults

CallFails ==
  \/ cancelled /\ UNCHANGED faults
  \/ ~cancelled /\ faults < MaxFaults /\ faults' = faults + 1

Written(t, status) == [board EXCEPT ![t] = status]

WriteSucceeds(t, status) == CallSucceeds /\ board' = Written(t, status)

WriteFails(t, status) == CallFails /\ board' \in {board, Written(t, status)}

\* The entries of GetTasks that pass the caller's test, with the phase
\* PhaseFromStatus gives them.  dispatch's error path for a status without a
\* phase is dead code: both callers test IsTriggerStatus first.
Fetched(wanted) == {[task |-> t, phase |-> PhaseFromStatus(board[t])] : t \in wanted}

WaitingTasks == {t \in Tasks : IsTriggerStatus(board[t])}

\* Mutant: recovery forgets the CODE phase.
ProcessingTasks_SpecOnly == {t \in Tasks : board[t] = sm.GeneratingSpec}

ProcessingTasks == {t \in Tasks : IsProcessingStatus(board[t])}

-----------------------------------------------------------------------------
(* Helpers on the shared state and on a goroutine's locals *)

Goto(p, label) == pc' = [pc EXCEPT ![p] = label]

Jump(p, label) == Goto(p, label) /\ UNCHANGED <<task, phase, attempt>>

\* p has nothing in hand any more: a callback ends, Main goes on at label.
Return(p, label) ==
  /\ Goto(p, IF p = Main THEN label ELSE "idle")
  /\ task' = [task EXCEPT ![p] = NoTask]
  /\ phase' = [phase EXCEPT ![p] = NoPhase]
  /\ attempt' = [attempt EXCEPT ![p] = 0]

StateRelease(t) == claimed' = claimed \ {t} /\ running' = running \ {t}

LimiterRelease == active' = IF active > 0 THEN active - 1 ELSE active

\* Mutant: one too many.
LimiterFull_OffByOne == MaxConcurrentTasks > 0 /\ active > MaxConcurrentTasks

LimiterFull == MaxConcurrentTasks > 0 /\ active >= MaxConcurrentTasks

\* Start of tick: RunningTaskIDs, then reconcile.
BeginTick == todo' = running /\ Jump(Main, "reconcile")

\* Reconcile has decided about t and goes to the next running ID.
Reconciled(t) == todo' = todo \ {t} /\ Return(Main, "reconcile")

-----------------------------------------------------------------------------
(* Main: recovery and the loop of Run *)

RecoverFetch ==
  /\ pc[Main] = "boot"
  /\ \/ CallSucceeds /\ list' = Fetched(ProcessingTasks) /\ Jump(Main, "recover") /\ UNCHANGED todo
     \/ CallFails /\ BeginTick /\ UNCHANGED list
  /\ UNCHANGED <<sharedVars, board, cancelled>>

RecoverTask(e) ==
  /\ pc[Main] = "recover" /\ e \in list
  /\ \/ WriteSucceeds(e.task, ErrorStatusFor(e.phase))
     \/ WriteFails(e.task, ErrorStatusFor(e.phase))
  /\ list' = list \ {e}
  /\ UNCHANGED <<sharedVars, cancelled, localVars, todo>>

Recovered ==
  /\ pc[Main] = "recover" /\ list = {}
  /\ BeginTick
  /\ UNCHANGED <<sharedVars, callVars, cancelled, list>>

\* The ticker's channel is ready.  When the context is cancelled as well,
\* select picks either case.
TickStart ==
  /\ pc[Main] = "sleep"
  /\ BeginTick
  /\ UNCHANGED <<sharedVars, callVars, cancelled, list>>

StartShutdown ==
  /\ pc[Main] = "sleep" /\ cancelled
  /\ done' = TRUE
  /\ retryTimers' = [t \in Tasks |-> NoTimer]
  /\ LET stopped == {h \in Callbacks : pc[h] = "armed" /\ \E t \in Tasks : retryTimers[t] = h}
     IN /\ pc' = [p \in Process |-> IF p = Main THEN "draining"
                                    ELSE IF p \in stopped THEN "idle" ELSE pc[p]]
        /\ task' = [p \in Process |-> IF p \in stopped THEN NoTask ELSE task[p]]
        /\ phase' = [p \in Process |-> IF p \in stopped THEN NoPhase ELSE phase[p]]
        /\ attempt' = [p \in Process |-> IF p \in stopped THEN 0 ELSE attempt[p]]
  /\ UNCHANGED <<callVars, claimed, running, active, cancelled, loopVars>>

\* dispatchWg.Wait returned, or shutdownTimeout expired first.
FinishShutdown ==
  /\ pc[Main] = "draining"
  /\ \/ Dispatching = {} /\ Jump(Main, "drained")
     \/ Jump(Main, "forced")
  /\ UNCHANGED <<sharedVars, callVars, cancelled, loopVars>>

-----------------------------------------------------------------------------
(* Main: reconcile *)

\* What reconcileTask does with a running task found in this status.
NeedsPRCheck(status) == PRCheckerEnabled /\ status \in {sm.PRReview, sm.SpecReview}

\* Mutant: a task of the CODE phase is taken for finished.
ReconcileKeeps_SpecOnly(status) == status = sm.GeneratingSpec

ReconcileKeeps(status) == IsProcessingStatus(status)

\* GetTask of one running ID.
ReconcileFetch(t) ==
  /\ pc[Main] = "reconcile" /\ t \in todo
  /\ \/ /\ CallSucceeds /\ ~NeedsPRCheck(board[t]) /\ ReconcileKeeps(board[t])
        /\ Reconciled(t)
     \/ /\ CallSucceeds /\ (NeedsPRCheck(board[t]) \/ ~ReconcileKeeps(board[t]))
        /\ Goto(Main, IF NeedsPRCheck(board[t]) THEN "check_pr" ELSE "drop_state")
        /\ task' = [task EXCEPT ![Main] = t]
        /\ phase' = [phase EXCEPT ![Main] = PhaseFromStatus(board[t])]
        /\ UNCHANGED <<attempt, todo>>
     \/ CallFails /\ Reconciled(t)
  /\ UNCHANGED <<sharedVars, board, cancelled, list>>

\* checkMerged: the state of the PR is GitHub's, any answer is possible.
CheckPR ==
  /\ pc[Main] = "check_pr"
  /\ \/ CallSucceeds /\ Jump(Main, "advance") /\ UNCHANGED todo
     \/ CallSucceeds /\ Reconciled(task[Main])
     \/ CallFails /\ Reconciled(task[Main])
  /\ UNCHANGED <<sharedVars, board, cancelled, list>>

MergedStatusFor(ph) == IF ph = "SPEC" THEN sm.ReadyForCode ELSE sm.Closed

Advance ==
  /\ pc[Main] = "advance"
  /\ \/ WriteSucceeds(task[Main], MergedStatusFor(phase[Main])) /\ Jump(Main, "drop_state") /\ UNCHANGED todo
     \/ WriteFails(task[Main], MergedStatusFor(phase[Main])) /\ Reconciled(task[Main])
  /\ UNCHANGED <<sharedVars, cancelled, list>>

\* Mutant: reconcile releases the state alone.
DropState_KeepsSlot ==
  /\ pc[Main] = "drop_state"
  /\ StateRelease(task[Main])
  /\ Reconciled(task[Main])
  /\ UNCHANGED <<callVars, active, retryTimers, done, cancelled, list>>

\* release: the state first, then the limiter.
DropState ==
  /\ pc[Main] = "drop_state"
  /\ StateRelease(task[Main])
  /\ todo' = todo \ {task[Main]}
  /\ Jump(Main, "drop_slot")
  /\ UNCHANGED <<callVars, active, retryTimers, done, cancelled, list>>

DropSlot ==
  /\ pc[Main] = "drop_slot"
  /\ LimiterRelease
  /\ Return(Main, "reconcile")
  /\ UNCHANGED <<callVars, claimed, running, retryTimers, done, cancelled, loopVars>>

-----------------------------------------------------------------------------
(* Main: the second half of tick *)

\* Mutants: the tasks are fetched before reconcile is through; a failed GetTasks
\* starts the tick over instead of waiting for the ticker.
Poll_Early ==
  /\ pc[Main] = "reconcile"
  /\ \/ CallSucceeds /\ list' = Fetched(WaitingTasks) /\ Jump(Main, "scan")
     \/ CallFails /\ Jump(Main, "sleep") /\ UNCHANGED list
  /\ UNCHANGED <<sharedVars, board, cancelled, todo>>
Poll_RetryAtOnce ==
  /\ pc[Main] = "reconcile" /\ todo = {}
  /\ \/ CallSucceeds /\ list' = Fetched(WaitingTasks) /\ Jump(Main, "scan") /\ UNCHANGED todo
     \/ CallFails /\ BeginTick /\ UNCHANGED list
  /\ UNCHANGED <<sharedVars, board, cancelled>>

\* GetTasks, once every running ID has been reconciled.
Poll ==
  /\ pc[Main] = "reconcile" /\ todo = {}
  /\ \/ CallSucceeds /\ list' = Fetched(WaitingTasks) /\ Jump(Main, "scan")
     \/ CallFails /\ Jump(Main, "sleep") /\ UNCHANGED list
  /\ UNCHANGED <<sharedVars, board, cancelled, todo>>

HasRetryPending(t) == retryTimers[t] # NoTimer

ScanSkip(e) ==
  /\ pc[Main] = "scan" /\ e \in list /\ HasRetryPending(e.task)
  /\ list' = list \ {e}
  /\ UNCHANGED <<sharedVars, callVars, cancelled, localVars, todo>>

\* dispatch of an entry of the list, with attempt 1.  Its test of done is
\* inlined: only Main sets done.
ScanDispatch(e) ==
  /\ pc[Main] = "scan" /\ e \in list /\ ~HasRetryPending(e.task)
  /\ list' = list \ {e}
  /\ Goto(Main, "claim")
  /\ task' = [task EXCEPT ![Main] = e.task]
  /\ phase' = [phase EXCEPT ![Main] = e.phase]
  /\ attempt' = [attempt EXCEPT ![Main] = 1]
  /\ UNCHANGED <<sharedVars, callVars, cancelled, todo>>

ScanDone ==
  /\ pc[Main] = "scan" /\ list = {}
  /\ Jump(Main, "sleep")
  /\ UNCHANGED <<sharedVars, callVars, cancelled, loopVars>>

-----------------------------------------------------------------------------
(* dispatch, run by Main and by the retry callbacks *)

Claim(p) ==
  /\ pc[p] = "claim"
  /\ \/ task[p] \in claimed /\ Return(p, "scan") /\ UNCHANGED claimed
     \/ task[p] \notin claimed /\ claimed' = claimed \cup {task[p]} /\ Jump(p, "acquire")
  /\ UNCHANGED <<callVars, running, active, retryTimers, done, cancelled, loopVars>>

\* limiter.TryAcquire
Acquire(p) ==
  /\ pc[p] = "acquire"
  /\ \/ LimiterFull /\ Jump(p, "unclaim") /\ UNCHANGED active
     \/ ~LimiterFull /\ active' = active + 1 /\ Jump(p, "update")
  /\ UNCHANGED <<callVars, claimed, running, retryTimers, done, cancelled, loopVars>>

\* Mutants: the early return for a full limiter forgets the claim; it calls
\* release, which gives back a slot that was never taken.
Unclaim_KeepsClaim(p) ==
  /\ pc[p] = "unclaim"
  /\ Return(p, "sleep")
  /\ list' = IF p = Main THEN {} ELSE list
  /\ UNCHANGED <<callVars, claimed, running, active, retryTimers, done, cancelled, todo>>
Unclaim_ReleasesSlot(p) ==
  /\ pc[p] = "unclaim"
  /\ StateRelease(task[p]) /\ LimiterRelease
  /\ Return(p, "sleep")
  /\ list' = IF p = Main THEN {} ELSE list
  /\ UNCHANGED <<callVars, retryTimers, done, cancelled, todo>>

\* The limiter is full: give the claim back.  tick stops its scan, a retry is over.
Unclaim(p) ==
  /\ pc[p] = "unclaim"
  /\ StateRelease(task[p])
  /\ Return(p, "sleep")
  /\ list' = IF p = Main THEN {} ELSE list
  /\ UNCHANGED <<callVars, active, retryTimers, done, cancelled, todo>>

Update(p) ==
  /\ pc[p] = "update"
  /\ \/ WriteSucceeds(task[p], ProcessingStatusFor(phase[p])) /\ Jump(p, "trigger")
     \/ WriteFails(task[p], ProcessingStatusFor(phase[p])) /\ Jump(p, "release_state")
  /\ UNCHANGED <<sharedVars, cancelled, loopVars>>

\* Mutant: the status is not reverted after a failed trigger.
Trigger_NoRevert(p) ==
  /\ pc[p] = "trigger"
  /\ \/ CallSucceeds /\ Jump(p, "mark")
     \/ CallFails /\ Jump(p, "release_state")
  /\ UNCHANGED <<sharedVars, board, cancelled, loopVars>>

Trigger(p) ==
  /\ pc[p] = "trigger"
  /\ \/ CallSucceeds /\ Jump(p, "mark")
     \/ CallFails /\ Jump(p, "revert")
  /\ UNCHANGED <<sharedVars, board, cancelled, loopVars>>

\* Best effort: dispatch goes on in the same way whether the write succeeds.
Revert(p) ==
  /\ pc[p] = "revert"
  /\ \/ WriteSucceeds(task[p], ErrorStatusFor(phase[p]))
     \/ WriteFails(task[p], ErrorStatusFor(phase[p]))
  /\ Jump(p, "release_state")
  /\ UNCHANGED <<sharedVars, cancelled, loopVars>>

ReleaseState(p) ==
  /\ pc[p] = "release_state"
  /\ StateRelease(task[p])
  /\ Jump(p, "release_slot")
  /\ UNCHANGED <<callVars, active, retryTimers, done, cancelled, loopVars>>

ReleaseSlot(p) ==
  /\ pc[p] = "release_slot"
  /\ LimiterRelease
  /\ Jump(p, "schedule")
  /\ UNCHANGED <<callVars, claimed, running, retryTimers, done, cancelled, loopVars>>

MarkRunning(p) ==
  /\ pc[p] = "mark"
  /\ running' = running \cup {task[p]}
  /\ Return(p, "scan")
  /\ UNCHANGED <<callVars, claimed, active, retryTimers, done, cancelled, loopVars>>

-----------------------------------------------------------------------------
(* Retry timers *)

\* The timer of t's entry that Stop would still prevent from firing.
StoppableTimers(t) == {h \in Callbacks : retryTimers[t] = h /\ pc[h] = "armed"}

\* What can stand for the new timer: a callback that schedules its own successor
\* ends there and is reused; Main takes a free one.
FreeTimers(p) ==
  IF p = Main THEN {h \in Callbacks : pc[h] = "idle"} \cup StoppableTimers(task[p]) ELSE {p}

\* Mutant: scheduleRetry does not look at done.
ScheduleRetry_AfterDone(p) ==
  /\ pc[p] \in {"schedule", "reschedule"}
  /\ \E h \in FreeTimers(p) :
       /\ retryTimers' = [retryTimers EXCEPT ![task[p]] = h]
       /\ pc' = [pc EXCEPT ![p] = "scan", ![h] = "armed"]
       /\ task' = [task EXCEPT ![h] = task[p]]
       /\ phase' = [phase EXCEPT ![h] = phase[p]]
       /\ attempt' = [attempt EXCEPT ![h] = attempt[p]]
  /\ UNCHANGED <<callVars, claimed, running, active, done, cancelled, loopVars>>

\* scheduleRetry, called by dispatch or by handleRetry: nothing after shutdown;
\* otherwise the new timer replaces the one the task may already have.
ScheduleRetry(p) ==
  /\ pc[p] \in {"schedule", "reschedule"}
  /\ \/ done /\ Return(p, "scan") /\ UNCHANGED retryTimers
     \/ /\ ~done
        /\ \E h \in FreeTimers(p) :
             LET ended == (StoppableTimers(task[p]) \cup {p}) \ {h} IN
             /\ retryTimers' = [retryTimers EXCEPT ![task[p]] = h]
             /\ pc' = [q \in Process |-> IF q = h THEN "armed"
                                         ELSE IF q \notin ended THEN pc[q]
                                         ELSE IF q = Main THEN "scan" ELSE "idle"]
             /\ task' = [q \in Process |-> IF q = h THEN task[p]
                                           ELSE IF q \in ended THEN NoTask ELSE task[q]]
             /\ phase' = [q \in Process |-> IF q = h THEN phase[p]
                                            ELSE IF q \in ended THEN NoPhase ELSE phase[q]]
             /\ attempt' = [q \in Process |-> IF q = h THEN attempt[p]
                                              ELSE IF q \in ended THEN 0 ELSE attempt[q]]
  /\ UNCHANGED <<callVars, claimed, running, active, done, cancelled, loopVars>>

\* The delay is over: the runtime starts the callback's goroutine.
Fire(h) ==
  /\ pc[h] = "armed" /\ attempt[h] <= MaxAttempt
  /\ Jump(h, "fired")
  /\ UNCHANGED <<sharedVars, callVars, cancelled, loopVars>>

\* The callback is h's only if the task still has an entry with h's attempt
\* number, whichever timer that entry belongs to.
OwnsEntry(h) ==
  /\ retryTimers[task[h]] # NoTimer
  /\ attempt[retryTimers[task[h]]] = attempt[h]

\* The critical section of handleRetry.
HandleRetry(h) ==
  /\ pc[h] = "fired"
  /\ \/ (done \/ ~OwnsEntry(h)) /\ Return(h, "idle") /\ UNCHANGED retryTimers
     \/ /\ ~done /\ OwnsEntry(h)
        /\ retryTimers' = [retryTimers EXCEPT ![task[h]] = NoTimer]
        /\ Jump(h, "fetch")
  /\ UNCHANGED <<callVars, claimed, running, active, done, cancelled, loopVars>>

\* handleRetry's GetTask: dispatch again, give up, or try again later.
RetryFetch(h) ==
  /\ pc[h] = "fetch"
  /\ \/ /\ CallSucceeds /\ IsTriggerStatus(board[task[h]])
        /\ Goto(h, "enter")
        /\ phase' = [phase EXCEPT ![h] = PhaseFromStatus(board[task[h]])]
        /\ attempt' = [attempt EXCEPT ![h] = @ + 1]
     \/ /\ CallSucceeds /\ ~IsTriggerStatus(board[task[h]])
        /\ Goto(h, "give_up")
        /\ UNCHANGED <<phase, attempt>>
     \/ /\ CallFails
        /\ Goto(h, "reschedule")
        /\ attempt' = [attempt EXCEPT ![h] = @ + 1]
        /\ UNCHANGED phase
  /\ UNCHANGED <<sharedVars, board, cancelled, task, loopVars>>

\* Mutant: dispatch does not look at done.
EnterDispatch_AfterDone(h) ==
  /\ pc[h] = "enter"
  /\ Jump(h, "claim")
  /\ UNCHANGED <<sharedVars, callVars, cancelled, loopVars>>

\* dispatch's critical section: no new dispatch once shutdown has begun.
EnterDispatch(h) ==
  /\ pc[h] = "enter"
  /\ \/ done /\ Return(h, "idle")
     \/ ~done /\ Jump(h, "claim")
  /\ UNCHANGED <<sharedVars, callVars, cancelled, loopVars>>

\* Mutant: the retry that gives up calls release, limiter included.
GiveUp_ReleasesSlot(h) ==
  /\ pc[h] = "give_up"
  /\ StateRelease(task[h])
  /\ LimiterRelease
  /\ Return(h, "idle")
  /\ UNCHANGED <<callVars, retryTimers, done, cancelled, loopVars>>

\* The task left the trigger statuses: Release of the state, not of the limiter.
GiveUp(h) ==
  /\ pc[h] = "give_up"
  /\ StateRelease(task[h])
  /\ Return(h, "idle")
  /\ UNCHANGED <<callVars, active, retryTimers, done, cancelled, loopVars>>

-----------------------------------------------------------------------------
(* The environment *)

\* SIGINT or SIGTERM.
Cancel ==
  /\ ~cancelled
  /\ cancelled' = TRUE
  /\ UNCHANGED <<sharedVars, callVars, localVars, loopVars>>

\* A person or an agent run changes a task's status.
BoardMove(t, status) ==
  /\ <<board[t], status>> \in BoardMoves
  /\ board' = Written(t, status)
  /\ UNCHANGED <<sharedVars, faults, cancelled, localVars, loopVars>>

\* Run has returned and no callback is left: the program may stop here.
Terminated ==
  /\ pc[Main] \in {"drained", "forced"}
  /\ \A h \in Callbacks : pc[h] = "idle"
  /\ UNCHANGED vars

-----------------------------------------------------------------------------

DispatchStep(p) ==
  \/ Claim(p) \/ Acquire(p) \/ Unclaim(p) \/ Update(p) \/ Trigger(p) \/ Revert(p)
  \/ ReleaseState(p) \/ ReleaseSlot(p) \/ ScheduleRetry(p) \/ MarkRunning(p)

MainStep ==
  \/ RecoverFetch \/ (\E e \in Entries : RecoverTask(e)) \/ Recovered
  \/ TickStart \/ StartShutdown \/ FinishShutdown
  \/ (\E t \in Tasks : ReconcileFetch(t))
  \/ CheckPR \/ Advance \/ DropState \/ DropSlot \/ Poll
  \/ (\E e \in Entries : ScanSkip(e) \/ ScanDispatch(e)) \/ ScanDone

CallbackStep(h) == HandleRetry(h) \/ RetryFetch(h) \/ EnterDispatch(h) \/ GiveUp(h)

Environment == Cancel \/ (\E t \in Tasks, status \in Statuses : BoardMove(t, status))

Next ==
  \/ MainStep
  \/ \E p \in Process : DispatchStep(p)
  \/ \E h \in Callbacks : Fire(h) \/ CallbackStep(h)
  \/ Environment
  \/ Terminated

Spec == Init /\ [][Next]_vars

\* The scheduler runs every goroutine that can run, timers expire, and select,
\* which picks among its ready cases at random, does not ignore the cancelled
\* context for ever.  Nothing is assumed of people, agent runs or signals.
Fairness ==
  /\ WF_vars(MainStep \/ DispatchStep(Main))
  /\ SF_vars(StartShutdown)
  /\ \A h \in Callbacks : WF_vars(Fire(h)) /\ WF_vars(CallbackStep(h) \/ DispatchStep(h))

FairSpec == Spec /\ Fairness

-----------------------------------------------------------------------------
(* Properties *)

\* A claim is always somebody's: of a running task, or of a dispatch that has
\* still to mark the task running or to release it.  No path through dispatch,
\* with a full limiter or a failing call, leaves a task claimed for ever.
NoClaimLeak == claimed \subseteq running \cup {task[p] : p \in Claimants}

\* The limiter's counter covers every running task, every task reconcile still has
\* to look at, and every goroutine with a slot in hand.
SlotsCovered == Cardinality(running \cup todo) + Cardinality(SlotHolders) <= active

\* No interleaving of release, the retry callbacks and reconcile gives a slot back
\* twice, and a slot can only be lost for good to a failed call, one at most to each.
SlotsAccounted ==
  /\ SlotsCovered
  /\ active <= Cardinality(running) + Cardinality(SlotHolders) + faults

\* MAX_CONCURRENT_TASKS bounds the tasks being dispatched and running together,
\* whatever the callbacks and the loop do at once.
CapRespected ==
  MaxConcurrentTasks > 0 => Cardinality(running) + Cardinality(SlotHolders) <= MaxConcurrentTasks

\* A shutdown that reports itself graceful leaves no dispatch half done, and none
\* starts afterwards: a callback that fired before shutdown cannot pass dispatch's
\* test of done later.
GracefulDrain == pc[Main] = "drained" => Dispatching = {}

\* Shutdown clears the retry map for good, and while the map has an entry its
\* timer belongs to that task and has not been consumed.
RetryMapSound ==
  \A t \in Tasks : retryTimers[t] # NoTimer =>
    /\ ~done
    /\ task[retryTimers[t]] = t
    /\ pc[retryTimers[t]] \in {"armed", "fired"}

\* The orchestrator implements AdmissionControl: no step of any goroutine admits a
\* task beyond the limit, or after a shutdown that was reported graceful.
Admission == INSTANCE AdmissionControl WITH
  Limit    <- MaxConcurrentTasks,
  admitted <- running \cup todo \cup {task[p] : p \in SlotHolders},
  closed   <- pc[Main] = "drained"

AdmissionControlled == Admission!Spec

\* After a signal Run returns, however often the ticker wins the select and
\* whatever the callbacks are doing.
ShutdownTerminates == cancelled ~> pc[Main] \in {"drained", "forced"}

\* Every slot that neither a running task nor a dispatch accounts for is lost: only
\* failed calls can bring it to that (SlotsAccounted, and NoSlotLeak below).
AllSlotsLost ==
  /\ MaxConcurrentTasks > 0
  /\ active >= MaxConcurrentTasks + Cardinality(running) + Cardinality(SlotHolders)

\* A task waiting in a trigger status is picked up, whatever earlier dispatches, failed
\* calls and retries of it have left behind, and also when a full limiter has refused
\* it or dropped its retry, unless the process is being stopped or the limiter is full
\* of lost slots.
TriggerServed ==
  \A t \in Tasks :
    IsTriggerStatus(board[t]) ~> (~IsTriggerStatus(board[t]) \/ cancelled \/ AllSlotsLost)

\* Once every task is closed the orchestrator tracks none, and the limiter has its slots
\* back but for those lost to failed calls, one at most to each: "so its slot comes
\* back", whichever calls of the reconciliation fail and whatever retries are pending.
SlotsComeBack ==
  LET allClosed == \A t \in Tasks : IsTerminalStatus(board[t])
  IN  allClosed ~> (~allClosed \/ cancelled \/ (running = {} /\ active <= faults))

\* When Main waits for the ticker and no dispatch is under way, the slots taken are
\* those of the running tasks: "the limiter was already released on the dispatch
\* failure path, so only the state is released" (orchestrator.go:505).
NoSlotLeak == pc[Main] = "sleep" /\ Dispatching = {} => active = Cardinality(running)

\* A task is eligible for dispatch only if it is not in running_tasks (SPEC.md:359).
DispatchesOnlyIdle == \A p \in Process : pc[p] = "update" => task[p] \notin running

\* A callback acts on the retry entry only if the entry is its own: the attempt
\* number guards against an old callback running after Stop (orchestrator.go:481).
OldCallbackIgnored ==
  \A h \in Callbacks : pc[h] = "fired" /\ OwnsEntry(h) => retryTimers[task[h]] = h

=============================================================================
