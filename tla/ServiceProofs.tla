--------------------------- MODULE ServiceProofs ---------------------------
(***************************************************************************)
(* Theorems about Service: what the orchestrator guarantees survives       *)
(* crashes and the agents' reports, and, if people leave tasks in progress *)
(* alone, no task is worked on twice but for what failures and crashes     *)
(* account for, or shown as worked on without being so but where a call    *)
(* that fails or a run that ends in silence gives it up.  For every set of *)
(* tasks, limit and number of timers.                                      *)
(***************************************************************************)
EXTENDS Service, OrchestratorProofs

-----------------------------------------------------------------------------
(* The orchestrator's invariants, with crashes and reports *)

\* A report changes nothing but the board.
Report ==
  /\ board' \in [Tasks -> Statuses]
  /\ UNCHANGED <<sharedVars, faults, cancelled, localVars, loopVars>>

\* The history variable aside, a step of the service is one of ServiceStep.
LEMMA StepsOfService == [ServiceNext]_allVars => [ServiceStep]_serviceVars
BY DEF ServiceNext, allVars

LEMMA ReportStatuses == \A ph : SuccessStatusFor(ph) \in Statuses /\ ErrorStatusFor(ph) \in Statuses
BY StatusMappingAssumption DEF SuccessStatusFor, ErrorStatusFor, Statuses, AllStatuses, Fields

\* For the orchestrator a step of the service is one of its own, a report or a crash.
LEMMA StepKinds == TypeOK /\ [ServiceStep]_serviceVars => [Next]_vars \/ Report \/ Restart
<1> SUFFICES ASSUME TypeOK, [ServiceStep]_serviceVars PROVE [Next]_vars \/ Report \/ Restart
  OBVIOUS
<1>1. CASE ServedMain \/ (\E p \in Process : ServedDispatch(p)) \/ (\E h \in Callbacks : ServedCallback(h))
  BY <1>1 DEF ServedMain, ServedDispatch, ServedCallback, Next
<1>2. CASE \/ \E h \in Callbacks : Fire(h) /\ UNCHANGED actorVars
           \/ Environment /\ UNCHANGED actorVars
           \/ Terminated /\ UNCHANGED actorVars
  BY <1>2 DEF Next
<1>3. ASSUME NEW t \in Tasks, NEW ph \in Phases,
             RunSucceeds(t, ph) \/ RunFails(t, ph) \/ RunFailsLate(t, ph)
      PROVE  Report
  BY <1>3, ReportStatuses DEF RunSucceeds, RunFails, RunFailsLate, Report, Written, TypeOK
<1>4. ASSUME NEW t \in Tasks, NEW ph \in Phases, RunVanishes(t, ph) \/ MergePR(t, ph)
      PROVE  UNCHANGED vars
  BY <1>4 DEF RunVanishes, MergePR
<1>5. CASE UNCHANGED serviceVars
  BY <1>5 DEF serviceVars
<1> QED
  BY <1>1, <1>2, <1>3, <1>4, <1>5 DEF ServiceStep, Actors

Guarantees ==
  /\ TypeOK /\ NoClaimLeak /\ ShutdownInv /\ SlotInv /\ DebtInv /\ OneEntry
  /\ faults = 0 => FaultFree

LEMMA GuaranteesAtStart ==
  ASSUME board \in [Tasks -> Statuses], faults \in 0 .. MaxFaults,
         claimed = {}, running = {}, active = 0,
         retryTimers = [t \in Tasks |-> NoTimer], done = FALSE, cancelled = FALSE,
         pc = [p \in Process |-> IF p = Main THEN "boot" ELSE "idle"],
         task = [p \in Process |-> NoTask],
         phase = [p \in Process |-> NoPhase],
         attempt = [p \in Process |-> 0],
         todo = {}, list = {}
  PROVE  Guarantees
<1> USE OrchestratorAssumption DEF Process, MainPCs, ReconcilePCs, CallbackPCs, DispatchPCs
<1>1. TypeOK
  <2>1. /\ pc \in [Process -> MainPCs \cup CallbackPCs \cup DispatchPCs]
        /\ pc[Main] \notin CallbackPCs
        /\ \A h \in Callbacks : pc[h] \notin MainPCs
    OBVIOUS
  <2>2. \A p \in Process : LocalsOK(p)
    BY DEF LocalsOK
  <2> QED
    BY <2>1, <2>2 DEF TypeOK
<1>2. NoClaimLeak
  BY DEF NoClaimLeak
<1>3. ShutdownInv
  BY DEF ShutdownInv, GracefulDrain, RetryMapSound
<1>4. SlotInv
  <2>1. running \cup todo = {} /\ SlotHolders = {}
    BY DEF SlotHolders, SlotPCs
  <2> QED
    BY <2>1, FS_EmptySet DEF SlotInv, SlotsCovered
<1>5. DebtInv
  <2>1. Claimants = {} /\ Owing = {} /\ SlotHolders = {} /\ faults \in Nat
    BY DEF Claimants, ClaimPCs, Owing, OwingPCs, SlotHolders, SlotPCs
  <2> QED
    BY <2>1, FS_EmptySet DEF DebtInv
<1>6. OneEntry /\ FaultFree
  BY DEF OneEntry, FaultFree, OnlyMainDispatches, ClaimsMatch, OneTimer, ClaimPCs
<1> QED
  BY <1>1, <1>2, <1>3, <1>4, <1>5, <1>6 DEF Guarantees

LEMMA GuaranteesReport == Guarantees /\ Report => Guarantees'
<1> SUFFICES ASSUME Guarantees, Report PROVE Guarantees'
  OBVIOUS
<1> USE DEF Guarantees, Report, sharedVars, localVars, loopVars
<1>1. TypeOK'
  BY DEF TypeOK, LocalsOK
<1>2. NoClaimLeak'
  BY DEF NoClaimLeak, Claimants
<1>3. ShutdownInv'
  BY DEF ShutdownInv, GracefulDrain, Dispatching, RetryMapSound
<1>4. SlotInv'
  BY DEF SlotInv, SlotsCovered, SlotHolders
<1>5. DebtInv'
  BY DEF DebtInv, Claimants, Owing, SlotHolders
<1>6. OneEntry' /\ (faults' = 0 => FaultFree')
  BY DEF OneEntry, FaultFree, OnlyMainDispatches, ClaimsMatch, OneTimer
<1> QED
  BY <1>1, <1>2, <1>3, <1>4, <1>5, <1>6

LEMMA GuaranteesRestart == Guarantees /\ Restart => Guarantees'
<1> SUFFICES ASSUME Guarantees, Restart PROVE Guarantees'
  OBVIOUS
<1>1. board' \in [Tasks -> Statuses] /\ faults' \in 0 .. MaxFaults
  BY DEF Guarantees, TypeOK, Restart, callVars
<1>2. TypeOK'
  <2> USE OrchestratorAssumption, <1>1 DEF Restart, Process, MainPCs, ReconcilePCs, CallbackPCs, DispatchPCs
  <2>1. /\ pc' \in [Process -> MainPCs \cup CallbackPCs \cup DispatchPCs]
        /\ pc'[Main] \notin CallbackPCs
        /\ \A h \in Callbacks : pc'[h] \notin MainPCs
    OBVIOUS
  <2>2. \A p \in Process : LocalsOK(p)'
    BY DEF LocalsOK
  <2> QED
    BY <2>1, <2>2 DEF TypeOK
<1>3. NoClaimLeak'
  BY DEF Restart, NoClaimLeak
<1>4. ShutdownInv'
  BY OrchestratorAssumption DEF Restart, Process, ShutdownInv, GracefulDrain, RetryMapSound
<1>5. SlotInv'
  <2>1. (running \cup todo)' = {} /\ SlotHolders' = {} /\ active' = 0
    BY OrchestratorAssumption DEF Restart, Process, SlotHolders, SlotPCs
  <2> QED
    BY <2>1, FS_EmptySet, OrchestratorAssumption DEF SlotInv, SlotsCovered
<1>6. DebtInv'
  <2>1. /\ Claimants' = {} /\ Owing' = {} /\ SlotHolders' = {}
        /\ claimed' = {} /\ active' = 0 /\ faults' \in Nat
    BY <1>1, OrchestratorAssumption
    DEF Restart, Process, Claimants, ClaimPCs, Owing, OwingPCs, SlotHolders, SlotPCs
  <2> QED
    BY <2>1, FS_EmptySet DEF DebtInv
<1>7. OneEntry' /\ FaultFree'
  BY OrchestratorAssumption
  DEF Restart, Process, OneEntry, FaultFree, OnlyMainDispatches, ClaimsMatch, OneTimer, ClaimPCs, DispatchPCs
<1> QED
  BY <1>2, <1>3, <1>4, <1>5, <1>6, <1>7 DEF Guarantees

LEMMA GuaranteesNext == Guarantees /\ [ServiceStep]_serviceVars => Guarantees'
<1> SUFFICES ASSUME Guarantees, [ServiceStep]_serviceVars PROVE Guarantees'
  OBVIOUS
<1>1. CASE [Next]_vars
  <2>1. TypeOK' /\ NoClaimLeak' /\ ShutdownInv' /\ OneEntry'
    BY <1>1, TypeOKNext, NoClaimLeakNext, ShutdownInvNext, OneEntryNext DEF Guarantees
  <2>2. SlotInv' /\ DebtInv'
    BY <1>1, <2>1, SlotEffects, SlotInvNext, DebtEffects, DebtNext DEF Guarantees
  <2>3. faults' = 0 => FaultFree'
    BY <1>1, FaultsStay, FaultFreeNext DEF Guarantees
  <2> QED
    BY <2>1, <2>2, <2>3 DEF Guarantees
<1>2. CASE Report
  BY <1>2, GuaranteesReport
<1>3. CASE Restart
  BY <1>3, GuaranteesRestart
<1> QED
  BY <1>1, <1>2, <1>3, StepKinds DEF Guarantees

LEMMA GuaranteesAlways == ServiceSpec => []Guarantees
<1>1. ServiceInit => Guarantees
  <2> SUFFICES ASSUME ServiceInit PROVE Guarantees
    OBVIOUS
  <2>1. board \in [Tasks -> Statuses] /\ faults \in 0 .. MaxFaults
    BY OrchestratorAssumption DEF ServiceInit, Init
  <2> QED
    BY <2>1, GuaranteesAtStart DEF ServiceInit, Init
<1> QED
  BY <1>1, GuaranteesNext, StepsOfService, PTL DEF ServiceSpec

\* Claims, slots, the limit, the retry map and the shutdown stay sound however often
\* the process crashes, wherever it crashes, and whenever runs report.
THEOREM GuaranteesSurvive ==
  ServiceSpec => [](NoClaimLeak /\ SlotsAccounted /\ CapRespected /\ GracefulDrain /\ RetryMapSound)
<1>1. Guarantees => NoClaimLeak /\ SlotsAccounted /\ CapRespected /\ GracefulDrain /\ RetryMapSound
  BY CapFromSlots, AccountsFromDebt DEF Guarantees, ShutdownInv
<1> QED
  BY <1>1, GuaranteesAlways, PTL

\* As long as no call has failed, neither crashes nor the runs' reports bring about a
\* slot leak, a dispatch of a running task or a callback that takes another's entry.
THEOREM PromisesSurvive ==
  ServiceSpec => [](faults = 0 => NoSlotLeak /\ DispatchesOnlyIdle /\ OldCallbackIgnored)
<1>1. Guarantees => (faults = 0 => NoSlotLeak /\ DispatchesOnlyIdle /\ OldCallbackIgnored)
  BY AccountsFromDebt, PromisesFromFaultFree DEF Guarantees, ShutdownInv, PromisesKept
<1> QED
  BY <1>1, GuaranteesAlways, PTL

-----------------------------------------------------------------------------
(* While calls succeed *)

OneRunPerTask == \A t \in Tasks : LiveRuns(t) <= 1

\* The tasks some run works on.
Busy == {t \in Tasks : HasRun(t)}

\* Main's list is still good when it comes to an entry: the task has no run.
ListStillGood ==
  /\ \A e \in list : e.task \notin Busy
  /\ pc[Main] \in {"boot", "recover"} => Busy = {}

\* Where the task in Main's hands has no run.
HandsFreePCs == {"claim", "acquire", "unclaim", "update", "trigger",
                 "check_pr", "advance", "drop_state"}

RunsShown ==
  /\ pc[Main] \in HandsFreePCs => task[Main] \notin Busy
  /\ pc[Main] = "trigger" => IsProcessingStatus(board[task[Main]]) \/ cancelled
  /\ \A t \in Busy : IsProcessingStatus(board[t]) \/ cancelled
  /\ \A t \in Busy : t \in running \/ (pc[Main] = "mark" /\ task[Main] = t) \/ cancelled

CalmInv == ListStillGood /\ RunsShown /\ OneRunPerTask

\* What Guarantees adds to it.
Settled == ServiceTypeOK /\ OneEntry /\ OnlyMainDispatches

LEMMA Starting ==
  ASSUME ServiceTypeOK, OneRunPerTask,
         NEW t \in Tasks, NEW ph \in Phases, t \notin Busy, RunStarted(t, ph)
  PROVE  Busy' = Busy \cup {t} /\ OneRunPerTask'
<1>1. /\ runs[t]["SPEC"] = 0 /\ runs[t]["CODE"] = 0
      /\ \A u \in Tasks : runs[u]["SPEC"] \in Nat /\ runs[u]["CODE"] \in Nat
  BY DEF ServiceTypeOK, Counters, Busy, HasRun, Phases
<1>2. /\ \A u \in Tasks \ {t} : runs'[u] = runs[u]
      /\ \/ runs'[t]["SPEC"] = 1 /\ runs'[t]["CODE"] = 0
         \/ runs'[t]["SPEC"] = 0 /\ runs'[t]["CODE"] = 1
  BY <1>1 DEF RunStarted, ServiceTypeOK, Counters, Phases
<1> QED
  BY <1>1, <1>2 DEF Busy, HasRun, OneRunPerTask, LiveRuns, Phases

LEMMA Ending ==
  ASSUME ServiceTypeOK, OneRunPerTask, NEW t \in Tasks, NEW ph \in Phases, Ended(t, ph)
  PROVE  t \in Busy /\ Busy' = Busy \ {t} /\ OneRunPerTask'
<1>1. /\ runs[t]["SPEC"] + runs[t]["CODE"] <= 1
      /\ \A u \in Tasks : runs[u]["SPEC"] \in Nat /\ runs[u]["CODE"] \in Nat
      /\ runs[t][ph] > 0
  BY DEF ServiceTypeOK, Counters, OneRunPerTask, LiveRuns, Phases, Ended
<1>2. /\ \A u \in Tasks \ {t} : runs'[u] = runs[u]
      /\ runs'[t]["SPEC"] = 0 /\ runs'[t]["CODE"] = 0
  <2>1. /\ runs'[t] = [runs[t] EXCEPT ![ph] = runs[t][ph] - 1]
        /\ \A u \in Tasks \ {t} : runs'[u] = runs[u]
    BY DEF Ended, ServiceTypeOK, Counters
  <2>2. CASE ph = "SPEC"
    <3>1. runs[t]["SPEC"] = 1 /\ runs[t]["CODE"] = 0
      BY <1>1, <2>2
    <3> QED
      BY <2>1, <2>2, <3>1 DEF ServiceTypeOK, Counters, Phases
  <2>3. CASE ph = "CODE"
    <3>1. runs[t]["SPEC"] = 0 /\ runs[t]["CODE"] = 1
      BY <1>1, <2>3
    <3> QED
      BY <2>1, <2>3, <3>1 DEF ServiceTypeOK, Counters, Phases
  <2> QED
    BY <2>2, <2>3 DEF Phases
<1>3. t \in Busy
  BY <1>1 DEF Busy, HasRun
<1>4. ~HasRun(t)' /\ \A u \in Tasks \ {t} : HasRun(u)' <=> HasRun(u)
  BY <1>2 DEF HasRun, Phases
<1>5. Busy' = Busy \ {t}
  BY <1>4 DEF Busy
<1>6. OneRunPerTask'
  BY <1>1, <1>2 DEF OneRunPerTask, LiveRuns
<1> QED
  BY <1>3, <1>5, <1>6

LEMMA NoRunChange == UNCHANGED runs => Busy' = Busy /\ OneRunPerTask' = OneRunPerTask
BY DEF Busy, HasRun, OneRunPerTask, LiveRuns

\* The roles of the statuses do not overlap.
LEMMA Roles ==
  /\ \A s : IsTriggerStatus(s) => ~IsProcessingStatus(s)
  /\ \A ph : IsProcessingStatus(ProcessingStatusFor(ph))
  /\ \A ph : ~IsProcessingStatus(SuccessStatusFor(ph))
  /\ \A ph : ~IsProcessingStatus(ErrorStatusFor(ph))
  /\ \A ph : ~IsProcessingStatus(MergedStatusFor(ph))
  /\ \A s : NeedsPRCheck(s) => ~IsProcessingStatus(s)
  /\ \A s : ~ReconcileKeeps(s) => ~IsProcessingStatus(s)
BY StatusMappingAssumption
DEF IsTriggerStatus, IsProcessingStatus, ProcessingStatusFor, SuccessStatusFor, ErrorStatusFor,
    MergedStatusFor, NeedsPRCheck, ReconcileKeeps, validateStatusMapping, Fields

LEMMA ServiceTypeNext ==
  ServiceTypeOK /\ [ServiceNext]_allVars => ServiceTypeOK'
<1> SUFFICES ASSUME ServiceTypeOK, [ServiceNext]_allVars PROVE ServiceTypeOK'
  OBVIOUS
<1> DEFINE ActorTypes == /\ runs \in Counters /\ failing \in Counters
                         /\ prs \in [Tasks -> [Phases -> SUBSET {"open", "merged"}]]
                         /\ restarts \in Nat /\ misreports \in Nat /\ restarts + misreports <= MaxMishaps
                         /\ late \in Nat
<1>0. TypeOK /\ [ServiceStep]_serviceVars
  BY StepsOfService DEF ServiceTypeOK
<1>1. TypeOK'
  <2>1. CASE [Next]_vars
    BY <1>0, <2>1, TypeOKNext
  <2>2. CASE Report
    BY <1>0, <2>2 DEF Report, TypeOK, LocalsOK, sharedVars, localVars, loopVars
  <2>3. CASE Restart
    <3> USE OrchestratorAssumption, <2>3, <1>0
        DEF Restart, callVars, Process, MainPCs, ReconcilePCs, CallbackPCs, DispatchPCs
    <3>1. /\ pc' \in [Process -> MainPCs \cup CallbackPCs \cup DispatchPCs]
          /\ pc'[Main] \notin CallbackPCs
          /\ \A h \in Callbacks : pc'[h] \notin MainPCs
      OBVIOUS
    <3>2. \A p \in Process : LocalsOK(p)'
      BY DEF LocalsOK
    <3> QED
      BY <3>1, <3>2 DEF TypeOK
  <2> QED
    BY <1>0, <2>1, <2>2, <2>3, StepKinds
<1>2. ActorTypes'
  <2> USE ServiceAssumption DEF ServiceTypeOK, actorVars, Counters
  <2>1. ASSUME NEW p \in Process, ServedDispatch(p) PROVE ActorTypes'
    <3>1. pc[p] = "trigger" => task[p] \in Tasks /\ phase[p] \in Phases
      BY DEF TypeOK, LocalsOK, DispatchPCs
    <3>2. ASSUME NEW t \in Tasks, NEW ph \in Phases, RunStarted(t, ph)
          PROVE  runs' \in Counters
      BY <3>2 DEF RunStarted
    <3>3. (pc[p] = "trigger" /\ RunStarted(task[p], phase[p])) \/ UNCHANGED runs
      BY <2>1 DEF ServedDispatch, RunsAfter
    <3>4. runs' \in Counters
      BY <3>1, <3>2, <3>3
    <3>5. UNCHANGED <<prs, failing, restarts, late, misreports>>
      BY <2>1 DEF ServedDispatch
    <3> QED
      BY <3>4, <3>5
  <2>2. ASSUME NEW t \in Tasks, NEW ph \in Phases,
               RunSucceeds(t, ph) \/ RunFails(t, ph) \/ RunVanishes(t, ph)
        PROVE  ActorTypes'
    <3>0. /\ Ended(t, ph) /\ PRAfter(t, ph)
          /\ failing' = failing \/ failing' = [failing EXCEPT ![t][ph] = @ + 1]
      BY <2>2 DEF RunSucceeds, RunFails, RunVanishes
    <3>1. runs' \in Counters
      BY <3>0 DEF Ended
    <3>2. failing' \in Counters
      <4>1. CASE failing' = [failing EXCEPT ![t][ph] = @ + 1]
        BY <4>1
      <4> QED
        BY <3>0, <4>1
    <3>3. prs' \in [Tasks -> [Phases -> SUBSET {"open", "merged"}]]
      <4>1. CASE prs' = Opened(t, ph)
        BY <4>1 DEF Opened
      <4> QED
        BY <3>0, <4>1 DEF PRAfter
    <3>4. /\ restarts' = restarts /\ late' = late
          /\ misreports' = misreports \/ (restarts + misreports < MaxMishaps /\ misreports' = misreports + 1)
      BY <2>2 DEF RunSucceeds, RunFails, RunVanishes, Misreport, MishapsLeft
    <3>5. restarts' \in Nat /\ misreports' \in Nat /\ restarts' + misreports' <= MaxMishaps /\ late' \in Nat
      BY <3>4
    <3> QED
      BY <3>1, <3>2, <3>3, <3>5
  <2>3. ASSUME NEW t \in Tasks, NEW ph \in Phases, RunFailsLate(t, ph) PROVE ActorTypes'
    BY <2>3 DEF RunFailsLate
  <2>4. ASSUME NEW t \in Tasks, NEW ph \in Phases, MergePR(t, ph) PROVE ActorTypes'
    BY <2>4 DEF MergePR
  <2>5. CASE Restart
    BY <2>5 DEF Restart, MishapsLeft
  <2>6. CASE UNCHANGED actorVars
    BY <2>6
  <2> QED
    BY <1>0, <2>1, <2>2, <2>3, <2>4, <2>5, <2>6
    DEF ServiceStep, ServedMain, ServedCallback, Actors, serviceVars
<1>3. stranded' \subseteq Tasks
  BY DEF ServiceTypeOK, ServiceNext, Stranding, allVars
<1> QED
  BY <1>1, <1>2, <1>3 DEF ServiceTypeOK

\* A retry callback's only step that is not over at once sets its next timer.
LEMMA CalmCallbackDispatch ==
  ASSUME Calm, Undisturbed', Settled, CalmInv, NEW p \in Callbacks, ServedDispatch(p)
  PROVE  CalmInv'
<1> USE OrchestratorAssumption DEF CalmInv, Settled, OnlyMainDispatches, ServiceTypeOK
<1>1. pc[p] = "reschedule" /\ p # Main /\ pc[Main] # "armed"
  BY DEF ServedDispatch, DispatchStep, Claim, Acquire, Unclaim, Update, Trigger, Revert,
         ReleaseState, ReleaseSlot, MarkRunning, ScheduleRetry, TypeOK, CallbackPCs
<1>2. ScheduleRetry(p) /\ UNCHANGED runs
  BY <1>1 DEF ServedDispatch, RunsAfter, DispatchStep, Claim, Acquire, Unclaim, Update, Trigger,
              Revert, ReleaseState, ReleaseSlot, MarkRunning
<1>3. UNCHANGED <<board, running, list, cancelled>> /\ cancelled
  BY <1>1, <1>2 DEF ScheduleRetry, callVars, loopVars
<1>4. /\ pc'[Main] = pc[Main] /\ task'[Main] = task[Main]
      /\ \A h \in Callbacks : pc'[h] \in {"idle", "armed", pc[h]}
  <2>1. CASE done
    BY <1>1, <1>2, <2>1 DEF ScheduleRetry, Return, Goto, TypeOK, Process
  <2>2. CASE ~done
    BY <1>1, <1>2, <2>2 DEF ScheduleRetry, FreeTimers, StoppableTimers, TypeOK, Process
  <2> QED
    BY <2>1, <2>2
<1>5. Busy' = Busy /\ OneRunPerTask'
  BY <1>2, NoRunChange
<1>7. ListStillGood'
  BY <1>3, <1>4, <1>5 DEF ListStillGood
<1>8. RunsShown'
  BY <1>3, <1>4, <1>5 DEF RunsShown
<1> QED
  BY <1>5, <1>7, <1>8

\* A call can only fail because the process is being stopped.
LEMMA CalmCalls == Undisturbed' /\ TypeOK /\ CallFails => cancelled
BY DEF Undisturbed, TypeOK, CallFails

\* A step of Main, pc from "a" to "b", with the task in hand kept.
LEMMA CalmTrigger ==
  ASSUME Calm, Undisturbed', Settled, CalmInv, ServedDispatch(Main), pc[Main] = "trigger"
  PROVE  CalmInv'
<1> USE OrchestratorAssumption DEF CalmInv, Settled, ServiceTypeOK
<1>1. Trigger(Main) /\ RunsAfter(Main)
  BY DEF ServedDispatch, DispatchStep, Claim, Acquire, Unclaim, Update, Trigger, Revert,
         ReleaseState, ReleaseSlot, MarkRunning, ScheduleRetry
<1>2. task[Main] \in Tasks /\ phase[Main] \in Phases /\ task[Main] \notin Busy
  BY DEF TypeOK, LocalsOK, Process, DispatchPCs, RunsShown, HandsFreePCs
<1>3. /\ UNCHANGED <<board, running, list, cancelled, task>>
      /\ pc'[Main] = "mark" \/ (pc'[Main] = "revert" /\ cancelled)
      /\ \A h \in Callbacks : pc'[h] = pc[h]
  BY <1>1, CalmCalls DEF Trigger, sharedVars, loopVars, Jump, Goto, TypeOK, Process
<1>4. /\ Busy' = Busy \/ (Busy' = Busy \cup {task[Main]} /\ (pc'[Main] = "mark" \/ cancelled))
      /\ OneRunPerTask'
  <2>1. CASE RunStarted(task[Main], phase[Main])
    BY <1>2, <1>3, <2>1, Starting
  <2>2. CASE UNCHANGED runs
    BY <2>2, NoRunChange
  <2> QED
    BY <1>1, <2>1, <2>2 DEF RunsAfter
<1>6. ListStillGood'
  BY <1>3, <1>4 DEF ListStillGood, OneEntry, DispatchPCs
<1>7. RunsShown'
  BY <1>2, <1>3, <1>4 DEF RunsShown, HandsFreePCs
<1> QED
  BY <1>4, <1>6, <1>7

LEMMA CalmMainDispatch ==
  ASSUME Calm, Undisturbed', Settled, CalmInv, ServedDispatch(Main), pc[Main] # "trigger"
  PROVE  CalmInv'
<1> USE OrchestratorAssumption DEF CalmInv, Settled, ServiceTypeOK
<1>1. UNCHANGED runs /\ DispatchStep(Main)
  BY DEF ServedDispatch, RunsAfter
<1>2. Busy' = Busy /\ OneRunPerTask'
  BY <1>1, NoRunChange
<1>3. pc[Main] \in DispatchPCs /\ task[Main] \in Tasks /\ phase[Main] \in Phases
  BY <1>1 DEF TypeOK, LocalsOK, Process, DispatchPCs, DispatchStep, Claim, Acquire, Unclaim, Update,
              Trigger, Revert, ReleaseState, ReleaseSlot, MarkRunning, ScheduleRetry, CallbackPCs
<1>4. CASE Claim(Main) \/ Acquire(Main)
  <2>1. /\ UNCHANGED <<board, running, list, cancelled>>
        /\ \A h \in Callbacks : pc'[h] = pc[h]
        /\ \/ pc[Main] = "claim" /\ pc'[Main] = "scan"
           \/ /\ pc[Main] \in {"claim", "acquire"} /\ pc'[Main] \in {"acquire", "unclaim", "update"}
              /\ task'[Main] = task[Main]
    BY <1>4 DEF Claim, Acquire, callVars, loopVars, Return, Jump, Goto, TypeOK, Process
  <2>3. ListStillGood'
    BY <1>2, <2>1 DEF ListStillGood, DispatchPCs
  <2>4. RunsShown'
    BY <1>2, <2>1 DEF RunsShown, HandsFreePCs
  <2> QED
    BY <1>2, <2>3, <2>4
<1>5. CASE Unclaim(Main) \/ ReleaseState(Main) \/ ReleaseSlot(Main)
  <2>1. /\ UNCHANGED <<board, cancelled>>
        /\ list' = list \/ list' = {}
        /\ \A h \in Callbacks : pc'[h] = pc[h]
        /\ \/ /\ pc[Main] = "unclaim" /\ pc'[Main] = "sleep"
              /\ running' = running \ {task[Main]} /\ task[Main] \notin Busy
           \/ /\ pc[Main] \in {"release_state", "release_slot"} /\ cancelled
              /\ pc'[Main] \in {"release_slot", "schedule"}
              /\ task'[Main] = task[Main]
    BY <1>5 DEF Unclaim, ReleaseState, ReleaseSlot, StateRelease, callVars, loopVars, Return, Jump,
                Goto, TypeOK, Process, OnlyMainDispatches, RunsShown, HandsFreePCs
  <2>3. ListStillGood'
    BY <1>2, <2>1 DEF ListStillGood, DispatchPCs
  <2>4. RunsShown'
    BY <1>2, <2>1 DEF RunsShown, HandsFreePCs
  <2> QED
    BY <1>2, <2>3, <2>4
<1>6. CASE MarkRunning(Main)
  <2>1. /\ UNCHANGED <<board, cancelled, list>> /\ running' = running \cup {task[Main]}
        /\ \A h \in Callbacks : pc'[h] = pc[h]
        /\ pc[Main] = "mark" /\ pc'[Main] = "scan"
    BY <1>6 DEF MarkRunning, callVars, loopVars, Return, Goto, TypeOK, Process
  <2>3. ListStillGood'
    BY <1>2, <2>1 DEF ListStillGood, DispatchPCs
  <2>4. RunsShown'
    BY <1>2, <2>1 DEF RunsShown, HandsFreePCs
  <2> QED
    BY <1>2, <2>3, <2>4
<1>7. CASE Update(Main) \/ Revert(Main)
  <2>1. /\ UNCHANGED <<running, cancelled, list, task>>
        /\ \A h \in Callbacks : pc'[h] = pc[h]
        /\ \/ /\ pc[Main] = "update" /\ pc'[Main] = "trigger"
              /\ board' = Written(task[Main], ProcessingStatusFor(phase[Main]))
           \/ pc'[Main] = "release_state" /\ cancelled
    BY <1>7, CalmCalls DEF Update, Revert, WriteSucceeds, WriteFails, OnlyMainDispatches,
                sharedVars, loopVars, Jump, Goto, TypeOK, Process
  <2>2. cancelled \/ (IsProcessingStatus(board'[task[Main]])
                      /\ \A t \in Tasks : IsProcessingStatus(board[t]) => IsProcessingStatus(board'[t]))
    BY <1>3, <2>1 DEF Written, TypeOK, ProcessingStatusFor, IsProcessingStatus
  <2>3. Busy \subseteq Tasks
    BY DEF Busy
  <2>5. ListStillGood'
    BY <1>2, <1>3, <2>1 DEF ListStillGood, DispatchPCs
  <2>6. RunsShown'
    BY <1>2, <2>1, <2>2, <2>3 DEF RunsShown, HandsFreePCs
  <2> QED
    BY <1>2, <2>5, <2>6
<1>8. CASE ScheduleRetry(Main)
  <2>1. pc[Main] = "schedule" /\ cancelled
    BY <1>8 DEF ScheduleRetry, TypeOK, CallbackPCs, OnlyMainDispatches
  <2>2. UNCHANGED <<board, running, list, cancelled>>
    BY <1>8 DEF ScheduleRetry, callVars, loopVars
  <2>3. /\ pc'[Main] = "scan"
        /\ \A h \in Callbacks : pc'[h] \in {"idle", "armed", pc[h]}
    <3>1. CASE done
      BY <1>8, <3>1 DEF ScheduleRetry, Return, Goto, TypeOK, Process
    <3>2. CASE ~done
      BY <1>8, <3>2 DEF ScheduleRetry, FreeTimers, StoppableTimers, TypeOK, Process
    <3> QED
      BY <3>1, <3>2
  <2>5. ListStillGood'
    BY <1>2, <2>1, <2>2, <2>3 DEF ListStillGood, DispatchPCs
  <2>6. RunsShown'
    BY <1>2, <2>1, <2>2, <2>3 DEF RunsShown, HandsFreePCs
  <2> QED
    BY <1>2, <2>5, <2>6
<1>9. ~Trigger(Main)
  BY DEF Trigger
<1> QED
  BY <1>1, <1>4, <1>5, <1>6, <1>7, <1>8, <1>9 DEF DispatchStep

\* Main goes on with nothing in hand.
LEMMA CalmQuiet ==
  ASSUME CalmInv, UNCHANGED <<runs, board, running, cancelled>>, list' \subseteq list,
         \A h \in Callbacks : pc'[h] \in {"idle", pc[h]},
         pc[Main] # "mark",
         pc'[Main] \in {"sleep", "reconcile", "drop_slot", "scan", "draining", "drained", "forced"}
  PROVE  CalmInv'
<1> USE DEF CalmInv
<1>1. Busy' = Busy /\ OneRunPerTask'
  BY NoRunChange
<1>3. ListStillGood'
  BY <1>1 DEF ListStillGood, DispatchPCs
<1>4. RunsShown'
  BY <1>1 DEF RunsShown, HandsFreePCs
<1> QED
  BY <1>1, <1>3, <1>4

LEMMA CalmRecovery ==
  ASSUME Calm, Undisturbed', Settled, CalmInv, UNCHANGED runs,
         RecoverFetch \/ (\E e \in Entries : RecoverTask(e))
  PROVE  CalmInv'
<1> USE OrchestratorAssumption DEF CalmInv, Settled, ServiceTypeOK
<1>1. Busy' = Busy /\ OneRunPerTask' /\ Busy = {}
  BY NoRunChange DEF RecoverFetch, RecoverTask, ListStillGood
<1>2. /\ UNCHANGED <<running, cancelled>>
      /\ \A h \in Callbacks : pc'[h] = pc[h]
      /\ pc'[Main] \in {"recover", "reconcile"}
      /\ list' \subseteq list \/ list' = Fetched(ProcessingTasks)
  BY DEF RecoverFetch, RecoverTask, BeginTick, sharedVars, localVars, Jump, Goto, TypeOK, Process
<1>5. ListStillGood'
  BY <1>1, <1>2 DEF ListStillGood
<1>6. RunsShown'
  BY <1>1, <1>2 DEF RunsShown, HandsFreePCs
<1> QED
  BY <1>1, <1>5, <1>6

LEMMA CalmReconcile ==
  ASSUME Calm, Undisturbed', Settled, CalmInv, UNCHANGED runs,
         (\E t \in Tasks : ReconcileFetch(t)) \/ CheckPR \/ Advance \/ DropState \/ DropSlot
  PROVE  CalmInv'
<1> USE OrchestratorAssumption DEF CalmInv, Settled, ServiceTypeOK
<1>1. Busy' = Busy /\ OneRunPerTask'
  BY NoRunChange
<1>2. ASSUME NEW t \in Tasks, ReconcileFetch(t) PROVE CalmInv'
  <2>1. /\ UNCHANGED <<board, running, list, cancelled>>
        /\ \A h \in Callbacks : pc'[h] = pc[h]
        /\ pc[Main] = "reconcile"
        /\ \/ pc'[Main] = "reconcile"
           \/ /\ pc'[Main] \in {"check_pr", "drop_state"} /\ task'[Main] = t /\ ~cancelled
              /\ NeedsPRCheck(board[t]) \/ ~ReconcileKeeps(board[t])
    BY <1>2 DEF ReconcileFetch, Reconciled, CallSucceeds, Return, Goto, sharedVars, TypeOK, Process
  <2>2. pc'[Main] # "reconcile" => t \notin Busy
    BY <2>1, Roles DEF RunsShown
  <2>4. ListStillGood'
    BY <1>1, <2>1 DEF ListStillGood, DispatchPCs
  <2>5. RunsShown'
    BY <1>1, <2>1, <2>2 DEF RunsShown, HandsFreePCs
  <2> QED
    BY <1>1, <2>4, <2>5
<1>3. CASE CheckPR \/ DropState
  <2>1. /\ UNCHANGED <<board, list, cancelled>>
        /\ \A h \in Callbacks : pc'[h] = pc[h]
        /\ pc[Main] \in {"check_pr", "drop_state"} /\ task[Main] \notin Busy
        /\ running' = running \/ running' = running \ {task[Main]}
        /\ \/ pc'[Main] \in {"reconcile", "drop_slot"}
           \/ pc'[Main] = "advance" /\ task'[Main] = task[Main]
    BY <1>3 DEF CheckPR, DropState, StateRelease, Reconciled, Return, Jump, Goto, sharedVars, callVars,
                TypeOK, Process, RunsShown, HandsFreePCs
  <2>4. ListStillGood'
    BY <1>1, <2>1 DEF ListStillGood, DispatchPCs
  <2>5. RunsShown'
    BY <1>1, <2>1 DEF RunsShown, HandsFreePCs
  <2> QED
    BY <1>1, <2>4, <2>5
<1>4. CASE Advance
  <2>1. /\ UNCHANGED <<running, list, cancelled>>
        /\ \A h \in Callbacks : pc'[h] = pc[h]
        /\ pc[Main] = "advance" /\ task[Main] \notin Busy
        /\ \/ pc'[Main] = "reconcile" /\ cancelled
           \/ /\ pc'[Main] = "drop_state" /\ task'[Main] = task[Main]
              /\ board' = Written(task[Main], MergedStatusFor(phase[Main]))
    BY <1>4, CalmCalls DEF Advance, WriteSucceeds, WriteFails, Reconciled, Return, Jump, Goto,
                sharedVars, TypeOK, Process, RunsShown, HandsFreePCs
  <2>2. cancelled \/ \A t \in Busy : board'[t] = board[t]
    BY <2>1 DEF Written, TypeOK, Busy
  <2>4. ListStillGood'
    BY <1>1, <2>1 DEF ListStillGood, DispatchPCs
  <2>5. RunsShown'
    BY <1>1, <2>1, <2>2 DEF RunsShown, HandsFreePCs
  <2> QED
    BY <1>1, <2>4, <2>5
<1>5. CASE DropSlot
  BY <1>5, CalmQuiet DEF DropSlot, callVars, loopVars, Return, Goto, TypeOK, Process
<1> QED
  BY <1>2, <1>3, <1>4, <1>5

LEMMA CalmScan ==
  ASSUME Calm, Undisturbed', Settled, CalmInv, UNCHANGED runs,
         Poll \/ (\E e \in Entries : ScanDispatch(e))
  PROVE  CalmInv'
<1> USE OrchestratorAssumption DEF CalmInv, Settled, ServiceTypeOK
<1>1. Busy' = Busy /\ OneRunPerTask'
  BY NoRunChange
<1>2. CASE Poll
  <2>1. /\ UNCHANGED <<board, running, cancelled>>
        /\ \A h \in Callbacks : pc'[h] = pc[h]
        /\ pc[Main] = "reconcile" /\ pc'[Main] \in {"scan", "sleep"}
        /\ list' = list \/ (list' = Fetched(WaitingTasks) /\ ~cancelled)
    BY <1>2 DEF Poll, CallSucceeds, Jump, Goto, sharedVars, TypeOK, Process
  <2>2. ~cancelled => \A e \in Fetched(WaitingTasks) : e.task \notin Busy
    BY Roles DEF Fetched, WaitingTasks, RunsShown
  <2>5. ListStillGood'
    BY <1>1, <2>1, <2>2 DEF ListStillGood, DispatchPCs
  <2>6. RunsShown'
    BY <1>1, <2>1 DEF RunsShown, HandsFreePCs
  <2> QED
    BY <1>1, <2>5, <2>6
<1>3. ASSUME NEW e \in Entries, ScanDispatch(e) PROVE CalmInv'
  <2>1. /\ UNCHANGED <<board, running, cancelled>>
        /\ \A h \in Callbacks : pc'[h] = pc[h]
        /\ pc[Main] = "scan" /\ pc'[Main] = "claim" /\ task'[Main] = e.task
        /\ e \in list /\ list' = list \ {e}
    BY <1>3 DEF ScanDispatch, Goto, sharedVars, callVars, TypeOK, Process
  <2>3. ListStillGood'
    BY <1>1, <2>1 DEF ListStillGood, DispatchPCs
  <2>4. RunsShown'
    BY <1>1, <2>1 DEF RunsShown, HandsFreePCs, ListStillGood
  <2> QED
    BY <1>1, <2>3, <2>4
<1> QED
  BY <1>2, <1>3

LEMMA CalmMain ==
  ASSUME Calm, Undisturbed', Settled, CalmInv, ServedMain
  PROVE  CalmInv'
<1> USE OrchestratorAssumption DEF Settled, ServiceTypeOK
<1>1. MainStep /\ UNCHANGED runs
  BY DEF ServedMain, actorVars
<1>2. CASE Recovered \/ TickStart
  BY <1>1, <1>2, CalmQuiet
  DEF Recovered, TickStart, BeginTick, sharedVars, callVars, Jump, Goto, TypeOK, Process
<1>3. CASE StartShutdown
  BY <1>1, <1>3, CalmQuiet DEF StartShutdown, callVars, loopVars, TypeOK, Process
<1>4. CASE FinishShutdown
  BY <1>1, <1>4, CalmQuiet
  DEF FinishShutdown, sharedVars, callVars, loopVars, Jump, Goto, TypeOK, Process
<1>5. CASE \E e \in Entries : ScanSkip(e)
  BY <1>1, <1>5, CalmQuiet DEF ScanSkip, sharedVars, callVars, localVars
<1>6. CASE ScanDone
  BY <1>1, <1>6, CalmQuiet
  DEF ScanDone, sharedVars, callVars, loopVars, Jump, Goto, TypeOK, Process
<1> QED
  BY <1>1, <1>2, <1>3, <1>4, <1>5, <1>6, CalmRecovery, CalmReconcile, CalmScan DEF MainStep

\* A callback runs only when the process is being stopped.
LEMMA CalmCallback ==
  ASSUME Calm, Undisturbed', Settled, CalmInv, NEW h \in Callbacks, UNCHANGED runs,
         Fire(h) \/ CallbackStep(h)
  PROVE  CalmInv'
<1> USE OrchestratorAssumption DEF CalmInv, Settled, ServiceTypeOK
<1>1. /\ UNCHANGED <<board, running, list, cancelled>>
      /\ pc'[Main] = pc[Main] /\ task'[Main] = task[Main]
      /\ \A g \in Callbacks : g # h => pc'[g] = pc[g]
      /\ cancelled /\ pc'[h] \in {"idle", "fired", "fetch", "reschedule"}
  BY DEF OnlyMainDispatches, Fire, CallbackStep, HandleRetry, RetryFetch, EnterDispatch, GiveUp,
         CallSucceeds, Return, Jump, Goto, sharedVars, callVars, loopVars, TypeOK, Process
<1>2. Busy' = Busy /\ OneRunPerTask'
  BY NoRunChange
<1>4. ListStillGood'
  BY <1>1, <1>2 DEF ListStillGood
<1>5. RunsShown'
  BY <1>1, <1>2 DEF RunsShown
<1> QED
  BY <1>2, <1>4, <1>5

\* Signals, people, and runs that report or vanish.
LEMMA CalmOthers ==
  ASSUME Calm, Undisturbed', Settled, CalmInv, (Environment /\ UNCHANGED actorVars) \/ Actors
  PROVE  CalmInv'
<1> USE OrchestratorAssumption DEF CalmInv, Settled, ServiceTypeOK
<1> DEFINE Still == UNCHANGED <<running, list, pc, task>>
<1>0. ASSUME Still, cancelled => cancelled', Busy' \subseteq Busy, OneRunPerTask',
             \A u \in Busy' : board'[u] = board[u] \/ cancelled',
             \A u \in Tasks : pc[Main] = "trigger" /\ u = task[Main]
                                => board'[u] = board[u] \/ cancelled'
      PROVE  CalmInv'
  <2>2. ListStillGood'
    BY <1>0 DEF ListStillGood
  <2>3. RunsShown'
    <3>1. pc[Main] = "trigger" => task[Main] \in Tasks
      BY DEF TypeOK, LocalsOK, Process, DispatchPCs
    <3> QED
      BY <1>0, <3>1 DEF RunsShown
  <2> QED
    BY <1>0, <2>2, <2>3
<1>1. CASE Cancel /\ UNCHANGED actorVars
  <2>1. Busy' = Busy /\ OneRunPerTask'
    BY <1>1, NoRunChange DEF actorVars
  <2> QED
    BY <1>0, <1>1, <2>1 DEF Cancel, sharedVars, callVars, localVars, loopVars
<1>2. ASSUME NEW t \in Tasks, NEW status \in Statuses, BoardMove(t, status), UNCHANGED actorVars
      PROVE  CalmInv'
  <2>1. Busy' = Busy /\ OneRunPerTask'
    BY <1>2, NoRunChange DEF actorVars
  <2>2. ~IsProcessingStatus(board[t]) /\ \A u \in Tasks : u # t => board'[u] = board[u]
    BY <1>2 DEF BoardMove, Calm, Written, TypeOK
  <2>3. \A u \in Busy' : board'[u] = board[u] \/ cancelled
    BY <2>1, <2>2 DEF RunsShown, Busy
  <2>4. pc[Main] = "trigger" => board'[task[Main]] = board[task[Main]] \/ cancelled
    BY <2>2 DEF RunsShown, TypeOK, LocalsOK, Process, DispatchPCs
  <2> QED
    BY <1>0, <1>2, <2>1, <2>3, <2>4 DEF BoardMove, sharedVars, localVars, loopVars
<1>3. ASSUME NEW t \in Tasks, NEW ph \in Phases,
             RunSucceeds(t, ph) \/ RunFails(t, ph) \/ RunVanishes(t, ph)
      PROVE  CalmInv'
  <2>1. t \in Busy /\ Busy' = Busy \ {t} /\ OneRunPerTask'
    BY <1>3, Ending DEF RunSucceeds, RunFails, RunVanishes
  <2>2. Still /\ cancelled' = cancelled /\ \A u \in Tasks : u # t => board'[u] = board[u]
    BY <1>3 DEF RunSucceeds, RunFails, RunVanishes, Written, TypeOK, vars, sharedVars, localVars, loopVars
  <2>3. pc[Main] = "trigger" => task[Main] # t
    BY <2>1 DEF RunsShown, HandsFreePCs
  <2> QED
    BY <1>0, <2>1, <2>2, <2>3 DEF Busy
<1>4. ASSUME NEW t \in Tasks, NEW ph \in Phases, MergePR(t, ph) PROVE CalmInv'
  <2>1. Busy' = Busy /\ OneRunPerTask'
    BY <1>4, NoRunChange DEF MergePR
  <2> QED
    BY <1>0, <1>4, <2>1 DEF MergePR, vars
<1>5. ~Restart /\ ~(\E t \in Tasks, ph \in Phases : RunFailsLate(t, ph))
  BY DEF Restart, RunFailsLate, Undisturbed
<1> QED
  BY <1>1, <1>2, <1>3, <1>4, <1>5 DEF Environment, Actors

LEMMA CalmStutter == CalmInv /\ UNCHANGED serviceVars => CalmInv'
<1> SUFFICES ASSUME CalmInv, UNCHANGED serviceVars PROVE CalmInv'
  OBVIOUS
<1>1. Busy' = Busy /\ OneRunPerTask'
  BY NoRunChange DEF serviceVars, actorVars, CalmInv
<1> QED
  BY <1>1 DEF CalmInv, ListStillGood, RunsShown, serviceVars, vars

LEMMA CalmNext ==
  ASSUME Calm, Undisturbed', Settled, CalmInv, [ServiceStep]_serviceVars PROVE CalmInv'
<1>1. ASSUME NEW p \in Process, ServedDispatch(p) PROVE CalmInv'
  BY <1>1, CalmTrigger, CalmMainDispatch, CalmCallbackDispatch DEF Process
<1>2. ASSUME NEW h \in Callbacks, (Fire(h) /\ UNCHANGED actorVars) \/ ServedCallback(h) PROVE CalmInv'
  BY <1>2, CalmCallback DEF ServedCallback, actorVars
<1>3. Terminated /\ UNCHANGED actorVars => UNCHANGED serviceVars
  BY DEF Terminated, serviceVars
<1> QED
  BY <1>1, <1>2, <1>3, CalmMain, CalmOthers, CalmStutter DEF ServiceStep

LEMMA ServiceTypeAtStart == ServiceInit => ServiceTypeOK
<1> SUFFICES ASSUME ServiceInit PROVE ServiceTypeOK
  OBVIOUS
<1>1. board \in [Tasks -> Statuses] /\ faults \in 0 .. MaxFaults
  BY OrchestratorAssumption DEF ServiceInit, Init
<1>2. TypeOK
  BY <1>1, GuaranteesAtStart DEF Guarantees, ServiceInit, Init
<1>3. runs \in Counters /\ failing \in Counters
  BY DEF ServiceInit, Counters
<1>4. prs \in [Tasks -> [Phases -> SUBSET {"open", "merged"}]]
  BY DEF ServiceInit
<1> QED
  BY <1>2, <1>3, <1>4, ServiceAssumption DEF ServiceInit, ServiceTypeOK

\* The state of the whole service stays well typed, crashes and reports included.
THEOREM ServiceTypeCorrect == ServiceSpec => []ServiceTypeOK
BY ServiceTypeAtStart, ServiceTypeNext, PTL DEF ServiceSpec

LEMMA CalmAtStart == ServiceInit => CalmInv
<1> SUFFICES ASSUME ServiceInit PROVE CalmInv
  OBVIOUS
<1>1. \A t \in Tasks : runs[t]["SPEC"] = 0 /\ runs[t]["CODE"] = 0
  BY DEF ServiceInit, Phases
<1>2. Busy = {} /\ OneRunPerTask
  BY <1>1 DEF Busy, HasRun, OneRunPerTask, LiveRuns, Phases
<1>3. /\ pc[Main] = "boot" /\ list = {}
      /\ \A h \in Callbacks : pc[h] = "idle"
  BY OrchestratorAssumption DEF ServiceInit, Init, Process
<1> QED
  BY <1>2, <1>3 DEF CalmInv, OnlyMainDispatches, ListStillGood, RunsShown, HandsFreePCs, DispatchPCs

\* Failures, crashes and late failures are counted, never forgotten.
LEMMA CountsStay == ServiceTypeOK /\ [ServiceStep]_serviceVars => (Undisturbed' => Undisturbed)
<1> SUFFICES ASSUME ServiceTypeOK, [ServiceStep]_serviceVars, Undisturbed' PROVE Undisturbed
  OBVIOUS
<1>1. faults = 0
  <2>1. CASE [Next]_vars
    BY <2>1, FaultsStay DEF ServiceTypeOK, Undisturbed
  <2>2. CASE Report \/ Restart
    BY <2>2 DEF Report, Restart, callVars, Undisturbed
  <2> QED
    BY <2>1, <2>2, StepKinds DEF ServiceTypeOK
<1>2. /\ restarts' = restarts \/ restarts' = restarts + 1
      /\ late' = late \/ late' = late + 1
  BY DEF ServiceStep, ServedMain, ServedDispatch, ServedCallback, Actors, RunSucceeds, RunFails,
     RunFailsLate, RunVanishes, MergePR, Restart, actorVars, serviceVars
<1>3. restarts \in Nat /\ late \in Nat
  BY DEF ServiceTypeOK
<1> QED
  BY <1>1, <1>2, <1>3 DEF Undisturbed

LEMMA CalmAlways == ASSUME Calm PROVE ServiceSpec => [](Undisturbed => CalmInv)
<1>1. /\ Guarantees /\ ServiceTypeOK /\ (Undisturbed => CalmInv) /\ [ServiceStep]_serviceVars
      => (Undisturbed => CalmInv)'
  <2> SUFFICES ASSUME Guarantees, ServiceTypeOK, Undisturbed => CalmInv, [ServiceStep]_serviceVars, Undisturbed'
               PROVE  CalmInv'
    OBVIOUS
  <2>1. Undisturbed
    BY CountsStay
  <2>2. Settled
    BY <2>1 DEF Undisturbed, Guarantees, FaultFree, Settled
  <2> QED
    BY <2>1, <2>2, CalmNext
<1> QED
  BY <1>1, GuaranteesAlways, ServiceTypeCorrect, CalmAtStart, StepsOfService, PTL DEF ServiceSpec

\* As long as no call has failed, no process has crashed and no run has failed late, no
\* run is lost sight of: its task is running, or about to be marked so.
THEOREM RunsStayTracked == ASSUME Calm PROVE ServiceSpec => []RunsTracked
<1>1. (Undisturbed => CalmInv) => RunsTracked
  BY DEF CalmInv, RunsShown, RunsTracked, Busy
<1> QED
  BY <1>1, CalmAlways, PTL

-----------------------------------------------------------------------------
(* No task is forgotten *)

\* What p's step does not touch goes on being handled.
LEMMA HandledStays ==
  ASSUME NEW p \in Process, NEW t \in Tasks, Handled(t), board'[t] = board[t],
         \A q \in Process \ {p} : pc[q] \in {"trigger", "revert", "boot", "recover"}
                                    => pc'[q] = pc[q] /\ task'[q] = task[q],
         pc[p] \in {"trigger", "revert"} => task[p] # t,
         p = Main => pc[Main] \notin {"boot", "recover"},
         p # Main => list' = list
  PROVE  Handled(t)'
<1>1. ASSUME NEW q \in Process, pc[q] \in {"trigger", "revert"}, task[q] = t PROVE Handled(t)'
  BY <1>1 DEF Handled
<1>2. CASE pc[Main] = "boot"
  BY <1>2 DEF Handled, Process
<1>3. CASE pc[Main] = "recover" /\ [task |-> t, phase |-> PhaseFromStatus(board[t])] \in list
  BY <1>3 DEF Handled, Process
<1> QED
  BY <1>1, <1>2, <1>3 DEF Handled

\* A step that leaves t's status, and whoever looks after t, alone.
LEMMA StillHandled ==
  ASSUME NEW t \in Tasks, UNCHANGED <<pc, task, list>>, board'[t] = board[t], Handled(t)
  PROVE  Handled(t)'
BY DEF Handled

LEMMA RealMain ==
  ASSUME TypeOK, MainStep, NEW t \in Tasks, IsProcessingStatus(board'[t]), ~Handled(t)'
  PROVE  /\ board'[t] = board[t]
         /\ Handled(t) => GivenUp(t)
<1> USE OrchestratorAssumption
<1>1. board'[t] = board[t]
  <2>1. ASSUME NEW e \in Entries, RecoverTask(e) PROVE board'[t] = board[t]
    <3>1. board' = board \/ board' = Written(e.task, ErrorStatusFor(e.phase))
      BY <2>1 DEF RecoverTask, WriteSucceeds, WriteFails
    <3> QED
      BY <3>1, Roles DEF Written, TypeOK, Entries
  <2>2. CASE Advance
    <3>1. board' = board \/ board' = Written(task[Main], MergedStatusFor(phase[Main]))
      BY <2>2 DEF Advance, WriteSucceeds, WriteFails
    <3> QED
      BY <3>1, Roles DEF Written, TypeOK
  <2>3. CASE ~Advance /\ ~(\E e \in Entries : RecoverTask(e))
    BY <2>3 DEF MainStep, RecoverFetch, Recovered, TickStart, StartShutdown, FinishShutdown,
       ReconcileFetch, CheckPR, DropState, DropSlot, Poll, ScanSkip, ScanDispatch, ScanDone, callVars
  <2> QED
    BY <2>1, <2>2, <2>3
<1>2. pc[Main] \notin {"trigger", "revert"}
  BY DEF MainStep, RecoverFetch, RecoverTask, Recovered, TickStart, StartShutdown, FinishShutdown,
     ReconcileFetch, CheckPR, Advance, DropState, DropSlot, Poll, ScanSkip, ScanDispatch, ScanDone
<1>3. ASSUME NEW h \in Callbacks, pc[h] \in {"trigger", "revert"} PROVE pc'[h] = pc[h] /\ task'[h] = task[h]
  <2>1. CASE StartShutdown
    BY <1>3, <2>1 DEF StartShutdown, Process
  <2>2. CASE ~StartShutdown
    BY <2>2 DEF MainStep, RecoverFetch, RecoverTask, Recovered, TickStart, FinishShutdown, ReconcileFetch,
       CheckPR, Advance, DropState, DropSlot, Poll, ScanSkip, ScanDispatch, ScanDone, BeginTick, Reconciled,
       Jump, Goto, Return, localVars, TypeOK, Process
  <2> QED
    BY <2>1, <2>2
<1>4. CASE \E p \in Process : pc[p] \in {"trigger", "revert"} /\ task[p] = t
  BY <1>2, <1>3, <1>4 DEF Handled, Process
<1>5. CASE pc[Main] = "boot"
  <2>1. RecoverFetch
    BY <1>5 DEF MainStep, RecoverTask, Recovered, TickStart, StartShutdown, FinishShutdown,
       ReconcileFetch, CheckPR, Advance, DropState, DropSlot, Poll, ScanSkip, ScanDispatch, ScanDone
  <2>2. CASE list' = Fetched(ProcessingTasks) /\ Jump(Main, "recover")
    <3>1. pc'[Main] = "recover"
      BY <2>2 DEF Jump, Goto, TypeOK, Process
    <3>2. [task |-> t, phase |-> PhaseFromStatus(board'[t])] \in list'
      BY <1>1, <2>2 DEF Fetched, ProcessingTasks
    <3> QED
      BY <3>1, <3>2 DEF Handled
  <2>3. CASE BeginTick
    <3>1. pc'[Main] = "reconcile"
      BY <2>3 DEF BeginTick, Jump, Goto, TypeOK, Process
    <3> QED
      BY <1>1, <1>5, <3>1 DEF GivenUp
  <2> QED
    BY <2>1, <2>2, <2>3 DEF RecoverFetch
<1>6. CASE pc[Main] = "recover" /\ [task |-> t, phase |-> PhaseFromStatus(board[t])] \in list
  <2>1. (\E e \in Entries : RecoverTask(e)) /\ UNCHANGED pc
    BY <1>6 DEF MainStep, RecoverFetch, RecoverTask, Recovered, TickStart, StartShutdown, FinishShutdown,
       ReconcileFetch, CheckPR, Advance, DropState, DropSlot, Poll, ScanSkip, ScanDispatch, ScanDone,
       localVars
  <2>2. [task |-> t, phase |-> PhaseFromStatus(board[t])] \notin list'
    BY <1>1, <1>6, <2>1 DEF Handled
  <2>3. \E e \in list \ list' : e.task = t
    BY <1>6, <2>2
  <2> QED
    BY <1>1, <1>6, <2>3 DEF GivenUp
<1> QED
  BY <1>1, <1>4, <1>5, <1>6 DEF Handled

LEMMA RealDispatch ==
  ASSUME ServiceTypeOK, NEW p \in Process, ServedDispatch(p),
         NEW t \in Tasks, IsProcessingStatus(board'[t]), ~HasRun(t)', ~Handled(t)'
  PROVE  \/ GivenUp(t)
         \/ board'[t] = board[t] /\ ~HasRun(t) /\ ~Handled(t)
<1> USE OrchestratorAssumption DEF ServiceTypeOK
<1>1. /\ pc[p] \in DispatchPCs \cup {"reschedule"}
      /\ task[p] \in Tasks /\ phase[p] \in Phases
  BY DEF TypeOK, LocalsOK, Process, DispatchPCs, CallbackPCs, ServedDispatch, DispatchStep, Claim, Acquire,
         Unclaim, Update, Trigger, Revert, ReleaseState, ReleaseSlot, MarkRunning, ScheduleRetry
<1>2. /\ \A q \in Process \ {p} : pc[q] \in {"trigger", "revert", "boot", "recover"}
                                    => pc'[q] = pc[q] /\ task'[q] = task[q]
      /\ p # Main => list' = list
  <2>1. CASE ScheduleRetry(p)
    <3>1. CASE done
      BY <2>1, <3>1 DEF ScheduleRetry, Return, Goto, loopVars, TypeOK, Process
    <3>2. CASE ~done
      BY <2>1, <3>2 DEF ScheduleRetry, FreeTimers, StoppableTimers, loopVars, TypeOK, Process
    <3> QED
      BY <3>1, <3>2
  <2>2. CASE ~ScheduleRetry(p)
    BY <2>2 DEF ServedDispatch, DispatchStep, Claim, Acquire, Unclaim, Update, Trigger, Revert, ReleaseState,
       ReleaseSlot, MarkRunning, Jump, Goto, Return, loopVars, TypeOK, Process
  <2> QED
    BY <2>1, <2>2
<1>3. p = Main => pc[Main] \notin {"boot", "recover"}
  BY <1>1 DEF DispatchPCs
<1>4. ASSUME board'[t] = board[t], pc[p] \in {"trigger", "revert"} => task[p] # t PROVE ~Handled(t)
  BY <1>2, <1>3, <1>4, HandledStays
<1>5. CASE pc[p] = "trigger"
  <2>1. Trigger(p) /\ RunsAfter(p) /\ board' = board
    BY <1>5 DEF ServedDispatch, DispatchStep, Claim, Acquire, Unclaim, Update, Trigger, Revert,
           ReleaseState, ReleaseSlot, MarkRunning, ScheduleRetry
  <2>2. task[p] # t
    <3>1. CASE pc'[p] = "revert"
      <4>1. task'[p] = task[p]
        BY <2>1 DEF Trigger, Jump
      <4> QED
        BY <3>1, <4>1 DEF Handled
    <3>2. CASE pc'[p] = "mark"
      <4>1. RunStarted(task[p], phase[p])
        BY <1>5, <2>1, <3>2 DEF RunsAfter
      <4>2. runs'[task[p]][phase[p]] = runs[task[p]][phase[p]] + 1 /\ runs[task[p]][phase[p]] \in Nat
        BY <1>1, <4>1 DEF RunStarted, Counters
      <4> QED
        BY <1>1, <4>2 DEF HasRun
    <3> QED
      BY <2>1, <3>1, <3>2 DEF Trigger, Jump, Goto, TypeOK
  <2>3. runs'[t] = runs[t]
    BY <1>1, <2>1, <2>2 DEF RunsAfter, RunStarted, Counters
  <2> QED
    BY <1>4, <2>1, <2>2, <2>3 DEF HasRun
<1>6. CASE pc[p] # "trigger"
  <2>1. UNCHANGED runs
    BY <1>6 DEF ServedDispatch, RunsAfter
  <2>2. CASE Update(p) /\ t = task[p]
    <3>1. pc[p] = "update" /\ task' = task /\ pc'[p] \in {"trigger", "release_state"}
      BY <2>2 DEF Update, Jump, Goto, TypeOK
    <3>2. pc'[p] # "trigger"
      BY <2>2, <3>1 DEF Handled
    <3> QED
      BY <2>2, <3>1, <3>2 DEF GivenUp
  <2>3. CASE Revert(p) /\ t = task[p]
    <3>1. pc[p] = "revert" /\ pc'[p] = "release_state"
      BY <2>3 DEF Revert, Jump, Goto, TypeOK
    <3> QED
      BY <2>3, <3>1 DEF GivenUp
  <2>4. CASE (Update(p) \/ Revert(p)) /\ t # task[p]
    <3>1. board'[t] = board[t]
      BY <2>4 DEF Update, Revert, WriteSucceeds, WriteFails, Written, TypeOK
    <3> QED
      BY <1>4, <2>1, <2>4, <3>1 DEF HasRun
  <2>5. CASE ~Update(p) /\ ~Revert(p)
    <3>1. board' = board /\ pc[p] \notin {"trigger", "revert"}
      BY <1>6, <2>5 DEF ServedDispatch, DispatchStep, Claim, Acquire, Unclaim, Trigger,
         ReleaseState, ReleaseSlot, MarkRunning, ScheduleRetry, callVars
    <3> QED
      BY <1>4, <2>1, <3>1 DEF HasRun
  <2> QED
    BY <2>2, <2>3, <2>4, <2>5
<1> QED
  BY <1>5, <1>6

\* Whoever looks after a task in a processing status goes on doing so, hands it on, takes
\* the status back or gives the task up where GivenUp says.
LEMMA KeptOrGivenUp ==
  ASSUME Calm, ServiceTypeOK, ServiceStep, NEW t \in Tasks,
         IsProcessingStatus(board[t]) => HasRun(t) \/ Handled(t) \/ t \in stranded,
         IsProcessingStatus(board'[t]), ~HasRun(t)', ~Handled(t)'
  PROVE  t \in stranded \/ GivenUp(t)
<1> USE OrchestratorAssumption DEF ServiceTypeOK
<1>1. ASSUME board'[t] = board[t], ~HasRun(t), ~Handled(t) PROVE t \in stranded
  BY <1>1
<1>2. ASSUME board'[t] = board[t], UNCHANGED <<pc, task, list>>, runs'[t] = runs[t] PROVE t \in stranded
  <2>1. ~Handled(t) /\ ~HasRun(t)
    BY <1>2, StillHandled DEF HasRun
  <2> QED
    BY <1>1, <1>2, <2>1
<1>3. CASE ServedMain
  <2>1. board'[t] = board[t] /\ (Handled(t) => GivenUp(t))
    BY <1>3, RealMain DEF ServedMain
  <2>2. ~HasRun(t)
    BY <1>3 DEF ServedMain, actorVars, HasRun
  <2> QED
    BY <1>1, <2>1, <2>2
<1>4. ASSUME NEW p \in Process, ServedDispatch(p) PROVE t \in stranded \/ GivenUp(t)
  BY <1>1, <1>4, RealDispatch
<1>5. ASSUME NEW h \in Callbacks, (Fire(h) /\ UNCHANGED actorVars) \/ ServedCallback(h)
      PROVE  t \in stranded
  <2>1. Fire(h) \/ CallbackStep(h)
    BY <1>5 DEF ServedCallback
  <2>2. /\ UNCHANGED <<board, list>>
        /\ pc[h] \notin {"trigger", "revert"}
        /\ \A q \in Process \ {h} : pc'[q] = pc[q] /\ task'[q] = task[q]
    BY <2>1 DEF Fire, CallbackStep, HandleRetry, RetryFetch, EnterDispatch, GiveUp, Return, Jump, Goto,
       callVars, loopVars, TypeOK, Process
  <2>3. h \in Process /\ h # Main
    BY DEF Process
  <2>4. ~Handled(t)
    BY <2>2, <2>3, HandledStays
  <2>5. ~HasRun(t)
    BY <1>5 DEF ServedCallback, actorVars, HasRun
  <2> QED
    BY <1>1, <2>2, <2>4, <2>5
<1>6. CASE Environment /\ UNCHANGED actorVars
  <2>1. board'[t] = board[t]
    BY <1>6 DEF Environment, Cancel, BoardMove, Calm, Written, callVars, TypeOK
  <2> QED
    BY <1>2, <1>6, <2>1 DEF Environment, Cancel, BoardMove, localVars, loopVars, actorVars
<1>7. ASSUME NEW u \in Tasks, NEW ph \in Phases, RunSucceeds(u, ph) \/ RunFails(u, ph) \/ RunFailsLate(u, ph)
      PROVE  t \in stranded
  <2>1. t # u
    BY <1>7, Roles DEF RunSucceeds, RunFails, RunFailsLate, Written, TypeOK
  <2>2. board'[t] = board[t] /\ UNCHANGED <<pc, task, list>>
    BY <1>7, <2>1 DEF RunSucceeds, RunFails, RunFailsLate, Written, TypeOK, localVars, loopVars
  <2>3. runs'[t] = runs[t]
    BY <1>7, <2>1 DEF RunSucceeds, RunFails, RunFailsLate, Ended, Counters
  <2> QED
    BY <1>2, <2>2, <2>3
<1>8. ASSUME NEW u \in Tasks, NEW ph \in Phases, RunVanishes(u, ph) PROVE t \in stranded \/ GivenUp(t)
  <2>1. CASE t = u
    <3>1. HasRun(t)
      BY <1>8, <2>1 DEF RunVanishes, Ended, HasRun
    <3>2. misreports' # misreports
      BY <1>8 DEF RunVanishes, Misreport
    <3> QED
      BY <3>1, <3>2 DEF GivenUp
  <2>2. CASE t # u
    BY <1>2, <1>8, <2>2 DEF RunVanishes, Ended, vars, Counters
  <2> QED
    BY <2>1, <2>2
<1>9. ASSUME NEW u \in Tasks, NEW ph \in Phases, MergePR(u, ph) PROVE t \in stranded
  BY <1>2, <1>9 DEF MergePR, vars
<1>10. ~Restart
  BY DEF Restart, Handled, Process
<1>11. CASE Terminated /\ UNCHANGED actorVars
  BY <1>2, <1>11 DEF Terminated, vars, actorVars
<1> QED
  BY <1>3, <1>4, <1>5, <1>6, <1>7, <1>8, <1>9, <1>10, <1>11 DEF ServiceStep, Actors

\* A task shown as being worked on is, whatever calls fail and whenever the process
\* crashes or is stopped: no interleaving of dispatches, retries, recovery, reports and
\* crashes leaves a task in a processing status with nobody to take it out of it, but for
\* the steps GivenUp names.
THEOREM NoTaskForgotten == ASSUME Calm PROVE ServiceSpec => []ProcessingIsReal
<1>1. ServiceTypeOK /\ ProcessingIsReal /\ [ServiceNext]_allVars => ProcessingIsReal'
  <2> SUFFICES ASSUME ServiceTypeOK, ProcessingIsReal, [ServiceNext]_allVars PROVE ProcessingIsReal'
    OBVIOUS
  <2>1. CASE ServiceNext
    <3> SUFFICES ASSUME NEW t \in Tasks, IsProcessingStatus(board'[t]), ~HasRun(t)', ~Handled(t)'
                 PROVE  t \in stranded'
      BY DEF ProcessingIsReal
    <3>1. t \in stranded \/ GivenUp(t)
      <4>1. IsProcessingStatus(board[t]) => HasRun(t) \/ Handled(t) \/ t \in stranded
        BY DEF ProcessingIsReal
      <4> QED
        BY <2>1, <4>1, KeptOrGivenUp DEF ServiceNext
    <3> QED
      BY <2>1, <3>1 DEF ServiceNext, Stranding
  <2>2. CASE UNCHANGED allVars
    BY <2>2 DEF ProcessingIsReal, HasRun, Handled, allVars, serviceVars, vars, actorVars
  <2> QED
    BY <2>1, <2>2
<1>2. ServiceInit => ProcessingIsReal
  BY OrchestratorAssumption DEF ServiceInit, Init, Process, ProcessingIsReal, Handled
<1> QED
  BY <1>1, <1>2, ServiceTypeCorrect, PTL DEF ServiceSpec

-----------------------------------------------------------------------------
(* No double execution, whatever fails and crashes *)

\* Where a callback still has a run to start, and where a failed dispatch leads to a retry.
RetryPCs == (CallbackPCs \ {"idle"}) \cup {"claim", "acquire", "unclaim", "update"}
UndonePCs == {"revert", "release_state", "release_slot", "schedule"}

\* Main may come to dispatch t: the board lets it, or will not be asked again.
MainMay(t) ==
  \/ ~IsProcessingStatus(board[t])
  \/ pc[Main] = "boot"
  \/ \E e \in list : e.task = t
  \/ pc[Main] \in {"claim", "acquire", "update", "check_pr", "advance"} /\ task[Main] = t

Kinds == {"start", "retry", "undo", "board"}

\* The ways in which one more run of t can come about without another failure.
Chance(p, kind, t) ==
  \/ kind = "start" /\ pc[p] = "trigger" /\ task[p] = t
  \/ /\ ~cancelled
     /\ \/ kind = "retry" /\ task[p] = t /\ (pc[p] \in UndonePCs \/ (p # Main /\ pc[p] \in RetryPCs))
        \/ kind = "undo" /\ task[p] = t /\ pc[p] = "revert"
        \/ kind = "board" /\ p = Main /\ MainMay(t)

Chances(t) == {c \in Process \X Kinds : Chance(c[1], c[2], t)}

\* What lets a task be dispatched again without a failing call.
Upsets == restarts + late

RunsCovered(t) == LiveRuns(t) + Cardinality(Chances(t)) <= 1 + 2 * faults + Upsets

CoverInv == \A t \in Tasks : RunsCovered(t)

LEMMA FiniteChances == \A t : IsFiniteSet(Chances(t))
<1>1. IsFiniteSet(Process)
  <2>1. IsFiniteSet(Callbacks)
    BY OrchestratorAssumption
  <2>2. IsFiniteSet(Callbacks \cup {Main})
    BY <2>1, FS_AddElement
  <2>3. Process = Callbacks \cup {Main}
    BY DEF Process
  <2> QED
    BY <2>2, <2>3
<1>2. IsFiniteSet(Kinds)
  <2>1. IsFiniteSet({"start"})
    BY FS_Singleton
  <2>2. IsFiniteSet({"start"} \cup {"retry"})
    BY <2>1, FS_AddElement
  <2>3. IsFiniteSet(({"start"} \cup {"retry"}) \cup {"undo"})
    BY <2>2, FS_AddElement
  <2>4. IsFiniteSet((({"start"} \cup {"retry"}) \cup {"undo"}) \cup {"board"})
    BY <2>3, FS_AddElement
  <2>5. Kinds = (({"start"} \cup {"retry"}) \cup {"undo"}) \cup {"board"}
    BY DEF Kinds
  <2> QED
    BY <2>4, <2>5
<1>3. IsFiniteSet(Process \X Kinds)
  BY <1>1, <1>2, FS_Product
<1> QED
  <2> TAKE t
  <2>1. Chances(t) \subseteq Process \X Kinds
    BY DEF Chances
  <2> QED
    BY <1>3, <2>1, FS_Subset

Counts == faults \in Nat /\ Upsets \in Nat /\ \A t \in Tasks : LiveRuns(t) \in Nat

LEMMA CountTypes == (ServiceTypeOK => Counts) /\ (ServiceTypeOK' => Counts')
BY OrchestratorAssumption DEF ServiceTypeOK, TypeOK, Counters, LiveRuns, Phases, Counts, Upsets

\* No new way for a run of t to come about.
NoNewChance(t) == \A p \in Process, kind \in Kinds : Chance(p, kind, t)' => Chance(p, kind, t)

LEMMA Covered ==
  ASSUME Counts, Counts', NEW t \in Tasks, RunsCovered(t), NoNewChance(t),
         LiveRuns(t)' = LiveRuns(t), faults' >= faults, Upsets' >= Upsets
  PROVE  RunsCovered(t)'
<1>1. Chances(t)' \subseteq Chances(t)
  BY DEF Chances, NoNewChance
<1>2. Cardinality(Chances(t)') <= Cardinality(Chances(t)) /\ Cardinality(Chances(t)) \in Nat /\ Cardinality(Chances(t)') \in Nat
  BY <1>1, FiniteChances, Subset
<1> QED
  BY <1>2 DEF RunsCovered, Counts

LEMMA ChanceMain ==
  ASSUME TypeOK, MainStep
  PROVE  \A t \in Tasks : NoNewChance(t)
<1>1. ASSUME NEW t \in Tasks PROVE MainMay(t)' => MainMay(t)
  <2> SUFFICES ASSUME MainMay(t)' PROVE MainMay(t)
    OBVIOUS
  <2> USE OrchestratorAssumption, Roles
      DEF MainMay, Jump, Goto, Return, BeginTick, Reconciled, callVars, sharedVars, localVars, loopVars,
          TypeOK, Process, CallSucceeds, CallFails, WriteSucceeds, WriteFails
  <2>1. CASE RecoverFetch
    BY <2>1 DEF RecoverFetch
  <2>2. ASSUME NEW e \in Entries, RecoverTask(e) PROVE MainMay(t)
    <3>1. board' = board \/ board' = Written(e.task, ErrorStatusFor(e.phase))
      BY <2>2 DEF RecoverTask
    <3>2. t = e.task \/ board'[t] = board[t]
      BY <3>1 DEF Written, Entries
    <3> QED
      BY <2>2, <3>2 DEF RecoverTask
  <2>3. CASE Recovered \/ TickStart \/ FinishShutdown \/ ScanDone
    BY <2>3 DEF Recovered, TickStart, FinishShutdown, ScanDone
  <2>4. CASE StartShutdown
    BY <2>4 DEF StartShutdown
  <2>5. ASSUME NEW u \in Tasks, ReconcileFetch(u) PROVE MainMay(t)
    BY <2>5 DEF ReconcileFetch
  <2>6. CASE CheckPR
    BY <2>6 DEF CheckPR
  <2>7. CASE Advance
    <3>1. pc[Main] = "advance" /\ (t = task[Main] \/ board'[t] = board[t])
      BY <2>7 DEF Advance, Written
    <3> QED
      BY <2>7, <3>1 DEF Advance
  <2>8. CASE DropState \/ DropSlot
    BY <2>8 DEF DropState, DropSlot
  <2>9. CASE Poll
    <3>1. CASE UNCHANGED list
      BY <2>9, <3>1 DEF Poll
    <3>2. CASE list' = Fetched(WaitingTasks)
      <4>1. \A e \in list' : ~IsProcessingStatus(board[e.task])
        BY <3>2 DEF Fetched, WaitingTasks
      <4> QED
        BY <2>9, <4>1 DEF Poll
    <3> QED
      BY <2>9, <3>1, <3>2 DEF Poll
  <2>10. ASSUME NEW e \in Entries, ScanSkip(e) \/ ScanDispatch(e) PROVE MainMay(t)
    BY <2>10 DEF ScanSkip, ScanDispatch
  <2> QED
    BY <2>1, <2>2, <2>3, <2>4, <2>5, <2>6, <2>7, <2>8, <2>9, <2>10 DEF MainStep
<1> QED
  BY <1>1, MainHands, OrchestratorAssumption
  DEF NoNewChance, Chance, Process, UndonePCs, RetryPCs, CallbackPCs, MainPCs, ReconcilePCs

\* dispatch between its writes.
LEMMA ChanceLocal ==
  ASSUME TypeOK, NEW p \in Process,
         Claim(p) \/ Acquire(p) \/ Unclaim(p) \/ ReleaseState(p) \/ ReleaseSlot(p) \/ MarkRunning(p)
  PROVE  UNCHANGED faults /\ \A t \in Tasks : NoNewChance(t)
<1> USE OrchestratorAssumption
    DEF Jump, Goto, Return, callVars, loopVars, TypeOK, Process
<1>1. CASE Claim(p)
  BY <1>1 DEF Claim, NoNewChance, Chance, MainMay, UndonePCs, RetryPCs, CallbackPCs
<1>2. CASE Acquire(p)
  BY <1>2 DEF Acquire, NoNewChance, Chance, MainMay, UndonePCs, RetryPCs, CallbackPCs
<1>3. CASE Unclaim(p)
  BY <1>3 DEF Unclaim, NoNewChance, Chance, MainMay, UndonePCs, RetryPCs, CallbackPCs
<1>4. CASE ReleaseState(p)
  BY <1>4 DEF ReleaseState, NoNewChance, Chance, MainMay, UndonePCs, RetryPCs, CallbackPCs
<1>5. CASE ReleaseSlot(p)
  BY <1>5 DEF ReleaseSlot, NoNewChance, Chance, MainMay, UndonePCs, RetryPCs, CallbackPCs
<1>6. CASE MarkRunning(p)
  BY <1>6 DEF MarkRunning, NoNewChance, Chance, MainMay, UndonePCs, RetryPCs, CallbackPCs
<1> QED
  BY <1>1, <1>2, <1>3, <1>4, <1>5, <1>6

\* A new timer takes over the chance of the goroutine that sets it.
LEMMA ChanceSchedule ==
  ASSUME TypeOK, NEW p \in Process, NEW t \in Tasks, ScheduleRetry(p)
  PROVE  /\ UNCHANGED faults
         /\ \/ NoNewChance(t)
            \/ \E x \in Chances(t), y \in Process \X Kinds : Chances(t)' \subseteq (Chances(t) \ {x}) \cup {y}
<1> USE OrchestratorAssumption DEF TypeOK, Process, callVars, loopVars
<1>1. pc[p] \in {"schedule", "reschedule"} /\ UNCHANGED <<board, list, cancelled, faults>>
  BY DEF ScheduleRetry
<1>2. CASE done
  <2>1. /\ pc'[p] \in {"scan", "idle"}
        /\ \A q \in Process \ {p} : pc'[q] = pc[q] /\ task'[q] = task[q]
    BY <1>2 DEF ScheduleRetry, Return, Goto
  <2>2. NoNewChance(t)
    BY <1>1, <2>1 DEF NoNewChance, Chance, MainMay, UndonePCs, RetryPCs, CallbackPCs
  <2> QED
    BY <1>1, <2>2
<1>3. CASE ~done
  <2>1. PICK h \in FreeTimers(p) :
          /\ pc'[h] = "armed" /\ task'[h] = task[p]
          /\ \A q \in Process \ {h} :
               \/ pc'[q] = pc[q] /\ task'[q] = task[q] /\ q # p
               \/ pc'[q] \in {"scan", "idle"}
    BY <1>3 DEF ScheduleRetry, FreeTimers, StoppableTimers
  <2>2. h \in Callbacks /\ (p # Main => h = p)
    BY <2>1 DEF FreeTimers, StoppableTimers
  <2>4. MainMay(t)' => MainMay(t)
    BY <1>1, <2>1, <2>2 DEF MainMay
  <2>5. ASSUME NEW q \in Process, NEW kind \in Kinds, Chance(q, kind, t)'
        PROVE  Chance(q, kind, t) \/ (q = h /\ kind = "retry" /\ task[p] = t /\ ~cancelled)
    BY <1>1, <2>1, <2>2, <2>4, <2>5 DEF Chance, UndonePCs, RetryPCs, CallbackPCs
  <2>6. CASE p # Main
    <3>1. NoNewChance(t)
      BY <1>1, <2>2, <2>5, <2>6 DEF NoNewChance, Chance, UndonePCs, RetryPCs, CallbackPCs
    <3> QED
      BY <1>1, <3>1
  <2>7. CASE p = Main /\ task[p] = t /\ ~cancelled
    <3>1. pc[Main] = "schedule" /\ pc'[Main] = "scan"
      BY <1>1, <1>3, <2>7 DEF ScheduleRetry, FreeTimers, StoppableTimers, CallbackPCs
    <3>2. <<Main, "retry">> \in Chances(t)
      BY <2>7, <3>1 DEF Chances, Kinds, Chance, UndonePCs
    <3>3. ~Chance(Main, "retry", t)'
      BY <3>1 DEF Chance, UndonePCs
    <3>4. Chances(t)' \subseteq (Chances(t) \ {<<Main, "retry">>}) \cup {<<h, "retry">>}
      BY <2>5, <3>3 DEF Chances
    <3>5. <<h, "retry">> \in Process \X Kinds
      BY <2>2 DEF Kinds
    <3> QED
      BY <1>1, <3>2, <3>4, <3>5
  <2>8. CASE task[p] # t \/ cancelled
    <3>1. NoNewChance(t)
      BY <2>5, <2>8 DEF NoNewChance
    <3> QED
      BY <1>1, <3>1
  <2> QED
    BY <2>6, <2>7, <2>8
<1> QED
  BY <1>2, <1>3

\* What a step may do to the chances and the runs of t and leave it covered.
LEMMA CoveredTrade ==
  ASSUME Counts, Counts', NEW t \in Tasks, RunsCovered(t),
         NEW x \in Chances(t), NEW y, Chances(t)' \subseteq (Chances(t) \ {x}) \cup {y},
         LiveRuns(t)' = LiveRuns(t), faults' >= faults, Upsets' >= Upsets
  PROVE  RunsCovered(t)'
<1>1. /\ Cardinality(Chances(t)') <= Cardinality(Chances(t))
      /\ Cardinality(Chances(t)) \in Nat /\ Cardinality(Chances(t)') \in Nat
  BY FiniteChances, Trade
<1> QED
  BY <1>1 DEF RunsCovered, Counts

LEMMA CoveredGain ==
  ASSUME Counts, Counts', NEW t \in Tasks, RunsCovered(t),
         NEW y, Chances(t)' \subseteq Chances(t) \cup {y},
         \/ LiveRuns(t)' = LiveRuns(t) /\ faults' = faults + 1 /\ Upsets' = Upsets
         \/ LiveRuns(t)' = LiveRuns(t) /\ faults' = faults /\ Upsets' = Upsets + 1
         \/ LiveRuns(t)' = LiveRuns(t) - 1 /\ faults' = faults /\ Upsets' = Upsets
  PROVE  RunsCovered(t)'
<1>1. /\ Cardinality(Chances(t)') <= Cardinality(Chances(t)) + 1
      /\ Cardinality(Chances(t)) \in Nat /\ Cardinality(Chances(t)') \in Nat
  BY FiniteChances, Gain
<1> QED
  BY <1>1 DEF RunsCovered, Counts

LEMMA CoveredStart ==
  ASSUME Counts, Counts', NEW t \in Tasks, RunsCovered(t),
         NEW x \in Chances(t), Chances(t)' \subseteq Chances(t) \ {x},
         LiveRuns(t)' <= LiveRuns(t) + 1, faults' = faults, Upsets' = Upsets
  PROVE  RunsCovered(t)'
<1>1. /\ Cardinality(Chances(t)') <= Cardinality(Chances(t)) - 1
      /\ Cardinality(Chances(t)) \in Nat /\ Cardinality(Chances(t)') \in Nat
  BY FiniteChances, Loss
<1> QED
  BY <1>1 DEF RunsCovered, Counts

LEMMA CoveredLost ==
  ASSUME Counts, Counts', NEW t \in Tasks, RunsCovered(t), NEW x \in Chances(t), NEW y, NEW z,
         Chances(t)' \subseteq ((Chances(t) \ {x}) \cup {y}) \cup {z},
         LiveRuns(t)' <= LiveRuns(t) + 1, faults' = faults + 1, Upsets' = Upsets
  PROVE  RunsCovered(t)'
<1> DEFINE S == (Chances(t) \ {x}) \cup {y}
<1>1. IsFiniteSet(S) /\ Cardinality(S) <= Cardinality(Chances(t)) /\ Cardinality(S) \in Nat
  <2>1. IsFiniteSet(Chances(t) \ {x})
    BY FiniteChances, FS_RemoveElement
  <2>2. IsFiniteSet(S)
    BY <2>1, FS_AddElement
  <2> QED
    BY <2>2, FiniteChances, Trade
<1>2. /\ Cardinality(Chances(t)') <= Cardinality(S) + 1
      /\ Cardinality(Chances(t)') \in Nat
  BY <1>1, Gain
<1>3. Cardinality(Chances(t)) \in Nat
  BY FiniteChances, FS_CardinalityType
<1> HIDE DEF S
<1> QED
  BY <1>1, <1>2, <1>3 DEF RunsCovered, Counts

LEMMA CoverUpdate ==
  ASSUME ServiceTypeOK, OneEntry, Counts, Counts', CoverInv, NEW p \in Process, Update(p), UNCHANGED runs, Upsets' = Upsets
  PROVE  CoverInv'
<1> USE OrchestratorAssumption DEF ServiceTypeOK, TypeOK, Process
<1>1. /\ pc[p] = "update" /\ task[p] \in Tasks /\ UNCHANGED <<task, cancelled, list>>
      /\ \A q \in Process \ {p} : pc'[q] = pc[q]
  BY DEF Update, Jump, Goto, loopVars, LocalsOK, DispatchPCs
<1>2. \A t \in Tasks : LiveRuns(t)' = LiveRuns(t)
  BY DEF LiveRuns
<1>4. board' = board \/ board' = Written(task[p], ProcessingStatusFor(phase[p]))
  BY DEF Update, WriteSucceeds, WriteFails
<1>5. ASSUME NEW t \in Tasks PROVE MainMay(t)' => MainMay(t)
  <2>1. board'[t] = board[t] \/ (t = task[p] /\ IsProcessingStatus(board'[t]))
    BY <1>4, Roles DEF Written
  <2> QED
    BY <1>1, <2>1 DEF MainMay, Update, Jump, Goto
<1>6. CASE CallFails /\ cancelled
  <2>1. pc'[p] = "release_state" /\ faults' = faults
    BY <1>1, <1>6 DEF Update, WriteSucceeds, CallSucceeds, Jump, Goto, CallFails
  <2>2. \A t \in Tasks : NoNewChance(t)
    BY <1>1, <1>6, <2>1 DEF NoNewChance, Chance
  <2> QED
    BY <1>2, <2>1, <2>2, Covered DEF CoverInv, Counts
<1>7. CASE CallFails /\ ~cancelled
  <2>1. pc'[p] = "release_state" /\ faults' = faults + 1
    BY <1>1, <1>7 DEF Update, WriteSucceeds, CallSucceeds, Jump, Goto, CallFails
  <2>2. ASSUME NEW t \in Tasks PROVE RunsCovered(t)'
    <3>1. Chances(t)' \subseteq Chances(t) \cup {<<p, "retry">>}
      BY <1>1, <1>5, <2>1 DEF Chances, Chance, RetryPCs, CallbackPCs, UndonePCs
    <3> QED
      BY <1>2, <2>1, <3>1, CoveredGain DEF CoverInv
  <2> QED
    BY <2>2 DEF CoverInv
<1>8. CASE CallSucceeds
  <2>1. ~cancelled /\ faults' = faults
    BY <1>8 DEF CallSucceeds
  <2>2. pc'[p] = "trigger" /\ board' = Written(task[p], ProcessingStatusFor(phase[p]))
    BY <1>1, <2>1 DEF Update, WriteSucceeds, WriteFails, CallFails, Jump, Goto
  <2>3. ASSUME NEW t \in Tasks \ {task[p]} PROVE RunsCovered(t)'
    <3>1. NoNewChance(t)
      BY <1>1, <1>5, <2>2 DEF NoNewChance, Chance
    <3> QED
      BY <1>2, <2>1, <3>1, Covered DEF CoverInv, Counts
  <2>4. ASSUME NEW t \in Tasks, t = task[p] PROVE RunsCovered(t)'
    <3>1. Chances(t)' \subseteq Chances(t) \cup {<<p, "start">>}
      BY <1>1, <1>5, <2>2 DEF Chances, Chance, RetryPCs, CallbackPCs, UndonePCs
    <3>2. CASE p = Main
      <4>1. <<Main, "board">> \in Chances(t)
        BY <1>1, <2>1, <2>4, <3>2 DEF Chances, Kinds, Chance, MainMay
      <4>2. ~MainMay(t)'
        BY <1>1, <2>2, <2>4, <3>2, Roles DEF MainMay, OneEntry, DispatchPCs, Written
      <4>3. <<Main, "board">> \notin Chances(t)'
        BY <4>2 DEF Chances, Chance
      <4>4. Chances(t)' \subseteq (Chances(t) \ {<<Main, "board">>}) \cup {<<p, "start">>}
        BY <3>1, <4>3
      <4>5. RunsCovered(t) /\ LiveRuns(t)' = LiveRuns(t) /\ faults' >= faults /\ Upsets' >= Upsets
        BY <1>2, <2>1 DEF CoverInv, Counts
      <4> QED
        BY <4>1, <4>4, <4>5, CoveredTrade
    <3>3. CASE p # Main
      <4>1. <<p, "retry">> \in Chances(t)
        BY <1>1, <2>1, <2>4, <3>3 DEF Chances, Kinds, Chance, RetryPCs
      <4>2. <<p, "retry">> \notin Chances(t)'
        BY <2>2 DEF Chances, Chance, RetryPCs, UndonePCs, CallbackPCs
      <4>3. Chances(t)' \subseteq (Chances(t) \ {<<p, "retry">>}) \cup {<<p, "start">>}
        BY <3>1, <4>2
      <4>5. RunsCovered(t) /\ LiveRuns(t)' = LiveRuns(t) /\ faults' >= faults /\ Upsets' >= Upsets
        BY <1>2, <2>1 DEF CoverInv, Counts
      <4> QED
        BY <4>1, <4>3, <4>5, CoveredTrade
    <3> QED
      BY <3>2, <3>3
  <2> QED
    BY <2>3, <2>4 DEF CoverInv
<1> QED
  BY <1>6, <1>7, <1>8 DEF Update, WriteSucceeds, WriteFails

LEMMA CoverTrigger ==
  ASSUME ServiceTypeOK, Counts, Counts', CoverInv, NEW p \in Process,
         Trigger(p), RunsAfter(p), Upsets' = Upsets
  PROVE  CoverInv'
<1> USE OrchestratorAssumption DEF ServiceTypeOK, TypeOK, Process
<1>1. /\ pc[p] = "trigger" /\ task[p] \in Tasks /\ phase[p] \in Phases
      /\ UNCHANGED <<board, task, cancelled, list>>
      /\ \A q \in Process \ {p} : pc'[q] = pc[q]
  BY DEF Trigger, Jump, Goto, loopVars, LocalsOK, DispatchPCs
<1>2. \A t \in Tasks : /\ t # task[p] => LiveRuns(t)' = LiveRuns(t)
                       /\ LiveRuns(t)' <= LiveRuns(t) + 1
  <2>1. CASE RunStarted(task[p], phase[p])
    BY <1>1, <2>1 DEF RunStarted, Counters, LiveRuns, Phases
  <2>2. CASE UNCHANGED runs
    BY <1>1, <2>2 DEF Counters, LiveRuns, Phases
  <2> QED
    BY <1>1, <2>1, <2>2 DEF RunsAfter
<1>3. pc'[p] \in {"mark", "revert"}
  BY <1>1 DEF Trigger, Jump, Goto
<1>5. \A t \in Tasks : MainMay(t)' => MainMay(t)
  BY <1>1, <1>3 DEF MainMay
<1>6. faults' \in {faults, faults + 1}
  BY DEF Trigger, CallSucceeds, CallFails
<1>7. ASSUME NEW t \in Tasks \ {task[p]} PROVE RunsCovered(t)'
  <2>1. NoNewChance(t)
    BY <1>1, <1>3, <1>5 DEF NoNewChance, Chance
  <2> QED
    BY <1>2, <1>6, <2>1, Covered DEF CoverInv, Counts
<1>8. ASSUME NEW t \in Tasks, t = task[p] PROVE RunsCovered(t)'
  <2>1. <<p, "start">> \in Chances(t) /\ <<p, "start">> \notin Chances(t)'
    BY <1>1, <1>3, <1>8 DEF Chances, Kinds, Chance
  <2>2. CASE pc'[p] = "mark" \/ cancelled
    <3>1. Chances(t)' \subseteq Chances(t) \ {<<p, "start">>}
      BY <1>1, <1>3, <1>5, <2>1, <2>2 DEF Chances, Chance, RetryPCs, CallbackPCs, UndonePCs
    <3>2. faults' = faults
      BY <1>1, <2>2 DEF Trigger, CallSucceeds, CallFails, Jump, Goto
    <3>3. RunsCovered(t) /\ LiveRuns(t)' <= LiveRuns(t) + 1 /\ Upsets' = Upsets
      BY <1>2, <1>8 DEF CoverInv
    <3> QED
      BY <2>1, <3>1, <3>2, <3>3, CoveredStart
  <2>3. CASE pc'[p] = "revert" /\ ~cancelled
    <3>1. Chances(t)' \subseteq ((Chances(t) \ {<<p, "start">>}) \cup {<<p, "retry">>}) \cup {<<p, "undo">>}
      BY <1>1, <1>3, <1>5, <2>1, <2>3 DEF Chances, Chance, RetryPCs, CallbackPCs, UndonePCs, Kinds
    <3>2. faults' = faults + 1
      BY <1>1, <2>3 DEF Trigger, CallSucceeds, CallFails, Jump, Goto
    <3>3. RunsCovered(t) /\ LiveRuns(t)' <= LiveRuns(t) + 1 /\ Upsets' = Upsets
      BY <1>2, <1>8 DEF CoverInv
    <3> QED
      BY <2>1, <3>1, <3>2, <3>3, CoveredLost
  <2> QED
    BY <1>3, <2>2, <2>3
<1> QED
  BY <1>7, <1>8 DEF CoverInv

LEMMA CoverRevert ==
  ASSUME ServiceTypeOK, Counts, Counts', CoverInv, NEW p \in Process, Revert(p), UNCHANGED runs, Upsets' = Upsets
  PROVE  CoverInv'
<1> USE OrchestratorAssumption DEF ServiceTypeOK, TypeOK, Process
<1>1. /\ pc[p] = "revert" /\ task[p] \in Tasks /\ UNCHANGED <<task, cancelled, list>>
      /\ pc'[p] = "release_state"
      /\ \A q \in Process \ {p} : pc'[q] = pc[q]
  BY DEF Revert, Jump, Goto, loopVars, LocalsOK, DispatchPCs
<1>2. \A t \in Tasks : LiveRuns(t)' = LiveRuns(t)
  BY DEF LiveRuns
<1>4. \A t \in Tasks \ {task[p]} : board'[t] = board[t]
  BY DEF Revert, WriteSucceeds, WriteFails, Written
<1>5. faults' \in {faults, faults + 1}
  BY DEF Revert, WriteSucceeds, WriteFails, CallSucceeds, CallFails
<1>6. ASSUME NEW t \in Tasks, t # task[p] \/ cancelled PROVE RunsCovered(t)'
  <2>1. t # task[p] => (MainMay(t)' => MainMay(t))
    BY <1>1, <1>4 DEF MainMay
  <2>2. NoNewChance(t)
    BY <1>1, <1>6, <2>1 DEF NoNewChance, Chance, UndonePCs, RetryPCs, CallbackPCs
  <2> QED
    BY <1>2, <1>5, <2>2, Covered DEF CoverInv, Counts
<1>7. ASSUME NEW t \in Tasks, t = task[p], ~cancelled PROVE RunsCovered(t)'
  <2>1. <<p, "undo">> \in Chances(t) /\ <<p, "undo">> \notin Chances(t)'
    BY <1>1, <1>7 DEF Chances, Kinds, Chance
  <2>2. Chances(t)' \subseteq (Chances(t) \ {<<p, "undo">>}) \cup {<<Main, "board">>}
    BY <1>1, <1>7, <2>1 DEF Chances, Chance, UndonePCs, RetryPCs, CallbackPCs
  <2>3. RunsCovered(t) /\ LiveRuns(t)' = LiveRuns(t) /\ faults' >= faults /\ Upsets' >= Upsets
    BY <1>2, <1>5 DEF CoverInv, Counts
  <2> QED
    BY <2>1, <2>2, <2>3, CoveredTrade
<1> QED
  BY <1>6, <1>7 DEF CoverInv

LEMMA CoverQuiet ==
  ASSUME Counts, Counts', CoverInv, UNCHANGED runs, Upsets' = Upsets, faults' >= faults,
         \A t \in Tasks : NoNewChance(t)
  PROVE  CoverInv'
<1>1. \A t \in Tasks : LiveRuns(t)' = LiveRuns(t)
  BY DEF LiveRuns
<1>2. Upsets' >= Upsets
  BY DEF Counts
<1> QED
  BY <1>1, <1>2, Covered DEF CoverInv

LEMMA CoverDispatch ==
  ASSUME ServiceTypeOK, OneEntry, Counts, Counts', CoverInv, NEW p \in Process, ServedDispatch(p)
  PROVE  CoverInv'
<1>1. TypeOK /\ Upsets' = Upsets
  BY DEF ServiceTypeOK, ServedDispatch, Upsets
<1>2. CASE Trigger(p)
  BY <1>1, <1>2, CoverTrigger DEF ServedDispatch
<1>3. CASE ~Trigger(p)
  <2>1. UNCHANGED runs
    BY <1>3 DEF ServedDispatch, RunsAfter, DispatchStep, Claim, Acquire, Unclaim, Update, Revert,
                ReleaseState, ReleaseSlot, ScheduleRetry, MarkRunning
  <2>2. CASE Update(p)
    BY <1>1, <2>1, <2>2, CoverUpdate
  <2>3. CASE Revert(p)
    BY <1>1, <2>1, <2>3, CoverRevert
  <2>4. CASE Claim(p) \/ Acquire(p) \/ Unclaim(p) \/ ReleaseState(p) \/ ReleaseSlot(p) \/ MarkRunning(p)
    <3>1. UNCHANGED faults /\ \A t \in Tasks : NoNewChance(t)
      BY <1>1, <2>4, ChanceLocal
    <3> QED
      BY <1>1, <2>1, <3>1, CoverQuiet DEF Counts
  <2>5. CASE ScheduleRetry(p)
    <3>1. ASSUME NEW t \in Tasks PROVE RunsCovered(t)'
      <4>1. /\ UNCHANGED faults
            /\ \/ NoNewChance(t)
               \/ \E x \in Chances(t), y \in Process \X Kinds : Chances(t)' \subseteq (Chances(t) \ {x}) \cup {y}
        BY <1>1, <2>5, ChanceSchedule
      <4>2. RunsCovered(t) /\ LiveRuns(t)' = LiveRuns(t) /\ faults' >= faults /\ Upsets' >= Upsets
        BY <1>1, <2>1, <4>1 DEF CoverInv, LiveRuns, Counts
      <4> QED
        BY <4>1, <4>2, Covered, CoveredTrade
    <3> QED
      BY <3>1 DEF CoverInv
  <2> QED
    BY <1>3, <2>2, <2>3, <2>4, <2>5 DEF ServedDispatch, DispatchStep
<1> QED
  BY <1>2, <1>3

LEMMA ChanceCallback ==
  ASSUME TypeOK, NEW h \in Callbacks, Fire(h) \/ CallbackStep(h)
  PROVE  /\ faults' \in {faults, faults + 1}
         /\ \A t \in Tasks : NoNewChance(t)
<1> USE OrchestratorAssumption DEF TypeOK, Process
<1>1. /\ UNCHANGED <<board, cancelled, list, task>> \/ (UNCHANGED <<board, cancelled, list>> /\ pc'[h] = "idle")
      /\ pc[h] \in RetryPCs
      /\ pc'[h] \in RetryPCs \cup {"idle"}
      /\ \A q \in Process \ {h} : pc'[q] = pc[q] /\ task'[q] = task[q]
      /\ faults' \in {faults, faults + 1}
  BY DEF Fire, CallbackStep, HandleRetry, RetryFetch, EnterDispatch, GiveUp, Jump, Goto, Return,
         CallSucceeds, CallFails, callVars, loopVars, RetryPCs, CallbackPCs
<1>3. ASSUME NEW t \in Tasks PROVE NoNewChance(t)
  <2>1. MainMay(t)' => MainMay(t)
    BY <1>1 DEF MainMay
  <2> QED
    BY <1>1, <2>1 DEF NoNewChance, Chance, RetryPCs, UndonePCs, CallbackPCs
<1> QED
  BY <1>1, <1>3

\* A report may let Main dispatch the task again, but it ends a run, or is counted.
LEMMA CoverReport ==
  ASSUME ServiceTypeOK, Counts, Counts', CoverInv, NEW t \in Tasks, NEW ph \in Phases,
         RunSucceeds(t, ph) \/ RunFails(t, ph) \/ RunFailsLate(t, ph) \/ RunVanishes(t, ph)
  PROVE  CoverInv'
<1>1. /\ UNCHANGED <<pc, task, cancelled, list, faults>>
      /\ \A u \in Tasks \ {t} : board'[u] = board[u]
  BY DEF RunSucceeds, RunFails, RunFailsLate, RunVanishes, vars, localVars, loopVars, Written,
         ServiceTypeOK, TypeOK
<1>2. /\ \A u \in Tasks \ {t} : LiveRuns(u)' = LiveRuns(u)
      /\ \/ LiveRuns(t)' = LiveRuns(t) - 1 /\ Upsets' = Upsets
         \/ LiveRuns(t)' = LiveRuns(t) /\ Upsets' = Upsets + 1
  <2>1. CASE RunFailsLate(t, ph)
    <3>1. UNCHANGED runs /\ restarts' = restarts /\ late' = late + 1 /\ restarts \in Nat /\ late \in Nat
      BY <2>1 DEF RunFailsLate, ServiceTypeOK
    <3> QED
      BY <3>1 DEF LiveRuns, Upsets
  <2>2. CASE ~RunFailsLate(t, ph)
    <3>1. Ended(t, ph) /\ Upsets' = Upsets
      BY <2>2 DEF RunSucceeds, RunFails, RunVanishes, Upsets
    <3> QED
      BY <3>1 DEF ServiceTypeOK, Counters, Ended, LiveRuns, Phases
  <2> QED
    BY <2>1, <2>2
<1>3. Upsets' >= Upsets
  BY <1>2 DEF Counts
<1>4. ASSUME NEW u \in Tasks \ {t} PROVE RunsCovered(u)'
  <2>1. NoNewChance(u)
    BY <1>1 DEF NoNewChance, Chance, MainMay
  <2> QED
    BY <1>1, <1>2, <1>3, <2>1, Covered DEF CoverInv, Counts
<1>5. RunsCovered(t)'
  <2>1. Chances(t)' \subseteq Chances(t) \cup {<<Main, "board">>}
    BY <1>1 DEF Chances, Chance
  <2> QED
    BY <1>1, <1>2, <2>1, CoveredGain DEF CoverInv
<1> QED
  BY <1>4, <1>5 DEF CoverInv

LEMMA CoverRestart ==
  ASSUME ServiceTypeOK, Counts, Counts', CoverInv, Restart
  PROVE  CoverInv'
<1>2. ASSUME NEW t \in Tasks PROVE RunsCovered(t)'
  <2>1. Chances(t)' \subseteq {<<Main, "board">>}
    BY OrchestratorAssumption DEF Restart, Chances, Chance, Process, UndonePCs, RetryPCs, CallbackPCs
  <2>2. Cardinality(Chances(t)') <= 1 /\ Cardinality(Chances(t)') \in Nat
    <3>1. IsFiniteSet({<<Main, "board">>}) /\ Cardinality({<<Main, "board">>}) = 1
      BY FS_Singleton
    <3> QED
      BY <2>1, <3>1, Subset
  <2>3. Cardinality(Chances(t)) \in Nat
    BY FiniteChances, FS_CardinalityType
  <2>4. LiveRuns(t)' = LiveRuns(t) /\ faults' = faults /\ Upsets' = Upsets + 1
    BY DEF Restart, LiveRuns, callVars, ServiceTypeOK, Upsets
  <2> QED
    BY <2>2, <2>3, <2>4 DEF CoverInv, RunsCovered, Counts
<1> QED
  BY <1>2 DEF CoverInv

LEMMA CoverNext ==
  ASSUME Calm, ServiceTypeOK, OneEntry, Counts, Counts', CoverInv, [ServiceStep]_serviceVars
  PROVE  CoverInv'
<1>0. TypeOK
  BY DEF ServiceTypeOK
<1>1. CASE ServedMain
  <2>1. UNCHANGED runs /\ Upsets' = Upsets /\ MainStep
    BY <1>1 DEF ServedMain, actorVars, Upsets
  <2>2. faults' >= faults
    BY <1>0, <2>1, MainHands DEF Counts
  <2>3. \A t \in Tasks : NoNewChance(t)
    BY <1>0, <2>1, ChanceMain
  <2> QED
    BY <2>1, <2>2, <2>3, CoverQuiet
<1>2. ASSUME NEW p \in Process, ServedDispatch(p) PROVE CoverInv'
  BY <1>2, CoverDispatch
<1>3. ASSUME NEW h \in Callbacks, (Fire(h) /\ UNCHANGED actorVars) \/ ServedCallback(h) PROVE CoverInv'
  <2>1. UNCHANGED runs /\ Upsets' = Upsets /\ (Fire(h) \/ CallbackStep(h))
    BY <1>3 DEF ServedCallback, actorVars, Upsets
  <2>2. /\ faults' \in {faults, faults + 1}
        /\ \A t \in Tasks : NoNewChance(t)
    BY <1>0, <2>1, ChanceCallback
  <2>3. faults' >= faults
    BY <2>2 DEF Counts
  <2> QED
    BY <2>1, <2>2, <2>3, CoverQuiet
<1>4. CASE Environment /\ UNCHANGED actorVars
  <2>1. /\ UNCHANGED <<runs, faults, pc, task, list>> /\ Upsets' = Upsets /\ (cancelled => cancelled')
        /\ \A t \in Tasks : board'[t] = board[t] \/ ~IsProcessingStatus(board[t])
    BY <1>0, <1>4 DEF Environment, Cancel, BoardMove, Calm, Written, TypeOK, actorVars, callVars, localVars,
       loopVars, Upsets
  <2>3. \A t \in Tasks : NoNewChance(t)
    BY <2>1 DEF NoNewChance, Chance, MainMay
  <2> QED
    BY <2>1, <2>3, CoverQuiet DEF Counts
<1>5. ASSUME NEW t \in Tasks, NEW ph \in Phases,
             RunSucceeds(t, ph) \/ RunFails(t, ph) \/ RunFailsLate(t, ph) \/ RunVanishes(t, ph)
      PROVE  CoverInv'
  BY <1>5, CoverReport
<1>6. ASSUME UNCHANGED <<vars, runs>>, Upsets' = Upsets PROVE CoverInv'
  <2>1. \A t \in Tasks : NoNewChance(t)
    BY <1>6 DEF NoNewChance, Chance, MainMay, vars
  <2> QED
    BY <1>6, <2>1, CoverQuiet DEF vars, Counts
<1>7. ASSUME NEW t \in Tasks, NEW ph \in Phases, MergePR(t, ph) PROVE CoverInv'
  BY <1>6, <1>7 DEF MergePR, Upsets
<1>8. CASE (Terminated /\ UNCHANGED actorVars) \/ UNCHANGED serviceVars
  BY <1>6, <1>8 DEF Terminated, actorVars, serviceVars, Upsets
<1>9. CASE Restart
  BY <1>9, CoverRestart
<1> QED
  BY <1>1, <1>2, <1>3, <1>4, <1>5, <1>7, <1>8, <1>9 DEF ServiceStep, Actors

LEMMA CoverAtStart == ServiceInit => CoverInv
<1> SUFFICES ASSUME ServiceInit PROVE CoverInv
  OBVIOUS
<1>2. ASSUME NEW t \in Tasks PROVE RunsCovered(t)
  <2>1. Chances(t) \subseteq {<<Main, "board">>}
    BY OrchestratorAssumption DEF ServiceInit, Init, Chances, Chance, Process, UndonePCs, RetryPCs, CallbackPCs
  <2>2. Cardinality(Chances(t)) <= 1 /\ Cardinality(Chances(t)) \in Nat
    <3>1. IsFiniteSet({<<Main, "board">>}) /\ Cardinality({<<Main, "board">>}) = 1
      BY FS_Singleton
    <3> QED
      BY <2>1, <3>1, Subset
  <2>3. LiveRuns(t) = 0 /\ faults = 0 /\ Upsets = 0
    BY DEF ServiceInit, Init, LiveRuns, Phases, Upsets
  <2> QED
    BY <2>2, <2>3 DEF RunsCovered
<1> QED
  BY <1>2 DEF CoverInv

\* A pending retry is one of the chances.
LEMMA RetriesAreChances ==
  ASSUME ~cancelled, NEW t PROVE Cardinality(Retries(t)) <= Cardinality(Chances(t))
<1> DEFINE f == [h \in Retries(t) |-> <<h, "retry">>]
<1>1. f \in Injection(Retries(t), Chances(t))
  <2>1. \A h \in Retries(t) : <<h, "retry">> \in Chances(t)
    BY OrchestratorAssumption DEF Retries, Chances, Kinds, Chance, Process, RetryPCs
  <2> QED
    BY <2>1, Zenon DEF Injection, IsInjective
<1> QED
  BY <1>1, FiniteChances, FS_Injection

\* No task is worked on twice, but for what failures, crashes and late failures of runs leave
\* behind: each of them accounts for the runs and retries there are beyond the first.  The
\* runs do not exceed that although callbacks, Main, crashes and reports interleave freely.
THEOREM NoDoubleExecution == ASSUME Calm PROVE ServiceSpec => []RunsBounded
<1>1. Guarantees /\ ServiceTypeOK /\ ServiceTypeOK' /\ CoverInv /\ [ServiceStep]_serviceVars => CoverInv'
  <2> SUFFICES ASSUME Guarantees, ServiceTypeOK, ServiceTypeOK', CoverInv, [ServiceStep]_serviceVars
               PROVE  CoverInv'
    OBVIOUS
  <2>1. Counts /\ Counts' /\ OneEntry
    BY CountTypes DEF Guarantees
  <2> QED
    BY <2>1, CoverNext
<1>2. ServiceTypeOK /\ CoverInv => RunsBounded
  <2> SUFFICES ASSUME ServiceTypeOK, CoverInv, NEW t \in Tasks
               PROVE  LiveRuns(t) + (IF cancelled THEN 0 ELSE Cardinality(Retries(t)))
                        <= 1 + 2 * faults + restarts + late
    BY DEF RunsBounded
  <2>0. faults \in Nat /\ restarts \in Nat /\ late \in Nat
    BY CountTypes DEF Counts, ServiceTypeOK
  <2>1. Counts /\ RunsCovered(t) /\ Cardinality(Chances(t)) \in Nat
    BY CountTypes, FiniteChances, FS_CardinalityType DEF CoverInv
  <2>2. CASE cancelled
    BY <2>0, <2>1, <2>2 DEF RunsCovered, Counts, Upsets
  <2>3. CASE ~cancelled
    <3>1. Cardinality(Retries(t)) <= Cardinality(Chances(t)) /\ Cardinality(Retries(t)) \in Nat
      <4>1. IsFiniteSet(Retries(t))
        BY OrchestratorAssumption, FS_Subset DEF Retries
      <4> QED
        BY <2>3, <4>1, RetriesAreChances, FS_CardinalityType
    <3> QED
      BY <2>0, <2>1, <2>3, <3>1 DEF RunsCovered, Counts, Upsets
  <2> QED
    BY <2>2, <2>3
<1> QED
  BY <1>1, <1>2, GuaranteesAlways, ServiceTypeCorrect, CoverAtStart, StepsOfService, PTL DEF ServiceSpec

=============================================================================
