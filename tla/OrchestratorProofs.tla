------------------------- MODULE OrchestratorProofs -------------------------
(***************************************************************************)
(* Theorems about Orchestrator, for every set of tasks, every number of    *)
(* retry timers, every limit and every behaviour of the board.             *)
(***************************************************************************)
EXTENDS Orchestrator, TLAPS, FiniteSetTheorems

-----------------------------------------------------------------------------
(* Types *)

\* The statuses and phases the orchestrator computes are those of the mapping.
LEMMA MappingTypes ==
  /\ \A s : PhaseFromStatus(s) \in Phases \cup {NoPhase}
  /\ \A s : IsTriggerStatus(s) \/ IsProcessingStatus(s) => PhaseFromStatus(s) \in Phases
  /\ \A ph : /\ ProcessingStatusFor(ph) \in Statuses
             /\ ErrorStatusFor(ph) \in Statuses
             /\ MergedStatusFor(ph) \in Statuses
BY StatusMappingAssumption
DEF PhaseFromStatus, Phases, IsTriggerStatus, IsProcessingStatus, ProcessingStatusFor,
    ErrorStatusFor, MergedStatusFor, Statuses, AllStatuses, Fields

LEMMA TypeOKInit == Init => TypeOK
<1> SUFFICES ASSUME Init PROVE TypeOK
  OBVIOUS
<1> USE DEF Init, Process, MainPCs, ReconcilePCs, CallbackPCs, DispatchPCs
<1>1. board \in [Tasks -> Statuses]
  BY OrchestratorAssumption
<1>2. /\ pc \in [Process -> MainPCs \cup CallbackPCs \cup DispatchPCs]
      /\ pc[Main] \notin CallbackPCs
      /\ \A h \in Callbacks : pc[h] \notin MainPCs
  BY OrchestratorAssumption
<1>3. \A p \in Process : LocalsOK(p)
  BY DEF LocalsOK
<1>4. faults \in 0 .. MaxFaults
  BY OrchestratorAssumption
<1> QED
  BY <1>1, <1>2, <1>3, <1>4 DEF TypeOK

LEMMA TypeOKNext == TypeOK /\ [Next]_vars => TypeOK'
<1> SUFFICES ASSUME TypeOK, [Next]_vars PROVE TypeOK'
  OBVIOUS
<1> USE OrchestratorAssumption, MappingTypes
    DEF TypeOK, LocalsOK, Entries, Process, MainPCs, ReconcilePCs, CallbackPCs, DispatchPCs,
        sharedVars, localVars, loopVars, callVars,
        CallSucceeds, CallFails, WriteSucceeds, WriteFails, Written, Fetched,
        WaitingTasks, ProcessingTasks,
        Goto, Jump, Return, StateRelease, LimiterRelease, BeginTick, Reconciled
<1>1. CASE RecoverFetch
  BY <1>1 DEF RecoverFetch
<1>2. ASSUME NEW e \in Entries, RecoverTask(e) PROVE TypeOK'
  BY <1>2 DEF RecoverTask
<1>3. CASE Recovered
  BY <1>3 DEF Recovered
<1>4. CASE TickStart
  BY <1>4 DEF TickStart
<1>5. CASE StartShutdown
  BY <1>5 DEF StartShutdown
<1>6. CASE FinishShutdown
  BY <1>6 DEF FinishShutdown
<1>7. ASSUME NEW t \in Tasks, ReconcileFetch(t) PROVE TypeOK'
  BY <1>7 DEF ReconcileFetch, NeedsPRCheck, ReconcileKeeps
<1>8. CASE CheckPR
  BY <1>8 DEF CheckPR
<1>9. CASE Advance
  BY <1>9 DEF Advance
<1>10. CASE DropState
  BY <1>10 DEF DropState
<1>11. CASE DropSlot
  BY <1>11 DEF DropSlot
<1>12. CASE Poll
  BY <1>12 DEF Poll
<1>13. ASSUME NEW e \in Entries, ScanSkip(e) PROVE TypeOK'
  BY <1>13 DEF ScanSkip
<1>14. ASSUME NEW e \in Entries, ScanDispatch(e) PROVE TypeOK'
  BY <1>14 DEF ScanDispatch
<1>15. CASE ScanDone
  BY <1>15 DEF ScanDone
<1>16. ASSUME NEW p \in Process, Claim(p) PROVE TypeOK'
  BY <1>16 DEF Claim
<1>17. ASSUME NEW p \in Process, Acquire(p) PROVE TypeOK'
  BY <1>17 DEF Acquire
<1>18. ASSUME NEW p \in Process, Unclaim(p) PROVE TypeOK'
  BY <1>18 DEF Unclaim
<1>19. ASSUME NEW p \in Process, Update(p) PROVE TypeOK'
  BY <1>19 DEF Update
<1>20. ASSUME NEW p \in Process, Trigger(p) PROVE TypeOK'
  BY <1>20 DEF Trigger
<1>21. ASSUME NEW p \in Process, Revert(p) PROVE TypeOK'
  BY <1>21 DEF Revert
<1>22. ASSUME NEW p \in Process, ReleaseState(p) PROVE TypeOK'
  BY <1>22 DEF ReleaseState
<1>23. ASSUME NEW p \in Process, ReleaseSlot(p) PROVE TypeOK'
  BY <1>23 DEF ReleaseSlot
<1>24. ASSUME NEW p \in Process, ScheduleRetry(p) PROVE TypeOK'
  BY <1>24 DEF ScheduleRetry, FreeTimers, StoppableTimers
<1>25. ASSUME NEW p \in Process, MarkRunning(p) PROVE TypeOK'
  BY <1>25 DEF MarkRunning
<1>26. ASSUME NEW h \in Callbacks, Fire(h) PROVE TypeOK'
  BY <1>26 DEF Fire
<1>27. ASSUME NEW h \in Callbacks, HandleRetry(h) PROVE TypeOK'
  BY <1>27 DEF HandleRetry
<1>28. ASSUME NEW h \in Callbacks, RetryFetch(h) PROVE TypeOK'
  BY <1>28 DEF RetryFetch
<1>29. ASSUME NEW h \in Callbacks, EnterDispatch(h) PROVE TypeOK'
  BY <1>29 DEF EnterDispatch
<1>30. ASSUME NEW h \in Callbacks, GiveUp(h) PROVE TypeOK'
  BY <1>30 DEF GiveUp
<1>31. CASE Cancel
  BY <1>31 DEF Cancel
<1>32. ASSUME NEW t \in Tasks, NEW status \in Statuses, BoardMove(t, status) PROVE TypeOK'
  BY <1>32 DEF BoardMove
<1>33. CASE UNCHANGED vars
  BY <1>33 DEF vars
<1> QED
  BY <1>1, <1>2, <1>3, <1>4, <1>5, <1>6, <1>7, <1>8, <1>9, <1>10, <1>11, <1>12, <1>13,
     <1>14, <1>15, <1>16, <1>17, <1>18, <1>19, <1>20, <1>21, <1>22, <1>23, <1>24, <1>25,
     <1>26, <1>27, <1>28, <1>29, <1>30, <1>31, <1>32, <1>33
  DEF Next, MainStep, DispatchStep, CallbackStep, Environment, Terminated

\* The type invariant holds in every reachable state.
THEOREM TypeCorrect == Spec => []TypeOK
BY TypeOKInit, TypeOKNext, PTL DEF Spec

-----------------------------------------------------------------------------
(* Claims *)

LEMMA NoClaimLeakNext == TypeOK /\ NoClaimLeak /\ [Next]_vars => NoClaimLeak'
<1> SUFFICES ASSUME TypeOK, NoClaimLeak, [Next]_vars PROVE NoClaimLeak'
  OBVIOUS
<1> USE OrchestratorAssumption
    DEF TypeOK, LocalsOK, Process, MainPCs, ReconcilePCs, CallbackPCs, DispatchPCs, NoClaimLeak, Claimants, ClaimPCs,
        sharedVars, localVars, loopVars,
        Goto, Jump, Return, StateRelease, BeginTick, Reconciled
<1>1. CASE MainStep
  <2>1. CASE DropState
    BY <2>1 DEF DropState
  <2>2. CASE StartShutdown
    <3>1. ASSUME NEW p \in Claimants PROVE p \in Claimants' /\ task'[p] = task[p]
      <4>1. p \in Process /\ p # Main /\ pc[p] # "armed" /\ pc[p] \in ClaimPCs
        BY <2>2, <3>1 DEF StartShutdown
      <4>2. pc'[p] = pc[p] /\ task'[p] = task[p]
        BY <2>2, <4>1 DEF StartShutdown
      <4> QED
        BY <4>1, <4>2
    <3>2. UNCHANGED <<claimed, running>>
      BY <2>2 DEF StartShutdown
    <3> QED
      BY <3>1, <3>2
  <2>3. CASE CheckPR \/ Advance \/ DropSlot \/ \E t \in Tasks : ReconcileFetch(t)
    BY <2>3 DEF CheckPR, Advance, DropSlot, ReconcileFetch
  <2>4. CASE RecoverFetch \/ Recovered \/ TickStart \/ FinishShutdown \/ Poll \/ ScanDone
    BY <2>4 DEF RecoverFetch, Recovered, TickStart, FinishShutdown, Poll, ScanDone
  <2>5. CASE \E e \in Entries : RecoverTask(e) \/ ScanSkip(e) \/ ScanDispatch(e)
    BY <2>5 DEF RecoverTask, ScanSkip, ScanDispatch
  <2> QED
    BY <1>1, <2>1, <2>2, <2>3, <2>4, <2>5 DEF MainStep
<1>2. ASSUME NEW p \in Process, DispatchStep(p) PROVE NoClaimLeak'
  <2>1. CASE Claim(p)
    BY <2>1 DEF Claim
  <2>2. CASE Unclaim(p) \/ ReleaseState(p)
    BY <2>2 DEF Unclaim, ReleaseState
  <2>3. CASE MarkRunning(p)
    BY <2>3 DEF MarkRunning
  <2>4. CASE Acquire(p) \/ Update(p) \/ Trigger(p) \/ Revert(p) \/ ReleaseSlot(p)
    BY <2>4 DEF Acquire, Update, Trigger, Revert, ReleaseSlot
  <2>5. CASE ScheduleRetry(p)
    BY <2>5 DEF ScheduleRetry, FreeTimers, StoppableTimers
  <2> QED
    BY <1>2, <2>1, <2>2, <2>3, <2>4, <2>5 DEF DispatchStep
<1>3. ASSUME NEW h \in Callbacks, Fire(h) \/ CallbackStep(h) PROVE NoClaimLeak'
  BY <1>3 DEF Fire, CallbackStep, HandleRetry, RetryFetch, EnterDispatch, GiveUp
<1>4. CASE Environment
  <2>1. CASE Cancel
    BY <2>1 DEF Cancel
  <2>2. ASSUME NEW t \in Tasks, NEW status \in Statuses, BoardMove(t, status) PROVE NoClaimLeak'
    BY <2>2 DEF BoardMove
  <2> QED
    BY <1>4, <2>1, <2>2 DEF Environment
<1>5. CASE UNCHANGED vars
  BY <1>5 DEF vars
<1> QED
  BY <1>1, <1>2, <1>3, <1>4, <1>5 DEF Next, Terminated

\* No path through dispatch, retry or reconcile leaves a claim without an owner.
THEOREM ClaimsOwned == Spec => []NoClaimLeak
<1>1. Init => NoClaimLeak
  BY DEF Init, NoClaimLeak
<1> QED
  BY <1>1, TypeCorrect, NoClaimLeakNext, PTL DEF Spec

-----------------------------------------------------------------------------
(* The retry map and the shutdown *)

\* done is set by the step that starts the shutdown, and Main never leaves it.
ShutdownInv ==
  /\ done <=> pc[Main] \in {"draining", "drained", "forced"}
  /\ GracefulDrain
  /\ RetryMapSound

LEMMA ShutdownInvNext == TypeOK /\ ShutdownInv /\ [Next]_vars => ShutdownInv'
<1> SUFFICES ASSUME TypeOK, ShutdownInv, [Next]_vars PROVE ShutdownInv'
  OBVIOUS
<1> USE OrchestratorAssumption
    DEF TypeOK, LocalsOK, Process, MainPCs, ReconcilePCs, CallbackPCs, DispatchPCs, ShutdownInv, GracefulDrain,
        Dispatching, RetryMapSound, sharedVars, localVars, loopVars,
        Goto, Jump, Return, BeginTick, Reconciled
<1>1. CASE MainStep
  <2>1. CASE StartShutdown
    BY <2>1 DEF StartShutdown
  <2>2. CASE FinishShutdown
    BY <2>2 DEF FinishShutdown
  <2>3. CASE CheckPR \/ Advance \/ DropState \/ DropSlot \/ \E t \in Tasks : ReconcileFetch(t)
    BY <2>3 DEF CheckPR, Advance, DropState, DropSlot, ReconcileFetch
  <2>4. CASE RecoverFetch \/ Recovered \/ TickStart \/ Poll \/ ScanDone
    BY <2>4 DEF RecoverFetch, Recovered, TickStart, Poll, ScanDone
  <2>5. CASE \E e \in Entries : RecoverTask(e) \/ ScanSkip(e) \/ ScanDispatch(e)
    BY <2>5 DEF RecoverTask, ScanSkip, ScanDispatch
  <2> QED
    BY <1>1, <2>1, <2>2, <2>3, <2>4, <2>5 DEF MainStep
<1>2. ASSUME NEW p \in Process, DispatchStep(p) PROVE ShutdownInv'
  <2>1. CASE Claim(p) \/ Unclaim(p) \/ MarkRunning(p)
    BY <2>1 DEF Claim, Unclaim, MarkRunning
  <2>2. CASE Acquire(p) \/ Update(p) \/ Trigger(p) \/ Revert(p) \/ ReleaseState(p) \/ ReleaseSlot(p)
    BY <2>2 DEF Acquire, Update, Trigger, Revert, ReleaseState, ReleaseSlot
  <2>3. CASE ScheduleRetry(p)
    BY <2>3 DEF ScheduleRetry, FreeTimers, StoppableTimers
  <2> QED
    BY <1>2, <2>1, <2>2, <2>3 DEF DispatchStep
<1>3. ASSUME NEW h \in Callbacks, Fire(h) \/ CallbackStep(h) PROVE ShutdownInv'
  <2>1. CASE HandleRetry(h)
    BY <2>1 DEF HandleRetry, OwnsEntry
  <2>2. CASE Fire(h) \/ RetryFetch(h) \/ EnterDispatch(h) \/ GiveUp(h)
    BY <2>2 DEF Fire, RetryFetch, EnterDispatch, GiveUp
  <2> QED
    BY <1>3, <2>1, <2>2 DEF CallbackStep
<1>4. CASE Environment
  <2>1. CASE Cancel
    BY <2>1 DEF Cancel
  <2>2. ASSUME NEW t \in Tasks, NEW status \in Statuses, BoardMove(t, status) PROVE ShutdownInv'
    BY <2>2 DEF BoardMove
  <2> QED
    BY <1>4, <2>1, <2>2 DEF Environment
<1>5. CASE UNCHANGED vars
  BY <1>5 DEF vars
<1> QED
  BY <1>1, <1>2, <1>3, <1>4, <1>5 DEF Next, Terminated

LEMMA ShutdownInvariant == Spec => []ShutdownInv
<1>1. Init => ShutdownInv
  BY DEF Init, ShutdownInv, GracefulDrain, RetryMapSound, Process
<1> QED
  BY <1>1, TypeCorrect, ShutdownInvNext, PTL DEF Spec

\* After a graceful shutdown no dispatch is under way, nor will one start.
THEOREM DrainIsGraceful == Spec => []GracefulDrain
<1>1. ShutdownInv => GracefulDrain
  BY DEF ShutdownInv
<1> QED
  BY <1>1, ShutdownInvariant, PTL

\* Every entry of the retry map is that of a live timer of its task, and after
\* shutdown there is none.
THEOREM RetryEntriesLive == Spec => []RetryMapSound
<1>1. ShutdownInv => RetryMapSound
  BY DEF ShutdownInv
<1> QED
  BY <1>1, ShutdownInvariant, PTL

-----------------------------------------------------------------------------
(* Slots *)

\* The tasks whose slot reconcile or the running map answers for.
Tracked == running \cup todo

LEMMA FiniteHolders == TypeOK => IsFiniteSet(Tracked) /\ IsFiniteSet(SlotHolders) /\ IsFiniteSet(running)
<1> SUFFICES ASSUME TypeOK PROVE IsFiniteSet(Tracked) /\ IsFiniteSet(SlotHolders) /\ IsFiniteSet(running)
  OBVIOUS
<1>1. Tracked \in SUBSET Tasks /\ running \in SUBSET Tasks
  BY DEF TypeOK, Tracked
<1>2. IsFiniteSet(Process)
  BY OrchestratorAssumption, FS_AddElement DEF Process
<1>3. SlotHolders \in SUBSET Process
  BY DEF SlotHolders
<1> QED
  BY <1>1, <1>2, <1>3, FS_Subset, OrchestratorAssumption

\* The five ways a step can change who holds a slot and the limiter's counter.
Idle  == Tracked' \subseteq Tracked /\ SlotHolders' = SlotHolders /\ active' = active
Take  == /\ \E p \in Process \ SlotHolders : SlotHolders' = SlotHolders \cup {p}
         /\ Tracked' = Tracked /\ ~LimiterFull /\ active' = active + 1
Give  == /\ \E p \in SlotHolders : SlotHolders' = SlotHolders \ {p}
         /\ Tracked' = Tracked /\ LimiterRelease
Mark  == /\ \E p \in SlotHolders : SlotHolders' = SlotHolders \ {p}
         /\ \E t \in Tasks : Tracked' = Tracked \cup {t}
         /\ active' = active
Drop  == /\ \E p \in Process \ SlotHolders : SlotHolders' = SlotHolders \cup {p}
         /\ \E t \in Tracked : Tracked' = Tracked \ {t}
         /\ active' = active

SlotEffect == Idle \/ Take \/ Give \/ Mark \/ Drop

LEMMA SlotEffects == TypeOK /\ [Next]_vars => SlotEffect
<1> SUFFICES ASSUME TypeOK, [Next]_vars PROVE SlotEffect
  OBVIOUS
<1> USE OrchestratorAssumption
    DEF TypeOK, LocalsOK, Process, MainPCs, ReconcilePCs, CallbackPCs, DispatchPCs, SlotHolders, SlotPCs, Tracked,
        SlotEffect, sharedVars, localVars, loopVars,
        Goto, Jump, Return, StateRelease, BeginTick, Reconciled
<1>1. CASE MainStep
  <2>1. CASE DropState
    BY <2>1 DEF DropState, Drop
  <2>2. CASE DropSlot
    BY <2>2 DEF DropSlot, Give
  <2>3. CASE StartShutdown
    BY <2>3 DEF StartShutdown, Idle
  <2>4. CASE CheckPR \/ Advance \/ \E t \in Tasks : ReconcileFetch(t)
    BY <2>4 DEF CheckPR, Advance, ReconcileFetch, Idle
  <2>5. CASE RecoverFetch \/ Recovered \/ TickStart \/ FinishShutdown \/ Poll \/ ScanDone
    BY <2>5 DEF RecoverFetch, Recovered, TickStart, FinishShutdown, Poll, ScanDone, Idle
  <2>6. CASE \E e \in Entries : RecoverTask(e) \/ ScanSkip(e) \/ ScanDispatch(e)
    BY <2>6 DEF RecoverTask, ScanSkip, ScanDispatch, Idle
  <2> QED
    BY <1>1, <2>1, <2>2, <2>3, <2>4, <2>5, <2>6 DEF MainStep
<1>2. ASSUME NEW p \in Process, DispatchStep(p) PROVE SlotEffect
  <2>1. CASE Acquire(p)
    BY <2>1 DEF Acquire, Take, Idle
  <2>2. CASE ReleaseSlot(p)
    BY <2>2 DEF ReleaseSlot, Give
  <2>3. CASE MarkRunning(p)
    BY <2>3 DEF MarkRunning, Mark
  <2>4. CASE Claim(p) \/ Unclaim(p)
    BY <2>4 DEF Claim, Unclaim, Idle
  <2>5. CASE Update(p) \/ Trigger(p) \/ Revert(p) \/ ReleaseState(p)
    BY <2>5 DEF Update, Trigger, Revert, ReleaseState, Idle
  <2>6. CASE ScheduleRetry(p)
    BY <2>6 DEF ScheduleRetry, FreeTimers, StoppableTimers, Idle
  <2> QED
    BY <1>2, <2>1, <2>2, <2>3, <2>4, <2>5, <2>6 DEF DispatchStep
<1>3. ASSUME NEW h \in Callbacks, Fire(h) \/ CallbackStep(h) PROVE SlotEffect
  BY <1>3 DEF Fire, CallbackStep, HandleRetry, RetryFetch, EnterDispatch, GiveUp, Idle
<1>4. CASE Environment
  <2>1. CASE Cancel
    BY <2>1 DEF Cancel, Idle
  <2>2. ASSUME NEW t \in Tasks, NEW status \in Statuses, BoardMove(t, status) PROVE SlotEffect
    BY <2>2 DEF BoardMove, Idle
  <2> QED
    BY <1>4, <2>1, <2>2 DEF Environment
<1>5. CASE UNCHANGED vars
  BY <1>5 DEF vars, Idle
<1> QED
  BY <1>1, <1>2, <1>3, <1>4, <1>5 DEF Next, Terminated

\* SlotsCovered is inductive; with it the limiter never counts more than its limit.
SlotInv ==
  /\ SlotsCovered
  /\ MaxConcurrentTasks > 0 => active <= MaxConcurrentTasks

LEMMA SlotInvNext == TypeOK /\ TypeOK' /\ SlotInv /\ SlotEffect => SlotInv'
<1> SUFFICES ASSUME TypeOK, TypeOK', SlotInv, SlotEffect PROVE SlotInv'
  OBVIOUS
<1> DEFINE T == Cardinality(Tracked)
           H == Cardinality(SlotHolders)
<1>1. IsFiniteSet(Tracked) /\ IsFiniteSet(SlotHolders)
  BY FiniteHolders
<1>2. T \in Nat /\ H \in Nat /\ active \in Nat /\ MaxConcurrentTasks \in Nat /\ T + H <= active
  BY <1>1, FS_CardinalityType, OrchestratorAssumption DEF TypeOK, SlotInv, SlotsCovered, Tracked
<1>3. \A p : /\ p \in SlotHolders => Cardinality(SlotHolders \ {p}) = H - 1
             /\ p \notin SlotHolders => Cardinality(SlotHolders \cup {p}) = H + 1
  BY <1>1, FS_AddElement, FS_RemoveElement
<1>4. SUFFICES /\ T' + H' <= active'
               /\ MaxConcurrentTasks > 0 => active' <= MaxConcurrentTasks
  BY DEF SlotInv, SlotsCovered, Tracked
<1>5. CASE Idle
  <2>1. T' \in Nat /\ T' <= T
    BY <1>1, <1>5, FS_Subset, FS_CardinalityType DEF Idle
  <2> QED
    BY <1>2, <1>5, <2>1 DEF Idle, SlotInv
<1>6. CASE Take
  <2>1. T' = T /\ H' = H + 1
    BY <1>3, <1>6 DEF Take
  <2> QED
    BY <1>2, <1>6, <2>1 DEF Take, LimiterFull
<1>7. CASE Give
  <2>1. T' = T /\ H' = H - 1 /\ H > 0
    BY <1>1, <1>2, <1>3, <1>7, FS_EmptySet DEF Give
  <2> QED
    BY <1>2, <1>7, <2>1 DEF Give, LimiterRelease, SlotInv
<1>8. CASE Mark
  <2>1. T' \in Nat /\ T' <= T + 1
    <3>1. PICK t \in Tasks : Tracked' = Tracked \cup {t}
      BY <1>8 DEF Mark
    <3>2. T' = IF t \in Tracked THEN T ELSE T + 1
      BY <1>1, <3>1, FS_AddElement
    <3> QED
      BY <1>2, <3>2
  <2>2. H' = H - 1
    BY <1>3, <1>8 DEF Mark
  <2> QED
    BY <1>2, <1>8, <2>1, <2>2 DEF Mark, SlotInv
<1>9. CASE Drop
  <2>1. T' = T - 1
    BY <1>1, <1>9, FS_RemoveElement DEF Drop
  <2>2. H' = H + 1
    BY <1>3, <1>9 DEF Drop
  <2> QED
    BY <1>2, <1>9, <2>1, <2>2 DEF Drop, SlotInv
<1> QED
  BY <1>5, <1>6, <1>7, <1>8, <1>9 DEF SlotEffect

LEMMA SlotInvariant == Spec => []SlotInv
<1>1. Init => SlotInv
  <2> SUFFICES ASSUME Init PROVE SlotInv
    OBVIOUS
  <2>1. running \cup todo = {} /\ SlotHolders = {} /\ active = 0
    BY DEF Init, SlotHolders, SlotPCs
  <2> QED
    BY <2>1, FS_EmptySet, OrchestratorAssumption DEF SlotInv, SlotsCovered
<1>2. TypeOK /\ TypeOK' /\ SlotInv /\ [Next]_vars => SlotInv'
  BY SlotEffects, SlotInvNext
<1> QED
  BY <1>1, <1>2, TypeCorrect, PTL DEF Spec

LEMMA CapFromSlots == TypeOK /\ SlotInv => CapRespected
<1> SUFFICES ASSUME TypeOK, SlotInv, MaxConcurrentTasks > 0
             PROVE  Cardinality(running) + Cardinality(SlotHolders) <= MaxConcurrentTasks
  BY DEF CapRespected
<1>1. IsFiniteSet(Tracked) /\ IsFiniteSet(SlotHolders) /\ IsFiniteSet(running)
  BY FiniteHolders
<1>2. Cardinality(running) <= Cardinality(Tracked)
  BY <1>1, FS_Subset DEF Tracked
<1>3. /\ Cardinality(running) \in Nat /\ Cardinality(Tracked) \in Nat
      /\ Cardinality(SlotHolders) \in Nat
      /\ active \in Nat /\ MaxConcurrentTasks \in Nat
  BY <1>1, FS_CardinalityType, OrchestratorAssumption DEF TypeOK
<1> QED
  BY <1>2, <1>3 DEF SlotInv, SlotsCovered, Tracked

\* The configured limit bounds the tasks being dispatched and running together.
THEOREM CapAlwaysRespected == Spec => []CapRespected
BY CapFromSlots, SlotInvariant, TypeCorrect, PTL

-----------------------------------------------------------------------------
(* The orchestrator implements AdmissionControl *)

Admitted == Tracked \cup {task[p] : p \in SlotHolders}

Closed == pc[Main] = "drained"

\* The instance has its own copy of Cardinality.
LEMMA SameCardinality == \A S : Admission!Cardinality(S) = Cardinality(S)
BY DEF Admission!Cardinality, Cardinality

LEMMA RoomFromSlots == TypeOK /\ SlotInv /\ ~LimiterFull => Admission!HasRoom
<1> SUFFICES ASSUME TypeOK, SlotInv, ~LimiterFull, MaxConcurrentTasks > 0
             PROVE  Cardinality(Admitted) < MaxConcurrentTasks
  BY SameCardinality DEF Admission!HasRoom, Admitted, Tracked
<1> DEFINE image == {task[p] : p \in SlotHolders}
           f == [p \in SlotHolders |-> task[p]]
<1>1. IsFiniteSet(Tracked) /\ IsFiniteSet(SlotHolders)
  BY FiniteHolders
<1>2. f \in Surjection(SlotHolders, image)
  BY DEF Surjection
<1>3. IsFiniteSet(image) /\ Cardinality(image) <= Cardinality(SlotHolders)
  BY <1>1, <1>2, FS_Surjection
<1>4. /\ IsFiniteSet(Tracked \cap image)
      /\ Cardinality(Admitted) = Cardinality(Tracked) + Cardinality(image) - Cardinality(Tracked \cap image)
  BY <1>1, <1>3, FS_Union, FS_Subset DEF Admitted
<1>5. /\ Cardinality(image) \in Nat /\ Cardinality(Tracked \cap image) \in Nat
      /\ Cardinality(Tracked) \in Nat /\ Cardinality(SlotHolders) \in Nat
      /\ active \in Nat /\ MaxConcurrentTasks \in Nat
  BY <1>1, <1>3, <1>4, FS_CardinalityType, OrchestratorAssumption DEF TypeOK
<1>6. Cardinality(Tracked) + Cardinality(SlotHolders) <= active /\ active < MaxConcurrentTasks
  BY <1>5 DEF SlotInv, SlotsCovered, Tracked, LimiterFull
<1> QED
  BY <1>3, <1>4, <1>5, <1>6

\* What a step does to the set of admitted tasks and to the end of the shutdown.
Same == Admitted' = Admitted /\ Closed' = Closed
Less == (\E t \in Tasks : Admitted' = Admitted \ {t}) /\ Closed' = Closed
More == /\ \E t \in Tasks \ Admitted : Admitted' = Admitted \cup {t}
        /\ ~LimiterFull /\ ~Closed /\ ~Closed'

AdmissionEffect == Same \/ Less \/ More \/ (Admitted' = Admitted /\ Closed')

LEMMA AdmissionEffects == TypeOK /\ ShutdownInv /\ [Next]_vars => AdmissionEffect
<1> SUFFICES ASSUME TypeOK, ShutdownInv, [Next]_vars PROVE AdmissionEffect
  OBVIOUS
<1> USE OrchestratorAssumption
    DEF TypeOK, LocalsOK, Process, MainPCs, ReconcilePCs, CallbackPCs, DispatchPCs, SlotHolders, SlotPCs,
        Admitted, Tracked, Closed, AdmissionEffect, sharedVars, localVars, loopVars,
        Goto, Jump, Return, StateRelease, BeginTick, Reconciled
<1>1. CASE MainStep
  <2>1. CASE DropState
    BY <2>1 DEF DropState, Same
  <2>2. CASE DropSlot
    <3>1. running' = running /\ SlotHolders' = SlotHolders \ {Main} /\ Main \in SlotHolders
      BY <2>2 DEF DropSlot
    <3>2. Admitted' = Admitted \/ Admitted' = Admitted \ {task[Main]}
      BY <2>2, <3>1 DEF DropSlot
    <3> QED
      BY <2>2, <3>2 DEF DropSlot, Same, Less
  <2>3. CASE StartShutdown
    <3>1. SlotHolders' = SlotHolders
      BY <2>3 DEF StartShutdown
    <3>2. \A p \in SlotHolders : task'[p] = task[p]
      BY <2>3 DEF StartShutdown
    <3>3. Tracked' = Tracked
      BY <2>3 DEF StartShutdown
    <3> HIDE DEF SlotHolders, SlotPCs, Tracked, TypeOK
    <3>4. Admitted' = Admitted
      BY <3>1, <3>2, <3>3
    <3>5. Closed' = Closed
      BY <2>3 DEF StartShutdown
    <3> QED
      BY <3>4, <3>5 DEF Same
  <2>4. CASE CheckPR \/ Advance \/ \E t \in Tasks : ReconcileFetch(t)
    BY <2>4 DEF CheckPR, Advance, ReconcileFetch, Same, Less
  <2>5. CASE RecoverFetch \/ Recovered \/ TickStart \/ FinishShutdown \/ Poll \/ ScanDone
    BY <2>5 DEF RecoverFetch, Recovered, TickStart, FinishShutdown, Poll, ScanDone, Same
  <2>6. CASE \E e \in Entries : RecoverTask(e) \/ ScanSkip(e) \/ ScanDispatch(e)
    BY <2>6 DEF RecoverTask, ScanSkip, ScanDispatch, Same
  <2> QED
    BY <1>1, <2>1, <2>2, <2>3, <2>4, <2>5, <2>6 DEF MainStep
<1>2. ASSUME NEW p \in Process, DispatchStep(p) PROVE AdmissionEffect
  <2>1. CASE Acquire(p)
    BY <2>1 DEF Acquire, Same, More, ShutdownInv, GracefulDrain, Dispatching
  <2>2. CASE ReleaseSlot(p)
    BY <2>2 DEF ReleaseSlot, Same, Less
  <2>3. CASE MarkRunning(p)
    BY <2>3 DEF MarkRunning, Same
  <2>4. CASE Claim(p) \/ Unclaim(p)
    BY <2>4 DEF Claim, Unclaim, Same, Less
  <2>5. CASE Update(p) \/ Trigger(p) \/ Revert(p) \/ ReleaseState(p)
    BY <2>5 DEF Update, Trigger, Revert, ReleaseState, Same
  <2>6. CASE ScheduleRetry(p)
    BY <2>6 DEF ScheduleRetry, FreeTimers, StoppableTimers, Same
  <2> QED
    BY <1>2, <2>1, <2>2, <2>3, <2>4, <2>5, <2>6 DEF DispatchStep
<1>3. ASSUME NEW h \in Callbacks, Fire(h) \/ CallbackStep(h) PROVE AdmissionEffect
  BY <1>3 DEF Fire, CallbackStep, HandleRetry, RetryFetch, EnterDispatch, GiveUp, Same, Less
<1>4. CASE Environment
  <2>1. CASE Cancel
    BY <2>1 DEF Cancel, Same
  <2>2. ASSUME NEW t \in Tasks, NEW status \in Statuses, BoardMove(t, status) PROVE AdmissionEffect
    BY <2>2 DEF BoardMove, Same
  <2> QED
    BY <1>4, <2>1, <2>2 DEF Environment
<1>5. CASE UNCHANGED vars
  BY <1>5 DEF vars, Same
<1> QED
  BY <1>1, <1>2, <1>3, <1>4, <1>5 DEF Next, Terminated

\* Every behaviour of the orchestrator is one of AdmissionControl.
THEOREM ImplementsAdmissionControl == Spec => AdmissionControlled
<1>1. Init => Admission!Init
  BY DEF Init, Admission!Init, SlotHolders, SlotPCs, Process
<1>2. TypeOK /\ ShutdownInv /\ SlotInv /\ [Next]_vars
        => [Admission!Next]_<<Admitted, Closed>>
  <2> SUFFICES ASSUME TypeOK, SlotInv, AdmissionEffect
               PROVE  [Admission!Next]_<<Admitted, Closed>>
    BY AdmissionEffects
  <2>1. CASE Less
    BY <2>1 DEF Less, Admitted, Tracked, Closed, Admission!Next, Admission!Withdraw
  <2>2. CASE More
    BY <2>2, RoomFromSlots DEF More, Admitted, Tracked, Closed, Admission!Next, Admission!Admit
  <2>3. CASE Admitted' = Admitted /\ Closed'
    BY <2>3 DEF Admitted, Tracked, Closed, Admission!Next, Admission!Close
  <2> QED
    BY <2>1, <2>2, <2>3 DEF AdmissionEffect, Same
<1> QED
  BY <1>1, <1>2, TypeCorrect, ShutdownInvariant, SlotInvariant, PTL
  DEF Spec, AdmissionControlled, Admission!Spec, Admitted, Tracked, Closed

-----------------------------------------------------------------------------
(* What a failed call costs *)

LEMMA Subset ==
  ASSUME NEW S, IsFiniteSet(S), NEW T, T \subseteq S
  PROVE  Cardinality(T) <= Cardinality(S) /\ Cardinality(S) \in Nat /\ Cardinality(T) \in Nat
BY FS_Subset, FS_CardinalityType

LEMMA Gain ==
  ASSUME NEW S, IsFiniteSet(S), NEW x, NEW T, T \subseteq S \cup {x}
  PROVE  Cardinality(T) <= Cardinality(S) + 1 /\ Cardinality(S) \in Nat /\ Cardinality(T) \in Nat
<1>1. IsFiniteSet(S \cup {x}) /\ Cardinality(S \cup {x}) <= Cardinality(S) + 1 /\ Cardinality(S) \in Nat
  BY FS_AddElement, FS_CardinalityType
<1>2. Cardinality(T) <= Cardinality(S \cup {x}) /\ Cardinality(S \cup {x}) \in Nat /\ Cardinality(T) \in Nat
  BY <1>1, Subset
<1> QED
  BY <1>1, <1>2

LEMMA Loss ==
  ASSUME NEW S, IsFiniteSet(S), NEW x \in S, NEW T, T \subseteq S \ {x}
  PROVE  Cardinality(T) <= Cardinality(S) - 1 /\ Cardinality(S) \in Nat /\ Cardinality(T) \in Nat
<1>1. IsFiniteSet(S \ {x}) /\ Cardinality(S \ {x}) = Cardinality(S) - 1
  BY FS_RemoveElement
<1>2. Cardinality(T) <= Cardinality(S \ {x}) /\ Cardinality(T) \in Nat
  BY <1>1, Subset
<1> QED
  BY <1>1, <1>2, FS_CardinalityType

LEMMA Trade ==
  ASSUME NEW S, IsFiniteSet(S), NEW x \in S, NEW y, NEW T, T \subseteq (S \ {x}) \cup {y}
  PROVE  Cardinality(T) <= Cardinality(S) /\ Cardinality(S) \in Nat /\ Cardinality(T) \in Nat
<1>1. IsFiniteSet(S \ {x}) /\ Cardinality(S \ {x}) = Cardinality(S) - 1
  BY FS_RemoveElement
<1>2. Cardinality(T) <= Cardinality(S \ {x}) + 1 /\ Cardinality(T) \in Nat
  BY <1>1, Gain
<1> QED
  BY <1>1, <1>2, FS_CardinalityType

\* Main's own steps, dispatch apart: callbacks are only stopped, and a call may fail.
LEMMA MainHands ==
  ASSUME TypeOK, MainStep
  PROVE  /\ UNCHANGED cancelled
         /\ \A h \in Callbacks : pc'[h] = "idle" \/ (pc'[h] = pc[h] /\ task'[h] = task[h])
         /\ pc'[Main] \in MainPCs \cup ReconcilePCs \cup {"claim"}
         /\ faults' \in {faults, faults + 1}
<1> USE OrchestratorAssumption
    DEF MainPCs, ReconcilePCs, Jump, Goto, Return, BeginTick, Reconciled, callVars, sharedVars, localVars,
        loopVars, TypeOK, Process, CallSucceeds, CallFails, WriteSucceeds, WriteFails
<1>1. CASE RecoverFetch \/ Recovered \/ TickStart \/ (\E e \in Entries : RecoverTask(e))
  BY <1>1 DEF RecoverFetch, Recovered, TickStart, RecoverTask
<1>2. CASE StartShutdown
  BY <1>2 DEF StartShutdown
<1>3. CASE FinishShutdown \/ CheckPR \/ Advance \/ DropState \/ DropSlot \/ Poll
  BY <1>3 DEF FinishShutdown, CheckPR, Advance, DropState, DropSlot, Poll
<1>4. CASE (\E t \in Tasks : ReconcileFetch(t)) \/ ScanDone
  BY <1>4 DEF ReconcileFetch, ScanDone
<1>5. CASE \E e \in Entries : ScanSkip(e) \/ ScanDispatch(e)
  BY <1>5 DEF ScanSkip, ScanDispatch
<1> QED
  BY <1>1, <1>2, <1>3, <1>4, <1>5 DEF MainStep

\* The goroutines on their way from a failed call to a retry that gives up, which
\* releases the task even if it has been dispatched meanwhile.
OwingPCs == {"armed", "fired", "fetch", "reschedule", "revert", "release_state", "release_slot", "schedule"}

Owing == {p \in Process : pc[p] = "give_up" \/ (~cancelled /\ pc[p] \in OwingPCs)}

\* Every slot the limiter counts is in somebody's hands or paid for by a claim or a
\* failed call; the claims of dispatches under way and the retries that may release
\* somebody else's task are counted against it.
DebtInv ==
  active + Cardinality(Claimants) + Cardinality(Owing)
    <= Cardinality(SlotHolders) + Cardinality(claimed) + faults

LEMMA FiniteOwing == IsFiniteSet(Owing) /\ IsFiniteSet(Owing')
<1>1. IsFiniteSet(Process)
  BY OrchestratorAssumption, FS_AddElement DEF Process
<1>2. Owing \in SUBSET Process /\ Owing' \in SUBSET Process
  BY DEF Owing
<1> QED
  BY <1>1, <1>2, FS_Subset

LEMMA FiniteCounts ==
  TypeOK => /\ IsFiniteSet(Claimants) /\ IsFiniteSet(Owing) /\ IsFiniteSet(SlotHolders)
            /\ IsFiniteSet(claimed) /\ IsFiniteSet(running)
            /\ active \in Nat /\ faults \in Nat
<1> SUFFICES ASSUME TypeOK
             PROVE  /\ IsFiniteSet(Claimants) /\ IsFiniteSet(Owing) /\ IsFiniteSet(SlotHolders)
                    /\ IsFiniteSet(claimed) /\ IsFiniteSet(running)
                    /\ active \in Nat /\ faults \in Nat
  OBVIOUS
<1>1. claimed \in SUBSET Tasks /\ running \in SUBSET Tasks
  BY DEF TypeOK
<1>2. IsFiniteSet(Process)
  BY OrchestratorAssumption, FS_AddElement DEF Process
<1>3. Claimants \in SUBSET Process /\ Owing \in SUBSET Process /\ SlotHolders \in SUBSET Process
  BY DEF Claimants, Owing, SlotHolders
<1>4. active \in Nat /\ faults \in Nat
  BY OrchestratorAssumption DEF TypeOK
<1> QED
  BY <1>1, <1>2, <1>3, <1>4, FS_Subset, OrchestratorAssumption

\* The ways a step can change what DebtInv adds up.
DebtSame  == /\ Claimants' = Claimants /\ Owing' \subseteq Owing /\ SlotHolders' = SlotHolders
             /\ claimed' = claimed /\ active' = active /\ faults' \in {faults, faults + 1}
DebtFault == /\ Claimants' = Claimants /\ SlotHolders' = SlotHolders
             /\ \E p \in Process : Owing' \subseteq Owing \cup {p}
             /\ claimed' = claimed /\ active' = active /\ faults' = faults + 1
DebtPass  == /\ Claimants' = Claimants /\ SlotHolders' = SlotHolders
             /\ \E p \in Owing, q \in Process : Owing' \subseteq (Owing \ {p}) \cup {q}
             /\ claimed' = claimed /\ active' = active /\ faults' = faults
DebtClaim == /\ \E p \in Process \ Claimants : Claimants' = Claimants \cup {p}
             /\ \E t \in Tasks \ claimed : claimed' = claimed \cup {t}
             /\ Owing' = Owing /\ SlotHolders' = SlotHolders /\ active' = active /\ faults' = faults
DebtYield == /\ \E p \in Claimants : Claimants' = Claimants \ {p}
             /\ \E t \in Tasks : claimed' = claimed \ {t}
             /\ Owing' = Owing /\ SlotHolders' = SlotHolders /\ active' = active /\ faults' = faults
DebtTake  == /\ \E p \in Process \ SlotHolders : SlotHolders' = SlotHolders \cup {p}
             /\ active' = active + 1
             /\ Claimants' = Claimants /\ Owing' = Owing /\ claimed' = claimed /\ faults' = faults
DebtGive  == /\ \E p \in SlotHolders : SlotHolders' = SlotHolders \ {p}
             /\ LimiterRelease
             /\ Claimants' = Claimants /\ Owing' = Owing /\ claimed' = claimed /\ faults' = faults
DebtMark  == /\ \E p \in Claimants \cap SlotHolders :
                  Claimants' = Claimants \ {p} /\ SlotHolders' = SlotHolders \ {p}
             /\ Owing' = Owing /\ claimed' = claimed /\ active' = active /\ faults' = faults
DebtDrop  == /\ \E p \in Process \ SlotHolders : SlotHolders' = SlotHolders \cup {p}
             /\ \E t \in Tasks : claimed' = claimed \ {t}
             /\ Claimants' = Claimants /\ Owing' = Owing /\ active' = active /\ faults' = faults
DebtPaid  == /\ \E p \in Owing : Owing' = Owing \ {p}
             /\ \E t \in Tasks : claimed' = claimed \ {t}
             /\ Claimants' = Claimants /\ SlotHolders' = SlotHolders /\ active' = active /\ faults' = faults

DebtEffect == DebtSame \/ DebtFault \/ DebtPass \/ DebtClaim \/ DebtYield \/ DebtTake \/ DebtGive
              \/ DebtMark \/ DebtDrop \/ DebtPaid

LEMMA DebtEffects == TypeOK /\ [Next]_vars => DebtEffect
<1> SUFFICES ASSUME TypeOK, [Next]_vars PROVE DebtEffect
  OBVIOUS
<1> USE OrchestratorAssumption
    DEF TypeOK, LocalsOK, Process, MainPCs, ReconcilePCs, CallbackPCs, DispatchPCs, Claimants, ClaimPCs,
        SlotHolders, SlotPCs, Owing, OwingPCs, DebtEffect, sharedVars, localVars, loopVars, callVars,
        CallSucceeds, CallFails, WriteSucceeds, WriteFails,
        Goto, Jump, Return, StateRelease, BeginTick, Reconciled
<1>1. CASE MainStep
  <2>1. CASE DropState
    BY <2>1 DEF DropState, DebtDrop
  <2>2. CASE DropSlot
    BY <2>2 DEF DropSlot, DebtGive
  <2>3. CASE StartShutdown
    BY <2>3 DEF StartShutdown, DebtSame
  <2>4. CASE CheckPR \/ Advance \/ \E t \in Tasks : ReconcileFetch(t)
    BY <2>4 DEF CheckPR, Advance, ReconcileFetch, DebtSame
  <2>5. CASE RecoverFetch \/ Recovered \/ TickStart \/ FinishShutdown \/ Poll \/ ScanDone
    BY <2>5 DEF RecoverFetch, Recovered, TickStart, FinishShutdown, Poll, ScanDone, DebtSame
  <2>6. CASE \E e \in Entries : RecoverTask(e) \/ ScanSkip(e) \/ ScanDispatch(e)
    BY <2>6 DEF RecoverTask, ScanSkip, ScanDispatch, DebtSame
  <2> QED
    BY <1>1, <2>1, <2>2, <2>3, <2>4, <2>5, <2>6 DEF MainStep
<1>2. ASSUME NEW p \in Process, DispatchStep(p) PROVE DebtEffect
  <2>1. CASE Claim(p)
    BY <2>1 DEF Claim, DebtClaim, DebtSame
  <2>2. CASE Acquire(p)
    BY <2>2 DEF Acquire, DebtTake, DebtSame
  <2>3. CASE Unclaim(p)
    BY <2>3 DEF Unclaim, DebtYield
  <2>4. CASE Update(p) \/ Trigger(p)
    BY <2>4 DEF Update, Trigger, DebtFault, DebtSame
  <2>5. CASE Revert(p)
    BY <2>5 DEF Revert, DebtSame
  <2>6. CASE ReleaseState(p)
    BY <2>6 DEF ReleaseState, DebtYield
  <2>7. CASE ReleaseSlot(p)
    BY <2>7 DEF ReleaseSlot, DebtGive
  <2>8. CASE MarkRunning(p)
    BY <2>8 DEF MarkRunning, DebtMark
  <2>9. CASE ScheduleRetry(p)
    BY <2>9 DEF ScheduleRetry, FreeTimers, StoppableTimers, DebtPass, DebtSame
  <2> QED
    BY <1>2, <2>1, <2>2, <2>3, <2>4, <2>5, <2>6, <2>7, <2>8, <2>9 DEF DispatchStep
<1>3. ASSUME NEW h \in Callbacks, Fire(h) \/ CallbackStep(h) PROVE DebtEffect
  <2>1. CASE Fire(h) \/ HandleRetry(h) \/ EnterDispatch(h)
    BY <2>1 DEF Fire, HandleRetry, EnterDispatch, DebtSame
  <2>2. CASE RetryFetch(h)
    BY <2>2 DEF RetryFetch, DebtSame
  <2>3. CASE GiveUp(h)
    BY <2>3 DEF GiveUp, DebtPaid
  <2> QED
    BY <1>3, <2>1, <2>2, <2>3 DEF CallbackStep
<1>4. CASE Environment
  BY <1>4 DEF Environment, Cancel, BoardMove, DebtSame
<1>5. CASE UNCHANGED vars
  BY <1>5 DEF vars, DebtSame
<1> QED
  BY <1>1, <1>2, <1>3, <1>4, <1>5 DEF Next, Terminated

LEMMA DebtNext ==
  ASSUME TypeOK, TypeOK', SlotInv, DebtInv, DebtEffect
  PROVE  DebtInv'
<1> DEFINE C == Cardinality(Claimants)
           O == Cardinality(Owing)
           H == Cardinality(SlotHolders)
           K == Cardinality(claimed)
<1>1. /\ IsFiniteSet(Claimants) /\ IsFiniteSet(Owing) /\ IsFiniteSet(SlotHolders) /\ IsFiniteSet(claimed)
      /\ IsFiniteSet(Owing')
  BY FiniteCounts, FiniteOwing
<1>2. /\ C \in Nat /\ O \in Nat /\ H \in Nat /\ K \in Nat /\ O' \in Nat
      /\ active \in Nat /\ faults \in Nat /\ active + C + O <= H + K + faults
  BY <1>1, FiniteCounts, FS_CardinalityType DEF DebtInv
<1>3. \A p : /\ p \in Claimants => Cardinality(Claimants \ {p}) = C - 1
             /\ p \notin Claimants => Cardinality(Claimants \cup {p}) = C + 1
  BY <1>1, FS_AddElement, FS_RemoveElement
<1>4. \A p : /\ p \in SlotHolders => Cardinality(SlotHolders \ {p}) = H - 1
             /\ p \notin SlotHolders => Cardinality(SlotHolders \cup {p}) = H + 1
  BY <1>1, FS_AddElement, FS_RemoveElement
<1>5. \A t : /\ t \notin claimed => Cardinality(claimed \cup {t}) = K + 1
             /\ Cardinality(claimed \ {t}) \in {K, K - 1}
  <2>1. \A t : t \in claimed => Cardinality(claimed \ {t}) = K - 1
    BY <1>1, FS_RemoveElement
  <2>2. \A t : t \notin claimed => claimed \ {t} = claimed
    OBVIOUS
  <2> QED
    BY <1>1, <2>1, <2>2, FS_AddElement
<1>6. Owing' \subseteq Owing => O' <= O
  BY <1>1, FS_Subset
<1>7. \A p : Owing' \subseteq Owing \cup {p} => O' <= O + 1
  BY <1>1, Gain
<1>8. \A p, q : p \in Owing /\ Owing' \subseteq (Owing \ {p}) \cup {q} => O' <= O
  BY <1>1, Trade
<1>9. SUFFICES active' + C' + O' <= H' + K' + faults'
  BY DEF DebtInv
<1>10. CASE DebtSame
  BY <1>2, <1>6, <1>10 DEF DebtSame
<1>11. CASE DebtFault
  <2>1. O' <= O + 1
    BY <1>7, <1>11 DEF DebtFault
  <2> QED
    BY <1>2, <1>11, <2>1 DEF DebtFault
<1>12. CASE DebtPass
  <2>1. O' <= O
    BY <1>8, <1>12 DEF DebtPass
  <2> QED
    BY <1>2, <1>12, <2>1 DEF DebtPass
<1>13. CASE DebtClaim
  <2>1. C' = C + 1 /\ K' = K + 1 /\ O' = O /\ H' = H
    BY <1>3, <1>5, <1>13 DEF DebtClaim
  <2> QED
    BY <1>2, <1>13, <2>1 DEF DebtClaim
<1>14. CASE DebtYield
  <2>1. C' = C - 1 /\ K' \in {K, K - 1} /\ O' = O /\ H' = H
    BY <1>3, <1>5, <1>14 DEF DebtYield
  <2> QED
    BY <1>2, <1>14, <2>1 DEF DebtYield
<1>15. CASE DebtTake
  <2>1. H' = H + 1 /\ C' = C /\ O' = O /\ K' = K
    BY <1>4, <1>15 DEF DebtTake
  <2> QED
    BY <1>2, <1>15, <2>1 DEF DebtTake
<1>16. CASE DebtGive
  <2>1. H' = H - 1 /\ C' = C /\ O' = O /\ K' = K
    BY <1>4, <1>16 DEF DebtGive
  <2>2. active > 0
    <3>1. H > 0
      BY <1>1, <1>2, <1>16, FS_EmptySet DEF DebtGive
    <3>2. Cardinality(running \cup todo) \in Nat
      BY FiniteHolders, FS_CardinalityType DEF Tracked
    <3> QED
      BY <1>2, <3>1, <3>2 DEF SlotInv, SlotsCovered
  <2> QED
    BY <1>2, <1>16, <2>1, <2>2 DEF DebtGive, LimiterRelease
<1>17. CASE DebtMark
  <2>1. C' = C - 1 /\ H' = H - 1 /\ O' = O /\ K' = K
    BY <1>3, <1>4, <1>17 DEF DebtMark
  <2> QED
    BY <1>2, <1>17, <2>1 DEF DebtMark
<1>18. CASE DebtDrop
  <2>1. H' = H + 1 /\ K' \in {K, K - 1} /\ C' = C /\ O' = O
    BY <1>4, <1>5, <1>18 DEF DebtDrop
  <2> QED
    BY <1>2, <1>18, <2>1 DEF DebtDrop
<1>19. CASE DebtPaid
  <2>1. O' = O - 1
    BY <1>1, <1>19, FS_RemoveElement DEF DebtPaid
  <2>2. K' \in {K, K - 1} /\ C' = C /\ H' = H
    BY <1>5, <1>19 DEF DebtPaid
  <2> QED
    BY <1>2, <1>19, <2>1, <2>2 DEF DebtPaid
<1> QED
  BY <1>10, <1>11, <1>12, <1>13, <1>14, <1>15, <1>16, <1>17, <1>18, <1>19 DEF DebtEffect

LEMMA AccountsFromDebt == TypeOK /\ NoClaimLeak /\ SlotInv /\ DebtInv => SlotsAccounted
<1> SUFFICES ASSUME TypeOK, NoClaimLeak, SlotInv, DebtInv
             PROVE  active <= Cardinality(running) + Cardinality(SlotHolders) + faults
  BY DEF SlotsAccounted, SlotInv
<1> DEFINE image == {task[p] : p \in Claimants}
           f == [p \in Claimants |-> task[p]]
<1>1. /\ IsFiniteSet(Claimants) /\ IsFiniteSet(Owing) /\ IsFiniteSet(SlotHolders)
      /\ IsFiniteSet(claimed) /\ IsFiniteSet(running)
      /\ active \in Nat /\ faults \in Nat
  BY FiniteCounts
<1>2. f \in Surjection(Claimants, image)
  BY DEF Surjection
<1>3. IsFiniteSet(image) /\ Cardinality(image) <= Cardinality(Claimants)
  BY <1>1, <1>2, FS_Surjection
<1>4. /\ IsFiniteSet(running \cup image)
      /\ Cardinality(running \cup image)
           = Cardinality(running) + Cardinality(image) - Cardinality(running \cap image)
  BY <1>1, <1>3, FS_Union
<1>5. Cardinality(claimed) <= Cardinality(running \cup image)
  BY <1>4, FS_Subset DEF NoClaimLeak
<1>6. /\ Cardinality(Claimants) \in Nat /\ Cardinality(Owing) \in Nat /\ Cardinality(SlotHolders) \in Nat
      /\ Cardinality(claimed) \in Nat /\ Cardinality(running) \in Nat /\ Cardinality(image) \in Nat
      /\ Cardinality(running \cap image) \in Nat
  <2>1. IsFiniteSet(running \cap image)
    BY <1>1, FS_Subset
  <2> QED
    BY <1>1, <1>3, <2>1, FS_CardinalityType
<1> QED
  BY <1>1, <1>3, <1>4, <1>5, <1>6 DEF DebtInv

LEMMA DebtAtStart == Init => DebtInv
<1> SUFFICES ASSUME Init PROVE DebtInv
  OBVIOUS
<1>1. Claimants = {} /\ Owing = {} /\ SlotHolders = {} /\ claimed = {} /\ active = 0 /\ faults = 0
  BY DEF Init, Claimants, ClaimPCs, Owing, OwingPCs, SlotHolders, SlotPCs, Process
<1> QED
  BY <1>1, FS_EmptySet DEF DebtInv

LEMMA DebtInvariant == Spec => []DebtInv
<1>1. TypeOK /\ TypeOK' /\ SlotInv /\ DebtInv /\ [Next]_vars => DebtInv'
  BY DebtEffects, DebtNext
<1> QED
  BY <1>1, DebtAtStart, TypeCorrect, SlotInvariant, PTL DEF Spec

\* Whatever the goroutines do, no slot is given back twice, and each failed call costs at
\* most one slot for good.
THEOREM SlotsAlwaysAccounted == Spec => []SlotsAccounted
BY AccountsFromDebt, TypeCorrect, ClaimsOwned, SlotInvariant, DebtInvariant, PTL

-----------------------------------------------------------------------------
(* While calls succeed *)

\* Main's list has one entry per task, and none of the task in its hands.
OneEntry ==
  /\ \A e, f \in list : e.task = f.task => e = f
  /\ pc[Main] \in DispatchPCs => \A e \in list : e.task # task[Main]

LEMMA OneEntryNext == TypeOK /\ OneEntry /\ [Next]_vars => OneEntry'
<1> SUFFICES ASSUME TypeOK, OneEntry, [Next]_vars PROVE OneEntry'
  OBVIOUS
<1> USE OrchestratorAssumption
    DEF TypeOK, Process, MainPCs, ReconcilePCs, CallbackPCs, DispatchPCs, OneEntry,
        sharedVars, localVars, loopVars, callVars, Goto, Jump, Return, BeginTick, Reconciled
<1>1. CASE MainStep
  <2>1. CASE RecoverFetch \/ Poll
    <3>1. UNCHANGED list \/ list' = Fetched(ProcessingTasks) \/ list' = Fetched(WaitingTasks)
      BY <2>1 DEF RecoverFetch, Poll
    <3>2. \A e, f \in list' : e.task = f.task => e = f
      BY <3>1 DEF Fetched
    <3>3. pc'[Main] \notin DispatchPCs
      BY <2>1 DEF RecoverFetch, Poll
    <3> QED
      BY <3>2, <3>3
  <2>2. CASE Recovered \/ TickStart \/ StartShutdown \/ FinishShutdown \/ ScanDone
    BY <2>2 DEF Recovered, TickStart, StartShutdown, FinishShutdown, ScanDone
  <2>3. CASE CheckPR \/ Advance \/ DropState \/ DropSlot \/ \E t \in Tasks : ReconcileFetch(t)
    BY <2>3 DEF CheckPR, Advance, DropState, DropSlot, ReconcileFetch
  <2>4. CASE \E e \in Entries : RecoverTask(e) \/ ScanSkip(e) \/ ScanDispatch(e)
    BY <2>4 DEF RecoverTask, ScanSkip, ScanDispatch
  <2> QED
    BY <1>1, <2>1, <2>2, <2>3, <2>4 DEF MainStep
<1>2. ASSUME NEW p \in Process, DispatchStep(p) PROVE OneEntry'
  <2>1. CASE Claim(p) \/ Unclaim(p) \/ MarkRunning(p)
    BY <2>1 DEF Claim, Unclaim, MarkRunning
  <2>2. CASE Acquire(p) \/ Update(p) \/ Trigger(p) \/ Revert(p) \/ ReleaseState(p) \/ ReleaseSlot(p)
    BY <2>2 DEF Acquire, Update, Trigger, Revert, ReleaseState, ReleaseSlot
  <2>3. CASE ScheduleRetry(p)
    BY <2>3 DEF ScheduleRetry, FreeTimers, StoppableTimers
  <2> QED
    BY <1>2, <2>1, <2>2, <2>3 DEF DispatchStep
<1>3. ASSUME NEW h \in Callbacks, Fire(h) \/ CallbackStep(h) PROVE OneEntry'
  BY <1>3 DEF Fire, CallbackStep, HandleRetry, RetryFetch, EnterDispatch, GiveUp
<1>4. CASE Environment \/ UNCHANGED vars
  BY <1>4 DEF Environment, Cancel, BoardMove, vars
<1> QED
  BY <1>1, <1>2, <1>3, <1>4 DEF Next, Terminated

\* Timers are only set once the process is being stopped, and then every call fails,
\* so that no callback gets as far as dispatch.
OnlyMainDispatches ==
  /\ \A h \in Callbacks :
       /\ pc[h] \in {"idle", "armed", "fired", "fetch", "reschedule"}
       /\ pc[h] # "idle" => cancelled
  /\ pc[Main] \in {"revert", "release_state", "release_slot", "schedule"} => cancelled

\* A running task is claimed, and the task Main dispatches is not running.
ClaimsMatch ==
  /\ running \subseteq claimed
  /\ pc[Main] \in ClaimPCs => task[Main] \in claimed \ running

\* A task with a timer has one only, and Main does not come back to it.
OneTimer ==
  \A h \in Callbacks : pc[h] # "idle" =>
    /\ \A g \in Callbacks : pc[g] # "idle" /\ task[g] = task[h] => g = h
    /\ \A e \in list : e.task # task[h]
    /\ pc[Main] \in DispatchPCs => task[Main] # task[h]

FaultFree == OnlyMainDispatches /\ ClaimsMatch /\ OneTimer

\* A call that is not counted as a failure succeeded or was made after the signal.
LEMMA OnlyCancelledCallsFail == TypeOK /\ faults' = 0 /\ CallFails => cancelled /\ UNCHANGED faults
BY OrchestratorAssumption DEF TypeOK, CallFails

LEMMA FaultFreeMain ==
  ASSUME TypeOK, OneEntry, FaultFree, MainStep
  PROVE  FaultFree'
<1> USE OrchestratorAssumption
    DEF TypeOK, LocalsOK, Process, MainPCs, ReconcilePCs, CallbackPCs, DispatchPCs, ClaimPCs, FaultFree,
        sharedVars, localVars, loopVars, callVars, CallSucceeds, Goto, Jump, Return, StateRelease, BeginTick,
        Reconciled
<1>1. /\ UNCHANGED cancelled
      /\ \A h \in Callbacks : pc'[h] = "idle" \/ (pc'[h] = pc[h] /\ task'[h] = task[h])
      /\ pc'[Main] \in MainPCs \cup ReconcilePCs \cup {"claim"}
  BY MainHands
<1>2. OnlyMainDispatches'
  BY <1>1 DEF OnlyMainDispatches
<1>3. ClaimsMatch'
  <2>1. CASE DropState
    BY <2>1 DEF DropState, ClaimsMatch
  <2>2. CASE ~DropState
    BY <1>1, <2>2 DEF ClaimsMatch, MainStep, RecoverFetch, RecoverTask, Recovered, TickStart, StartShutdown,
       FinishShutdown, ReconcileFetch, CheckPR, Advance, DropSlot, Poll, ScanSkip, ScanDispatch, ScanDone
  <2> QED
    BY <2>1, <2>2
<1>4. cancelled => list' \subseteq list
  BY DEF MainStep, RecoverFetch, RecoverTask, Recovered, TickStart, StartShutdown, FinishShutdown,
     ReconcileFetch, CheckPR, Advance, DropState, DropSlot, Poll, ScanSkip, ScanDispatch, ScanDone
<1>5. pc'[Main] \in DispatchPCs => \E e \in list : task'[Main] = e.task
  BY <1>1 DEF MainStep, RecoverFetch, RecoverTask, Recovered, TickStart, StartShutdown, FinishShutdown,
     ReconcileFetch, CheckPR, Advance, DropState, DropSlot, Poll, ScanSkip, ScanDispatch, ScanDone
<1>6. OneTimer'
  BY <1>1, <1>4, <1>5 DEF OneTimer, OnlyMainDispatches
<1> QED
  BY <1>2, <1>3, <1>6

LEMMA FaultFreeDispatch ==
  ASSUME TypeOK, OneEntry, FaultFree, faults' = 0, NEW p \in Process, DispatchStep(p)
  PROVE  FaultFree'
<1> USE OrchestratorAssumption
    DEF TypeOK, LocalsOK, Process, MainPCs, ReconcilePCs, CallbackPCs, DispatchPCs, ClaimPCs, FaultFree,
        OnlyMainDispatches, ClaimsMatch, OneTimer,
        sharedVars, localVars, loopVars, callVars, Goto, Jump, Return, StateRelease
<1>1. CASE Claim(p)
  BY <1>1 DEF Claim
<1>2. CASE Acquire(p) \/ ReleaseSlot(p)
  BY <1>2 DEF Acquire, ReleaseSlot
<1>3. CASE Unclaim(p) \/ ReleaseState(p)
  BY <1>3 DEF Unclaim, ReleaseState
<1>4. CASE MarkRunning(p)
  BY <1>4 DEF MarkRunning
<1>5. CASE Update(p) \/ Trigger(p) \/ Revert(p)
  BY <1>5, OnlyCancelledCallsFail DEF Update, Trigger, Revert, WriteSucceeds, WriteFails, CallSucceeds
<1>6. CASE ScheduleRetry(p)
  <2>1. /\ pc[p] \in {"schedule", "reschedule"} /\ cancelled
        /\ UNCHANGED <<claimed, running, list, cancelled>>
    BY <1>6 DEF ScheduleRetry
  <2>2. CASE done
    <3>1. /\ pc'[p] = IF p = Main THEN "scan" ELSE "idle"
          /\ \A q \in Process \ {p} : pc'[q] = pc[q] /\ task'[q] = task[q]
      BY <1>6, <2>2 DEF ScheduleRetry
    <3>2. OnlyMainDispatches' /\ ClaimsMatch'
      BY <2>1, <3>1
    <3>3. OneTimer'
      BY <2>1, <3>1
    <3> QED
      BY <3>2, <3>3
  <2>3. CASE ~done
    <3>1. PICK h \in Callbacks :
            /\ pc'[h] = "armed" /\ task'[h] = task[p] /\ p \in {h, Main}
            /\ \A q \in Process \ {h} :
                 \/ pc'[q] = pc[q] /\ task'[q] = task[q] /\ q # p
                 \/ q \in Callbacks /\ pc'[q] = "idle"
                 \/ q = Main /\ pc'[q] = "scan"
      BY <1>6, <2>3 DEF ScheduleRetry, FreeTimers, StoppableTimers
    <3>2. OnlyMainDispatches'
      BY <2>1, <3>1
    <3>3. ClaimsMatch'
      BY <2>1, <3>1
    <3>4. pc'[Main] \in DispatchPCs => pc[Main] \in DispatchPCs /\ task'[Main] = task[Main] /\ p # Main
      BY <3>1
    <3>5. \A g \in Callbacks \ {h} : pc'[g] # "idle" =>
             /\ pc[g] # "idle" /\ task'[g] = task[g]
             /\ task[g] # task[p]
      <4>1. CASE p = Main
        BY <2>1, <3>1, <4>1
      <4>2. CASE p = h
        BY <2>1, <3>1, <4>2
      <4> QED
        BY <3>1, <4>1, <4>2
    <3>6. \A e \in list : e.task # task[p]
      BY <2>1, <3>1 DEF OneEntry
    <3>7. pc'[Main] \in DispatchPCs => task[Main] # task[p]
      BY <2>1, <3>1, <3>4
    <3>8. OneTimer'
      <4> SUFFICES ASSUME NEW g \in Callbacks, pc'[g] # "idle"
                   PROVE  /\ \A f \in Callbacks : pc'[f] # "idle" /\ task'[f] = task'[g] => f = g
                          /\ \A e \in list : e.task # task'[g]
                          /\ pc'[Main] \in DispatchPCs => task'[Main] # task'[g]
        BY <2>1
      <4>1. CASE g = h
        BY <3>1, <3>4, <3>5, <3>6, <3>7, <4>1
      <4>2. CASE g # h
        BY <3>1, <3>4, <3>5, <4>2
      <4> QED
        BY <4>1, <4>2
    <3> QED
      BY <3>2, <3>3, <3>8
  <2> QED
    BY <2>2, <2>3
<1> QED
  BY <1>1, <1>2, <1>3, <1>4, <1>5, <1>6 DEF DispatchStep

LEMMA FaultFreeCallback ==
  ASSUME TypeOK, OneEntry, FaultFree, NEW h \in Callbacks, Fire(h) \/ CallbackStep(h)
  PROVE  FaultFree'
<1> USE OrchestratorAssumption
    DEF TypeOK, Process, FaultFree, OnlyMainDispatches,
        sharedVars, loopVars, callVars, CallSucceeds, Goto, Jump, Return
<1>1. /\ UNCHANGED <<claimed, running, list, cancelled>> /\ cancelled
      /\ pc[h] # "idle" /\ pc'[h] \in {"idle", "fired", "fetch", "reschedule"}
      /\ pc'[h] # "idle" => task'[h] = task[h]
      /\ \A q \in Process \ {h} : pc'[q] = pc[q] /\ task'[q] = task[q]
  BY DEF Fire, CallbackStep, HandleRetry, RetryFetch, EnterDispatch, GiveUp
<1>2. OnlyMainDispatches'
  BY <1>1
<1>3. ClaimsMatch'
  BY <1>1 DEF ClaimsMatch
<1>4. OneTimer'
  BY <1>1 DEF OneTimer
<1> QED
  BY <1>2, <1>3, <1>4

LEMMA FaultFreeNext ==
  ASSUME TypeOK, OneEntry, FaultFree, faults' = 0, [Next]_vars
  PROVE  FaultFree'
<1>1. CASE Environment
  BY <1>1 DEF Environment, Cancel, BoardMove, FaultFree, OnlyMainDispatches, ClaimsMatch, OneTimer,
     sharedVars, localVars, loopVars
<1>2. CASE UNCHANGED vars
  BY <1>2 DEF vars, FaultFree, OnlyMainDispatches, ClaimsMatch, OneTimer
<1> QED
  BY <1>1, <1>2, FaultFreeMain, FaultFreeDispatch, FaultFreeCallback DEF Next, Terminated

\* Failed calls are counted, never forgotten.
LEMMA FaultsStay == TypeOK /\ [Next]_vars => (faults' = 0 => faults = 0)
<1> SUFFICES ASSUME TypeOK, [Next]_vars PROVE faults' = 0 => faults = 0
  OBVIOUS
<1>1. DebtEffect
  BY DebtEffects
<1>2. faults' \in {faults, faults + 1}
  BY <1>1 DEF DebtEffect, DebtSame, DebtFault, DebtPass, DebtClaim, DebtYield, DebtTake, DebtGive, DebtMark,
     DebtDrop, DebtPaid
<1> QED
  BY <1>2, OrchestratorAssumption DEF TypeOK

LEMMA FaultFreeAtStart == Init => OneEntry /\ FaultFree
BY OrchestratorAssumption
DEF Init, Process, OneEntry, FaultFree, OnlyMainDispatches, ClaimsMatch, OneTimer, DispatchPCs, ClaimPCs

LEMMA FaultFreeInvariant == Spec => [](OneEntry /\ (faults = 0 => FaultFree))
<1>1. TypeOK /\ OneEntry /\ (faults = 0 => FaultFree) /\ [Next]_vars
      => (OneEntry /\ (faults = 0 => FaultFree))'
  <2> SUFFICES ASSUME TypeOK, OneEntry, faults = 0 => FaultFree, [Next]_vars
               PROVE  OneEntry' /\ (faults' = 0 => FaultFree')
    OBVIOUS
  <2>1. OneEntry'
    BY OneEntryNext
  <2> QED
    BY <2>1, FaultsStay, FaultFreeNext
<1>2. Init => OneEntry /\ (faults = 0 => FaultFree)
  BY FaultFreeAtStart
<1> QED
  BY <1>1, <1>2, TypeCorrect, PTL DEF Spec

\* What the documents promise of a dispatch: the limiter counts the running tasks,
\* no running task is dispatched, an old callback leaves the entry of a newer one alone.
PromisesKept == NoSlotLeak /\ DispatchesOnlyIdle /\ OldCallbackIgnored

LEMMA PromisesFromFaultFree ==
  TypeOK /\ SlotsAccounted /\ RetryMapSound /\ FaultFree /\ faults = 0 => PromisesKept
<1> SUFFICES ASSUME TypeOK, SlotsAccounted, RetryMapSound, FaultFree, faults = 0 PROVE PromisesKept
  OBVIOUS
<1>1. NoSlotLeak
  <2> SUFFICES ASSUME pc[Main] = "sleep", Dispatching = {} PROVE active = Cardinality(running)
    BY DEF NoSlotLeak
  <2>1. SlotHolders = {}
    BY DEF Dispatching, SlotHolders, DispatchPCs, SlotPCs, TypeOK, Process, MainPCs
  <2>2. todo = {}
    BY DEF TypeOK, ReconcilePCs
  <2>3. Cardinality(SlotHolders) = 0 /\ running \cup todo = running
    BY <2>1, <2>2, FS_EmptySet
  <2>4. Cardinality(running) \in Nat /\ active \in Nat
    BY FiniteCounts, FS_CardinalityType
  <2> QED
    BY <2>3, <2>4 DEF SlotsAccounted, SlotsCovered
<1>2. DispatchesOnlyIdle
  BY DEF DispatchesOnlyIdle, FaultFree, OnlyMainDispatches, ClaimsMatch, ClaimPCs, Process
<1>3. OldCallbackIgnored
  <2> SUFFICES ASSUME NEW h \in Callbacks, pc[h] = "fired", OwnsEntry(h) PROVE retryTimers[task[h]] = h
    BY DEF OldCallbackIgnored
  <2>1. task[h] \in Tasks
    BY DEF TypeOK, LocalsOK, Process, CallbackPCs
  <2>2. PICK g \in Callbacks : g = retryTimers[task[h]]
    BY <2>1 DEF TypeOK, OwnsEntry
  <2>3. task[g] = task[h] /\ pc[g] # "idle"
    BY <2>1, <2>2, OrchestratorAssumption DEF RetryMapSound
  <2> QED
    BY <2>2, <2>3 DEF FaultFree, OneTimer
<1> QED
  BY <1>1, <1>2, <1>3 DEF PromisesKept

\* The three are broken by failures only: as long as no call of theirs has failed, they
\* hold, also while the process is being stopped, whatever people and agents do to the
\* board meanwhile.
THEOREM PromisesWhileCallsSucceed ==
  Spec => [](faults = 0 => NoSlotLeak /\ DispatchesOnlyIdle /\ OldCallbackIgnored)
<1>1. PromisesKept => NoSlotLeak /\ DispatchesOnlyIdle /\ OldCallbackIgnored
  BY DEF PromisesKept
<1> QED
  BY <1>1, PromisesFromFaultFree, TypeCorrect, SlotsAlwaysAccounted, RetryEntriesLive, FaultFreeInvariant, PTL

=============================================================================
