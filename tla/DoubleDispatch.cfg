SPECIFICATION Spec
CONSTANTS
  sm <- MCStatusMapping
  OtherStatuses <- MCOtherStatuses
  NoPhase = NoPhase
  Tasks = {t1}
  Main = main
  Callbacks = {c1, c2}
  NoTask = NoTask
  NoTimer = NoTimer
  MaxConcurrentTasks = 0
  PRCheckerEnabled = TRUE
  BoardMoves <- AllMoves
  InitialStatuses <- TriggerOnly
  MaxFaults = 1
  MaxAttempt = 2
INVARIANT
  DispatchesOnlyIdle
