SPECIFICATION FairSpec
CONSTANTS
  sm <- MCStatusMapping
  OtherStatuses <- MCOtherStatuses
  NoPhase = NoPhase
  Tasks = {t1}
  Main = main
  Callbacks = {c1, c2}
  NoTask = NoTask
  NoTimer = NoTimer
  MaxConcurrentTasks = 1
  PRCheckerEnabled = TRUE
  BoardMoves <- AllMoves
  InitialStatuses <- SomeStatuses
  MaxFaults = 2
  MaxAttempt = 2
PROPERTIES
  ShutdownTerminates
  TriggerServed
  SlotsComeBack
