SPECIFICATION FairServiceSpec
CONSTANTS
  sm <- MCStatusMapping
  OtherStatuses <- MCOtherStatuses
  NoPhase = NoPhase
  Tasks = {t1}
  Main = main
  Callbacks = {c1}
  NoTask = NoTask
  NoTimer = NoTimer
  MaxConcurrentTasks = 1
  PRCheckerEnabled = TRUE
  BoardMoves <- ReviewMoves
  InitialStatuses <- SomeStatuses
  MaxFaults = 1
  MaxAttempt = 1
  SpecInRepo = FALSE
  MaxMishaps = 1
INVARIANTS
  ServiceTypeOK
  RunsBounded
  ProcessingIsReal
  RunsTracked
PROPERTIES
  MergeCloses
  StuckTaskRecovers
  CrashRecovers
