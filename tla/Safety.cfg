SPECIFICATION Spec
CONSTANTS
  sm <- MCStatusMapping
  OtherStatuses <- MCOtherStatuses
  NoPhase = NoPhase
  Tasks = {t1, t2}
  Main = main
  Callbacks = {c1, c2}
  NoTask = NoTask
  NoTimer = NoTimer
  MaxConcurrentTasks = 1
  PRCheckerEnabled = TRUE
  BoardMoves <- AllMoves
  InitialStatuses <- Anywhere
  MaxFaults = 1
  MaxAttempt = 2
SYMMETRY Symmetry
INVARIANTS
  TypeOK
  NoClaimLeak
  SlotsAccounted
  CapRespected
  GracefulDrain
  RetryMapSound
PROPERTY
  AdmissionControlled
