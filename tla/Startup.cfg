SPECIFICATION FairHealthSpec
CONSTANTS
  ProjectCount = 3
  Name <- MCName
INVARIANTS
  ValidProjectsRun
  StopsAfterRuns
  HealthTypeOK
  AnswerComplete
  FailuresShown
PROPERTIES
  ProcessEnds
  RequestAnswered
