SPECIFICATION FairSpec
CONSTANTS
  Callers = {c1, c2, c3}
  NoCaller = NoCaller
  TokenLife = 6
  Margin = 3
  InstallTimeout = 1
  RequestTimeout = 2
  MaxTime = 10
INVARIANTS
  TypeOK
  HandedValid
  OutlivesRequest
  RefreshesSpaced
PROPERTY
  CallReturns
