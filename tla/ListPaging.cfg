SPECIFICATION FairSpec
CONSTANTS
  Tasks = {t1, t2, t3, t4}
  PageSize = 2
  MaxChanges = 2
INVARIANTS
  TypeOK
  ChangesDoOneHarm
PROPERTIES
  ReturnsWhole
  CallEnds
