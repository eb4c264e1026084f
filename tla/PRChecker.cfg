SPECIFICATION FairSpec
CONSTANTS
  PRs = {p1, p2, p3}
  OnBranch = {p1, p2}
  Marked = {p2, p3}
  MaxTroubles = 2
INVARIANT
  TypeOK
PROPERTIES
  ChecksAtomically
  MergeNoticed
