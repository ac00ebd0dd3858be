SPECIFICATION Spec
CONSTANTS
  NumRuns = 3
  MaxDay = 2
  RetentionDays = 1
  Overlap = FALSE
  Files <- TwoFiles
INVARIANTS
  LatestIsWhole
  LocalInv
  LatestIsNewest
PROPERTIES
  ImplementsRunStore
  CleanupReportsLeftovers
CHECK_DEADLOCK FALSE
