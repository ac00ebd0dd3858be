SPECIFICATION Spec
CONSTANTS
  NumRuns = 2
  MaxDay = 2
  RetentionDays = 1
  NumFiles = 2
  ManifestFile = 1
  Overlap = TRUE
INVARIANTS
  TypeOK
  LatestSettles
  FtpInv
PROPERTIES
  ImplementsRunStore
  CleanupReportsLeftovers
CHECK_DEADLOCK FALSE
