SPECIFICATION Spec
CONSTANTS
  NumRuns = 2
  MaxDay = 2
  RetentionDays = 1
  Overlap = FALSE
  Providers <- LocalAndRsync
PROPERTIES
  AmbiguousRsyncFreezesPublication
  StagingOutlivesPublication
