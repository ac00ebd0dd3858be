SPECIFICATION Spec
CONSTANTS
  NumRuns = 2
  MaxDay = 2
  RetentionDays = 1
  Overlap = FALSE
  Providers <- LocalAndFtp
INVARIANTS
  TypeOK
  NoRecentBackupLost
  SuccessMeansPublished
  StagedManifestIsFinal
  PublicationInv
PROPERTIES
  OnlyExpiredDeleted
  RetentionAfterPublication
  RetentionApplied
  AmbiguousRunsKept
