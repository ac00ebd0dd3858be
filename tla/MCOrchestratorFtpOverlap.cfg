SPECIFICATION FairSpec
CONSTANTS
  NumRuns = 2
  MaxDay = 2
  RetentionDays = 1
  Overlap = TRUE
  Providers <- FtpOnly
INVARIANTS
  NoRecentBackupLost
PROPERTIES
  RunsEnd
