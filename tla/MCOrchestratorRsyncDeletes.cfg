SPECIFICATION Spec
CONSTANTS
  NumRuns = 3
  MaxDay = 2
  RetentionDays = 1
  Overlap = FALSE
  Providers <- RsyncOnly
PROPERTIES
  OnlyExpiredDeleted
