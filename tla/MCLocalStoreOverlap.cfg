SPECIFICATION Spec
CONSTANTS
  NumRuns = 2
  MaxDay = 1
  RetentionDays = 1
  Overlap = TRUE
  Files <- TwoFiles
PROPERTIES
  ImplementsRunStore
CHECK_DEADLOCK FALSE
