SPECIFICATION FairSpec
CONSTANTS
  BackupTimes <- MCBackupTimes
  Offsets <- MCOffsets
  Durations <- MCDurations
  MaxDuration = 26
  Horizon = 72
CHECK_DEADLOCK FALSE
INVARIANTS
  TypeOK
  AtBackupTime
  OncePerDay
  NotSleptThrough
  MissesByTheJump
PROPERTIES
  StoppedLoopDoesNotRun
  StopEndsTheLoop
