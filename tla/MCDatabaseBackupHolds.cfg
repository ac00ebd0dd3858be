SPECIFICATION Spec
CONSTANTS
  Database <- MCDatabase
  SafeName <- MCSafeName
  MaxDatabases = 2
CHECK_DEADLOCK FALSE
INVARIANTS
  TypeOK
  ArtifactsHoldTheirDump
  NothingInFlightIsLeft
  EveryDumpIsAccountedFor
  MethodIsKeptTo
  DefaultsFileIsRemoved
