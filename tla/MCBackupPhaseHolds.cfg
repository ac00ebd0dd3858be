SPECIFICATION Spec
CONSTANTS
  Blank = Blank
  NotANumber = NotANumber
  Names <- TwoContainers
  Metadata <- MCMetadata
CHECK_DEADLOCK FALSE
INVARIANTS
  ResolvedTargetsAreValid
  EveryContainerIsAccountedFor
  ArchiveAccountsForDirectories
PROPERTIES
  ImplementsRunOnce
