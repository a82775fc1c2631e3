SPECIFICATION FairPublicationSpec
CONSTANTS
  InitialVersion = 1
  MaxItems = 3
  MaxBytes = 3
  Sizes = {0, 1, 2}
  VersionBound = 5
INVARIANTS
  SettledPrefix
  NoLostWakeup
PROPERTIES
  ImplementsOrderedLog
  CommittedSettles
CHECK_DEADLOCK FALSE
