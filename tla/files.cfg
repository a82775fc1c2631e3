SPECIFICATION FairFilesSpec
CONSTANTS
  Uploads = {u1}
  Attempts = {1, 2}
  Stores = {b1}
  MaxKeys = 3
  MaxCalls = 2
  MaxGrants = 1
  Batch = 1
  SessionMs = 1
  PendingMs = 1
  GrantMs = 1
  LeaseMs = 0
  RetryMs = 0
  MaxClock = 1
  MaxFaults = 1
  MaxCrashes = 1
INVARIANTS
  LiveFilesHaveBytes
  NoOrphans
  WorkIsAwaited
PROPERTIES
  DeletingEnds
CHECK_DEADLOCK FALSE
