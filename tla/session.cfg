SPECIFICATION FairSessionSpec
CONSTANTS
  Subs = {1}
  MaxOperations = 2
  Anonymous = {2}
  MaxAttempts = 2
  MaxVersion = 1
  MaxRequests = 3
INVARIANTS
  ActiveIsAligned
  NothingStaleIsSent
  RevokedIsOut
PROPERTIES
  RefreshSettles
CHECK_DEADLOCK FALSE
