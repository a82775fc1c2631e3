SPECIFICATION FairCoordinatorSpec
CONSTANTS
  r1 = r1
  r2 = r2
  idA = idA
  idB = idB
  NoRequest = NoRequest
  Requests = {r1, r2}
  Identities = {idA, idB}
  ResultSizes = {0, 1, 2}
  CreatedAt <- MCCreatedAt
  ClientAhead = 0
  ClockSkew = 1
  MaxAge = 1
  MaxRecords = 1
  MaxReplayBytes = 1
  MaxResultBytes = 1
  PruneInterval = 1
  ClockBound = 2
  InitialVersion = 0
  MaxItems = 2
  MaxBytes = 2
  Sizes = {1}
  VersionBound = 2
INVARIANTS
  
  
  LedgerSound
  AnsweredAfterPublication
PROPERTIES
  WaitingAnswered
