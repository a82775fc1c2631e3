SPECIFICATION FairSubscriptionsSpec
CONSTANTS
  q = q
  Queries <- MCQueries
  Clients = {c1}
  QueryOf <- MCQueryOf
  Keys <- MCKeys
  Values <- MCValues
  Updates <- MCUpdates
  ReadKeys <- MCReadKeys
  IsErr <- MCNeverErr
  MaxTransitions = 2
  VersionBound = 3
  GenerationBound = 2
  FailureBound = 0
  DisconnectBound = 1
  UnsubscribeBound = 0
PROPERTIES
  NeverBackwards
  
  
CHECK_DEADLOCK FALSE
