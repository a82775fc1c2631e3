SPECIFICATION SubscriptionsSpec
CONSTANTS
  q = q
  Queries <- MCQueries
  Clients = {c1}
  QueryOf <- MCQueryOf
  Keys <- MCKeys
  Values <- MCValues
  Updates <- MCUpdates
  ReadKeys <- MCReadKeys
  IsErr <- MCNeverErr
  MaxTransitions = 2
  VersionBound = 2
  GenerationBound = 2
  FailureBound = 1
  DisconnectBound = 1
  UnsubscribeBound = 0
INVARIANTS
  StaysSubscribed
CHECK_DEADLOCK FALSE
