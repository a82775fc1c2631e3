SPECIFICATION SubscriptionsSpec
CONSTANTS
  q = q
  Queries <- MCQueries
  Clients = {c1, c2}
  QueryOf <- MCQueryOf
  Keys <- MCKeys
  Values <- MCValues
  Updates <- MCUpdates
  ReadKeys <- MCReadKeys
  IsErr <- MCNeverErr
  MaxTransitions = 2
  VersionBound = 2
  GenerationBound = 2
  FailureBound = 1
  DisconnectBound = 1
  UnsubscribeBound = 1
SYMMETRY ClientSymmetry
INVARIANTS
  
  QuietClientsAreCurrent
  NoMissedWrite
CHECK_DEADLOCK FALSE
