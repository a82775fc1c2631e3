SPECIFICATION FairChannelsSpec
CONSTANTS
  Clients = {c1, c2}
  MaxSubscriptions = 1
  MaxIds = 2
  MaxMessages = 1
  MaxEpoch = 1
INVARIANTS
  MembersExact
  ClientAgrees
PROPERTIES
  JoinsAreAnswered
CHECK_DEADLOCK FALSE
