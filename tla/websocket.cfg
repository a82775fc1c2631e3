SPECIFICATION SinkSpec
CONSTANTS
  Connections = {"c1", "c2"}
  MaxBytes = 4
  Reserve = 2
  MaxFrameBytes = 2
  MaxBytesPerConnection = 4
  MaxStall = 1
  Overhead = 1
  Offers <- MCOffers
  MaxEpoch <- MCMaxEpoch
  MaxFrames <- MCMaxFrames
INVARIANTS
  BooksBalance
  OnlyTheStalledAreDropped
PROPERTIES
  SentInOrderAndEpoch
  BlockedEnds
CHECK_DEADLOCK FALSE
