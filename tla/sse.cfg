SPECIFICATION SseSpec
CONSTANTS
  Streams = {"s1", "s2"}
  MaxBytes = 6
  Reserve = 2
  MaxFrameBytes = 2
  MaxBytesPerStream = 5
  TerminalReserve = 2
  DoneBytes = 1
  MinimumBytes = 1
  MaxStall = 1
  Chunks = {1, 2, 3}
  MaxChunks <- MCMaxChunks
INVARIANTS
  TerminalFrameAssured
  
PROPERTIES
  EndingStreamsSettle
CHECK_DEADLOCK FALSE
