SPECIFICATION FairSpec
CONSTANTS
  MaxJobs = 2
  MaxRuns = 2
  Steps <- MCShortSteps
  Names = {"charge", "refund"}
  Releases = {{"charge", "refund"}, {"charge"}}
  Definition <- MCDefinition
  DefaultRetention = 1
  LeaseMs = 0
  Program <- MCShortProgram
  ClaimBatchSize = 2
  MaxRunning = 2
  ReapInterval = 1
  SleepMs = 0
  Delays = {0}
  MaxClock = 0
  MaxEnqueues = 2
  MaxDisturbances = 1
INVARIANTS
  GateHolds
PROPERTIES
  OverdueWorkIsTakenUp
