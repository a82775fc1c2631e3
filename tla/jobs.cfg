SPECIFICATION Spec
CONSTANTS
  MaxJobs = 5
  MaxRuns = 2
  Steps <- MCSteps
  Names = {"charge", "nightly"}
  Releases = {{"charge", "nightly"}, {"charge"}}
  Definition <- MCDefinition
  DefaultRetention = 1
  LeaseMs = 1
  Program <- MCProgram
  ClaimBatchSize = 2
  MaxRunning = 2
  ReapInterval = 1
  SleepMs = 0
  Delays = {0}
  MaxClock = 1
  MaxEnqueues = 2
  MaxDisturbances = 1
INVARIANTS
  JobAgreesWithRun
  StepsOnce
  WaitersWillHear
  DueWorkIsAwaited
PROPERTIES
  OutcomeIsFinal
