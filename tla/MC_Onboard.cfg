CONSTANTS
  Agents = {"openclaw", "hermes"}
  DefaultAgent = "openclaw"
  Procs = {"p1"}
  MaxRuns = 3
  MaxDisruptions = 2
  MaxRetries = 1
SPECIFICATION FairSpec
INVARIANTS TypeOK CompleteMeansDone
  RecoveryEntersBeforeUnfinishedWork
PROPERTIES CompletedStaysCompleted ResumeConverges
CHECK_DEADLOCK FALSE
