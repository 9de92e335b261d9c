CONSTANTS
  Agents = {"openclaw", "hermes"}
  DefaultAgent = "openclaw"
  Procs = {"p1", "p2"}
  MaxRuns = 2
  MaxDisruptions = 2
  MaxRetries = 1
SPECIFICATION Spec
INVARIANTS CompleteMeansDone CompleteIsClosed
  ReceiptDescribesSnapshot
PROPERTIES MachineMovesLegally
CHECK_DEADLOCK FALSE
