CONSTANTS
  Digests = {"d1", "d2"}
  MaxFaults = 3
  MaxChanges = 3
SPECIFICATION FairSpec
INVARIANTS TypeOK ExcludedStaysOut
PROPERTIES RepairConverges
CHECK_DEADLOCK FALSE
