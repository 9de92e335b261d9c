CONSTANTS
  Procs = {"p1", "p2", "p3"}
  Tokens = {1, 2, 3, 4, 5, 6, 7}
  Timers = {"t1"}
  MaxCrashes = 1
  MaxLate = 0
  MaxFailures = 0
SPECIFICATION FairSpec
PROPERTIES NobodyStuck
CHECK_DEADLOCK FALSE
