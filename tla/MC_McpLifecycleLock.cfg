CONSTANTS
  Procs = {p1, p2, p3}
  Tokens = {1, 2, 3, 4, 5, 6, 7}
  Timers = {t1, t2}
  MaxCrashes = 2
  MaxLate = 1
  MaxFailures = 1
SPECIFICATION Spec
SYMMETRY Symmetry
INVARIANTS TypeOK HolderOwnsMain FailClosed 
PROPERTIES ImplementsLock
CHECK_DEADLOCK FALSE
