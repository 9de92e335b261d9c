CONSTANTS
  Procs = {p1, p2, p3, p4, p5}
  Tokens = {1, 2, 3, 4, 5, 6, 7, 8, 9, 10}
  Timers = {}
  MaxCrashes = 0
  MaxLate = 0
  MaxFailures = 0
SPECIFICATION Spec
SYMMETRY Symmetry
INVARIANTS Serialized
CHECK_DEADLOCK FALSE
