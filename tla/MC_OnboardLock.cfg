CONSTANTS
  Procs = {"p1", "p2"}
  Inodes = {"i1", "i2", "i3"}
  ReuseInodes = FALSE
  MAX_ATTEMPTS = 3
  MaxFaults = 1
  MaxSlow = 1
SPECIFICATION FairSpec
INVARIANTS TypeOK MutualExclusion HolderKeepsFile
PROPERTIES DebrisNeverBlocks
