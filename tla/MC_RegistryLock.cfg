CONSTANTS
  Procs = {"p1", "p2"}
  Versions = {"v1", "v2", "v3"}
  LOCK_MAX_RETRIES = 2
  MaxOps = 2
  MaxFaults = 1
  MaxSlow = 1
SPECIFICATION FairSpec
INVARIANTS TypeOK NoLostUpdate OwnerFileNamesHolder
PROPERTIES EveryUpdateGetsThrough
CHECK_DEADLOCK FALSE
