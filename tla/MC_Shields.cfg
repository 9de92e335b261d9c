CONSTANTS
  MaxWindows = 2
  MaxAttempts = 2
  MaxFaults = 3
  OpenClaw = TRUE
SPECIFICATION RetrySpec
INVARIANTS TypeOK NoUntrackedWindow UpIsHardened
PROPERTIES OnlyOwnWindow DeadlineHonoured ExpiredWindowEnds
CHECK_DEADLOCK FALSE
