CONSTANTS
  Kinds = {"rebuild", "resume", "fresh"}
  MaxToken = 7
  MaxFaults = 4
SPECIFICATION FairSpec
INVARIANTS TypeOK
PROPERTIES DeletesOnlyItsOwn SourceRecordKept ClearedMeansRegistered RerunSettles
