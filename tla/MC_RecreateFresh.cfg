CONSTANTS
  Kinds = {"resume", "fresh"}
  MaxToken = 7
  MaxFaults = 1
SPECIFICATION FairSpec
PROPERTIES RerunContinuesReplacement
