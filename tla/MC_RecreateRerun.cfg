CONSTANTS
  Kinds = {"rebuild"}
  MaxToken = 7
  MaxFaults = 1
SPECIFICATION FairSpec
PROPERTIES RerunContinuesCreation
