SPECIFICATION FairSpec
CONSTANTS
  NumVports = 2
  MaxErr = 1
  Troubles = {}
  MaxTrouble = 0
CHECK_DEADLOCK FALSE
PROPERTY ResetEnds
