SPECIFICATION FairSpec
CONSTANTS
  NumVports = 1
  MaxErr = 1
  Troubles = {"reset", "corer", "timeout", "fault", "remove"}
  MaxTrouble = 2
CHECK_DEADLOCK FALSE
INVARIANT VportLive
PROPERTY ResetEnds
PROPERTY ComesBack
