SPECIFICATION Spec
CONSTANTS
  NumVports = 2
  MaxErr = 1
  Troubles = {"reset", "err", "flr", "fault", "remove"}
  MaxTrouble = 2
CHECK_DEADLOCK FALSE
INVARIANT VportsSound
INVARIANT RecoversFromNothing
INVARIANT WorksDrained
