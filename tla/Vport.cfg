SPECIFICATION Spec
CONSTANTS
  MaxQ = 2
  MaxCmd = 4
  MaxFault = 2
  MaxLink = 2
  CoreResets = {TRUE}
CHECK_DEADLOCK FALSE
INVARIANT MemoryExact
INVARIANT UpMeansReady
INVARIANT DmaLive
INVARIANT LinkAgrees
PROPERTY SoftResetKeeps
