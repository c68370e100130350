SPECIFICATION Spec
CONSTANTS
  RingSize = 8
  PoolSize = 5
  ComplqSize = 8
  ReGap = 3
  WakeThresh = 3
  Budget = 2
  CtrMod = 16
  Shapes <- McMixed
  Ctx = {0}
  Stamps = {0}
  Null = Null
  MaxPkt = 2
  MaxFault = 0
  MissPkts = {1}
CHECK_DEADLOCK FALSE
INVARIANT SkbsReturned
