SPECIFICATION FairSpec
CONSTANTS
  RingSize = 8
  PoolSize = 5
  ComplqSize = 6
  ReGap = 3
  WakeThresh = 3
  Budget = 2
  CtrMod = 16
  Shapes <- McMixed
  Ctx = {0}
  Stamps = {0}
  Null = Null
  MaxPkt = 4
  MaxFault = 1
  MissPkts = {2}
CHECK_DEADLOCK FALSE
INVARIANT RingsFit
INVARIANT TagsSound
INVARIANT DoorbellRung
INVARIANT SkbFreedOnce
PROPERTY StoppedWakes
