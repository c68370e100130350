SPECIFICATION Spec
CONSTANTS
  Budget = 2
  Configs <- McConfigs
  Kinds <- McKinds
  None = None
  Faults = {"nomem", "skb", "remote"}
  MaxDesc = 5
  MaxFault = 1
CHECK_DEADLOCK FALSE
INVARIANT BufsSound
INVARIANT PostedSafe
INVARIANT DeliveredWhole
PROPERTY AllHandled
