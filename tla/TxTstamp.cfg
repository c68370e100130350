SPECIFICATION FairSpec
CONSTANTS
  NumLatches = 2
  Wrap = 8
  Discard = 1
  Period = 1
  MaxRead = 1
  Start = 5
  Jump = 5
  MaxPkt = 3
  Budgets <- McBudgets
CHECK_DEADLOCK FALSE
INVARIANT LatchesSound
INVARIANT RequestsSound
PROPERTY TstampExact
PROPERTY AllStamped
