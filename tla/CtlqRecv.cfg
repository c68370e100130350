SPECIFICATION FairArqSpec
CONSTANTS
  RingSize = 5
  None = None
  MaxMsg = 7
INVARIANT BuffersSound
INVARIANT DeliveredExact
PROPERTY AllReceived
