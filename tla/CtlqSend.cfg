SPECIFICATION Spec
CONSTANTS
  Senders = {t1, t2}
  RingSize = 3
  None = None
  MaxMsg = 5
  MaxReset = 1
SYMMETRY SenderSymmetry
CHECK_DEADLOCK FALSE
INVARIANT RingSound
INVARIANT ExecutedInOrder
INVARIANT BufferLiveUntilDone
