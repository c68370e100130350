SPECIFICATION Spec
CONSTANTS
  Callers = {t1, t2}
  Ops = {a}
  RingLen = 2
  SaltMod = 2
  None = None
  MaxExec = 3
  MaxReply = 2
  MaxReset = 1
SYMMETRY CallerSymmetry
CHECK_DEADLOCK FALSE
INVARIANT XnOwnership
INVARIANT ReplyBufferLive
INVARIANT DownStaysDown
INVARIANT WakePending
PROPERTY ReplyMatchesRequest
PROPERTY DownCallsFail
PROPERTY ImplementsCalls
