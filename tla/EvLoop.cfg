SPECIFICATION FairSpec
CONSTANTS
  DHEAP = 4
  Timers <- TwoTimers
  flush = flush
  conn = conn
  Ios = {i1, i2}
  s1 = s1
  Signals <- OneSignal
  Prepare = Prepare
  pipe_w = pipe_w
  pending_w = pending_w
  Fds <- FewFds
  Flags <- AnyFlags
  evpipe = 2
  None = None
  Settings <- FlushAndConn
  EgenMod = 2
  MaxLag = 2
  MaxCalls = 1
INVARIANTS
  Verified
  NoCallbackAfterStop
  SleepMissesNothing
PROPERTIES
  EverythingIsServed
CHECK_DEADLOCK FALSE
