SPECIFICATION Spec
CONSTANTS
  Addr = {a1, a2}
  Conv = {c1, c2}
  Fd <- TwoFds
  End = End
  ConvTimeout = 1
  ConvClearInterval = 0
  ConvClearRatio = 2
  ConvClearMin = 1
  ConnTimeout = 2
  ConnClearInterval = 0
  ConnClearRatio = 2
  ConnClearMin = 1
  Ancient = 2
  MaxConnNum = 2
  MaxConvNum = 2
  HeapStamps <- DueStamps
  MaxBatch = 2
  MaxFd64 = 3
INVARIANTS
  SocketsHaveOneOwner
  PointersAreLive
  ManagersMatchTraffic
PROPERTIES
  OnlyIdleIsCleared
  ConversationKeepsSocket
