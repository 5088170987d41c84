SPECIFICATION FairSpec
CONSTANTS
  Addr = {a1, a2}
  Conv = {c1, c2}
  Fd <- TwoFds
  End = End
  ConvTimeout = 1
  ConvClearInterval = 0
  ConvClearRatio = 3
  ConvClearMin = 1
  ConnTimeout = 1
  ConnClearInterval = 0
  ConnClearRatio = 3
  ConnClearMin = 1
  Ancient = 1
  MaxConnNum = 2
  MaxConvNum = 2
  HeapStamps <- AnyStamp
  MaxBatch = 1
  MaxFd64 = 2
PROPERTIES
  SilenceIsForgotten
