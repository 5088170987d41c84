SPECIFICATION Spec
CONSTANTS
  Apps = {a, b}
  Conv = {c1, c2}
  Fds <- TwoFds
  None = None
  ConvTimeout = 1
  ConvClearInterval = 0
  ConvClearRatio = 3
  ConvClearMin = 1
  Ancient = 1
  MaxConvNum = 2
  MaxNet = 2
  MaxDelayed = 1
  MaxFd64 = 3
INVARIANTS
  ApplicationsAreKeptApart
CONSTRAINT UntilCollision
SYMMETRY Symmetric
