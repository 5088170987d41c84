SPECIFICATION Spec
CONSTANTS
  FecBuffNum = 4
  GroupSlots = 8
  ReplaySlots = 4
  SeqMod = 16
  MaxFecPacketNum = 5
  w0 = w0
  w1 = w1
  w2 = w2
  w3 = w3
  Garbage = Garbage
  Unused = Unused
  NoOutput = NoOutput
  Packets <- WindowPackets
  MisSized <- NoneMisSized
  Undecodable <- NoneMisSized
  HeapGroups <- CleanHeap
INVARIANTS
  AtMostOnce
  RecoverableIsClosed
PROPERTIES
  ImplementsWindow
