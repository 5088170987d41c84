SPECIFICATION ArrivalSpec
CONSTANTS
  FecBuffNum = 4
  GroupSlots = 8
  ReplaySlots = 4
  SeqMod = 16
  MaxFecPacketNum = 6
  w0 = w0
  w1 = w1
  w2 = w2
  w3 = w3
  Garbage = Garbage
  Unused = Unused
  NoOutput = NoOutput
  Packets <- Mode1Packets
  MisSized <- NoneMisSized
  Undecodable <- NoneMisSized
  HeapGroups <- CleanHeap
INVARIANTS
  DataPacketIsDelivered
