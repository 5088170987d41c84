SPECIFICATION SendSpec
CONSTANTS
  HeaderOverhead = 40
  ShortPacketOptimize = TRUE
  SeqMod = 8
  FirstSeq = 6
  Off = Off
  MaxPackets = 3
  MaxCommands = 1
  Lens <- BlobLens
  InitPar <- Mode1Par
  Commands <- NoCommands
  Options <- Defaults
INVARIANTS
  RedundancyCoversPackets
CHECK_DEADLOCK FALSE
