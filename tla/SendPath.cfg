SPECIFICATION FairSendSpec
CONSTANTS
  HeaderOverhead = 40
  ShortPacketOptimize = TRUE
  SeqMod = 8
  FirstSeq = 6
  Off = Off
  MaxPackets = 3
  MaxCommands = 1
  Lens <- BlobLens
  InitPar <- BlobPar
  Commands <- ModeCommands
  Options <- SomeOptions
INVARIANTS
  OnlyInPlaceCookingSpoils
  StableLatency
  NothingWaitsTooLong
PROPERTIES
  EveryPacketLeaves
CHECK_DEADLOCK FALSE
