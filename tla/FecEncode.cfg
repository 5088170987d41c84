SPECIFICATION FairSpec
CONSTANTS
  HeaderOverhead = 40
  ShortPacketOptimize = TRUE
  SeqMod = 4
  FirstSeq = 2
  Off = Off
  MaxPackets = 4
  MaxCommands = 2
  Lens <- BlobLens
  InitPar <- BlobPar
  Commands <- AllCommands
INVARIANTS
  GroupIsBounded
  InOrderExactlyOnce
  SeqNamesOneGroup
  OversizedOnlyAlone
PROPERTIES
  EveryGroupFlushed
  OneSettingPerGroup
CHECK_DEADLOCK FALSE
