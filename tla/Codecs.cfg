SPECIFICATION Spec
CONSTANTS
  GfBits = 8
  Cpu <- MCCpu
  max_blob_packet_num = 6
  max_fec_packet_num = 32
  Refused = Refused
  Unparsable = Unparsable
  Messages <- MCMessages
  Datagrams <- MCDatagrams
  Bursts <- MCBursts
  Strings <- MCStrings
  Packings <- MCPackings
  Buffers <- MCBuffers
  CommandLines <- MCCommandLines
  Uninitialized <- MCUninitialized
  Clocks <- MCClocks
  Deadlines <- MCDeadlines
  PatternLens <- MCPatternLens
  Products <- MCProducts
  DataLens <- MCDataLens
  KeyLens <- MCKeyLens
  Codes <- MCCodes
  Matrices <- MCMatrices
  Words <- MCWords
INVARIANTS
  ChecksumsAgree
  XorFollowsThePattern
  CookRoundTrip
  AnyKDecode
  FieldAndMatrices
  BlobRoundTrip
  RedundancyIsInterpolated
  TimersStayHeap
  SettingsAreSound
  TimeNeverGoesBack
