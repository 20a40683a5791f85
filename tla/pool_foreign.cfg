SPECIFICATION FairSpec
CONSTANTS
  ByteBase = 4
  N_IMGDEC_WORKERS = 2
  MaxRomSize = 4
  DecodedBufLen = 8
  Images <- ForeignImages
  MaxAwaited = 2
INVARIANTS WindowExact BytesGenuine NoFragmentLost
PROPERTIES ImplementsRomCopy SharedEvenly EventuallyCovered
CHECK_DEADLOCK FALSE
