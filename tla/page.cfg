SPECIFICATION FairSpec
CONSTANTS
  ByteBase = 2
  N_IMGDEC_WORKERS = 2
  MaxRomSize = 2
  DecodedBufLen = 8
  Images <- PageImages
  MaxAwaited = 2
INVARIANTS OnePoll ShownGenuine
PROPERTIES ShownStays CaptureStarts KnownIsShown
CHECK_DEADLOCK FALSE
