SPECIFICATION FairSpec
CONSTANTS
  ByteBase = 2
  qrcode_max_bytes = 14
  N_BUFFERS = 2
  CartByte <- MCCartByte
  KeyCombos <- StepKeys
  MaxOffset = 4
  N_IMGDEC_WORKERS = 1
  MaxRomSize = 12
  DecodedBufLen = 15
  MaxAwaited = 1
PROPERTIES StayingOffsetIsDumped
