SPECIFICATION Spec
CONSTANTS
  ByteBase = 3
  qrcode_max_bytes = 14
  N_BUFFERS = 2
  CartByte <- MCCartByte
  KeyCombos <- AutoKeys
  MaxOffset = 8
  N_IMGDEC_WORKERS = 2
  MaxRomSize = 12
  DecodedBufLen = 16
  MaxAwaited = 1
INVARIANTS StoreFits
CHECK_DEADLOCK FALSE
