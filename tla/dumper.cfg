SPECIFICATION FairSpec
CONSTANTS
  ByteBase = 3
  qrcode_max_bytes = 14
  N_BUFFERS = 3
  CartByte <- MCCartByte
  KeyCombos <- AnyKeys
  MaxOffset = 24
INVARIANTS FramesGenuine SurfacesAccounted
PROPERTIES NoSilentSkip HeldCodeIsShown
