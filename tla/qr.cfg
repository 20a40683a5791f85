SPECIFICATION Spec
CONSTANTS
  Codes <- MCCodes
  VersionDamage <- MCVersionDamage
  FormatDamage <- MCFormatDamage
  BlockDamage <- MCBlockDamage
  Sizes <- MCSizes
INVARIANTS VersionRead FormatRead CodewordsArrive BlocksCorrected AskedIsGot
CHECK_DEADLOCK FALSE
