SPECIFICATION Spec
CONSTANTS
  Setups <- MCSetups
  Type <- MCType
  Length <- MCLength
  Parts <- MCParts
  Uncertainty <- MCUncertainty
  Reversed = {"white"}
  Composite = "composite"
  Images = {"img"}
  Copies <- MCCopies
  Sets <- MCSets
  Passes = {1, 4}
  None = None
  Free = Free
INVARIANTS MemorySound
PROPERTIES HeldStays ReportedOnce
CHECK_DEADLOCK FALSE
