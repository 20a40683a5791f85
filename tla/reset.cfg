SPECIFICATION FairSpec
CONSTANTS
  MaxTakeovers = 3
INVARIANTS ArmedIsHandled BrokenIsDisarmed ArmedForNMI CleanStart
PROPERTIES TakesOver
CHECK_DEADLOCK FALSE
