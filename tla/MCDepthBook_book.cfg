SPECIFICATION FairSpec
CONSTANTS
  MaxUpdates = 4
  MaxSubscriptions = 2
INVARIANTS NothingAhead GapsExplained
PROPERTIES BookIsInitialized DepthDisconnectReturns
CHECK_DEADLOCK FALSE
