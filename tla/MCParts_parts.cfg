SPECIFICATION PartsSpec
CONSTANTS
  order = order  trade = trade  quote = quote
  Writers = {w1, w2}
  Keys = {order, trade, quote}
  TwoStep = {order}
  Capacity <- MCCapacity
  MaxOffers = 5
  MaxTimestamp = 3
  Ticks = {0, 1, 2}
  Skews = {0, 1}
  Width = 3
  Tol = 2
  Sizes = {1, 2}
  MaxQuantity = 3
  Requesters = {r1, r2}
  Weights = {1, 2}
  Burst = 3
  Rate = 1
  MaxClock = 5
  Sessions = {s1}
  MaxQueue = 2
INVARIANTS HistoryIsRecent NewestIsStored QueriesTrustTheOrder WithinBudget OneWriteAtATime OpenIsRegistered
PROPERTIES BookIsDepth QueuedIsWritten ServerStopReturns
CHECK_DEADLOCK FALSE
