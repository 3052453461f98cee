SPECIFICATION FairSpec
CONSTANTS
  a1 = a1  a2 = a2
  quotes = quotes  book = book
  Actors = {a1, a2}
  Feeds = {quotes, book}
  DepthsOf <- MCDepthsOf
  Polite = TRUE
  BusCapacity = 2
  MaxCommands = 4
  MaxTime = 1
INVARIANTS CountsAddUp ClientFollowsEngine DepthServed StreamsCurrent CacheNotBehind
PROPERTIES FeedGoesLive EngineStopReturns
CHECK_DEADLOCK FALSE
