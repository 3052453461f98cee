SPECIFICATION Spec
CONSTANTS
  a1 = a1  a2 = a2
  quotes = quotes  book = book
  Actors = {a1, a2}
  Feeds = {quotes}
  DepthsOf <- MCDepthsOf
  Polite = FALSE
  BusCapacity = 3
  MaxCommands = 3
  MaxTime = 0
INVARIANTS DepthServed
CHECK_DEADLOCK FALSE
