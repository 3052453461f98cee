SPECIFICATION FairSpec
CONSTANTS
  MaxTime = 1
  MaxTimers = 2
  None = None
  main = main
  other = other
  Clients <- MCClients
CHECK_DEADLOCK FALSE
INVARIANTS ShutdownSilences DueTakenInOrder
PROPERTIES KeepsThePromise ShutdownReturns TimersSettle
