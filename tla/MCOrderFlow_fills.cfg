SPECIFICATION Spec
CONSTANTS
  o1 = o1
  Orders = {o1}
  Qty = 2
  Instant = {}
  Faults = {"reject"}
  BusCapacity = 12
  Direct = {}
  Lists <- MCLists
  BypassChoices = {TRUE, FALSE}
  StreamFirst = TRUE
  MaxCommands = 1
  MaxSessions = 1
INVARIANTS FillsConserved LiveIsKnown SubmittedIsFirst
CHECK_DEADLOCK FALSE
