SPECIFICATION FairSpec
CONSTANTS
  o1 = o1
  Orders = {o1}
  Qty = 1
  Instant = {o1}
  Faults = {"drop", "disconnect"}
  BusCapacity = 12
  Direct = {}
  Lists = {}
  BypassChoices = {TRUE, FALSE}
  StreamFirst = FALSE
  MaxCommands = 0
  MaxSessions = 2
PROPERTIES SubmissionIsSettled DisconnectReturns
CHECK_DEADLOCK FALSE
