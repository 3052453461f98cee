SPECIFICATION Spec
CONSTANTS
  o1 = o1
  Orders = {o1}
  Qty = 1
  Instant = {}
  Faults = {}
  BusCapacity = 8
  Direct = {}
  Lists = {}
  BypassChoices = {TRUE}
  StreamFirst = TRUE
  MaxCommands = 0
  MaxSessions = 1
PROPERTIES FilledIsFinal
CHECK_DEADLOCK FALSE
