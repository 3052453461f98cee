SPECIFICATION Spec
CONSTANTS
  o1 = o1
  Orders = {o1}
  Qty = 2
  Instant = {}
  Faults = {"drop", "lostPost", "lostAnswer", "reject", "expire", "disconnect"}
  BusCapacity = 2
  Direct = {o1}
  Lists = {}
  BypassChoices = {TRUE, FALSE}
  StreamFirst = FALSE
  MaxCommands = 1
  MaxSessions = 2
INVARIANTS FilledWithinExecuted PostedAtMostOnce CanceledIsCanceled
CHECK_DEADLOCK FALSE
