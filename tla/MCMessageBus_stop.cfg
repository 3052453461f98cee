SPECIFICATION FairSpec
CONSTANTS
  main = main  io = io
  m1 = m1  m2 = m2  m3 = m3
  ep = ep  tp = tp
  None = None
  Threads = {main, io}
  Loop = main
  Stoppers = {main, io}
  HandlerOps = {"send", "endpoint", "stop"}
  Messages = {m1, m2, m3}
  Endpoints = {ep}
  Topics = {tp}
  Dest <- MCDest
  MaxQueueSize = 2
  MaxTokens = 1
  MaxStarts = 2
INVARIANTS NoneLost
PROPERTIES StopReturns AcceptedIsBegun
CHECK_DEADLOCK FALSE
