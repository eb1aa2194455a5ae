SPECIFICATION FairSpec
CONSTANTS
  Conns = {c1}
  Acceptor = acceptor
  Owner = owner
  Others = {}
  EarlyStop = FALSE
  ThreadKeepsArgs = TRUE
  MaxChunks = 1
  MaxFaults = 0
PROPERTY ClosedWorkersReturn
CHECK_DEADLOCK FALSE
