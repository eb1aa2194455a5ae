SPECIFICATION Spec
CONSTANTS
  Conns = {c1, c2}
  Acceptor = acceptor
  Owner = owner
  Others = {}
  EarlyStop = FALSE
  ThreadKeepsArgs = TRUE
  MaxChunks = 1
  MaxFaults = 1
INVARIANTS TypeOK OnePermit QuietAfterEnd
PROPERTY ImplementsEvents
CHECK_DEADLOCK FALSE
