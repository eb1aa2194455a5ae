SPECIFICATION Spec
CONSTANTS
  Conns = {c1}
  Acceptor = acceptor
  Owner = owner
  Others = {}
  EarlyStop = FALSE
  ThreadKeepsArgs = TRUE
  MaxChunks = 1
  MaxFaults = 1
INVARIANT NoTouchAfterDestroy
CHECK_DEADLOCK FALSE
