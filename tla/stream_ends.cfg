SPECIFICATION FairSendSpec
CONSTANTS
  Conns = {c1}
  Acceptor = acceptor
  Owner = owner
  Others = {other1, other2}
  EarlyStop = TRUE
  ThreadKeepsArgs = FALSE
  MaxChunks = 1
  MaxFaults = 1
  Room = 1
INVARIANTS SendTypeOK CrashLeavesNoWorker DisconnectEndsSends
PROPERTIES EndReturns HangUpIsSeen
CHECK_DEADLOCK FALSE
