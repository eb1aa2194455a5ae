SPECIFICATION FairClientSpec
CONSTANTS
  Owner = owner
  UI = ui
  Others = {ui}
  EarlyStop = TRUE
  ThreadKeepsArgs = TRUE
  MaxChunks = 2
  MaxEofs = 2
  MaxFaults = 2
  MaxChats = 1
INVARIANTS ChatTypeOK OnePermit QuietAfterEnd CrashLeavesNoReceiver DataBeforeDisconnect ResultIsHandedOver OnlyFailureLosesWakeup
PROPERTIES ServerLossEndsConnect QuitEndsTheProgram OnlyKnownWaits
CHECK_DEADLOCK FALSE
