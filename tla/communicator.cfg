SPECIFICATION Spec
CONSTANTS
  Messages <- AllMessages
  BufSize = 7
  MaxSent = 2
INVARIANT NothingStuck
PROPERTY ImplementsChannel
CHECK_DEADLOCK FALSE
