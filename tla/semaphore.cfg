SPECIFICATION FairSpec
CONSTANTS
  Threads = {t1, t2, t3}
  InitVal = 1
  MaxVal = 2
INVARIANTS TypeOK NoLostWakeup
PROPERTY ImplementsCounting
CHECK_DEADLOCK FALSE
