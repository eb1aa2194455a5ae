SPECIFICATION FairSpec
CONSTANTS
  Producers = {p1, p2}
  Consumers = {k1, k2}
  MaxElems = 2
INVARIANTS TypeOK NoLostNotification OnceInOrder
PROPERTY ElementsAreTaken
CHECK_DEADLOCK FALSE
