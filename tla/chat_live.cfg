SPECIFICATION FairSpec
CONSTANTS
  Conns = {c1, c2}
  Users = {u1}
  IdMax = 2
  MaxChunks = 2
  MaxRequests = 3
  Types = {"register", "login", "chat", "cut_register", "bad_login"}
PROPERTY EveryRequestAnswered
CHECK_DEADLOCK FALSE
