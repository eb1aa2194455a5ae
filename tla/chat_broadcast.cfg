SPECIFICATION Spec
CONSTANTS
  Conns = {c1, c2, c3}
  Users = {u1, u2}
  IdMax = 4
  MaxChunks = 2
  MaxRequests = 4
  Types = {"register", "chat", "cut_register"}
SYMMETRY Symmetry
PROPERTIES SuccessReachesAll ChatIsBetweenMembers FailureHasACause
INVARIANT EscapesHaveACause
CHECK_DEADLOCK FALSE
