SPECIFICATION Spec
CONSTANTS
  Conns = {c1, c2}
  Users = {u1, u2}
  IdMax = 2
  MaxChunks = 3
  MaxRequests = 3
  Types = {"register", "login", "chat", "invalid", "cut_register", "bad_login"}
SYMMETRY Symmetry
INVARIANTS TypeOK OneReply MembersAuthenticated GoneAreForgotten RegistrationsAreKept IdsAreDistinct
CHECK_DEADLOCK FALSE
