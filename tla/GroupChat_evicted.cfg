\* One user connects twice, another posts.
SPECIFICATION Spec
CONSTANTS
  Users = {u1, u2}
  Conns = {c1, c2, c3}
  None = None
  Announced = {}
  HistoryLimit = 1
  MaxMsgs = 1
  DbFails = FALSE
SYMMETRY Symmetry
CHECK_DEADLOCK FALSE
INVARIANTS
  ConnectedGetAll
