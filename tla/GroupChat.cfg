\* Two connections of any two users, two messages; any query may fail.
SPECIFICATION Spec
CONSTANTS
  Users = {u1, u2}
  Conns = {c1, c2}
  None = None
  Announced = {}
  HistoryLimit = 1
  MaxMsgs = 2
  DbFails = TRUE
SYMMETRY Symmetry
CHECK_DEADLOCK FALSE
INVARIANTS
  TypeOK
  HistoryKept
  NoGap
  SenderOrder
