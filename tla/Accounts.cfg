\* Two requests at a time, three tokens per user, one place, one code.
SPECIFICATION Spec
CONSTANTS
  Tasks = {t1, t2}
  Names = {n1, n2, n3}
  Codes = {i1}
  None = None
  MaxUsers = 1
  MaxPerUser = 3
  MaxRows = 6
SYMMETRY Symmetry
CHECK_DEADLOCK FALSE
INVARIANTS
  TypeOK
  TokenMeansAccount
  UserBound
  TokenBound
  InviteBound
PROPERTIES
  HoldersKeepAccess
