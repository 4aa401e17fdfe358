\* Three joins of three users, who may leave; counts may fail.
SPECIFICATION Spec
CONSTANTS
  Users = {u1, u2, u3}
  Calls = {k1, k2, k3}
  Leavers = {u1, u2, u3}
  None = None
  MaxMembers = 1
  DbFails = TRUE
SYMMETRY Symmetry
CHECK_DEADLOCK FALSE
INVARIANTS
  TypeOK
  KeyAgreement
  OwnedGroup
  MemberBound
