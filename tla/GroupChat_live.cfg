\* One user opens two connections and joins or leaves.  Liveness: no symmetry.
SPECIFICATION FairSpec
CONSTANTS
  Users = {u1}
  Conns = {c1, c2}
  None = None
  Announced = {u1}
  HistoryLimit = 1
  MaxMsgs = 1
  DbFails = FALSE
CHECK_DEADLOCK FALSE
PROPERTIES
  FramesArrive
  HandlersEnd
