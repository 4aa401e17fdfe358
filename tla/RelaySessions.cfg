\* One session, three sockets.
SPECIFICATION Spec
CONSTANTS
  Sessions = {s1}
  Joiners = {u1}
  Conns = {c1, c2, c3}
  None = None
  MaxSessions = 0
  Timeout = 1
  Slack = 2
  SetupDelay = 1
SYMMETRY Symmetry
CHECK_DEADLOCK FALSE
INVARIANTS
  TypeOK
  LeftInitForGood
  WaitingCreatorIsReachable
  OneToOne
  JoinerIsAudited
PROPERTIES
  HandlersMeet
