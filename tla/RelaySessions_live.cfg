\* Two sessions compete for one place; no time passes during setup and the
\* creator waits for one tick.  Liveness: no symmetry.
SPECIFICATION FairSpec
CONSTANTS
  Sessions = {s1, s2}
  Joiners = {u1}
  Conns = {c1, c2}
  None = None
  MaxSessions = 1
  Timeout = 1
  Slack = 1
  SetupDelay = 0
CHECK_DEADLOCK FALSE
INVARIANTS
  SessionBound
PROPERTIES
  WaitingEnds
  EntriesDrain
  CapacityReturns
