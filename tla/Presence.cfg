\* Two users, two addresses, two requests at a time, three days of two ticks.
SPECIFICATION Spec
CONSTANTS
  Tasks = {t1, t2}
  Ips = {ip1, ip2}
  None = None
  Day = 2
  TtlDays = 1
  OfflineAfter = 2
  MaxIds = 2
  MaxTime = 4
SYMMETRY Symmetry
CHECK_DEADLOCK FALSE
INVARIANTS
  TypeOK
  AnsweredIsListed
  TokenLife
PROPERTIES
  OnlineIsRecent
