\* Two users behind one address.
SPECIFICATION Spec
CONSTANTS
  Tasks = {t1, t2}
  Ips = {ip1, ip2}
  None = None
  Day = 2
  TtlDays = 1
  OfflineAfter = 2
  MaxIds = 2
  MaxTime = 3
SYMMETRY Symmetry
CHECK_DEADLOCK FALSE
PROPERTIES
  OnlineIsOwn
