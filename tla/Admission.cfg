\* One address, two requests per three ticks; two releases and odd tags.
SPECIFICATION AdmissionSpec
CONSTANTS
  Ips = {ip1}
  Limit = 2
  Window = 3
  MaxTime = 7
  Tasks = {t1}
  Newest = 2
  Unparsable = Unparsable
  Absent = Absent
  None = None
SYMMETRY Symmetry
CHECK_DEADLOCK FALSE
INVARIANTS
  AdmissionTypeOK
  SlidingWindow
  DeniedOnlyWhenFull
PROPERTIES
  FloorHolds
  NewestPasses
