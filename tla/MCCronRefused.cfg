\* The claim store, and a receiver that is gone.
SPECIFICATION Spec
CONSTANTS
  Procs = {p1}
  Jobs = {j1}
  NoTarget = {}
  Events = {e1}
  Texts = {t1}
  None = None
  Cloud = TRUE
  Period = 2
  DueFrom = 0
  DueTo = 1
  QueueCap = 1
  FallbackWindow = 1
  RecoveryWindow = 0
  ClockSkew = 0
  MaxTime = 0
  MaxCrashes = 0
  MaxFaults = 1
CHECK_DEADLOCK FALSE
PROPERTIES RefusedSlotStaysDue
