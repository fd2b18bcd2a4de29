\* One process over local files: two slots of one job, a crash and one lost write.
SPECIFICATION Spec
CONSTANTS
  Procs = {p1}
  Jobs = {j1}
  NoTarget = {}
  Events = {e1, e2}
  Texts = {t1}
  None = None
  Cloud = FALSE
  Period = 2
  DueFrom = 0
  DueTo = 1
  QueueCap = 1
  FallbackWindow = 1
  RecoveryWindow = 0
  ClockSkew = 1
  MaxTime = 2
  MaxCrashes = 1
  MaxFaults = 1
CHECK_DEADLOCK FALSE
INVARIANTS TypeOK ResendNeedsCause DeliveredIsRecorded OpenRowHasLiveTask
PROPERTIES TerminalRowsFrozen RefusedSlotStaysDue
