\* Two processes over Postgres, two events, a job with and one without a target, a
\* crash; the agent may never return.
SPECIFICATION FairSpec
CONSTANTS
  Procs = {p1, p2}
  Jobs = {j1, j2}
  NoTarget = {j2}
  Events = {e1, e2}
  Texts = {t1}
  None = None
  Cloud = TRUE
  Period = 2
  DueFrom = 0
  DueTo = 1
  QueueCap = 1
  FallbackWindow = 1
  RecoveryWindow = 0
  ClockSkew = 0
  MaxTime = 1
  MaxCrashes = 1
  MaxFaults = 0
CHECK_DEADLOCK FALSE
INVARIANTS NoDoubleDelivery ClaimedIsHandled
PROPERTIES OncePerSlot OpenRowsGetClosed
