\* A scheduled answer is withdrawn after the lock is free.
CONSTANTS
  u1 = u1  u2 = u2  t1 = t1  ann = ann  p1 = p1  p2 = p2  s1 = s1
  Runs = {u1, t1}
  Procs = {p1}
  Sessions = {s1}
  Actors = {ann}
  None = None
  ProcOf <- OneProcess
  SessionOf <- OneSession
  ActorOf <- OneActor
  Scheduled = {t1}
  Unmetered = {t1}
  Droppable = {}
  Limit = 1
  Retain = 2
  MaxDay = 0
  MaxCrashes = 0
  MaxFaults = 0
SPECIFICATION Spec
INVARIANTS SkippedAnswersLeaveNoTrace
CHECK_DEADLOCK FALSE
