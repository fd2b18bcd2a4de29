\* Two messages and a scheduled task in one session of one process, with drops and a crash.
CONSTANTS
  u1 = u1  u2 = u2  t1 = t1  ann = ann  p1 = p1  p2 = p2  s1 = s1
  Runs = {u1, u2, t1}
  Procs = {p1}
  Sessions = {s1}
  Actors = {ann}
  None = None
  ProcOf <- OneProcess
  SessionOf <- OneSession
  ActorOf <- OneActor
  Scheduled = {t1}
  Unmetered = {t1}
  Droppable = {u1, t1}
  Limit = 1
  Retain = 2
  MaxDay = 0
  MaxCrashes = 1
  MaxFaults = 0
SPECIFICATION Spec
INVARIANTS TypeOK SessionMutex TurnsDoNotInterleave SnapshotCurrent
CHECK_DEADLOCK FALSE
