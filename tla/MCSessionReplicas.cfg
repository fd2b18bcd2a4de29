\* One user in two processes over one quota record: limit 1, two dates, a crash, a failing store call.
CONSTANTS
  u1 = u1  u2 = u2  t1 = t1  ann = ann  p1 = p1  p2 = p2  s1 = s1
  Runs = {u1, u2}
  Procs = {p1, p2}
  Sessions = {s1}
  Actors = {ann}
  None = None
  ProcOf <- TwoReplicas
  SessionOf <- OneSession
  ActorOf <- OneActor
  Scheduled = {}
  Unmetered = {}
  Droppable = {u1}
  Limit = 1
  Retain = 2
  MaxDay = 1
  MaxCrashes = 1
  MaxFaults = 1
SPECIFICATION Spec
INVARIANTS QuotaCeiling QuotaAccounts OnlyAnswersAreCharged
CHECK_DEADLOCK FALSE
