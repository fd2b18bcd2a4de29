\* Four channels, a chat or a group: second deliveries, busy sessions, restarts.
CONSTANTS
  m1 = m1  m2 = m2  m3 = m3  t1 = t1  ann = ann  p1 = p1  s1 = s1
  Runs = {m1, m2, m3, t1}
  Procs = {p1}
  Sessions = {s1}
  Actors = {ann}
  None = None
  ProcOf <- OneProcess
  SessionOf <- OneSession
  ActorOf <- OneActor
  Scheduled = {t1}
  Unmetered = {m2, m3, t1}
  Droppable = {m1, m2, m3, t1}
  Limit = 1
  Retain = 2
  MaxDay = 0
  MaxCrashes = 1
  MaxFaults = 1
  Messages = {m1, m2, m3}
  MaxWindow = 2
  Setups <- Everywhere
SPECIFICATION IngressFairSpec
INVARIANTS IngressTypes BusyIsHolder OverheardOnce TextIsHeard NoticeIsDue GroupTurnsAreWhole
PROPERTIES EveryRequestEnds
CHECK_DEADLOCK FALSE
