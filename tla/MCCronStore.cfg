\* Two editors and the scheduler over one actor's jobs, as a file and as rows.
CONSTANTS
  j1 = j1  j2 = j2  j3 = j3
  Editors = {e1, e2}
  Scheduler = sched
  Jobs = {j1, j2, j3}
  None = None
  Plans <- ThePlans
  DayLength = 3
  Window = 1
  MaxEnabled = 2
  Setups <- TheSetups
SPECIFICATION FairSpec
INVARIANTS TypeOK LimitKept FiresOnce EarlyOnlyOverMidnight
PROPERTIES OthersAreKept EventuallyServed
CHECK_DEADLOCK FALSE
