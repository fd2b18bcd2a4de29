\* Pollers of two sources, two users and the digest scheduler, in thirteen scenarios.
CONSTANTS
  p1 = p1  p2 = p2  ann = ann  bob = bob
  None = None
  Events <- TheEventIds
  EventOf <- TheEvents
  DayLen = 6
  PriceLife = 1
  Week52Life = 2
  SocialLife = 3
  MacroGrace = 1
  MacroAhead = 1
  FarPreview = 2
  MinDirectPct = 6
  CloseDirect = FALSE
  Actors = {ann, bob}
  Pollers = {p1, p2}
  Holds <- TheHolds
  Setups <- AllSetups
  Disabled = {"transcript"}
  HighCap = 2
  MinAdvance = 200
  Cooldown = 1
  TickCap = 1
  SymbolCap = 1
  RecentBack = 1
  RecentAhead = 1
  PreviewBack = 1
  PreviewAhead = 6
  HeldWindow = 3
  MinGap = 1
  MaxItems = 2
  PickWindow = 5
  MacroHorizon = 6
  PrefChoices <- TheChoices
SPECIFICATION FairSpec
INVARIANTS TypeOK CapCeiling OneFate CooldownKept BandsClimb QueuedIsKept HeldIsSettled OneArrival GapKept
PROPERTIES PollsEnd
CHECK_DEADLOCK FALSE
