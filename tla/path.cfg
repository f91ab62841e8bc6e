SPECIFICATION PathSpec
CONSTANTS
  Requests = {r1, r2, r3}
  DayLen = 4
  ResetHours = 2
  WeekLen = 2
  MonthLen = 1
  UtcOffset = 1
  Mode <- AllSync
  Calls <- UnitCalls
  MaxCalls = 1
  Outcomes = {"ok"}
  TokenCounts = {2}
  MaxTokens = 2
  AnchorZone = "utc"
  Limits <- TokenLimits
  Anchors <- PastAnchor
  Admins = {a1, a2}
  AdminOps = {"resetTokens", "anchor"}
  Crashes = TRUE
  MaxInFlight = 2
  MaxClock = 1
  Caps = {2}
SYMMETRY Alike
INVARIANTS TokenOverageBounded WeeklyUsageKept
CHECK_DEADLOCK FALSE
