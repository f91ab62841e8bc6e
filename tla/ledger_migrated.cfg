SPECIFICATION Spec
CONSTANTS
  r1 = r1
  r2 = r2
  r3 = r3
  Requests = {r1, r2, r3}
  DayLen = 4
  ResetHours = 2
  WeekLen = 7
  MonthLen = 100
  UtcOffset = 0
  Mode <- AllSync
  Calls <- UnitCalls
  MaxCalls = 2
  Outcomes = {"ok"}
  TokenCounts = {1}
  MaxTokens = 1
  AnchorZone = "bare"
  Limits <- TokenLimits
  Anchors = {}
  Admins = {a1}
  AdminOps = {}
  Crashes = FALSE
  MaxInFlight = 1
  MaxClock = 3
PROPERTY KeptWithinCycle
CHECK_DEADLOCK FALSE
