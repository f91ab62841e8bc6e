SPECIFICATION Spec
CONSTANTS
  r1 = r1
  r2 = r2
  r3 = r3
  Requests = {r1, r2, r3}
  DayLen = 4
  ResetHours = 2
  WeekLen = 2
  MonthLen = 100
  UtcOffset = 0
  Mode <- AllStream
  Calls <- UnitCalls
  MaxCalls = 2
  Outcomes = {"ok", "unreachable"}
  TokenCounts = {0}
  MaxTokens = 0
  AnchorZone = "utc"
  Limits <- CallLimits
  Anchors = {}
  Admins = {a1}
  AdminOps = {}
  Crashes = FALSE
  MaxInFlight = 2
  MaxClock = 2
INVARIANTS FailedNeverBilled
CHECK_DEADLOCK FALSE
