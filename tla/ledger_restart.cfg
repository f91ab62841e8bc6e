SPECIFICATION FairSpec
CONSTANTS
  r1 = r1
  r2 = r2
  r3 = r3
  Requests = {r1, r2}
  DayLen = 4
  ResetHours = 2
  WeekLen = 2
  MonthLen = 100
  UtcOffset = 0
  Mode <- SyncAndStream
  Calls <- UnitCalls
  MaxCalls = 2
  Outcomes = {"ok", "unreachable"}
  TokenCounts = {1}
  MaxTokens = 1
  AnchorZone = "utc"
  Limits <- EditedLimits
  Anchors = {0}
  Admins = {a1}
  AdminOps = {"limits", "delete", "anchor"}
  Crashes = TRUE
  MaxInFlight = 1
  MaxClock = 4
INVARIANTS NoStaleWindow
PROPERTIES WindowsRollOver RequestsEnd KeptWithinCycle
CHECK_DEADLOCK FALSE
