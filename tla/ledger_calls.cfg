SPECIFICATION Spec
CONSTANTS
  r1 = r1
  r2 = r2
  r3 = r3
  Requests = {r1, r2, r3}
  DayLen = 2
  ResetHours = 1
  WeekLen = 100
  MonthLen = 100
  UtcOffset = 0
  Mode <- OneOfEach
  Calls <- OneTwoOne
  MaxCalls = 2
  Outcomes = {"unbuilt", "unreachable", "unreadable", "redirect", "refused", "ok"}
  TokenCounts = {0}
  MaxTokens = 0
  AnchorZone = "utc"
  Limits <- CallLimits
  Anchors = {}
  Admins = {a1}
  AdminOps = {"resetCalls", "resetTokens", "resetAll"}
  Crashes = TRUE
  MaxInFlight = 0
  MaxClock = 1
INVARIANTS TypeOK CallsWithinLimits TotalExact FailuresGivenBack
PROPERTIES ImplementsMeter5h ImplementsMeterTotal
CHECK_DEADLOCK FALSE
