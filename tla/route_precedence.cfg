SPECIFICATION Spec
CONSTANTS
  Day = 3
  Weekdays = 2
  Slugs = {"p1", "p2"}
  Passable = {"p1"}
  LegacyProvider = "p1"
  RuleIds = {1, 2}
  Endpoints <- Times
  Priorities = {0, 1}
  DayMasks <- SomeDays
  Spellings = {"GLM", "glm", "Glm"}
  Fold <- LowerCase
  Catalogs <- SomeCatalogs
  Fixed = {1, 2, 3, 4}
  WindowTables <- SameWindows
INVARIANTS TypeOK PrecedenceHonoured ReplacedOnlyByLegacy MappingFound CostsTheLargest
