SPECIFICATION Spec
CONSTANTS
  Calls = {"c1", "c2"}
  Tokens <- SomeTokens
  Product <- SomeProducts
  Builds <- SomeBuilds
  CycleLen = 2
  Slugs = {"p1", "p2"}
  Config <- SomeConfig
  Keks = {k1, k2}
  Via <- SomeVia
  Dates <- SomeDates
  Created = 1
  MaxDay = 2
  MaxCuts = 2
INVARIANTS Upgraded CountsWhatWasLogged Published SeededOnce UsedIsThisCycle
PROPERTIES ResetsStay
SYMMETRY Alike
