SPECIFICATION Spec
CONSTANTS
  a1 = a1
  a2 = a2
  p1 = p1
  p2 = p2
  Slugs = {p1, p2}
  RuleIds = {1}
  Admins = {a1, a2}
  Seed = {p1, p2}
  Ops = {"createProvider", "updateProvider", "updateUnknown", "deleteProvider", "mappings", "rules", "pin"}
  NoSlug = NoSlug
SYMMETRY Alike
INVARIANTS TypeOK DefaultServes
PROPERTIES AddsNoSecondDefault AloneReloads AloneDeletesUnreferenced AloneKeepsLast
