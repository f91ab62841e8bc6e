SPECIFICATION Spec
CONSTANTS
  Names = {"admin", "ann", "bob"}
  AdminName = "admin"
  Values = {"auto", "glm"}
  Default = "auto"
  h1 = h1
  h2 = h2
  Handlers = {h1, h2}
  Clients = {c1}
  Creates <- SomeCreates
  Updates <- SomeUpdates
  Extends <- SomeExtends
  MaxServed = 4
  MaxId = 3
  MaxKeys = 3
  MaxDay = 2
  MaxExpiry = 2
  NoRow = NoRow
  NoReq = NoReq
SYMMETRY Alike
INVARIANTS TypeOK KeysBelong NeverAnotherUser AloneUpdateApplies
PROPERTIES RevokedStaysDead AloneExtensionAdds
