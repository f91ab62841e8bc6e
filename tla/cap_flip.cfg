SPECIFICATION Spec
CONSTANTS
  u1 = u1
  u2 = u2
  r1 = r1
  r2 = r2
  r3 = r3
  r4 = r4
  r5 = r5
  Users = {u1}
  Requests = {r1, r2, r3}
  Owner <- ThreeOfOne
  CapInputs <- FlippedCaps
  HardLimit = 2
  Deletable = {}
INVARIANT CapAlwaysHonoured
