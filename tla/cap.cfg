SPECIFICATION Spec
CONSTANTS
  u1 = u1
  u2 = u2
  r1 = r1
  r2 = r2
  r3 = r3
  r4 = r4
  r5 = r5
  Users = {u1, u2}
  Requests = {r1, r2, r3, r4, r5}
  Owner <- TwoUsers
  CapInputs <- SteadyAndFlipped
  HardLimit = 2
  Deletable = {u2}
SYMMETRY Alike
INVARIANTS TypeOK NoPhantomSlot CounterExact CapHonoured
PROPERTY ImplementsRequestLimit
CHECK_DEADLOCK FALSE
