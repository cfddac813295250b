SPECIFICATION Spec
CONSTANTS
  None = None
  c1 = c1
  c2 = c2
  r1 = r1
  r2 = r2
  h1 = h1
  Clients = {c1, c2}
  HeaderLess = {c1}
  Ids = {r1}
  Headers = {h1}
  MaxSeq = 2
  MaxRev = 2
  Faults = {"save", "snapshot", "restart"}
SYMMETRY StoreSymmetry
INVARIANTS TypeOK AckedDurable CaughtUp
PROPERTIES FileIsLedger CompareAndSwapHolds
