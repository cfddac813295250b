SPECIFICATION Spec
CONSTANTS
  None = None
  Machines = {m1, m2}
  Devices = {d1, d2}
  Codes = {c1, c2}
  Nonces = {n1}
  Skew = 1
  Future = 1
  CodeTTL = 2
  ClockError = 1
  MaxTime = 2
  MaxTouch = 1
  Faults = {"save", "snapshot", "restart", "rescue", "wipe", "remove"}
SYMMETRY EnrolSymmetry
INVARIANTS TypeOK CodeBuysOne OneCodePerRequest HonouredOnce RevokedStaysOut EnrolledDurable StillReachable BootstrapOnce
CHECK_DEADLOCK FALSE
