SPECIFICATION Spec
CONSTANTS
  None = None
  m1 = m1
  m2 = m2
  Machines = {m1, m2}
  MaxIds = 4
  Ids = {1, 2, 3, 4}
  MaxOps = 2
  MaxFaults = 1
  UserOps = {"edit", "delete"}
  Disturbances = {"lock"}
SYMMETRY MachineSymmetry
INVARIANTS NoSilentLoss
