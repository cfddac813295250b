SPECIFICATION FairSpec
CONSTANTS
  None = None
  m1 = m1
  m2 = m2
  Machines = {m1, m2}
  MaxIds = 4
  Ids = {1, 2, 3, 4}
  MaxOps = 1
  MaxFaults = 2
  UserOps = {"edit"}
  Disturbances = {"crash", "settings"}
PROPERTIES Convergence
