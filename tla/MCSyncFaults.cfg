SPECIFICATION Spec
CONSTANTS
  None = None
  m1 = m1
  m2 = m2
  Machines = {m1, m2}
  MaxIds = 4
  Ids = {1, 2, 3, 4}
  MaxOps = 2
  MaxFaults = 2
  UserOps = {"edit", "delete"}
  Disturbances = {"ack", "crash", "settings", "lock", "restore", "request"}
SYMMETRY MachineSymmetry
VIEW Readable
INVARIANTS NoRevertUndisturbed NothingLostUnlocked NothingPushedTwice NoSpuriousRefusal NoFalseAgreement
PROPERTIES DeletionsStick ParkedKept AgreementLasts
