SPECIFICATION Spec
CONSTANTS
  None = None
  Machines = {m1, m2}
  Pages = {p1, p2}
  MaxSalts = 3
  MaxCodes = 1
  MaxVaults = 2
  MaxSeq = 2
  MaxJobs = 3
SYMMETRY HeaderSymmetry
INVARIANTS TypeOK OldPasswordStaysOut PublishedAdoptable ToldCodeOpens FingerprintStaysHome JoinKeepsUp
PROPERTIES PublishedOutranks VaultStays
CHECK_DEADLOCK FALSE
