SPECIFICATION Spec
CONSTANTS
  s1 = s1  s2 = s2  u1 = u1  t1 = t1
  Sites = {s1, s2}  Tabs = {t1}  Users = {u1}  None = None
  Start <- MCStart
  MaxIds = 1  MaxPws = 1  MaxTasks = 1  MaxJobs = 1
PROPERTIES ReceiverMatches
SYMMETRY PageSymmetry
