SPECIFICATION Spec
CONSTANTS
  s1 = s1  s2 = s2  u1 = u1  t1 = t1
  Sites = {s1, s2}  Tabs = {t1}  Users = {u1}  None = None
  Start <- MCStart
  MaxIds = 2  MaxPws = 3  MaxTasks = 2  MaxJobs = 3
INVARIANTS TypeOK KeptOnDisk LockedIsBlank MapsAgree OneProvisional
PROPERTIES StaysHome
SYMMETRY PageSymmetry
