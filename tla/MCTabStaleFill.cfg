SPECIFICATION Spec
CONSTANTS
  u1 = u1  p1 = p1  n2 = n2  None = None
  Boxes <- MCBoxes  Kind <- MCKind  Form <- MCForm  Layouts <- MCLayouts
  Forms = {1, 2}  Sites = {"ours", "theirs"}  Home = {"ours"}
  MaxDocs = 2  MaxActs = 3
INVARIANTS NeverInNew
CHECK_DEADLOCK FALSE
