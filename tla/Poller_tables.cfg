SPECIFICATION Spec
CONSTANTS
  c1 = c1
  c2 = c2
  c3 = c3
  n1 = n1
  n2 = n2
  n3 = n3
  FREED = FREED
  NULL = NULL
  Channels = {c1, c2, c3}
  Fd <- FdCollide
  Readers = {c1, c2, c3}
  Writers = {c1, c2}
  Nodes = {n1, n2, n3}
  Reports = {"IN"}
  MaxOps = 1
SYMMETRY Symmetry
INVARIANTS TypeOK IndexAgrees MapAgrees LookupRight NeverAsserts
PROPERTY AskedSpec
CHECK_DEADLOCK FALSE
