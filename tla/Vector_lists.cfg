SPECIFICATION Spec
CONSTANTS
  pending_funcs = pending_funcs
  local_funcs = local_funcs
  f = f
  g = g
  JUNK = JUNK
  Vectors = {pending_funcs, local_funcs}
  Values = {f, g}
  VECTOR_BATCH = 3
  MaxCount = 5
INVARIANTS TypeOK BlockFits StoresStayInside
PROPERTY ListSpec
CHECK_DEADLOCK FALSE
