SPECIFICATION Spec
CONSTANTS
  c1 = c1
  c2 = c2
  c3 = c3
  n1 = n1
  n2 = n2
  n3 = n3
  FREED = FREED
  NULL = NULL
  Channels = {c1, c2, c3}
  Fd <- FdReused
  Readers = {c1, c2}
  Writers = {c1, c3}
  Nodes = {n1, n2, n3}
  Reports = {"IN", "OUT", "ERR", "HUP"}
  MaxOps = 2
SYMMETRY Symmetry
INVARIANTS EventsAgree ReadyIsRegistered HandlesWhatPollReported
CHECK_DEADLOCK FALSE
