SPECIFICATION Spec
CONSTANTS
  LISTENER = LISTENER
  TIMER = TIMER
  NONE = NONE
  MaxConns = 2
  Fds = {7, 8}
  MaxInput = 1
  MaxOps = 0
INVARIANT ClosedLeavesPoller
CHECK_DEADLOCK FALSE
