SPECIFICATION Spec
CONSTANTS
  t1 = t1
  t2 = t2
  timer = timer
  event = event
  NONE = NONE
  Threads = {t1, t2}
  Channels = {event, timer}
  EventCh = event
  Position <- MCPosition
  MaxOps = 1
SYMMETRY Symmetry
INVARIANTS TypeOK NoneLost ExitOnlyOnRequest SkippedWakeupIsServed SpinOnlyOnRepeat
PROPERTY ExitStaysSettled
CHECK_DEADLOCK FALSE
