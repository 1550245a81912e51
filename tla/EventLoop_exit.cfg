SPECIFICATION FairSpec
CONSTANTS
  t1 = t1
  t2 = t2
  timer = timer
  event = event
  NONE = NONE
  Threads = {t1}
  Channels = {event}
  EventCh = event
  Position <- MCPosition
  MaxOps = 1
PROPERTY ExitReturns
CHECK_DEADLOCK FALSE
