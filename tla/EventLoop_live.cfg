SPECIFICATION FairSpec
CONSTANTS
  t1 = t1
  t2 = t2
  timer = timer
  event = event
  NONE = NONE
  Threads = {t1}
  Channels = {event, timer}
  EventCh = event
  Position <- MCPosition
  MaxOps = 2
PROPERTIES QueueSpec EveryFunctionRuns SettledExitReturns
CHECK_DEADLOCK FALSE
