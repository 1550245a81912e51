SPECIFICATION FairSpec
CONSTANTS
  t1 = t1
  t2 = t2
  t3 = t3
  NONE = NONE
  Timers = {t1, t2, t3}
  Delays <- DelaysLost
  Intervals = {0, 1}
  Uses = {"RefreshFired", "FreeQueued"}
  MaxTime = 2
  MaxOps = 3
INVARIANTS TypeOK HeadArmed TimersApart
PROPERTIES PassIsFinite ServiceSpec EveryTimerFires
CHECK_DEADLOCK FALSE
