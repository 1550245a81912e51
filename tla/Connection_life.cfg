SPECIFICATION FairSpec
CONSTANTS
  LISTENER = LISTENER
  TIMER = TIMER
  NONE = NONE
  MaxConns = 2
  Fds = {7, 8}
  MaxInput = 1
  MaxOps = 2
CONSTRAINT ShortOfLimits
INVARIANTS TypeOK SocketsApart RingFreedOnce PollsTheOpen
PROPERTIES ToldOnce EndIsSeen
CHECK_DEADLOCK FALSE
