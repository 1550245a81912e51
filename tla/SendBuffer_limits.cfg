SPECIFICATION FairSpec
CONSTANTS
  GARBAGE = GARBAGE
  BitAnd <- BitwiseAnd
  PAGE_SIZE = 4
  Batch = 3
  Builds = {"debug", "plain"}
  Messages = {3, 5, 6, 8}
  WriteLater = TRUE
  Results = {"all", "some", "wait", "fail"}
  MaxBytes = 10
  MaxWire = 12
  MaxReady = 2
  MaxLeft = 12
INVARIANTS TypeOK NothingLost PolloutRight
PROPERTY EverythingIsSent
CHECK_DEADLOCK FALSE
