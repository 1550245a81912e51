SPECIFICATION Spec
CONSTANTS
  GARBAGE = GARBAGE
  BitAnd <- BitwiseAnd
  PAGE_SIZE = 4
  Batch = 3
  Builds = {"debug"}
  Messages = {3}
  WriteLater = FALSE
  Results = {"all"}
  MaxBytes = 10
  MaxWire = 12
  MaxReady = 1
  MaxLeft = 12
INVARIANT InOrder
CHECK_DEADLOCK FALSE
