SPECIFICATION Spec
CONSTANTS
  MaxMs = 6600
  MaxSecs = 2
  Clocks <- SomeClocks
INVARIANTS AtLeastMinimal DelayIsClose
CHECK_DEADLOCK FALSE
