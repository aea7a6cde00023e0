CONSTANTS
  Names = {"db"}
  Calls = {"x"}
  AtOnce = 1
  MaxLoads = 1
SPECIFICATION Spec
CHECK_DEADLOCK FALSE
INVARIANT OnlyStopEnds
