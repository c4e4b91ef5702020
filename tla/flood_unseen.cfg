\* Bounds: traffic of one kind at a time, around each threshold.
CONSTANTS
  Traffic <- MCTraffic
SPECIFICATION DetectSpec
INVARIANTS FloodsAreSeen
CHECK_DEADLOCK FALSE
