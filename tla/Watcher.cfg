SPECIFICATION Spec
CONSTANTS
  MaxSaves = 2
  MaxQueue = 3
INVARIANT CaughtUp
PROPERTY Settles
CHECK_DEADLOCK FALSE
