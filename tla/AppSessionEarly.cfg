SPECIFICATION SessionSpec
CONSTANTS
  MaxEarly = 1
  MaxPosted = 4
INVARIANTS Flushing
CHECK_DEADLOCK FALSE
