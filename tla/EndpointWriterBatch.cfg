SPECIFICATION WriterSpec
CONSTANTS
  MaxBatches = 2
  MaxSize = 2
INVARIANTS CallbackAfterAll
CHECK_DEADLOCK FALSE
