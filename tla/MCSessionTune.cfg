SPECIFICATION Spec
CONSTANTS
  Stream = {"s"}
  MaxRequests = 6
  IsLittleEndianMachine = TRUE
INVARIANT TuneAwaited
CHECK_DEADLOCK FALSE
