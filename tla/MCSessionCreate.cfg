SPECIFICATION Spec
CONSTANTS
  Stream = {"s"}
  MaxRequests = 6
  IsLittleEndianMachine = TRUE
INVARIANT ExistingStreamReported
CHECK_DEADLOCK FALSE
