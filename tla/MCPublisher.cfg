SPECIFICATION FairSpec
CONSTANTS
  MaxRequests = 3
  IsLittleEndianMachine = TRUE
  ArraySize = 2
  BatchSize = {1, 3}
  MaxMessages = 3
INVARIANTS TypeOK ReportedAsDecided NothingHeldBack SequenceIsStored OneReader
PROPERTIES AllReported StopReturns
CHECK_DEADLOCK FALSE
