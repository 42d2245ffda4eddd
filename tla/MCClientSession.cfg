SPECIFICATION FairSpec
CONSTANTS
  Stream = {"s"}
  MaxRequests = 7
  IsLittleEndianMachine = TRUE
INVARIANTS TypeOK LoggedInIsOpened InProtocolOrder ToldTheTruth
 
CHECK_DEADLOCK FALSE
