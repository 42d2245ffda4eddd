SPECIFICATION FairSpec
CONSTANTS
  Id = {1}
  Stream = {"s", "t"}
  MaxRequests = 3
  IsLittleEndianMachine = TRUE
  LogLength = 3
  FirstOffset = {1}
  ChunkEntries = {1, 2}
  InitialCredit = 1
  DefaultCredit = 2
  MaxGrants = 1
INVARIANTS TypeOK StoredUnderItsStream ReadsItsStores  
 
CHECK_DEADLOCK FALSE
