SPECIFICATION WSpec
CONSTANTS
  ChunkSize = 64
  Kind <- MCKindNoClose
  Size <- MCSize
  Corr <- MCCorr
  Code <- MCCode
  Timeout <- MCTimeout
  RxBufferSize = 64
  ClientTypes <- MCClientTypes
  StrayLength <- MCStrayLength
  MaxFrames = 2
  RequestKey <- MCRequestKeyOpen
  SizeOf <- MCSizeOf
  FirstCorrelationId = 9
  RequestTimeout = 2
  UInt32 = 256
  IsLittleEndianMachine = TRUE
  MaxRequests = 1
  Cut = {0, 3, 9}
INVARIANT RespondsWithinMessage
CHECK_DEADLOCK FALSE
