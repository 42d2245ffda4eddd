SPECIFICATION FairWSpec
CONSTANTS
  ChunkSize = 64
  Kind <- MCKind
  Size <- MCSize
  Corr = {0, 1, 2}
  Code <- MCCode
  Timeout <- MCTimeout
  RxBufferSize = 64
  ClientTypes <- MCClientTypes
  StrayLength <- MCStrayLength
  MaxFrames = 2
  RequestKey <- MCRequestKey
  SizeOf <- MCSizeOf
  FirstCorrelationId = 0
  RequestTimeout = 2
  UInt32 = 256
  IsLittleEndianMachine = TRUE
  MaxRequests = 2
  Cut = {9}
INVARIANTS WTypeOK SuccessIsAnswered RefusalIsAnswered AnswerNotDropped RecvWithinRequest
PROPERTY RequestReturns
CHECK_DEADLOCK FALSE
