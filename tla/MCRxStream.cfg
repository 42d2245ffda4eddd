SPECIFICATION FairSpec
CONSTANTS
  ChunkSize = 16
  Kind <- MCKind
  Size <- MCSize
  Corr <- MCCorr
  Code <- MCCorr
  Timeout <- MCTimeout
  RxBufferSize = 12
  ClientTypes <- MCClientTypes
  StrayLength <- MCStrayLength
  MaxFrames = 2
INVARIANTS TypeOK Framing InOrderOnce NoStrandedFrame RecvIsTimed ReturnsMarkedMessage
PROPERTY ImplementsChannel
