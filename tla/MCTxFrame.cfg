SPECIFICATION Spec
CONSTANTS
  ChunkSize = 16
  Short = 6
  MessageSize <- Sizes
  MaxBatch = 2
  MaxFrames = 2
INVARIANTS TypeOK SizeIsRight BrokerFindsMessages TextComesBack
CHECK_DEADLOCK FALSE
