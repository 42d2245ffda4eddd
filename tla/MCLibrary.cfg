SPECIFICATION LibrarySpec
CONSTANTS
  Lower <- MCLower
  PortNumber <- Ports
  UInt16 = 65536
  PortDigits = 100000
  Definition <- MCDefinition
  MaxDefinitions = 3
  NewBroker <- MCNewBroker
  MaxEdited = 1
  MaxBrokers = 3
  MaxObjects = 1
  MaxChunks = 2
  MaxListed = 2
INVARIANTS TypeOK BrokersAsWritten NothingLost
PROPERTY ImplementsList
CHECK_DEADLOCK FALSE
