SPECIFICATION FairSpec
CONSTANTS
  Threads = {"sender", "receiver"}
  Entry <- MCEntry
  MaxEntries = 3
PROPERTY ImplementsLog
CHECK_DEADLOCK FALSE
