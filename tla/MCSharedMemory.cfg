SPECIFICATION Spec
CONSTANTS
  Threads = {"publisher", "poll"}
  Size = {1}
  MaxBlocks = 1
INVARIANT NothingUnfreed
CHECK_DEADLOCK FALSE
