CONSTANTS
  Adrs = {0, 1, 2}
  Word = 2
  Bytes = {1, 2}
  Unmapped = 0
  Asks <- SessionAsks
  BufMax = 2
  MaxAsks = 3
  MaxFaults = 2
SPECIFICATION FairSpec
INVARIANTS
  InStep
PROPERTIES
  Implements
  Served
CHECK_DEADLOCK FALSE
