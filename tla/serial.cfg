CONSTANTS
  MemDepth = 4
  CountMod = 8
  Junk = 0
  MaxArrivals = 4
  Programs = {"plic_test", "newlib"}
  MaxCalls = 3
  MaxCount = 2
  HeapEnd = 4
  Increments = {1, 3}
SPECIFICATION FairSpec
INVARIANTS
  LevelAgrees
  NoByteLost
  AreasApart
PROPERTIES
  Echoed
CHECK_DEADLOCK FALSE
