CONSTANTS
  Irqs = {1, 2}
  MaxPriority = 1
  Users = {0}
SPECIFICATION FairSpec
INVARIANTS
  ClaimedClosed
  OffersOpen
PROPERTIES
  ServedWhenFree
