CONSTANTS
  p0 = p0
  l0 = l0
  l1 = l1
  Pages = {p0}
  Lines = {l0, l1}
  TlbSize = 1
  Redirects <- DistinctLines
  Modes = {FALSE, TRUE}
  Faults = {"none"}
SPECIFICATION FairSpec
INVARIANTS
  RightInstruction
PROPERTIES
  Answered
  FenceEnds
