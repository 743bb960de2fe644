CONSTANTS
  p0 = p0
  p1 = p1
  l0 = l0
  Pages = {p0, p1}
  Lines = {l0}
  TlbSize = 1
  Redirects <- DistinctLines
  Modes = {FALSE, TRUE}
  Faults = {"none", "nowhere"}
SPECIFICATION Spec
INVARIANTS
  RightInstruction
  FaultIsReal
