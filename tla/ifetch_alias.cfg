CONSTANTS
  p0 = p0
  p1 = p1
  l0 = l0
  Pages = {p0, p1}
  Lines = {l0}
  TlbSize = 1
  Redirects <- AnyRedirect
  Modes = {FALSE}
  Faults = {}
SPECIFICATION Spec
INVARIANTS
  RightInstruction
