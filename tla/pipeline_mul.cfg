CONSTANTS
  Regs = {0, 1}
  Instrs <- MulInstrs
  Events = {}
SPECIFICATION Spec
INVARIANTS
  OperandsReady
