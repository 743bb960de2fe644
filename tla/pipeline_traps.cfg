CONSTANTS
  Regs = {0, 1}
  Instrs <- TrapInstrs
  Events = {"irq", "dfault", "illegal", "ifault"}
SPECIFICATION Spec
INVARIANTS
  ResumeOnPath
  NeverWrongPath
  FetchAlive
