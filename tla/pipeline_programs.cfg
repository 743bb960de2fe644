CONSTANTS
  Regs = {0, 1, 2}
  Instrs <- Any
  Events = {"dfault", "illegal"}
SPECIFICATION ProgramSpec
INVARIANTS
  TypeOK
  NoThreeInARow
  OperandsReady
  StoreDataReady
  AnswersMatch
  IssuedInOrder
  TrapPrecise
PROPERTIES
  RequestHeld
  Progress
