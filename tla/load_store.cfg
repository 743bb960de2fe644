CONSTANTS
  Pages = {"p", "q"}
  Groups = {"ram"}
  Ram <- SomeRam
  Home = "ram"
  Tables <- SomeTables
  Modes <- SomeModes
  TlbSize = 1
  InFlight = 1
SPECIFICATION FairSpec
INVARIANTS
  TypeOK
PROPERTIES
  AnswersRight
  FaultsReal
  Served
