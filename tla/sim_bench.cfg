CONSTANTS
  Bytes = {0, 1, 2}
  Junk = 0
  Nothing = Nothing
  Margin = 2
  Images <- SomeImages
  RamOrigin = 8
  RamLength = 4
  Adrs = {1, 2, 3, 4, 5, 8, 9, 10, 11}
  Word = 2
  Fetches = {8, 12}
  Accesses <- SomeAccesses
  Options <- SomeOptions
  Keys <- SomeKeys
  Tohost = {1, 3, 8, 15}
  AllOnes = 15
  StatusMod = 8
  ImemWait = 1
  DmemWait = 1
  PowerUpTicks = 10
  MaxEvents = 4
SPECIFICATION FairSpec
INVARIANTS
  LoadedIntact
  BusAnswers
  EdgesCounted
  LogFaithful
PROPERTIES
  Verdict
CHECK_DEADLOCK FALSE
