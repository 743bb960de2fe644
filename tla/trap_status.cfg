CONSTANTS
  Ints = {"ssi"}
  Excs = {"page_fault"}
  StatusWrites <- OnAndOff
  IntWrites <- IntsSet
  ExcWrites <- ExcsSet
SPECIFICATION Spec
INVARIANTS
  TypeOK
  ShadowsAgree
  HandledOnce
PROPERTIES
  ReturnUndoesTrap
