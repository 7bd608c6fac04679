SPECIFICATION Spec
CONSTANTS
  Obj = {o1, o2, o3, o4}
  Imm = {unit}
  Unit = unit
  NoObj = NoObj
  NoMatch = NoMatch
  Kinds = {"STRUCT", "REF"}
  Groups = {"places","calls"}
  NSlots = 1
  MaxStack = 3
  MaxFrames = 2
  MaxScopes = 1
  MaxLen = 1
  GcSlack = 0
SYMMETRY Addresses
INVARIANTS WritesBack
CHECK_DEADLOCK FALSE
