SPECIFICATION Spec
CONSTANTS
  Obj = {o1, o2}
  Imm = {unit}
  Unit = unit
  NoObj = NoObj
  NoMatch = NoMatch
  Kinds = {"STRUCT","REF","ARRAY"}
  Groups = {"places","arrays","calls"}
  NSlots = 1
  MaxStack = 4
  MaxFrames = 2
  MaxScopes = 1
  MaxLen = 1
  GcSlack = 0
SYMMETRY Addresses
INVARIANTS ValueOwned CellsValid
CHECK_DEADLOCK FALSE
