SPECIFICATION Spec
CONSTANTS
  Obj = {o1, o2, o3}
  Imm = {unit}
  Unit = unit
  NoObj = NoObj
  NoMatch = NoMatch
  Kinds = {"ENUM"}
  Groups = {"patterns","scopes","host","entry","calls"}
  NSlots = 1
  MaxStack = 1
  MaxFrames = 2
  MaxScopes = 2
  MaxLen = 1
  GcSlack = 0
SYMMETRY Addresses
INVARIANTS TypeOK NoDangling
PROPERTIES CallLeavesNoGarbage
CHECK_DEADLOCK FALSE
