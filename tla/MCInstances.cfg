SPECIFICATION Spec
CONSTANTS
  Substitute <- substitute
  Unify <- unify
  Walk <- walk
  Accepted <- MCAccepted
  MaxChain = 8
  MaxNest = 20
INVARIANTS LayoutsEnd InstancesApart InstancesTyped
CHECK_DEADLOCK FALSE
