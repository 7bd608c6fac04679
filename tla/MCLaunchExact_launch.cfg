SPECIFICATION FairSpec
CONSTANTS
  Stages = 2
  MaxForks = 4
INVARIANTS HandoffBeforeExec JoinSucceeds AllOrNothing
PROPERTIES ReadReturns
CHECK_DEADLOCK FALSE
