SPECIFICATION Spec
CONSTANTS
  MaxNum = 4
  MaxPid = 2
  IsTty = TRUE
  MaxUi = 1
  MaxCalls = 2
  MaxHandles = 2
INVARIANTS TypeOK DescriptorsOwned HandlesTellTruth TerminalOurs NothingLeft
PROPERTIES SparesOthers ClosedStops Contains
CHECK_DEADLOCK FALSE
