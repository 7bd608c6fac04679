SPECIFICATION FairSpec
CONSTANTS
  Stages = 1
  MaxForks = 2
PROPERTIES CtrlZKeepsTheShell
CHECK_DEADLOCK FALSE
