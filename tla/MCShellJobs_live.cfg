SPECIFICATION FairSpec
CONSTANTS
  Job = {j1}
  Shell = Shell
  Other = Other
  Cooked = Cooked
  Raw = Raw
  NoMode = NoMode
  NoJob = NoJob
  MaxStages = 2
  MaxSignals = 2
PROPERTIES ForegroundReturns ZombiesReaped
CHECK_DEADLOCK FALSE
