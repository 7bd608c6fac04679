SPECIFICATION Spec
CONSTANTS
  Job = {j1, j2}
  Shell = Shell
  Other = Other
  Cooked = Cooked
  Raw = Raw
  NoMode = NoMode
  NoJob = NoJob
  MaxStages = 2
  MaxSignals = 1
SYMMETRY Jobs
INVARIANTS TableTruth PromptOwnsTerminal JobsAccounted ShellSurvives
  SavedModesApart ResumesInItsMode
CHECK_DEADLOCK FALSE
