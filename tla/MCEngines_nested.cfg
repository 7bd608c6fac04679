SPECIFICATION Spec
CONSTANTS
  Width = 3
  MaxOut = 6
  Copies <- deep_copies
  Matches <- deep_match
  Names <- bound_names
  Loaded <- MCNested
PROPERTY AgreesWithTree
CHECK_DEADLOCK FALSE
