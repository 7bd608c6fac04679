SPECIFICATION Spec
CONSTANTS
  Width = 3
  MaxOut = 6
  Copies <- deep_copies
  Matches <- deep_match
  Names <- bound_names
  Loaded <- MCLoaded
INVARIANTS TypeOK CodeVerified DepthsAsCompiled NamesBound NoShadow FunctionsReturn NeverFallsThrough NoStrayBindings FollowsGraph UnreachableNeverRuns
PROPERTY AgreesWithTree
CHECK_DEADLOCK FALSE
