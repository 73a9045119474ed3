SPECIFICATION Spec
CONSTANTS
  FirstVersion <- MCFirstVersion
  SetVersions <- MCSetVersions
  MaxCommits = 1
  MaxStops = 1
  MaxDispatches = 1
INVARIANT
  DispatchCompletes
CHECK_DEADLOCK FALSE
