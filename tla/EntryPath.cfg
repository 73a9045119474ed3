SPECIFICATION Spec
CONSTANTS
  Paths <- MCPaths
  MaxPathLen <- MCMaxPathLen
INVARIANTS
  AcceptedStaysInside
  RefusalIsTrue
CHECK_DEADLOCK FALSE
