SPECIFICATION Spec
CONSTANTS
  Payloads <- MCPayloads
  MaxU64 = 15
INVARIANTS
  AcceptsRecords
  LastSizeWins
CHECK_DEADLOCK FALSE
