SPECIFICATION Spec
CONSTANTS
  Sources <- MCSources
  LimitSets <- MCLimitSets
  PeekLen = 2
  Floor = 3
  MaxU64 = 15
  Chunk = 3
INVARIANTS
  TypeOK
  CapsHold
  ErrorIsTrue
  PlainIsNeverSuspect
  NothingLost
PROPERTY
  NoByteBehindGap
CHECK_DEADLOCK FALSE
