SPECIFICATION GuardFairSpec
CONSTANTS
  Block <- MCBlock
  MaxU64 <- MCMaxU64
  MaxMetadata <- MCMaxMetadata
  Chunk <- MCChunk
  Tapes <- MCTapeSet
INVARIANTS
  TypeOK
  Accounting
  SpentOnce
  PaxIsPrefix
PROPERTIES
  FollowsFraming
  Drains
CHECK_DEADLOCK FALSE
