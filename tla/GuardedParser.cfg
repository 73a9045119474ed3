SPECIFICATION FairSpec
CONSTANTS
  Block <- MCBlock
  MaxU64 <- MCMaxU64
  MaxMetadata <- MCMaxMetadata
  Chunk <- MCChunk
  Tapes <- MCTapeSet
INVARIANTS
  Lockstep
  ParserIsGuarded
  AcceptedIffComplete
PROPERTIES
  ReadingEnds
CHECK_DEADLOCK FALSE
