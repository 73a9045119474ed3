SPECIFICATION Spec
CONSTANTS
  Block <- MCBlock
  Chunk <- MCChunk
  MaxAppends <- MCMaxAppends
  Entries <- MCEntries
  MaxU64 <- MCMaxU64
  MaxMetadata <- MCMaxMetadata
INVARIANTS
  PublishedIsReadable
  UnfinishedIsIncomplete
CHECK_DEADLOCK FALSE
