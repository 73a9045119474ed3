SPECIFICATION FairSpec
CONSTANTS
  Block <- MCBlock
  Chunk <- MCChunk
  MaxAppends <- MCMaxAppends
  Entries <- MCEntries
INVARIANTS
  TypeOK
  StreamIsExact
  AcceptedIsKept
  HonestAnswer
PROPERTIES
  ImplementsArchiveSink
  CallsReturn
CHECK_DEADLOCK FALSE
