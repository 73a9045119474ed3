SPECIFICATION ValidateFairSpec
CONSTANTS
  Streams <- MCAllStreams
  MaxEntries <- MCMaxEntries
  MaxEntryBytes <- MCMaxEntryBytes
  Links <- MCLinks
  Chunk <- MCChunk
INVARIANTS
  ReportIsTrue
  MalformedIsDeserved
PROPERTIES
  ValidateReturns
CHECK_DEADLOCK FALSE
