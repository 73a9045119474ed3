SPECIFICATION Spec
CONSTANTS
  Streams <- MCAllStreams
  MaxEntries <- MCMaxEntries
  MaxEntryBytes <- MCMaxEntryBytes
  Links <- MCLinks
  Chunk <- MCChunk
INVARIANTS
  TypeOK
  EndIsEarned
  ParserIsThere
  BodiesAreBounded
PROPERTIES
  MishapIsFinal
