SPECIFICATION Spec
CONSTANTS
  Streams <- MCStreamsPaxDirectory
  MaxEntries <- MCMaxEntries
  MaxEntryBytes <- MCMaxEntryBytes
  Links <- MCLinks
  Chunk <- MCChunk
INVARIANTS
  NoPayloadOnNonFiles
