SPECIFICATION Spec
CONSTANTS
  MaxChunks = 5
  Chunk <- MarkerChunk
INVARIANTS
  PreRollMerged
CHECK_DEADLOCK FALSE
