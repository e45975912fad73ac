SPECIFICATION SidecarSpec
CONSTANTS
  MaxChunks = 4
  Chunk <- AnyChunk
  PageTime <- PageTimes
  Offset <- Offsets
INVARIANTS
  TypeOK
  SplitInv
  UnmarkedAudioTaken
  NoRecordingSpansStop
  CountsAgree
  StopFlagFaithful
  FilesComplete
  ManifestFaithful
CHECK_DEADLOCK FALSE
