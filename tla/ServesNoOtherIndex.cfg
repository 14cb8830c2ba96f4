CONSTANTS
  NumFiles = 2
  Texts <- MCTexts
  Configs <- MCConfigs
  Chunks <- ChunkText
  BatchSize = 2
  NoFile = NoFile
  Torn = Torn
  MaxEdits = 0
  MaxStops = 2
SPECIFICATION Spec
INVARIANTS ServesNoOtherIndex
CHECK_DEADLOCK FALSE
