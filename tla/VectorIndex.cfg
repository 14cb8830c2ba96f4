CONSTANTS
  NumFiles = 2
  Texts <- MCTexts
  Configs <- MCConfigs
  Chunks <- ChunkText
  BatchSize = 2
  NoFile = NoFile
  Torn = Torn
  MaxEdits = 2
  MaxStops = 2
SPECIFICATION FairSpec
INVARIANTS ChunkTextIsFaithful StampVouches ServesTheDirectory ServesSomething
PROPERTIES IngestEnds
CHECK_DEADLOCK FALSE
