SPECIFICATION Spec
CONSTANTS
  FaceLog2 <- MCFaceLog2
  RequestLog2 <- MCRequestLog2
  MaxLevels = 3
INVARIANTS
  ChainIsSound
  StoredQueryAgrees
  LevelsReadable
  OnlyRealResolutions
PROPERTY
  ChainEnds
  ChainDescends
CHECK_DEADLOCK FALSE
