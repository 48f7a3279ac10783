SPECIFICATION Spec
CONSTANTS
  Large = 7
  BlockSizes = {0, 3, 7}
  Encodings = {"zipped", "tiled"}
  TableSizes = {0, 9, 30}
  MaxFaces = 4
  TileLogs <- MCTileLogs
  FaceRes <- MCFaceRes
  Positions = {2}
  Modulus = 40
INVARIANTS
  IndexHolds
  OnlyWholeDirectories
CHECK_DEADLOCK FALSE
