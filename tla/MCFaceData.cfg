SPECIFICATION FaceSpec
CONSTANTS
  Request <- MCRequest
INVARIANTS
  DifferencesUndone
  PixelsAreTheAuthors
  NeverBrighterThanAlpha
  TexelCoversItsPlace
  LossIsBounded
CHECK_DEADLOCK FALSE
