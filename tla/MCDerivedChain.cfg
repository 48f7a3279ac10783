SPECIFICATION Spec
CONSTANTS
  t1 = t1
  t2 = t2
  h1 = h1
  h2 = h2
  None = None
  Thread = {t1, t2}
  Host = {h1, h2}
  Face = {"face"}
  BaseRes <- MCBaseRes
  Level = {0, 1, 2}
  ByteSize <- MCByteSize
  Budgets = {1, 4, 9}
  MaxCalls = 2
  MaxFaults = 1
  MaxAdmin = 1
INVARIANT
  OneHostAnswers
PROPERTY
  CallsReturn
