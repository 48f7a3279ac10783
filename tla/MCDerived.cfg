SPECIFICATION Spec
CONSTANTS
  t1 = t1
  t2 = t2
  Nobody = Nobody
  Junk = Junk
  Unset = Unset
  Adrift = Adrift
  None = None
  Thread <- MCThread
  Request <- DerivedRequests
  Source <- MCSource
  Encoding <- MCEncoding
  Tiles <- MCTiles
  CellReads <- MCCellReads
  Refused <- MCRefused
  Broken <- MCBroken
  DerivedBase <- MCDerivedBase
  DerivedCount <- MCDerivedCount
  SizeOf <- MCSizeOf
  Budgets = {3}
  MaxRequests = 2
  MaxFaults = 0
  MaxAdmin = 1
INVARIANTS
  Coherent
  StatsCovered
PROPERTIES
  OnlyAskedIsKept
