SPECIFICATION HSpec
CONSTANTS
  None = None
  Request <- DirectoryRequests
  Source <- MCSource
  ResOf <- MCResOf
  Encoding <- MCEncoding
  Held <- MCHeld
  Directory <- MCDirectory
  Level = {"L0", "L1", "L2"}
  Refused <- MCRefused
  Broken <- MCBroken
  Capacities = {0, 1, 2}
  DEFAULT_TILE_CACHE_CAPACITY = 2
  MaxCalls = 4
  MaxFaults = 1
  MaxResizes = 2
INVARIANTS
  DirectoriesHold
  MostRecentKept
  BuffersHold
