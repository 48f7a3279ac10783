SPECIFICATION HSpec
CONSTANTS
  None = None
  Request <- EveryRequest
  Source <- MCSource
  ResOf <- MCResOf
  Encoding <- MCEncoding
  Held <- MCHeld
  Directory <- MCDirectory
  Level = {"L0", "L1", "L2"}
  Refused <- MCRefused
  Broken <- MCBroken
  Capacities = {0, 1, 2}
  DEFAULT_TILE_CACHE_CAPACITY = 2
  MaxCalls = 2
  MaxFaults = 1
  MaxResizes = 1
PROPERTY
  ServiceSpec
