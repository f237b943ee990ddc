SPECIFICATION CodecSpec
CONSTANTS
  FirstLead          = 55296
  FirstTrail         = 56320
  TrailCount         = 1024
  FirstSupplementary = 65536
  MaxInt             = 2147483647
  MaxLabel           = 3
  UnicodeLabels  <- MCUnicodeLabels
  PunycodeLabels <- MCPunycodeLabels
  Capacities     <- MCCapacities
INVARIANTS TypeOK HandledAreTheSmaller BufferHoldsPrefix EncodesTheDefinition RoundTrip RetrySucceeds
PROPERTIES InsertionsAreExact EveryCallReturns
CHECK_DEADLOCK FALSE
