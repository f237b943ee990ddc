SPECIFICATION CodecSpec
CONSTANTS
  FirstLead          = 130
  FirstTrail         = 330
  TrailCount         = 400
  FirstSupplementary = 730
  MaxInt             = 100000
  MaxPunycode        = 5
  UnicodeLabels  <- MCUnicodeLabels
  PunycodeLabels <- MCPunycodeLabels
  Capacities     <- MCCapacities
INVARIANTS DecoderTypeOK NoSignedOverflow DecodeInRange FirstSupplementaryIsFirst Canonical DecodesTheDefinition
CHECK_DEADLOCK FALSE
