SPECIFICATION CallsSpec
CONSTANTS
  FirstLead          = 55296
  FirstTrail         = 56320
  TrailCount         = 1024
  FirstSupplementary = 65536
  MaxInt             = 2147483647
  MaxLabelLength     = 7
  MaxNameLength      = 9
  StackArray         = 9
  CC          <- MCCC
  Mapping     <- MCMapping
  Composite   <- MCComposite
  Direction   <- MCDirection
  JoiningType <- MCJoiningType
  Script      <- MCScript
  IsMark      <- MCIsMark
  Inputs      <- MCMappingCalls
INVARIANTS UnpairedIsDisallowed
