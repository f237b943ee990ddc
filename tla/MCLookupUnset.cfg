SPECIFICATION Spec
CONSTANTS
  FirstLead = 55296
  FirstTrail = 56320
  TrailCount = 1024
  FirstSupplementary = 65536
  None = None
  Calls <- AllCalls
  Mapped <- MappedLabels
  MaxLabelLength = 5
  MaxNameLength = 7
  StackSize = 4
  AsciiLimit = 8
  ScratchSize = 11
  LookupCapacity = 9
  UnicodeCapacity = 14
INVARIANTS CallerFreesWhatItGot
