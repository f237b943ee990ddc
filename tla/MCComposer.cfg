SPECIFICATION Spec
CONSTANTS
  FirstLead          = 55296
  FirstTrail         = 56320
  TrailCount         = 1024
  FirstSupplementary = 65536
  MaxDifference      = 3
  CC              <- MCCC
  Info        <- UTS46Info
  InIndexes   <- UTS46Indexes
  TrieHeader  <- UTS46TrieHeader
  TrieIndex   <- UTS46TrieIndex
  TrieData    <- UTS46TrieData
  ExtraUnits  <- UTS46ExtraUnits
  Mapping         <- MCMapping
  Composite       <- MCComposite
  Calls           <- MCCalls
INVARIANTS ComposerTypeOK SegmentsAreIndependent ReturnsTheDefinition ComparesExactly FailureKeepsFirst
