SPECIFICATION Spec
CONSTANTS
  FirstLead          = 130
  FirstTrail         = 330
  TrailCount         = 400
  FirstSupplementary = 730
  GrowMinimum        = 3
  MaxLength          = 5
  MaxCapacity        = 10
  Slack     = {0, 1}
  CC        <- MCCC
  CodePoint <- MCCodePoint
  Texts     <- MCTexts
INVARIANTS BufferTypeOK CapacityAccounting SuffixIsReorderable
PROPERTIES NothingWrittenAfterFailure KeepsCanonicalOrder
CHECK_DEADLOCK FALSE
