SPECIFICATION Spec
CONSTANTS
  String = {s, t}
  Array = {1, 2, 3}
  Outside = Outside
  Literal = Literal
  None = None
  LiteralUnits <- Literally
  OutsideUnits <- Outsides
  Unit = {2}
  StackSize = 1
  GrowSize = 1
  MaxCapacity = 3
  Granule = 1
  Header = 0
  MaxLength = 4
INVARIANTS StringTypeOK CountIsOwners KeepsValues
SYMMETRY Strings
VIEW Seen
