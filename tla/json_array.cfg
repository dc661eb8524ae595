SPECIFICATION Spec
CONSTANTS
  v1 = v1
  v2 = v2
  Garbage = Garbage
  NOP = NOP
  Elements = {v1, v2}
  NewSizes = {0, 1, 2, 3}
  ParsedSizes = {0, 1, 2, 3, 4}
  MaxLength = 8
  MaxCapacity = 32
SYMMETRY SymmetricElements
INVARIANTS
  TypeOK
  ArmMatchesSize
  ListsOwned
PROPERTIES
  Implements
