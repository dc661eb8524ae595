SPECIFICATION Spec
CONSTANTS
  v1 = v1
  v2 = v2
  Garbage = Garbage
  NOP = NOP
  Elements = {v1, v2}
  NewSizes = {0}
  ParsedSizes = {0}
  MaxLength = 8
  MaxCapacity = 32
SYMMETRY SymmetricElements
INVARIANTS
  GetArrayIsReadable


