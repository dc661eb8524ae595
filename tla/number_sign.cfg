SPECIFICATION Spec
CONSTANTS
  Int32Max = 11
  Int64Max = 127
  PayloadSize = 32
  TagBase = 16
  Powers = 2
  Digits = {0, 1, 2, 8}
  MaxLength = 6
INVARIANT ReadAsWritten
