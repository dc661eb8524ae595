SPECIFICATION Spec
CONSTANTS
  MaxNodes = 4
  MaxStack = 4
  Names = {a, b}
  DictThreshold = 1
  MaxShared = 2
  MaxHeld = 2
  MaxCount = 9
SYMMETRY Symmetry
INVARIANTS TypeOK NoDangling CountsCover OnlySpentLeaks
