SPECIFICATION Spec
CONSTANTS
  MinAlignLog2 = 1
  MaxAlignLog2 = 3
  BlockSize = 16
  Sizes = {1, 3, 5, 8, 9}
  b1 = b1
  b2 = b2
  b3 = b3
  b4 = b4
  b5 = b5
  Blocks = {b1, b2, b3, b4, b5}
SYMMETRY SymmetricBlocks
INVARIANTS
  TypeOK
  Disjoint
  Contained
  FreedOnce
