SPECIFICATION Spec
CONSTANTS
  Raw <- Characters
  Escapes = {10, 34}
  CodePoints = {1, 127, 128, 2047, 2048, 8364, 55357}
  Made <- Programs
  InlineSize = 4
  MaxPieces = 3
INVARIANTS TypeOK MeaningKept WithinCapacity BuffersReleased
PROPERTY WriterEnds
