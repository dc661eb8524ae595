SPECIFICATION Spec
CONSTANTS
  MaxLength = 9
  UseRFC4627 = TRUE
INVARIANTS
  TypeOK
  JSONIsAccepted
  LenientOnlyAtTheEnd
  ParsesToItsText
  StackDiscipline
  WritesJSON
PROPERTIES
  ParserStops
