SPECIFICATION Spec
CONSTANTS
  MaxLength = 4
  UseRFC4627 = TRUE
INVARIANTS
  OnlyJSONIsAccepted
