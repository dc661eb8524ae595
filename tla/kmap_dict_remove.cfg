SPECIFICATION Spec
CONSTANTS
  a = a
  b = b
  c = c
  d = d
  v1 = v1
  v2 = v2
  NULL = NULL
  NoValue = NoValue
  Keys = {a, b, c, d}
  Values = {v1, v2}
  Name <- Distinct
  Byte0 <- Distinct
  Hash <- Crowded
  Removable = {a, b, c, d}
  InitSizes = {0}
  DictThreshold = 2
  Delta = 2
  MaxRecords = 16
  MaxCount = 3
INVARIANTS
  IterationAgreesWithGet
