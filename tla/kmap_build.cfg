SPECIFICATION FairSpec
CONSTANTS
  a = a
  b = b
  c = c
  d = d
  v1 = v1
  v2 = v2
  NULL = NULL
  NoValue = NoValue
  Keys = {a, b, c, d}
  Values = {v1, v2}
  Name <- Twins
  Byte0 <- Twins
  Hash <- Colliding
  Removable = {}
  InitSizes = {0, 4}
  DictThreshold = 2
  Delta = 2
  MaxRecords = 64
  MaxCount = 3
INVARIANTS
  UniqueNames
  NoneLeaked
  IterationAgreesWithGet
PROPERTIES
  Implements
  SetTerminates
