SPECIFICATION Spec
CONSTANTS
  Byte = {1}
  MaxSize = 3
  Length <- MCLength
  Code = {"SOK", "EGENERAL"}
  MaxCalls = 2
  NULL = NULL
CHECK_DEADLOCK FALSE
INVARIANTS
  ArrivesIntact
  Terminated
  NoneLeft
PROPERTIES
  ReadsInside
