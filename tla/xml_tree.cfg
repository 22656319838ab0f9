SPECIFICATION ChainSpec
CONSTANTS
  Node = {n1, n2, n3, n4}
  Value = {va, vb}
  NULL = NULL
SYMMETRY MCSymmetry
CHECK_DEADLOCK FALSE
INVARIANTS
  IInv
  ErrorsReachTheDocument
  LookupsFollowTheOrder
PROPERTIES
  ImplementsContract
