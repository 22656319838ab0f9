SPECIFICATION Spec
CONSTANTS
  Proc = {"a", "b"}
  Client = {t1}
  Home <- MCHome
  Outcome <- MCOutcome2
  Crashing = {"a", "b"}
  Foreign = {}
  MaxSent = 2
  MaxSessions = 2
  MaxForeign = 0
  NULL = NULL
CHECK_DEADLOCK FALSE
INVARIANTS
  TypeOK
  AtMostOnce
  SelfRequestFails
PROPERTIES
  ImplementsContract
  OrderKept
