SPECIFICATION FairSpec
CONSTANTS
  Proc = {"a", "b"}
  Client = {}
  Home <- MCHome
  Outcome <- MCOutcome1
  Crashing = {"a"}
  Foreign = {"signal"}
  MaxSent = 2
  MaxSessions = 1
  MaxForeign = 2
  NULL = NULL
CHECK_DEADLOCK FALSE
PROPERTIES
  InboxServed
