SPECIFICATION FairSpec
CONSTANTS
  App = {main}
  Main = main
  Worker = {w1}
  Conn = {c1, c2}
  Other = {}
  Yields = {}
  Name <- MCName1
  Service <- MCService1
  SendName <- MCSendName1
  ProcessName = "a"
  Callback = {cb}
  NULL = NULL
  Empty = ""
  Adverse = {"callback"}
CHECK_DEADLOCK FALSE
PROPERTIES
  CallsReturn
