SPECIFICATION Spec
CONSTANTS
  App = {main}
  Main = main
  Worker = {w1, w2}
  Conn = {c1, c2, c3}
  Other = {o1}
  Yields = {o1}
  Name <- MCName2
  Service <- MCService2
  SendName <- MCSendName2
  ProcessName = "a"
  Callback = {}
  NULL = NULL
  Empty = ""
  Adverse = {"reconnect"}
SYMMETRY MCSymmetry
CHECK_DEADLOCK FALSE
INVARIANTS
  ReconnectServes
  SendNameReachable
