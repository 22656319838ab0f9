SPECIFICATION Spec
CONSTANTS
  App = {main, snd}
  Main = main
  Worker = {w1}
  Conn = {c1, c2, c3}
  Other = {}
  Yields = {}
  Name <- MCName2
  Service <- MCService2
  SendName <- MCSendName2
  ProcessName = "a"
  Callback = {cb}
  NULL = NULL
  Empty = ""
  Adverse = {"overlap", "sendDown"}
SYMMETRY MCSymmetry
CHECK_DEADLOCK FALSE
INVARIANTS
  ListenerServesSession
  NothingLeftWhenDown
