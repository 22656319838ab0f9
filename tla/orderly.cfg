SPECIFICATION Spec
CONSTANTS
  App = {main, snd}
  Main = main
  Worker = {w1, w2}
  Conn = {c1, c2}
  Other = {o1}
  Yields = {o1}
  Name <- MCName1
  Service <- MCService1
  SendName <- MCSendName1
  ProcessName = "a"
  Callback = {cb}
  NULL = NULL
  Empty = ""
  Adverse = {}
SYMMETRY MCSymmetry
INVARIANTS
  NoFault
  IInv
  ListenerServesSession
  NothingLeftWhenDown
  ServingWhenUp
  NamesReachable
PROPERTIES
  ImplementsContract
