--------------------------- MODULE SessionContract ---------------------------
(***************************************************************************)
(* What libDbusConnectMessageBus and libDbusDisconnect promise together: a *)
(* session is a ladder of three things, two bus connections and then a     *)
(* listening thread.  A connect climbs it and is successful at the top; a  *)
(* disconnect, and a connect that fails anywhere, goes down again in the   *)
(* opposite order and returns at the bottom.  Nobody closes a connection   *)
(* under a thread, and nothing is left over.                               *)
(***************************************************************************)
CONSTANTS Conn, Worker

VARIABLES
  phase,  \* "down", "connecting", "up" or "closing"
  conns,  \* the bus connections the process has
  threads \* the listening threads it has

vars == <<phase, conns, threads>>

Phase == {"down", "connecting", "up", "closing"}

TypeOK ==
  /\ phase \in Phase
  /\ conns \subseteq Conn
  /\ threads \subseteq Worker

Init == phase = "down" /\ conns = {} /\ threads = {}

BeginConnect ==
  /\ phase = "down"
  /\ phase' = "connecting"
  /\ UNCHANGED <<conns, threads>>

OpenConnection(c) ==
  /\ phase = "connecting" /\ threads = {}
  /\ c \notin conns
  /\ \A a, b \in conns : a = b
  /\ conns' = conns \cup {c}
  /\ UNCHANGED <<phase, threads>>

\* Two connections are open when the thread starts.
CreateListener(w) ==
  /\ phase = "connecting" /\ threads = {}
  /\ \E a, b \in conns : a # b
  /\ threads' = {w}
  /\ UNCHANGED <<phase, conns>>

Succeed ==
  /\ phase = "connecting" /\ threads # {}
  /\ phase' = "up"
  /\ UNCHANGED <<conns, threads>>

GiveUp ==
  /\ phase = "connecting" /\ threads = {}
  /\ phase' = "closing"
  /\ UNCHANGED <<conns, threads>>

\* A second disconnect finds nothing to do.
BeginDisconnect ==
  /\ phase \in {"up", "down"}
  /\ phase' = "closing"
  /\ UNCHANGED <<conns, threads>>

JoinListener ==
  /\ phase = "closing"
  /\ threads' = {}
  /\ UNCHANGED <<phase, conns>>

CloseConnection(c) ==
  /\ phase = "closing" /\ threads = {}
  /\ conns' = conns \ {c}
  /\ UNCHANGED <<phase, threads>>

End ==
  /\ phase = "closing" /\ conns = {} /\ threads = {}
  /\ phase' = "down"
  /\ UNCHANGED <<conns, threads>>

Next ==
  \/ BeginConnect \/ Succeed \/ GiveUp \/ BeginDisconnect \/ JoinListener \/ End
  \/ \E c \in Conn : OpenConnection(c) \/ CloseConnection(c)
  \/ \E w \in Worker : CreateListener(w)

Spec == Init /\ [][Next]_vars

=============================================================================
