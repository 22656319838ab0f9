----------------------------- MODULE SessionInv -----------------------------
(***************************************************************************)
(* The inductive invariants behind the properties of module Session, from  *)
(* the orderly use (IInv) to the uses where senders do not wait for the    *)
(* session (SessionHolds), and where the application connects again        *)
(* without disconnecting (SInv).  They say, for every place that the main  *)
(* thread can be at, which connections, names and threads there are.       *)
(***************************************************************************)
EXTENDS Session

Sending    == {"notice", "noticeFlush", "request", "requestFlush", "block"}
Connecting == {"open", "name", "match", "spawn", "flag"}
Ending     == {"term", "join", "release", "close", "clear"}

-----------------------------------------------------------------------------
\* As long as connects and disconnects alternate and callbacks leave them to
\* the main thread, the session itself is sound, whoever sends meanwhile.

Patient == {"reconnect", "callback"} \cap Adverse = {}

\* Only the main thread connects and disconnects; the others send, a listener
\* in its callback.
OnlyMainConnects == \A t \in Caller \ {Main} : pc[t] \in Sending \cup {"idle"}

Discipline ==
  /\ OnlyMainConnects
  /\ up => connect_flag /\ pc[Main] \in Sending \cup {"idle"}
  /\ \A w \in Worker : pc[w] # "idle" => wrk[w] = "callback"

\* Which of its two pointers the session has set.
Pointers ==
  LET l == pc[Main]  r == role[Main] IN
  /\ dbus_name_ = NULL => \A x \in Role : conn_[x] = NULL
  /\ l # "idle" \/ connect_flag => dbus_name_ # NULL
  /\ up \/ l \in {"match", "spawn", "flag"} => \A x \in Role : conn_[x] # NULL
  /\ l \in Sending \cup {"idle"} /\ ~up => \A x \in Role : conn_[x] = NULL
  /\ l \in {"open", "name"} => /\ conn_["send"] = NULL <=> l = "open" /\ r = "send"
                               /\ conn_["rec"]  = NULL <=> l = "open" \/ r = "send"
  /\ l \in {"release", "close", "clear"} /\ r = "send" => conn_["rec"] = NULL
  /\ l \in {"close", "clear"} => conn_[r] # NULL
  /\ l = "release" /\ after[Main] = "undo" => conn_[r] # NULL
  /\ l \in {"term", "join"} => after[Main] # "undo"

\* Between dbus_connection_unref and the assignment of NULL the pointer that
\* is being cleared dangles; every other one leads to a connection of its own,
\* and the other connections are kept by pending calls only.
Dangling(x) == pc[Main] = "clear" /\ role[Main] = x

Live(c) == status[c] \in {"open", "dead"}

Connections ==
  /\ \A x \in Role : conn_[x] # NULL => (Live(conn_[x]) <=> ~Dangling(x))
  /\ \A c \in Conn : Live(c) => \E x \in Role : conn_[x] = c
  /\ conn_["send"] = conn_["rec"] => conn_["send"] = NULL

Kept ==
  /\ \A c \in Conn : status[c] = "closed" => \E t \in Caller : pend[t] = c
  /\ \A t \in Caller : pend[t] # NULL => pc[t] \in {"requestFlush", "block"}

\* There is a listener from pthread_create to the join, and never another.
Listener ==
  /\ \A w \in Worker : wrk[w] # "none" <=> rpcclient_thread_id_ = w
  /\ up \/ pc[Main] = "flag" => rpcclient_thread_id_ # NULL
  /\ up \/ pc[Main] \in Connecting => ~terminated_
  /\ \A w \in Worker : wrk[w] = "exited" => terminated_
  /\ rpcclient_thread_id_ # NULL =>
       /\ up \/ pc[Main] \in {"flag", "term", "join"}
       /\ \A x \in Role : conn_[x] # NULL
  /\ \A w \in Worker : Running(w) =>
       conn_["rec"] = IF wrk[w] = "created" THEN thread_param ELSE wconn[w]
  /\ \A t \in Caller :
       joining[t] = IF pc[t] = "join" THEN rpcclient_thread_id_ ELSE NULL

\* A connection holds the one name it asked for, and none before that.
Names ==
  /\ NamesReachable
  /\ \A n \in Name : owner[n] \notin queue[n]
  /\ pc[Main] \in {"name", "close"} =>
       \A n \in Name : ~Holds(conn_[role[Main]], n)

\* The names that were granted stay with the session while it is connecting
\* and connected.
HasName(x) == status[conn_[x]] = "open" => owner[BusName(x)] = conn_[x]

Granteds ==
  /\ pc[Main] \in {"open", "name"} /\ role[Main] = "rec" => HasName("send")
  /\ up \/ pc[Main] \in {"match", "spawn", "flag"} => \A x \in Role : HasName(x)

SessionHolds ==
  /\ TypeOK
  /\ Discipline
  /\ Pointers
  /\ Connections
  /\ Kept
  /\ Listener
  /\ Names
  /\ Granteds

-----------------------------------------------------------------------------
\* In the orderly use (Adverse = {}) nobody sends before the session is built
\* or while it is taken down, so that nothing dangles under a sender.
NobodyEarly ==
  /\ ~up => pc[Main] \notin Sending
  /\ \A t \in App \ {Main} : pc[t] # "idle" => up

\* A pending call waits on the send connection, from its send to its reply.
PendingCalls ==
  /\ \A c \in Conn : status[c] # "closed"
  /\ \A t \in Caller :
       pend[t] = IF pc[t] \in {"requestFlush", "block"} THEN conn_["send"] ELSE NULL

IInv == SessionHolds /\ NoFault /\ NobodyEarly /\ PendingCalls

-----------------------------------------------------------------------------
\* Why the send name stays reachable where only the main thread disconnects: a
\* connection that a name is held through is open and holds no other one, and
\* connect_send_ is cleared, and pointed at a new connection, when nothing is
\* held through it.
OneName ==
  /\ \A n \in Name : owner[n] \notin queue[n]
  /\ \A n \in Name, c \in Conn : Holds(c, n) =>
       status[c] = "open" /\ \A m \in Name : Holds(c, m) => m = n

Nameless ==
  LET c == conn_[role[Main]] IN
  pc[Main] \in {"name", "clear"} => c # NULL /\ \A n \in Name : ~Holds(c, n)

SInv == TypeOK /\ OnlyMainConnects /\ OneName /\ Nameless /\ SendNameReachable

-----------------------------------------------------------------------------
\* The contract that the session implements.  Its phase is where the main
\* thread is; the connections are the ones libdbus has allocated and not closed,
\* and the threads the ones pthread_create has made, whether the statics of
\* DbusOperate still lead to them or not.
Phase ==
  CASE up                       -> "up"
    [] pc[Main] \in Connecting  -> "connecting"
    [] pc[Main] \in Ending      -> "closing"
    [] OTHER                    -> "down"

Conns == {c \in Conn : Live(c)}
Threads == {w \in Worker : wrk[w] # "none"}

Contract == INSTANCE SessionContract WITH
  phase <- Phase, conns <- Conns, threads <- Threads

\* A connect acquires the connections and the thread in order, and whatever
\* fails, in whatever place, a terminate gives all of them back, the thread
\* before the connections.
ImplementsContract == Contract!Spec
=============================================================================
