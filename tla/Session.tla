------------------------------- MODULE Session -------------------------------
(***************************************************************************)
(* The life of one process's session with the message bus: what            *)
(* libDbusConnectMessageBus, libDbusDisconnect and libDbusSendMessage do   *)
(* to the statics of DbusOperate, to its two private bus connections, to   *)
(* the names they own and to the listening thread, when they are called by *)
(* the application's threads and by the callback that the listening thread *)
(* runs.  One action stands for one libdbus or pthread call together with  *)
(* the local code up to the next one: between two such calls another       *)
(* thread, the bus or another program may move.                            *)
(*                                                                         *)
(* What a message carries is left to the module of the calls; here a       *)
(* request is only a thread that waits on the send connection.             *)
(***************************************************************************)

CONSTANTS
  App,          \* the application's threads
  Main,         \* the one of them that connects and disconnects
  Worker,       \* the threads pthread_create can give: identities are reused
  Conn,         \* the DBusConnection objects the process can have at once
  Other,        \* connections of other programs to the same bus
  Yields,       \* those of them that set DBUS_NAME_FLAG_ALLOW_REPLACEMENT
  Name,         \* bus names
  Service,      \* the names an application can give first in srvList
  SendName,     \* SendName[s] is s with "_send" appended
  ProcessName,  \* the name of the running executable
  Callback,     \* the callbacks an application can install
  NULL,         \* the null pointer; also "no owner" and "no thread"
  Empty,        \* the empty string
  Adverse       \* what this application may do beyond the orderly use

Liberties == {"reconnect",   \* connect again without disconnecting
              "sendDown",    \* send without being connected
              "overlap",     \* connect or disconnect during another's send
              "callback"}    \* disconnect from inside the callback

ASSUME SessionAssumption ==
  /\ Main \in App
  /\ App \cap Worker = {}
  /\ Conn \cap Other = {}
  /\ Yields \subseteq Other
  /\ Service \subseteq Name
  /\ ProcessName \in Service
  /\ SendName \in [Service -> Name]
  /\ \A s \in Service : SendName[s] # s
  /\ NULL \notin App \cup Worker \cup Conn \cup Other \cup Name \cup Callback
  /\ Empty \notin Name \cup {NULL}
  /\ Adverse \subseteq Liberties

Caller == App \cup Worker
Role == {"send", "rec"}

VARIABLES
  \* the statics of libdbus.cpp and of class DbusOperate
  connect_flag, terminated_, rpcclient_thread_id_, srv_list_name_, call_proc_,
  dbus_name_,   \* dbus_info_[0].dbus_name_; NULL while dbus_info_ is empty
  conn_,        \* conn_["send"] is connect_send_, conn_["rec"] the listening
                \* connection dbus_info_[0].connect_
  thread_param, \* the connection in createListenDbusThread's static variable
  \* libdbus and the bus daemon
  status,       \* of a DBusConnection: "free" (not allocated), "open", "dead"
                \* (cut by the bus), "closed" (kept by a pending call only)
  owner, queue, \* of a bus name: its primary owner, and who waits for it
  \* threads
  pc,           \* where a thread is inside the library; "idle" outside it
  role,         \* which connection its connect or terminate is busy with
  after,        \* what its terminate was called for
  pend,         \* the connection its pending call keeps a reference to
  ret,          \* what its last call returned
  joining,      \* the thread that its terminate waits for
  wrk, wconn,   \* where a listening thread is in run(), and run's argument
  \* history
  up,           \* the application's view: its last connect returned SOK and
                \* it did not disconnect since
  fault         \* "null" or "freed" once libdbus was handed such a pointer

settings == <<srv_list_name_, call_proc_, dbus_name_>>
statics == <<connect_flag, terminated_, rpcclient_thread_id_, settings, conn_,
             thread_param>>
bus     == <<status, owner, queue>>
frames  == <<pc, role, after, pend, ret, joining>>
workers == <<wrk, wconn>>
history == <<up, fault>>
vars    == <<statics, bus, frames, workers, history>>

Location == {"idle", "open", "name", "match", "spawn", "flag",
             "term", "join", "release", "close", "clear",
             "notice", "noticeFlush", "request", "requestFlush", "block"}

TypeOK ==
  /\ connect_flag \in BOOLEAN
  /\ terminated_ \in BOOLEAN
  /\ rpcclient_thread_id_ \in Worker \cup {NULL}
  /\ srv_list_name_ \in Service \cup {Empty}
  /\ call_proc_ \in Callback \cup {NULL}
  /\ dbus_name_ \in Service \cup {NULL}
  /\ conn_ \in [Role -> Conn \cup {NULL}]
  /\ thread_param \in Conn \cup {NULL}
  /\ status \in [Conn -> {"free", "open", "dead", "closed"}]
  /\ owner \in [Name -> Conn \cup Other \cup {NULL}]
  /\ queue \in [Name -> SUBSET (Conn \cup Other)]
  /\ pc \in [Caller -> Location]
  /\ role \in [Caller -> Role]
  /\ after \in [Caller -> {"void", "fail", "match", "undo"}]
  /\ pend \in [Caller -> Conn \cup {NULL}]
  /\ ret \in [Caller -> {"none", "void", "SOK", "EGENERAL",
                         "ENOTCONNECT", "ECONNRESET"}]
  /\ joining \in [Caller -> Worker \cup {NULL}]
  /\ wrk \in [Worker -> {"none", "created", "poll", "read",
                         "callback", "reply", "exited"}]
  /\ wconn \in [Worker -> Conn \cup {NULL}]
  /\ up \in BOOLEAN
  /\ fault \in {"none", "null", "freed"}

Init ==
  /\ connect_flag = FALSE
  /\ terminated_ = FALSE
  /\ rpcclient_thread_id_ = NULL
  /\ srv_list_name_ = Empty
  /\ call_proc_ = NULL
  /\ dbus_name_ = NULL
  /\ conn_ = [r \in Role |-> NULL]
  /\ thread_param = NULL
  /\ status = [c \in Conn |-> "free"]
  /\ owner = [n \in Name |-> NULL]
  /\ queue = [n \in Name |-> {}]
  /\ pc = [t \in Caller |-> "idle"]
  /\ role = [t \in Caller |-> "send"]
  /\ after = [t \in Caller |-> "void"]
  /\ pend = [t \in Caller |-> NULL]
  /\ ret = [t \in Caller |-> "none"]
  /\ joining = [t \in Caller |-> NULL]
  /\ wrk = [w \in Worker |-> "none"]
  /\ wconn = [w \in Worker |-> NULL]
  /\ up = FALSE
  /\ fault = "none"

-----------------------------------------------------------------------------
\* Threads

Goto(t, l) == pc' = [pc EXCEPT ![t] = l]

Returns(t, r) == Goto(t, "idle") /\ ret' = [ret EXCEPT ![t] = r]

Enters(t, l) == Goto(t, l) /\ ret' = [ret EXCEPT ![t] = "none"]

\* A thread can call the library when it is not inside it already; a
\* listening thread only from within the callback.
Ready(t) == pc[t] = "idle" /\ (t \in Worker => wrk[t] = "callback")

\* The orderly application does not connect or disconnect while another of
\* its threads is inside libDbusSendMessage.
Quiet == "overlap" \in Adverse \/ \A s \in App \ {Main} : pc[s] = "idle"

-----------------------------------------------------------------------------
\* The bus daemon and libdbus

\* A pointer that libdbus may be given.
Usable(c) == c # NULL /\ status[c] # "free"

\* Who becomes the owner of n when its owner goes.
Heirs(n) == IF queue[n] = {} THEN {NULL} ELSE queue[n]

\* Connection c gives up whatever it owns or waits for among the names N.  A
\* connection of this library asks for one name in its life.
Withdraw(c, N) ==
  \/ /\ \A n \in N : c # owner[n] /\ c \notin queue[n]
     /\ UNCHANGED <<owner, queue>>
  \/ \E n \in N : /\ c = owner[n]
                  /\ \E heir \in Heirs(n) :
                       /\ owner' = [owner EXCEPT ![n] = heir]
                       /\ queue' = [queue EXCEPT ![n] = @ \ {heir}]
  \/ \E n \in N : /\ c \in queue[n]
                  /\ queue' = [queue EXCEPT ![n] = @ \ {c}]
                  /\ UNCHANGED owner

\* The last reference to c is dropped unless a pending call keeps one.
Released(c, pending) ==
  IF \E t \in Caller : pending[t] = c THEN "closed" ELSE "free"

\* The name that connection r of the session asks for.
BusName(r) == IF r = "rec" THEN dbus_name_ ELSE SendName[dbus_name_]

\* DBUS_NAME_FLAG_REPLACE_EXISTING takes a name that is free or that its
\* owner allows to be replaced.
Granted(c, n) == owner[n] \in Yields \cup {NULL, c}

-----------------------------------------------------------------------------
\* terminate(), from its first line on; why says what happens after it

Terminate(t, why) == Goto(t, "term") /\ after' = [after EXCEPT ![t] = why]

SetTerminated(t) ==
  /\ pc[t] = "term"
  /\ terminated_' = TRUE
  /\ joining' = [joining EXCEPT ![t] = rpcclient_thread_id_]
  /\ Goto(t, "join")
  /\ UNCHANGED <<connect_flag, rpcclient_thread_id_, settings, conn_,
                 thread_param, bus, role, after, pend, ret, workers, history>>

\* pthread_join returns when the thread has ended, and at once, with an error
\* that nobody looks at, when a thread joins itself.
JoinReturns(t) == joining[t] = t \/ wrk[joining[t]] \in {"exited", "none"}

\* A slip: the thread is told to end, and not waited for.
NobodyToJoin_NoWait(t) == TRUE

NobodyToJoin(t) == joining[t] = NULL

\* The listening connection is next, then the send connection.
JoinListener(t) ==
  /\ pc[t] = "join"
  /\ \/ /\ NobodyToJoin(t)
        /\ UNCHANGED <<rpcclient_thread_id_, wrk>>
     \/ /\ ~NobodyToJoin(t)
        /\ JoinReturns(t)
        /\ rpcclient_thread_id_' = NULL
        /\ wrk' = IF joining[t] = t THEN wrk
                  ELSE [wrk EXCEPT ![joining[t]] = "none"]
  /\ joining' = [joining EXCEPT ![t] = NULL]
  /\ role' = [role EXCEPT ![t] = "rec"]
  /\ Goto(t, "release")
  /\ UNCHANGED <<connect_flag, terminated_, settings, conn_, thread_param, bus,
                 after, pend, ret, wconn, history>>

\* After the listening connection comes the send connection, and after that
\* the caller of terminate(): libDbusDisconnect returns nothing, a failed
\* connect returns the error, and regSysDbus, which calls terminate() itself
\* when its match rule is refused, fails back into a second terminate().
NextRole(t) ==
  \/ /\ role[t] = "rec"
     /\ role' = [role EXCEPT ![t] = "send"]
     /\ Goto(t, "release")
     /\ UNCHANGED <<after, ret>>
  \/ /\ role[t] = "send"
     /\ \/ after[t] = "void" /\ Returns(t, "void") /\ UNCHANGED after
        \/ after[t] = "fail" /\ Returns(t, "EGENERAL") /\ UNCHANGED after
        \/ after[t] = "match" /\ Terminate(t, "fail") /\ UNCHANGED ret
     /\ UNCHANGED role

\* Slips: only the listening connection is released; a connect that fails
\* releases nothing.
NothingToRelease_SendKept(t) ==
  after[t] # "undo" /\ (conn_[role[t]] = NULL \/ role[t] = "send")
NothingToRelease_FailKept(t) ==
  after[t] # "undo" /\ (conn_[role[t]] = NULL \/ after[t] = "fail")

\* terminate() has nothing to release when the pointer is null.
NothingToRelease(t) ==
  after[t] # "undo" /\ (conn_[role[t]] = NULL \/ dbus_name_ = NULL)

SkipRelease(t) ==
  /\ pc[t] = "release"
  /\ NothingToRelease(t)
  /\ NextRole(t)
  /\ UNCHANGED <<statics, bus, pend, joining, workers, history>>

ReleaseName(t) ==
  /\ pc[t] = "release"
  /\ ~NothingToRelease(t)
  /\ Usable(conn_[role[t]])
  /\ Withdraw(conn_[role[t]], {BusName(role[t])})
  /\ Goto(t, "close")
  /\ UNCHANGED <<statics, status, role, after, pend, ret, joining, workers,
                 history>>

\* dbus_connection_close and dbus_connection_unref
CloseConnection(t) ==
  LET c == conn_[role[t]] IN
  /\ pc[t] = "close"
  /\ Usable(c) /\ status[c] # "closed"
  /\ status' = [status EXCEPT ![c] = Released(c, pend)]
  /\ Withdraw(c, Name)
  /\ Goto(t, "clear")
  /\ UNCHANGED <<statics, role, after, pend, ret, joining, workers, history>>

\* The pointer is set to NULL; initDbusConnection fails back to
\* libDbusConnectMessageBus, which terminates.
ClearPointer(t) ==
  /\ pc[t] = "clear"
  /\ conn_' = [conn_ EXCEPT ![role[t]] = NULL]
  /\ \/ after[t] = "undo" /\ Terminate(t, "fail") /\ UNCHANGED <<role, ret>>
     \/ after[t] # "undo" /\ NextRole(t)
  /\ UNCHANGED <<connect_flag, terminated_, rpcclient_thread_id_, settings,
                 thread_param, bus, pend, joining, workers, history>>

-----------------------------------------------------------------------------
\* libDbusConnectMessageBus

MayConnect(t) ==
  t = Main /\ Ready(t) /\ Quiet /\ (up => "reconnect" \in Adverse)

\* A slip: no fallback to the name of the executable.
ListName_NoFallback(arg, self) == IF arg = NULL THEN srv_list_name_ ELSE arg

\* The service list that init() works with: arg is the srvList argument, self
\* what getSelfProcessName returns, which is empty when readlink fails.
ListName(arg, self) ==
  LET kept == IF arg = NULL THEN srv_list_name_ ELSE arg
  IN  IF kept = Empty THEN self ELSE kept

\* init() with no name to register: the callback has been replaced already.
InitFails(t, arg, proc) ==
  /\ MayConnect(t)
  /\ ListName(arg, Empty) = Empty
  /\ srv_list_name_' = Empty
  /\ call_proc_' = proc
  /\ up' = FALSE
  /\ Returns(t, "EGENERAL")
  /\ UNCHANGED <<connect_flag, terminated_, rpcclient_thread_id_, dbus_name_,
                 conn_, thread_param, bus, role, after, pend, joining,
                 workers, fault>>

\* Slips: connect_send_ is forgotten along with dbus_info_; neither is.
Rebuilt_SendToo == [r \in Role |-> NULL]
Rebuilt_Kept == conn_

Rebuilt == [conn_ EXCEPT !["rec"] = NULL]

\* init() rebuilds dbus_info_ with a null connection; the configuration files
\* that are written next concern the daemon's policy and never stop a connect.
InitSession(t, arg, proc) ==
  /\ MayConnect(t)
  /\ srv_list_name_' = ListName(arg, ProcessName)
  /\ call_proc_' = proc
  /\ terminated_' = FALSE
  /\ dbus_name_' = srv_list_name_'
  /\ conn_' = Rebuilt
  /\ up' = FALSE
  /\ role' = [role EXCEPT ![t] = "send"]
  /\ Enters(t, "open")
  /\ UNCHANGED <<connect_flag, rpcclient_thread_id_, thread_param, bus, after,
                 pend, joining, workers, fault>>

\* regSysDbus: the send connection, the listening connection, the match rule.
Opened(t) ==
  IF role[t] = "send"
  THEN Goto(t, "open") /\ role' = [role EXCEPT ![t] = "rec"]
  ELSE Goto(t, "match") /\ UNCHANGED role

ReuseConnection(t) ==
  /\ pc[t] = "open"
  /\ conn_[role[t]] # NULL
  /\ Opened(t)
  /\ UNCHANGED <<statics, bus, after, pend, ret, joining, workers, history>>

\* dbus_bus_get_private
OpenConnection(t) ==
  /\ pc[t] = "open"
  /\ conn_[role[t]] = NULL
  /\ \/ \E c \in Conn : /\ status[c] = "free"
                        /\ status' = [status EXCEPT ![c] = "open"]
                        /\ conn_' = [conn_ EXCEPT ![role[t]] = c]
                        /\ Goto(t, "name")
                        /\ UNCHANGED after
     \/ Terminate(t, "fail") /\ UNCHANGED <<status, conn_>>
  /\ UNCHANGED <<connect_flag, terminated_, rpcclient_thread_id_, settings,
                 thread_param, owner, queue, role, pend, ret, joining,
                 workers, history>>

\* dbus_bus_request_name answers "primary owner"
NameGranted(t) ==
  LET c == conn_[role[t]]  n == BusName(role[t]) IN
  /\ pc[t] = "name"
  /\ Usable(c) /\ status[c] = "open"
  /\ Granted(c, n)
  /\ owner' = [owner EXCEPT ![n] = c]
  /\ queue' = [queue EXCEPT ![n] = @ \cup ({owner[n]} \cap Yields)]
  /\ Opened(t)
  /\ UNCHANGED <<statics, status, after, pend, ret, joining, workers,
                 history>>

\* A slip: "in queue" is taken for success.
Undo_Queued(t) == Opened(t) /\ UNCHANGED after

Undo(t) ==
  Goto(t, "release") /\ after' = [after EXCEPT ![t] = "undo"] /\ UNCHANGED role

\* It answers "in queue", or an error: the policy or a cut connection.
NameRefused(t) ==
  LET c == conn_[role[t]]  n == BusName(role[t]) IN
  /\ pc[t] = "name"
  /\ Usable(c)
  /\ \/ /\ status[c] = "open" /\ ~Granted(c, n)
        /\ queue' = [queue EXCEPT ![n] = @ \cup {c}]
     \/ UNCHANGED queue
  /\ Undo(t)
  /\ UNCHANGED <<statics, status, owner, pend, ret, joining, workers, history>>

\* dbus_bus_add_match; when it fails regSysDbus calls terminate() itself.
AddMatch(t) ==
  /\ pc[t] = "match"
  /\ Usable(conn_["rec"])
  /\ \/ status[conn_["rec"]] = "open" /\ Goto(t, "spawn") /\ UNCHANGED after
     \/ Terminate(t, "match")
  /\ UNCHANGED <<statics, bus, role, pend, ret, joining, workers, history>>

\* A slip: nobody looks whether pthread_create failed.
NoThread_Unchecked(t) == Goto(t, "flag") /\ UNCHANGED after

NoThread(t) == Terminate(t, "fail")

\* createListenDbusThread.  A failing pthread_create is taken to leave
\* rpcclient_thread_id_ alone, although POSIX does not promise that.
CreateListener(t) ==
  /\ pc[t] = "spawn"
  /\ thread_param' = conn_["rec"]
  /\ \/ \E w \in Worker : /\ wrk[w] = "none"
                          /\ wrk' = [wrk EXCEPT ![w] = "created"]
                          /\ rpcclient_thread_id_' = w
                          /\ Goto(t, "flag")
                          /\ UNCHANGED after
     \/ NoThread(t) /\ UNCHANGED <<wrk, rpcclient_thread_id_>>
  /\ UNCHANGED <<connect_flag, terminated_, settings, conn_, bus, role, pend,
                 ret, joining, wconn, history>>

SetConnected(t) ==
  /\ pc[t] = "flag"
  /\ connect_flag' = TRUE
  /\ up' = TRUE
  /\ Returns(t, "SOK")
  /\ UNCHANGED <<terminated_, rpcclient_thread_id_, settings, conn_,
                 thread_param, bus, role, after, pend, joining, workers, fault>>

-----------------------------------------------------------------------------
\* libDbusDisconnect

MayDisconnect(t) ==
  /\ Ready(t)
  /\ \/ t = Main /\ Quiet
     \/ t \in Worker /\ "callback" \in Adverse

Disconnect(t) ==
  /\ MayDisconnect(t)
  /\ up' = FALSE
  /\ \/ connect_flag /\ Enters(t, "term") /\ after' = [after EXCEPT ![t] = "void"]
     \/ ~connect_flag /\ Returns(t, "void") /\ UNCHANGED after
  /\ UNCHANGED <<statics, bus, role, pend, joining, workers, fault>>

-----------------------------------------------------------------------------
\* libDbusSendMessage, for a notice and for a request

MaySend(t) == Ready(t) /\ (t \in Worker \/ up \/ "sendDown" \in Adverse)

SendMessage(t, kind) ==
  /\ MaySend(t)
  /\ \/ connect_flag /\ Enters(t, kind)
     \/ ~connect_flag /\ Returns(t, "ENOTCONNECT")
  /\ UNCHANGED <<statics, bus, role, after, pend, joining, workers, history>>

\* dbus_connection_send queues a message on any connection, cut or not; it
\* and the message constructors fail when memory runs out.
SendNotice(t) ==
  /\ pc[t] = "notice"
  /\ Usable(conn_["send"])
  /\ \/ Goto(t, "noticeFlush") /\ UNCHANGED ret
     \/ Returns(t, "EGENERAL")
  /\ UNCHANGED <<statics, bus, role, after, pend, joining, workers, history>>

FlushNotice(t) ==
  /\ pc[t] = "noticeFlush"
  /\ Usable(conn_["send"])
  /\ Returns(t, "SOK")
  /\ UNCHANGED <<statics, bus, role, after, pend, joining, workers, history>>

\* dbus_connection_send_with_reply gives no pending call on a cut connection.
SendRequest(t) ==
  LET c == conn_["send"] IN
  /\ pc[t] = "request"
  /\ Usable(c)
  /\ \/ status[c] = "open" /\ Goto(t, "requestFlush")
        /\ pend' = [pend EXCEPT ![t] = c] /\ UNCHANGED ret
     \/ status[c] # "open" /\ Returns(t, "ECONNRESET") /\ UNCHANGED pend
     \/ Returns(t, "EGENERAL") /\ UNCHANGED pend
  /\ UNCHANGED <<statics, bus, role, after, joining, workers, history>>

\* The static connection pointer is read again for the flush.
FlushRequest(t) ==
  /\ pc[t] = "requestFlush"
  /\ Usable(conn_["send"])
  /\ Goto(t, "block")
  /\ UNCHANGED <<statics, bus, role, after, pend, ret, joining, workers,
                 history>>

\* dbus_pending_call_block ends with a reply, with an error message when the
\* time is over, or with one when the connection is cut: every error message
\* is returned as a general error.  Dropping the pending call drops its
\* reference to the connection.
AwaitReply(t) ==
  LET c == pend[t] IN
  /\ pc[t] = "block"
  /\ pend' = [pend EXCEPT ![t] = NULL]
  /\ status' = [status EXCEPT ![c] = IF @ = "closed" THEN Released(c, pend') ELSE @]
  /\ \E r \in {"SOK", "EGENERAL"} :
       (r = "SOK" => status[c] = "open") /\ Returns(t, r)
  /\ UNCHANGED <<statics, owner, queue, role, after, joining, workers,
                 history>>

-----------------------------------------------------------------------------
\* The listening thread

WorkerStarts(w) ==
  /\ wrk[w] = "created"
  /\ wconn' = [wconn EXCEPT ![w] = thread_param]
  /\ wrk' = [wrk EXCEPT ![w] = "poll"]
  /\ UNCHANGED <<statics, bus, frames, history>>

\* A slip: run() does not look at terminated_ before it has had a message.
WorkerPolls_Forever(w) ==
  /\ wrk[w] = "poll"
  /\ wrk' = [wrk EXCEPT ![w] = "read"]
  /\ UNCHANGED <<statics, bus, frames, wconn, history>>

\* The loop condition of run()
WorkerPolls(w) ==
  /\ wrk[w] = "poll"
  /\ \/ /\ terminated_
        /\ wrk' = [wrk EXCEPT ![w] = "exited"]
        /\ wconn' = [wconn EXCEPT ![w] = NULL]
     \/ /\ ~terminated_
        /\ wrk' = [wrk EXCEPT ![w] = "read"]
        /\ UNCHANGED wconn
  /\ UNCHANGED <<statics, bus, frames, history>>

\* dbus_connection_read_write and dbus_connection_pop_message: there is no
\* message, or one that is dropped, or one for the callback.
WorkerReads(w) ==
  /\ wrk[w] = "read"
  /\ Usable(wconn[w])
  /\ \/ wrk' = [wrk EXCEPT ![w] = "poll"]
     \/ call_proc_ # NULL /\ wrk' = [wrk EXCEPT ![w] = "callback"]
  /\ UNCHANGED <<statics, bus, frames, wconn, history>>

\* A request is answered; a signal is not.
CallbackReturns(w) ==
  /\ wrk[w] = "callback"
  /\ pc[w] = "idle"
  /\ \E next \in {"reply", "poll"} : wrk' = [wrk EXCEPT ![w] = next]
  /\ UNCHANGED <<statics, bus, frames, wconn, history>>

WorkerReplies(w) ==
  /\ wrk[w] = "reply"
  /\ Usable(wconn[w])
  /\ wrk' = [wrk EXCEPT ![w] = "poll"]
  /\ UNCHANGED <<statics, bus, frames, wconn, history>>

-----------------------------------------------------------------------------
\* A pointer that is null or whose object is gone is handed to libdbus, which
\* aborts the process or crashes: the process takes no further step.

CallerPointer(t) ==
  CASE pc[t] \in {"notice", "noticeFlush", "request", "requestFlush"} -> conn_["send"]
    [] pc[t] = "match" -> conn_["rec"]
    [] OTHER -> conn_[role[t]]

UsesConnection(t) ==
  \/ pc[t] \in {"notice", "noticeFlush", "request", "requestFlush",
                "name", "match", "close"}
  \/ pc[t] = "release" /\ ~NothingToRelease(t)

Misused(c) == fault' = IF c = NULL THEN "null" ELSE "freed"

CallerMisuses(t) ==
  /\ UsesConnection(t)
  /\ \/ ~Usable(CallerPointer(t))
     \/ /\ pc[t] = "close"
        /\ Usable(CallerPointer(t)) /\ status[CallerPointer(t)] = "closed"
  /\ Misused(CallerPointer(t))
  /\ UNCHANGED <<statics, bus, frames, workers, up>>

WorkerMisuses(w) ==
  /\ wrk[w] \in {"read", "reply"}
  /\ ~Usable(wconn[w])
  /\ Misused(wconn[w])
  /\ UNCHANGED <<statics, bus, frames, workers, up>>

-----------------------------------------------------------------------------
\* The rest of the world: the bus cuts a connection, and other programs take,
\* wait for and give back names.

BusCuts(c) ==
  /\ status[c] = "open"
  /\ status' = [status EXCEPT ![c] = "dead"]
  /\ Withdraw(c, Name)
  /\ UNCHANGED <<statics, frames, workers, history>>

OtherRequests(o, n) ==
  /\ o # owner[n] /\ o \notin queue[n]
  /\ \/ owner[n] = NULL /\ owner' = [owner EXCEPT ![n] = o] /\ UNCHANGED queue
     \/ owner[n] # NULL /\ queue' = [queue EXCEPT ![n] = @ \cup {o}] /\ UNCHANGED owner
  /\ UNCHANGED <<statics, status, frames, workers, history>>

OtherReleases(o, n) ==
  /\ o = owner[n] \/ o \in queue[n]
  /\ Withdraw(o, {n})
  /\ UNCHANGED <<statics, status, frames, workers, history>>

-----------------------------------------------------------------------------
\* What the application starts, and what follows of itself

Call(t) ==
  \/ \E arg \in Service \cup {NULL, Empty}, proc \in Callback \cup {NULL} :
       InitFails(t, arg, proc) \/ InitSession(t, arg, proc)
  \/ Disconnect(t)
  \/ \E kind \in {"notice", "request"} : SendMessage(t, kind)

Step(t) ==
  \/ SetTerminated(t) \/ JoinListener(t) \/ SkipRelease(t) \/ ReleaseName(t)
  \/ CloseConnection(t) \/ ClearPointer(t)
  \/ ReuseConnection(t) \/ OpenConnection(t) \/ NameGranted(t) \/ NameRefused(t)
  \/ AddMatch(t) \/ CreateListener(t) \/ SetConnected(t)
  \/ SendNotice(t) \/ FlushNotice(t)
  \/ SendRequest(t) \/ FlushRequest(t) \/ AwaitReply(t)
  \/ CallerMisuses(t)

Listen(w) ==
  WorkerStarts(w) \/ WorkerPolls(w) \/ WorkerReads(w) \/ WorkerReplies(w)
  \/ WorkerMisuses(w)

Process ==
  \/ \E t \in Caller : Call(t) \/ Step(t)
  \/ \E w \in Worker : Listen(w) \/ CallbackReturns(w)

World ==
  \/ \E c \in Conn : BusCuts(c)
  \/ \E o \in Other, n \in Name : OtherRequests(o, n) \/ OtherReleases(o, n)

Next == fault = "none" /\ (Process \/ World)

Spec == Init /\ [][Next]_vars

\* The operating system runs every thread that can move, a blocking libdbus
\* call comes back, and the application's callback returns in the end.
Fairness ==
  /\ \A t \in Caller : WF_vars(fault = "none" /\ Step(t))
  /\ \A w \in Worker : WF_vars(fault = "none" /\ Listen(w))
  /\ \A w \in Worker : SF_vars(fault = "none" /\ CallbackReturns(w))

FairSpec == Spec /\ Fairness

-----------------------------------------------------------------------------
(***************************************************************************)
(* Properties of the orderly use, Adverse = {}                             *)
(***************************************************************************)

Running(w) == wrk[w] \notin {"none", "exited"}

Allocated(c) == status[c] # "free"

\* The names the session has asked for are the names its connections hold.
Holds(c, n) == c = owner[n] \/ c \in queue[n]

\* libdbus is never given a null or a dangling connection, whatever the bus,
\* the other programs and a callback that sends messages do in between:
\* terminate() ends the listening thread before it closes what that thread,
\* or a message its callback sends, may use.
NoFault == fault = "none"

\* The thread that terminate() joins is the only one there is, so no
\* listening thread survives a Disconnect or a failed Connect unnoticed.
OneListener == \A w \in Worker : wrk[w] # "none" => w = rpcclient_thread_id_

\* A listening thread serves the listening connection of the session, which
\* is there as long as the thread is.
ListenerServesSession ==
  \A w \in Worker : Running(w) =>
    /\ conn_["rec"] # NULL
    /\ Allocated(conn_["rec"])
    /\ conn_["rec"] = IF wrk[w] = "created" THEN thread_param ELSE wconn[w]

\* When libDbusDisconnect has returned, or libDbusConnectMessageBus has
\* failed at any of its steps, nothing of the session is left: no connection,
\* no bus name owned or waited for, no thread.
NothingLeftWhenDown ==
  pc[Main] = "idle" /\ ~up =>
    /\ \A c \in Conn : Allocated(c) =>
         status[c] = "closed" /\ \E t \in Caller : pend[t] = c
    /\ \A n \in Name, c \in Conn : ~Holds(c, n)
    /\ \A w \in Worker : wrk[w] = "none"

\* When libDbusConnectMessageBus has returned LIBDBUSRET_SOK the process owns
\* both its names, on two connections, until the bus cuts one of them, and a
\* thread listens.
ServingWhenUp ==
  pc[Main] = "idle" /\ up =>
    /\ connect_flag
    /\ conn_["send"] # conn_["rec"]
    /\ \A r \in Role : /\ conn_[r] # NULL
                       /\ \/ status[conn_[r]] = "dead"
                          \/ owner[BusName(r)] = conn_[r]
    /\ \E w \in Worker : Running(w) /\ w = rpcclient_thread_id_

\* A name is held through a pointer that terminate() can still reach: no step
\* that fails leaves a name behind on a connection nobody can close.
NamesReachable ==
  \A n \in Name, c \in Conn : Holds(c, n) =>
    status[c] = "open" /\ \E r \in Role : conn_[r] = c /\ n = BusName(r)

\* Every call into the library returns: the join in terminate() ends because
\* the listening thread looks at terminated_ again after every message.
CallsReturn ==
  \A t \in Caller : pc[t] # "idle" ~> (pc[t] = "idle" \/ fault # "none")

-----------------------------------------------------------------------------
(***************************************************************************)
(* A property of any use that leaves the disconnect to the application's   *)
(* own threads: connecting twice or overlapping calls cannot break it.     *)
(***************************************************************************)

\* The name s_send is held through connect_send_ only: init() forgets the
\* listening connection of an earlier connect, never the send connection.
SendNameReachable ==
  \A s \in Service, c \in Conn : Holds(c, SendName[s]) => conn_["send"] = c

\* When a connect that may not be the first has returned LIBDBUSRET_SOK, the
\* process owns the new service's name and the newest thread listens on that
\* name's own connection, until the bus cuts it.  The send connection is live
\* too, but it may be an earlier connect's and own that one's send name only:
\* regSysDbus asks for no name on a connection it finds open.
ReconnectServes ==
  pc[Main] = "idle" /\ up =>
    /\ connect_flag
    /\ conn_["send"] # conn_["rec"]
    /\ \A r \in Role : Usable(conn_[r]) /\ status[conn_[r]] # "closed"
    /\ status[conn_["rec"]] = "open" => owner[dbus_name_] = conn_["rec"]
    /\ status[conn_["send"]] = "open" =>
         \E s \in Service : owner[SendName[s]] = conn_["send"]
    /\ \E w \in Worker :
         /\ Running(w) /\ w = rpcclient_thread_id_
         /\ conn_["rec"] = IF wrk[w] = "created" THEN thread_param ELSE wconn[w]

-----------------------------------------------------------------------------
(***************************************************************************)
(* What libdbus.h says of the library and the code does not do             *)
(***************************************************************************)

\* LIBDBUSRET_ENOTCONNECT, "not yet connected to the message bus" (line 36):
\* a message is only handed to the bus while the application is connected.
NotConnectedRefused ==
  \A t \in App : pc[t] \in {"notice", "request"} => up
=============================================================================
