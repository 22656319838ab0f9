---------------------------- MODULE SessionProofs ----------------------------
(***************************************************************************)
(* Proofs about module Session, for every set of threads, connections,     *)
(* names and services. First the type invariant, for any application.      *)
(* Then, for every application that connects and disconnects in turn and   *)
(* leaves both to its main thread (Patient), whoever sends meanwhile:      *)
(* SessionHolds of module SessionInv is inductive, with a lemma for each   *)
(* action, and what follows from it. For the orderly one, whose senders    *)
(* wait for the session (Adverse = {}), nobody ever misuses libdbus        *)
(* (IInv). Every patient use implements the ladder of module               *)
(* SessionContract, a step for a step. Last, what holds where the          *)
(* application connects again, and in its callback.                        *)
(*                                                                         *)
(* The parts of SessionHolds that a lemma goes through step by step are    *)
(* what the threads do, the pointers, the connections, the listener with   *)
(* the pending calls, and the names on the bus.                            *)
(***************************************************************************)
EXTENDS SessionInv, TLAPS

USE DEF Caller, Role, statics, settings, bus, frames, workers, history

-----------------------------------------------------------------------------
(***************************************************************************)
(* The type invariant                                                      *)
(***************************************************************************)

\* The statics, the bus and the threads start with values of their types.
LEMMA InitType == Init => TypeOK
<1> SUFFICES ASSUME Init PROVE TypeOK
  OBVIOUS
<1> QED
  BY SessionAssumption DEF Init, TypeOK, Location

\* No step of any thread, of the bus or of another program leaves the types.
LEMMA NextType == TypeOK /\ [Next]_vars => TypeOK'
<1> SUFFICES ASSUME TypeOK, [Next]_vars PROVE TypeOK'
  OBVIOUS
<1> USE SessionAssumption DEF TypeOK
<1>1. ASSUME NEW t \in Caller, SetTerminated(t)
     PROVE  TypeOK'
  BY <1>1 DEF SetTerminated, Goto, Location
<1>2. ASSUME NEW t \in Caller, JoinListener(t)
     PROVE  TypeOK'
  BY <1>2 DEF JoinListener, Goto, Location
<1>3. ASSUME NEW t \in Caller, SkipRelease(t)
     PROVE  TypeOK'
  BY <1>3 DEF SkipRelease, Goto, Returns, Terminate, NextRole, Location
<1>4. ASSUME NEW t \in Caller, ReleaseName(t)
     PROVE  TypeOK'
  BY <1>4 DEF ReleaseName, Goto, Withdraw, Heirs, Location
<1>5. ASSUME NEW t \in Caller, CloseConnection(t)
     PROVE  TypeOK'
  <2>1. /\ pc' \in [Caller -> Location]
        /\ UNCHANGED <<statics, role, after, pend, ret, joining, workers,
                       history>>
    BY <1>5 DEF CloseConnection, Goto, Location
  <2>2. status' \in [Conn -> {"free", "open", "dead", "closed"}]
    BY <1>5 DEF CloseConnection, Released
  <2>3. /\ owner' \in [Name -> Conn \cup Other \cup {NULL}]
        /\ queue' \in [Name -> SUBSET (Conn \cup Other)]
    BY <1>5 DEF CloseConnection, Withdraw, Heirs
  <2>4. QED
    BY <1>5, <2>1, <2>2, <2>3
<1>6. ASSUME NEW t \in Caller, ClearPointer(t)
     PROVE  TypeOK'
  BY <1>6 DEF ClearPointer, Goto, Returns, Terminate, NextRole, Location
<1>7. ASSUME NEW t \in Caller, ReuseConnection(t)
     PROVE  TypeOK'
  BY <1>7 DEF ReuseConnection, Goto, Opened, Location
<1>8. ASSUME NEW t \in Caller, OpenConnection(t)
     PROVE  TypeOK'
  BY <1>8 DEF OpenConnection, Goto, Terminate, Location
<1>9. ASSUME NEW t \in Caller, NameGranted(t)
     PROVE  TypeOK'
  <2>1. conn_[role[t]] \in Conn
    BY <1>9 DEF NameGranted, Usable
  <2>2. queue' \in [Name -> SUBSET (Conn \cup Other)]
    BY <1>9 DEF NameGranted
  <2>3. owner' \in [Name -> Conn \cup Other \cup {NULL}]
    BY <1>9, <2>1 DEF NameGranted
  <2>4. /\ pc' \in [Caller -> Location]
        /\ role' \in [Caller -> Role]
        /\ UNCHANGED <<statics, status, after, pend, ret, joining, workers,
                       history>>
    BY <1>9 DEF NameGranted, Opened, Goto, Location
  <2>5. QED
    BY <1>9, <2>2, <2>3, <2>4
<1>10. ASSUME NEW t \in Caller, NameRefused(t)
     PROVE  TypeOK'
  <2>1. conn_[role[t]] \in Conn
    BY <1>10 DEF NameRefused, Usable
  <2>2. queue' \in [Name -> SUBSET (Conn \cup Other)]
    BY <1>10, <2>1 DEF NameRefused
  <2>3. /\ pc' \in [Caller -> Location]
        /\ after' \in [Caller -> {"void", "fail", "match", "undo"}]
        /\ UNCHANGED <<statics, status, owner, role, pend, ret, joining,
                       workers, history>>
    BY <1>10 DEF NameRefused, Undo, Goto, Location
  <2>4. QED
    BY <1>10, <2>2, <2>3
<1>11. ASSUME NEW t \in Caller, AddMatch(t)
     PROVE  TypeOK'
  BY <1>11 DEF AddMatch, Goto, Terminate, Location
<1>12. ASSUME NEW t \in Caller, CreateListener(t)
     PROVE  TypeOK'
  BY <1>12 DEF CreateListener, Goto, Terminate, NoThread, Location
<1>13. ASSUME NEW t \in Caller, SetConnected(t)
     PROVE  TypeOK'
  BY <1>13 DEF SetConnected, Goto, Returns, Location
<1>14. ASSUME NEW t \in Caller, Disconnect(t)
     PROVE  TypeOK'
  <2>1. /\ "idle" \in Location /\ "term" \in Location
        /\ UNCHANGED <<statics, bus, role, pend, joining, workers, fault>>
        /\ up' \in BOOLEAN
    BY <1>14 DEF Disconnect, Location
  <2>2. pc' \in [Caller -> Location]
    BY <1>14, <2>1 DEF Disconnect, Goto, Enters, Returns
  <2>3. /\ after' \in [Caller -> {"void", "fail", "match", "undo"}]
        /\ ret' \in [Caller -> {"none", "void", "SOK", "EGENERAL",
                                "ENOTCONNECT", "ECONNRESET"}]
    BY <1>14 DEF Disconnect, Enters, Returns
  <2>4. QED
    BY <2>1, <2>2, <2>3
<1>15. ASSUME NEW t \in Caller, SendNotice(t)
     PROVE  TypeOK'
  BY <1>15 DEF SendNotice, Goto, Returns, Location
<1>16. ASSUME NEW t \in Caller, FlushNotice(t)
     PROVE  TypeOK'
  BY <1>16 DEF FlushNotice, Goto, Returns, Location
<1>17. ASSUME NEW t \in Caller, SendRequest(t)
     PROVE  TypeOK'
  BY <1>17 DEF SendRequest, Goto, Returns, Location
<1>18. ASSUME NEW t \in Caller, FlushRequest(t)
     PROVE  TypeOK'
  BY <1>18 DEF FlushRequest, Goto, Location
<1>19. ASSUME NEW t \in Caller, AwaitReply(t)
     PROVE  TypeOK'
  <2>1. /\ pc' \in [Caller -> Location]
        /\ ret' \in [Caller -> {"none", "void", "SOK", "EGENERAL",
                           "ENOTCONNECT", "ECONNRESET"}]
        /\ pend' \in [Caller -> Conn \cup {NULL}]
        /\ UNCHANGED <<statics, owner, queue, role, after, joining, workers,
                       history>>
    BY <1>19 DEF AwaitReply, Goto, Returns, Location
  <2>2. status' \in [Conn -> {"free", "open", "dead", "closed"}]
    BY <1>19 DEF AwaitReply, Released
  <2>3. QED
    BY <1>19, <2>1, <2>2
<1>20. ASSUME NEW t \in Caller, CallerMisuses(t)
     PROVE  TypeOK'
  BY <1>20 DEF CallerMisuses, Misused
<1>21. ASSUME NEW t \in Caller, NEW arg \in Service \cup {NULL, Empty},
            NEW proc \in Callback \cup {NULL}, InitFails(t, arg, proc)
     PROVE  TypeOK'
  <2>1. pc' \in [Caller -> Location] /\ ret' \in [Caller -> {"none", "void", "SOK", "EGENERAL",
                                                         "ENOTCONNECT", "ECONNRESET"}]
    BY <1>21 DEF InitFails, Goto, Returns, Location
  <2>2. QED
    BY <1>21, <2>1 DEF InitFails
<1>22. ASSUME NEW t \in Caller, NEW arg \in Service \cup {NULL, Empty},
            NEW proc \in Callback \cup {NULL}, InitSession(t, arg, proc)
     PROVE  TypeOK'
  <2>1. pc' \in [Caller -> Location] /\ ret' \in [Caller -> {"none", "void", "SOK", "EGENERAL",
                                                         "ENOTCONNECT", "ECONNRESET"}]
    BY <1>22 DEF InitSession, Goto, Enters, Location
  <2>2. srv_list_name_' \in Service
    BY <1>22 DEF InitSession, ListName
  <2>3. conn_' \in [Role -> Conn \cup {NULL}] /\ role' \in [Caller -> Role]
    BY <1>22 DEF InitSession, Rebuilt
  <2>4. QED
    BY <1>22, <2>1, <2>2, <2>3 DEF InitSession
<1>23. ASSUME NEW t \in Caller, NEW kind \in {"notice", "request"},
             SendMessage(t, kind)
     PROVE  TypeOK'
  <2>1. pc' \in [Caller -> Location]
    BY <1>23 DEF SendMessage, Goto, Enters, Returns, Location
  <2>2. ret' \in [Caller -> {"none", "void", "SOK", "EGENERAL", "ENOTCONNECT", "ECONNRESET"}]
    BY <1>23 DEF SendMessage, Enters, Returns
  <2>3. QED
    BY <1>23, <2>1, <2>2 DEF SendMessage
<1>24. ASSUME NEW w \in Worker, WorkerStarts(w)
     PROVE  TypeOK'
  BY <1>24 DEF WorkerStarts
<1>25. ASSUME NEW w \in Worker, WorkerPolls(w)
     PROVE  TypeOK'
  BY <1>25 DEF WorkerPolls
<1>26. ASSUME NEW w \in Worker, WorkerReads(w)
     PROVE  TypeOK'
  BY <1>26 DEF WorkerReads
<1>27. ASSUME NEW w \in Worker, CallbackReturns(w)
     PROVE  TypeOK'
  BY <1>27 DEF CallbackReturns
<1>28. ASSUME NEW w \in Worker, WorkerReplies(w)
     PROVE  TypeOK'
  BY <1>28 DEF WorkerReplies
<1>29. ASSUME NEW w \in Worker, WorkerMisuses(w)
     PROVE  TypeOK'
  BY <1>29 DEF WorkerMisuses, Misused
<1>30. ASSUME NEW c \in Conn, BusCuts(c)
     PROVE  TypeOK'
  BY <1>30 DEF BusCuts, Withdraw, Heirs
<1>31. ASSUME NEW o \in Other, NEW n \in Name, OtherRequests(o, n)
     PROVE  TypeOK'
  BY <1>31 DEF OtherRequests
<1>32. ASSUME NEW o \in Other, NEW n \in Name, OtherReleases(o, n)
     PROVE  TypeOK'
  BY <1>32 DEF OtherReleases, Withdraw, Heirs, Location
<1>33. ASSUME NEW t \in Caller, Call(t)
      PROVE  TypeOK'
  <2>1. CASE \E arg \in Service \cup {NULL, Empty},
                proc \in Callback \cup {NULL} :
               InitFails(t, arg, proc) \/ InitSession(t, arg, proc)
    <3>1. PICK arg \in Service \cup {NULL, Empty},
               proc \in Callback \cup {NULL} :
            InitFails(t, arg, proc) \/ InitSession(t, arg, proc)
      BY <2>1
    <3>2. QED
      BY <3>1, <1>21, <1>22
  <2>2. CASE \E kind \in {"notice", "request"} : SendMessage(t, kind)
    <3>1. PICK kind \in {"notice", "request"} : SendMessage(t, kind)
      BY <2>2
    <3>2. QED
      BY <3>1, <1>23
  <2>3. QED
    BY <1>33, <1>14, <2>1, <2>2 DEF Call
<1>34. ASSUME NEW t \in Caller, Step(t)
      PROVE  TypeOK'
  BY <1>34, <1>1, <1>2, <1>3, <1>4, <1>5, <1>6, <1>7, <1>8, <1>9, <1>10,
     <1>11, <1>12, <1>13, <1>15, <1>16, <1>17, <1>18, <1>19, <1>20
     DEF Step
<1>35. ASSUME NEW w \in Worker, Listen(w) \/ CallbackReturns(w)
      PROVE  TypeOK'
  BY <1>35, <1>24, <1>25, <1>26, <1>28, <1>29, <1>27
     DEF Listen
<1>36. CASE World
  BY <1>36, <1>30, <1>31, <1>32
     DEF World
<1>37. CASE UNCHANGED vars
  BY <1>37 DEF vars
<1>38. QED
  BY <1>33, <1>34, <1>35, <1>36, <1>37 DEF Next, Process

\* Type correctness, for any application: whatever it calls, from which
\* thread and in which order.
THEOREM TypeCorrect == Spec => []TypeOK
<1>1. Init => TypeOK
  BY InitType
<1>2. TypeOK /\ [Next]_vars => TypeOK'
  BY NextType
<1>3. QED
  BY <1>1, <1>2, PTL DEF Spec

-----------------------------------------------------------------------------
(***************************************************************************)
(* The invariant of the session, whoever sends                             *)
(***************************************************************************)

USE DEF Sending, Connecting, Ending, OnlyMainConnects, Patient

\* Nothing is connected, owned or running at first.
LEMMA InitInv == Init => SessionHolds
<1> SUFFICES ASSUME Init PROVE SessionHolds
  OBVIOUS
<1> USE SessionAssumption DEF Init
<1>1. TypeOK
  BY InitType
<1>2. Discipline
  BY DEF Discipline
<1>3. Pointers
  BY DEF Pointers
<1>4. Connections
  BY DEF Connections, Live, Dangling
<1>5. Kept /\ Listener
  BY DEF Kept, Listener, Running
<1>6. Names
  BY DEF Names, NamesReachable, Holds
<1>7. Granteds
  BY DEF Granteds
<1>8. QED
  BY <1>1, <1>2, <1>3, <1>4, <1>5, <1>6, <1>7 DEF SessionHolds

\* A connection that withdraws takes no name from anybody else, and gives
\* none to a connection that did not wait for it.
LEMMA WithdrawDrops ==
  ASSUME TypeOK, NEW c \in Conn \cup Other, NEW N \in SUBSET Name,
         Withdraw(c, N),
         \A n \in Name : owner[n] \notin queue[n]
  PROVE  /\ \A n \in Name, x \in Conn \cup Other : Holds(x, n)' => Holds(x, n)
         /\ \A n \in Name : owner'[n] \notin queue'[n]
         /\ \A n \in Name : owner[n] # c => owner'[n] = owner[n]
<1> USE SessionAssumption DEF TypeOK, Holds
<1>1. CASE UNCHANGED <<owner, queue>>
  BY <1>1
<1>2. CASE \E n \in N : /\ c \in queue[n]
                  /\ queue' = [queue EXCEPT ![n] = @ \ {c}]
                  /\ UNCHANGED owner
  BY <1>2
<1>3. ASSUME NEW n \in N, c = owner[n], NEW heir \in Heirs(n),
             owner' = [owner EXCEPT ![n] = heir],
             queue' = [queue EXCEPT ![n] = @ \ {heir}]
      PROVE  /\ \A m \in Name, x \in Conn \cup Other :
                  Holds(x, m)' => Holds(x, m)
             /\ \A m \in Name : owner'[m] \notin queue'[m]
             /\ \A m \in Name : owner[m] # c => owner'[m] = owner[m]
  BY <1>3 DEF Heirs
<1>4. QED
  BY <1>1, <1>2, <1>3 DEF Withdraw

-----------------------------------------------------------------------------
\* One lemma per action: a step that is SetTerminated(t), and so on, preserves
\* the invariant.

LEMMA SetTerminatedInv ==
  ASSUME Patient, SessionHolds, TypeOK', NEW t \in Caller,
         SetTerminated(t)
  PROVE  SessionHolds'
<1> USE SessionAssumption DEF SessionHolds, TypeOK
<1>1. Discipline'
  BY DEF SetTerminated, Goto, Discipline
<1>2. Pointers'
  BY DEF SetTerminated, Goto, Pointers
<1>3. Connections'
  BY DEF SetTerminated, Goto, Connections, Live, Dangling
<1>4. Listener' /\ Kept'
  BY DEF SetTerminated, Goto, Discipline, Kept, Listener, Running
<1>5. Names' /\ Granteds'
  BY DEF SetTerminated, Goto, Discipline, Names, NamesReachable, Holds,
         Granteds, BusName
<1>6. QED
  BY <1>1, <1>2, <1>3, <1>4, <1>5 DEF SessionHolds

LEMMA JoinListenerInv ==
  ASSUME Patient, SessionHolds, TypeOK', NEW t \in Caller,
         JoinListener(t)
  PROVE  SessionHolds'
<1> USE SessionAssumption DEF SessionHolds, TypeOK
<1>1. Discipline'
  BY DEF JoinListener, Goto, JoinReturns, Discipline
<1>2. Pointers'
  BY DEF JoinListener, Goto, Pointers
<1>3. Connections'
  BY DEF JoinListener, Goto, Connections, Live, Dangling
<1>4. Listener' /\ Kept'
  <2>1. t = Main /\ pc[Main] = "join" /\ ~up /\ pc'[Main] = "release"
    BY DEF JoinListener, Discipline, Goto
  <2>2. rpcclient_thread_id_' = NULL /\ \A w \in Worker : wrk'[w] = "none"
    BY <2>1 DEF JoinListener, NobodyToJoin, Listener
  <2>3. \A s \in Caller : pc'[s] # "join" /\ joining'[s] = NULL
    BY <2>1 DEF JoinListener, Discipline, Goto, Listener
  <2>4. Listener'
    BY <2>1, <2>2, <2>3 DEF JoinListener, Listener, Running
  <2>5. Kept'
    BY DEF JoinListener, Goto, Kept
  <2>6. QED
    BY <2>4, <2>5
<1>5. Names' /\ Granteds'
  BY DEF JoinListener, Goto, Discipline, Names, NamesReachable, Holds,
         Granteds, BusName
<1>6. QED
  BY <1>1, <1>2, <1>3, <1>4, <1>5 DEF SessionHolds

LEMMA SkipReleaseInv ==
  ASSUME Patient, SessionHolds, TypeOK', NEW t \in Caller,
         SkipRelease(t)
  PROVE  SessionHolds'
<1> USE SessionAssumption DEF SessionHolds, TypeOK
<1>1. Discipline'
  BY DEF SkipRelease, Goto, Returns, Terminate, NextRole, Discipline
<1>2. Pointers'
  BY DEF SkipRelease, Goto, Returns, Terminate, NextRole, NothingToRelease,
         Pointers
<1>3. Connections'
  BY DEF SkipRelease, Goto, Returns, Terminate, NextRole, Connections,
         Live, Dangling
<1>4. Listener' /\ Kept'
  BY DEF SkipRelease, Goto, Returns, Terminate, NextRole, Kept, Listener, Running
<1>5. Names' /\ Granteds'
  BY DEF SkipRelease, Goto, Returns, Terminate, NextRole, Discipline, Names,
         NamesReachable, Holds, Granteds, BusName
<1>6. QED
  BY <1>1, <1>2, <1>3, <1>4, <1>5 DEF SessionHolds

LEMMA ReleaseNameInv ==
  ASSUME Patient, SessionHolds, TypeOK', NEW t \in Caller,
         ReleaseName(t)
  PROVE  SessionHolds'
<1> USE SessionAssumption DEF SessionHolds, TypeOK
<1>1. Discipline'
  BY DEF ReleaseName, Goto, Discipline
<1>2. Connections'
  BY DEF ReleaseName, Goto, Connections, Live, Dangling
<1>3. Listener' /\ Kept'
  BY DEF ReleaseName, Goto, Kept, Listener, Running
<1>4. Names' /\ Granteds' /\ Pointers'
  <2>1. t = Main /\ pc[Main] = "release" /\ ~up /\ pc'[Main] = "close"
    BY DEF ReleaseName, Discipline, Goto
  <2> DEFINE c == conn_[role[t]]
  <2>2. c \in Conn /\ dbus_name_ # NULL /\ BusName(role[t]) \in Name
    BY <2>1 DEF ReleaseName, Usable, Pointers, BusName
  <2>3. \A n \in Name : Holds(c, n) => n = BusName(role[t])
    BY <2>1, <2>2 DEF Names, NamesReachable, Connections
  <2>4. \A n \in Name : ~Holds(c, n)'
    BY <2>2, <2>3 DEF ReleaseName, Withdraw, Heirs, Holds, Names
  <2>5. Names'
    <3>1. /\ Withdraw(c, {BusName(role[t])})
          /\ UNCHANGED <<conn_, role, status, dbus_name_>>
      BY DEF ReleaseName
    <3>2. /\ \A n \in Name, x \in Conn \cup Other : Holds(x, n)' => Holds(x, n)
          /\ \A n \in Name : owner'[n] \notin queue'[n]
      <4>1. {BusName(role[t])} \in SUBSET Name
        BY <2>2
      <4>2. TypeOK /\ \A n \in Name : owner[n] \notin queue[n]
        BY DEF Names
      <4>3. c \in Conn \cup Other /\ Withdraw(c, {BusName(role[t])})
        BY <2>2, <3>1
      <4> HIDE DEF SessionHolds, TypeOK, c
      <4>4. QED
        BY <4>1, <4>2, <4>3, WithdrawDrops
    <3>3. QED
      BY <2>1, <2>4, <3>1, <3>2 DEF Names, NamesReachable, BusName
  <2>6. Granteds'
    BY <2>1 DEF ReleaseName, Granteds
  <2>7. Pointers'
    BY <2>1, <2>2 DEF ReleaseName, Pointers
  <2>8. QED
    BY <2>5, <2>6, <2>7
<1>5. QED
  BY <1>1, <1>2, <1>3, <1>4 DEF SessionHolds

LEMMA CloseConnectionInv ==
  ASSUME Patient, SessionHolds, TypeOK', NEW t \in Caller,
         CloseConnection(t)
  PROVE  SessionHolds'
<1> USE SessionAssumption DEF SessionHolds, TypeOK
<1>1. Discipline'
  BY DEF CloseConnection, Goto, Discipline
<1>2. Pointers'
  BY DEF CloseConnection, Goto, Pointers
<1>3. /\ t = Main /\ pc[Main] = "close" /\ rpcclient_thread_id_ = NULL /\ ~up
      /\ pc' = [pc EXCEPT ![Main] = "clear"]
      /\ conn_[role[Main]] \in Conn
      /\ status' = [status EXCEPT ![conn_[role[Main]]] = Released(conn_[role[Main]], pend)]
      /\ Withdraw(conn_[role[Main]], Name)
      /\ UNCHANGED <<statics, role, after, pend, ret, joining, workers, history>>
  <2>1. t = Main /\ pc[Main] = "close" /\ rpcclient_thread_id_ = NULL /\ ~up
    BY DEF CloseConnection, Discipline, Listener
  <2>2. QED
    BY <2>1 DEF CloseConnection, Goto, Usable
<1>4. Connections' /\ Kept'
  <2>1. Released(conn_[role[Main]], pend) =
          IF \E s \in Caller : pend[s] = conn_[role[Main]] THEN "closed" ELSE "free"
    BY DEF Released
  <2>2. Connections'
    BY <1>3, <2>1 DEF Connections, Live, Dangling, Pointers
  <2>3. Kept'
    BY <1>3, <2>1 DEF Kept
  <2>4. QED
    BY <2>2, <2>3
<1>5. Listener' /\ Names' /\ Granteds'
  <2>1. \A n \in Name : ~Holds(conn_[role[Main]], n)
    BY <1>3 DEF Names
  <2>2. owner' = owner /\ queue' = queue
    BY <1>3, <2>1 DEF Withdraw, Holds
  <2>3. Names' /\ Granteds'
    BY <1>3, <2>1, <2>2 DEF Names, NamesReachable, Holds, Granteds, BusName
  <2>4. Listener'
    BY <1>3 DEF Listener, Running
  <2>5. QED
    BY <2>3, <2>4
<1>6. QED
  BY <1>1, <1>2, <1>3, <1>4, <1>5 DEF SessionHolds

LEMMA ClearPointerInv ==
  ASSUME Patient, SessionHolds, TypeOK', NEW t \in Caller,
         ClearPointer(t)
  PROVE  SessionHolds'
<1> USE SessionAssumption DEF SessionHolds, TypeOK
<1>1. Discipline'
  BY DEF ClearPointer, Goto, Returns, Terminate, NextRole, Discipline
<1>2. Pointers'
  BY DEF ClearPointer, Goto, Returns, Terminate, NextRole, Discipline,
         Pointers
<1>3. Connections'
  BY DEF ClearPointer, Goto, NextRole, Discipline, Connections, Live,
         Dangling
<1>4. Listener' /\ Kept'
  BY DEF ClearPointer, Goto, Returns, Terminate, NextRole, Discipline,
         Pointers, Kept, Listener, Running
<1>5. Names' /\ Granteds'
  BY DEF ClearPointer, Goto, Returns, Terminate, NextRole, Discipline,
         Connections, Live, Dangling, Names, NamesReachable, Holds,
         Granteds, BusName
<1>6. QED
  BY <1>1, <1>2, <1>3, <1>4, <1>5 DEF SessionHolds

LEMMA ReuseConnectionInv ==
  ASSUME Patient, SessionHolds, TypeOK', NEW t \in Caller,
         ReuseConnection(t)
  PROVE  SessionHolds'
<1> USE SessionAssumption DEF SessionHolds, TypeOK
<1>1. Discipline'
  BY DEF ReuseConnection, Goto, Opened, Discipline
<1>2. Pointers'
  BY DEF ReuseConnection, Goto, Opened, Pointers
<1>3. Connections'
  BY DEF ReuseConnection, Discipline, Pointers
<1>4. Listener' /\ Kept'
  BY DEF ReuseConnection, Discipline, Pointers
<1>5. Names' /\ Granteds'
  BY DEF ReuseConnection, Discipline, Pointers, Holds, Granteds, HasName
<1>6. QED
  BY <1>1, <1>2, <1>3, <1>4, <1>5 DEF SessionHolds

LEMMA OpenConnectionInv ==
  ASSUME Patient, SessionHolds, TypeOK', NEW t \in Caller,
         OpenConnection(t)
  PROVE  SessionHolds'
<1> USE SessionAssumption DEF SessionHolds, TypeOK
<1>1. Discipline'
  BY DEF OpenConnection, Goto, Terminate, Discipline
<1>2. Pointers'
  BY DEF OpenConnection, Goto, Terminate, Discipline, Pointers
<1>3. Connections'
  BY DEF OpenConnection, Goto, Discipline, Connections, Live, Dangling
<1>4. Listener' /\ Kept'
  <2>1. t = Main /\ pc[Main] = "open" /\ rpcclient_thread_id_ = NULL /\ ~up
    BY DEF OpenConnection, Discipline, Listener
  <2>2. /\ pc'[Main] \in {"name", "term"}
        /\ \A s \in Caller \ {Main} : pc'[s] = pc[s]
    BY <2>1 DEF OpenConnection, Goto, Terminate
  <2>3. Listener'
    BY <2>1, <2>2 DEF OpenConnection, Listener, Running
  <2>4. Kept'
    BY DEF OpenConnection, Goto, Terminate, Kept
  <2>5. QED
    BY <2>3, <2>4
<1>5. Names' /\ Granteds'
  BY DEF OpenConnection, Goto, Terminate, Pointers, Connections, Live,
         Dangling, Names, NamesReachable, Holds, Granteds, HasName, BusName
<1>6. QED
  BY <1>1, <1>2, <1>3, <1>4, <1>5 DEF SessionHolds

LEMMA NameGrantedInv ==
  ASSUME Patient, SessionHolds, TypeOK', NEW t \in Caller,
         NameGranted(t)
  PROVE  SessionHolds'
<1> USE SessionAssumption DEF SessionHolds, TypeOK
<1>1. Discipline'
  BY DEF NameGranted, Goto, Opened, Discipline
<1>2. Pointers'
  BY DEF NameGranted, Goto, Opened, Pointers
<1>3. Connections'
  BY DEF NameGranted, Goto, Opened, Connections, Live, Dangling
<1>4. Listener' /\ Kept'
  <2>1. t = Main /\ pc[Main] = "name" /\ rpcclient_thread_id_ = NULL /\ ~up
    BY DEF NameGranted, Discipline, Listener
  <2>2. /\ pc'[Main] \in {"open", "match"}
        /\ \A s \in Caller \ {Main} : pc'[s] = pc[s]
    BY <2>1 DEF NameGranted, Opened, Goto
  <2>3. UNCHANGED <<statics, status, after, pend, joining, workers, history>>
    BY DEF NameGranted
  <2>4. Listener'
    BY <2>1, <2>2, <2>3 DEF Listener, Running
  <2>5. Kept'
    BY DEF NameGranted, Goto, Opened, Kept
  <2>6. QED
    BY <2>4, <2>5
<1>5. Names' /\ Granteds'
  <2>1. PICK c : c = conn_[role[Main]]
    OBVIOUS
  <2>2. PICK n : n = BusName(role[Main])
    OBVIOUS
  <2>3. /\ pc[Main] = "name" /\ dbus_name_ # NULL /\ conn_' = conn_ /\ dbus_name_' = dbus_name_
        /\ c \in Conn /\ status[c] = "open" /\ status' = status
        /\ owner' = [owner EXCEPT ![n] = c]
        /\ queue' = [queue EXCEPT ![n] = @ \cup ({owner[n]} \cap Yields)]
    BY <2>1, <2>2 DEF NameGranted, Discipline, Pointers, Usable
  <2>4. /\ owner[n] \in Yields \cup {NULL, c}
        /\ \A m \in Name : ~Holds(c, m)
    BY <2>1, <2>2, <2>3 DEF NameGranted, Granted, Names, Discipline
  <2>5. n \in Name /\ BusName("rec") \in Name /\ BusName("send") \in Name
        /\ BusName("rec") # BusName("send")
    BY <2>2, <2>3 DEF BusName
  <2>6. /\ role[Main] = "send" => pc'[Main] = "open" /\ role'[Main] = "rec"
        /\ role[Main] = "rec"  => pc'[Main] = "match" /\ role'[Main] = "rec"
        /\ role[Main] \in Role /\ ~up /\ ~up'
    BY DEF NameGranted, Opened, Goto, Discipline
  <2>7. \A x \in Role : BusName(x)' = BusName(x)
    BY <2>3 DEF BusName
  <2>8. Names'
    <3>1. \A m \in Name, d \in Conn : Holds(d, m)' => Holds(d, m) \/ (d = c /\ m = n)
      BY <2>3, <2>4, <2>5 DEF Holds
    <3>2. NamesReachable'
      BY <2>1, <2>2, <2>3, <2>6, <2>7, <3>1 DEF Names, NamesReachable
    <3>3. \A m \in Name : owner'[m] \notin queue'[m]
      BY <2>3, <2>4, <2>5 DEF Names, Holds
    <3>4. QED
      BY <2>6, <3>2, <3>3 DEF Names
  <2>9. Granteds'
    BY <2>1, <2>2, <2>3, <2>5, <2>6, <2>7 DEF Granteds, HasName
  <2>10. QED
    BY <2>8, <2>9
<1>6. QED
  BY <1>1, <1>2, <1>3, <1>4, <1>5 DEF SessionHolds

LEMMA NameRefusedInv ==
  ASSUME Patient, SessionHolds, TypeOK', NEW t \in Caller,
         NameRefused(t)
  PROVE  SessionHolds'
<1> USE SessionAssumption DEF SessionHolds, TypeOK
<1>1. Discipline'
  BY DEF NameRefused, Goto, Undo, Discipline
<1>2. Pointers'
  BY DEF NameRefused, Goto, Undo, Pointers
<1>3. Connections'
  BY DEF NameRefused, Goto, Undo, Connections, Live, Dangling
<1>4. Listener' /\ Kept'
  BY DEF NameRefused, Goto, Undo, Kept, Listener, Running
<1>5. Names' /\ Granteds'
  BY DEF NameRefused, Goto, Undo, BusName, Discipline, Names, NamesReachable,
         Holds, Granteds
<1>6. QED
  BY <1>1, <1>2, <1>3, <1>4, <1>5 DEF SessionHolds

LEMMA AddMatchInv ==
  ASSUME Patient, SessionHolds, TypeOK', NEW t \in Caller,
         AddMatch(t)
  PROVE  SessionHolds'
<1> USE SessionAssumption DEF SessionHolds, TypeOK
<1>1. Discipline'
  BY DEF AddMatch, Goto, Terminate, Discipline
<1>2. Pointers'
  BY DEF AddMatch, Goto, Terminate, Pointers
<1>3. Connections'
  BY DEF AddMatch, Goto, Terminate, Connections, Live, Dangling
<1>4. Listener' /\ Kept'
  BY DEF AddMatch, Goto, Terminate, Kept, Listener, Running
<1>5. Names' /\ Granteds'
  BY DEF AddMatch, Goto, Terminate, Names, NamesReachable, Holds, Granteds,
         HasName, BusName
<1>6. QED
  BY <1>1, <1>2, <1>3, <1>4, <1>5 DEF SessionHolds

LEMMA CreateListenerInv ==
  ASSUME Patient, SessionHolds, TypeOK', NEW t \in Caller,
         CreateListener(t)
  PROVE  SessionHolds'
<1> USE SessionAssumption DEF SessionHolds, TypeOK
<1>1. Discipline'
  BY DEF CreateListener, Goto, Terminate, NoThread, Discipline,
         Connections, Listener
<1>2. Pointers'
  BY DEF CreateListener, Goto, Terminate, NoThread, Pointers
<1>3. Connections'
  BY DEF CreateListener, Goto, Terminate, NoThread, Connections, Live,
         Dangling
<1>4. Listener' /\ Kept'
  <2>1. t = Main /\ pc[Main] = "spawn" /\ rpcclient_thread_id_ = NULL /\ ~up
    BY DEF CreateListener, Discipline, Listener
  <2>2. /\ pc'[Main] \in {"flag", "term"}
        /\ \A s \in Caller \ {Main} : pc'[s] = pc[s]
    BY <2>1 DEF CreateListener, Goto, Terminate, NoThread
  <2>3. Listener'
    <3>1. CASE \E w \in Worker : /\ wrk[w] = "none"
                                 /\ wrk' = [wrk EXCEPT ![w] = "created"]
                                 /\ rpcclient_thread_id_' = w
                                 /\ Goto(t, "flag")
      BY <3>1, <2>1, <2>2
         DEF CreateListener, Discipline, Listener, Running, Pointers, Goto
    <3>2. CASE NoThread(t) /\ UNCHANGED <<wrk, rpcclient_thread_id_>>
      BY <3>2, <2>1, <2>2
         DEF CreateListener, Discipline, Listener, Running, Goto, Terminate, NoThread
    <3>3. QED
      BY <3>1, <3>2 DEF CreateListener
  <2>4. Kept'
    BY DEF CreateListener, Goto, Terminate, NoThread, Kept
  <2>5. QED
    BY <2>3, <2>4
<1>5. Names' /\ Granteds'
  BY DEF CreateListener, Goto, Terminate, NoThread, Names, NamesReachable,
         Holds, Granteds, HasName, BusName
<1>6. QED
  BY <1>1, <1>2, <1>3, <1>4, <1>5 DEF SessionHolds

LEMMA SetConnectedInv ==
  ASSUME Patient, SessionHolds, TypeOK', NEW t \in Caller,
         SetConnected(t)
  PROVE  SessionHolds'
<1> USE SessionAssumption DEF SessionHolds, TypeOK
<1>1. Discipline'
  BY DEF SetConnected, Goto, Returns, Discipline
<1>2. Pointers'
  BY DEF SetConnected, Goto, Returns, Discipline, Pointers
<1>3. Connections'
  BY DEF SetConnected, Goto, Returns, Connections, Live, Dangling
<1>4. Listener' /\ Kept'
  BY DEF SetConnected, Goto, Returns, Discipline, Kept, Listener,
         Running
<1>5. Names' /\ Granteds'
  BY DEF SetConnected, Goto, Returns, Discipline, Names, NamesReachable,
         Holds, Granteds, HasName, BusName
<1>6. QED
  BY <1>1, <1>2, <1>3, <1>4, <1>5 DEF SessionHolds

LEMMA DisconnectInv ==
  ASSUME Patient, SessionHolds, TypeOK', NEW t \in Caller,
         Disconnect(t)
  PROVE  SessionHolds'
<1> USE SessionAssumption DEF SessionHolds, TypeOK
<1>1. Discipline'
  BY DEF Disconnect, Goto, Enters, Returns, MayDisconnect, Quiet,
         Discipline
<1>2. Pointers'
  <2>1. t = Main /\ pc[Main] = "idle"
    BY DEF Disconnect, MayDisconnect, Ready
  <2>2. CASE connect_flag
    BY <2>1, <2>2 DEF Disconnect, Discipline, Pointers, Enters, Goto
  <2>3. CASE ~connect_flag
    BY <2>1, <2>3 DEF Disconnect, Discipline, Pointers, Returns, Goto
  <2>4. QED
    BY <2>2, <2>3
<1>3. Connections'
  BY DEF Disconnect, Goto, Enters, Returns, MayDisconnect, Ready, Connections,
         Live, Dangling
<1>4. Listener' /\ Kept'
  BY DEF Disconnect, Goto, Enters, Returns, MayDisconnect, Ready, Discipline,
         Kept, Listener, Running
<1>5. Names' /\ Granteds'
  BY DEF Disconnect, Goto, Enters, Returns, MayDisconnect, Names,
         NamesReachable, Holds, Granteds, BusName
<1>6. QED
  BY <1>1, <1>2, <1>3, <1>4, <1>5 DEF SessionHolds

LEMMA SendNoticeInv ==
  ASSUME Patient, SessionHolds, TypeOK', NEW t \in Caller,
         SendNotice(t)
  PROVE  SessionHolds'
<1> USE SessionAssumption DEF SessionHolds, TypeOK
<1>1. Discipline'
  BY DEF SendNotice, Goto, Returns, Discipline
<1>2. Pointers'
  BY DEF SendNotice, Goto, Returns, Discipline, Pointers
<1>3. Connections'
  BY DEF SendNotice, Goto, Returns, Connections, Live, Dangling
<1>4. Listener' /\ Kept'
  BY DEF SendNotice, Goto, Returns, Kept, Listener, Running
<1>5. Names' /\ Granteds'
  BY DEF SendNotice, Goto, Returns, Names, NamesReachable, Holds, Granteds,
         HasName, BusName
<1>6. QED
  BY <1>1, <1>2, <1>3, <1>4, <1>5 DEF SessionHolds

LEMMA FlushNoticeInv ==
  ASSUME Patient, SessionHolds, TypeOK', NEW t \in Caller,
         FlushNotice(t)
  PROVE  SessionHolds'
<1> USE SessionAssumption DEF SessionHolds, TypeOK
<1>1. Discipline'
  BY DEF FlushNotice, Goto, Returns, Discipline
<1>2. Pointers'
  BY DEF FlushNotice, Goto, Returns, Discipline, Pointers
<1>3. Connections'
  BY DEF FlushNotice, Goto, Returns, Connections, Live, Dangling
<1>4. Listener' /\ Kept'
  BY DEF FlushNotice, Goto, Returns, Kept, Listener, Running
<1>5. Names' /\ Granteds'
  BY DEF FlushNotice, Goto, Returns, Names, NamesReachable, Holds, Granteds,
         HasName, BusName
<1>6. QED
  BY <1>1, <1>2, <1>3, <1>4, <1>5 DEF SessionHolds

LEMMA SendRequestInv ==
  ASSUME Patient, SessionHolds, TypeOK', NEW t \in Caller,
         SendRequest(t)
  PROVE  SessionHolds'
<1> USE SessionAssumption DEF SessionHolds, TypeOK
<1>1. Discipline'
  BY DEF SendRequest, Goto, Returns, Discipline
<1>2. Pointers'
  BY DEF SendRequest, Goto, Returns, Discipline, Pointers
<1>3. Connections'
  BY DEF SendRequest, Goto, Returns, Connections, Live, Dangling
<1>4. Listener' /\ Kept'
  BY DEF SendRequest, Goto, Returns, Kept, Listener, Running
<1>5. Names' /\ Granteds'
  BY DEF SendRequest, Goto, Returns, Names, NamesReachable, Holds, Granteds,
         HasName, BusName
<1>6. QED
  BY <1>1, <1>2, <1>3, <1>4, <1>5 DEF SessionHolds

LEMMA FlushRequestInv ==
  ASSUME Patient, SessionHolds, TypeOK', NEW t \in Caller,
         FlushRequest(t)
  PROVE  SessionHolds'
<1> USE SessionAssumption DEF SessionHolds, TypeOK
<1>1. Discipline'
  BY DEF FlushRequest, Goto, Discipline
<1>2. Pointers'
  BY DEF FlushRequest, Goto, Pointers
<1>3. Connections'
  BY DEF FlushRequest, Goto, Connections, Live, Dangling
<1>4. Listener' /\ Kept'
  BY DEF FlushRequest, Goto, Kept, Listener, Running
<1>5. Names' /\ Granteds'
  BY DEF FlushRequest, Goto, Names, NamesReachable, Holds, Granteds, HasName,
         BusName
<1>6. QED
  BY <1>1, <1>2, <1>3, <1>4, <1>5 DEF SessionHolds

LEMMA AwaitReplyInv ==
  ASSUME Patient, SessionHolds, TypeOK', NEW t \in Caller,
         AwaitReply(t)
  PROVE  SessionHolds'
<1> USE SessionAssumption DEF SessionHolds, TypeOK
<1>1. Discipline'
  BY DEF AwaitReply, Goto, Returns, Discipline
<1>2. Pointers'
  BY DEF AwaitReply, Goto, Returns, Discipline, Pointers
<1>3. /\ pc[t] = "block" /\ pc' = [pc EXCEPT ![t] = "idle"]
      /\ pend' = [pend EXCEPT ![t] = NULL]
      /\ \A c \in Conn : c # pend[t] \/ status[c] # "closed" => status'[c] = status[c]
      /\ \A c \in Conn : c = pend[t] /\ status[c] = "closed" =>
           status'[c] = IF \E s \in Caller : pend'[s] = c THEN "closed" ELSE "free"
  BY DEF AwaitReply, Returns, Goto, Released
<1>4. Connections' /\ Listener' /\ Kept'
  <2>1. UNCHANGED <<statics, owner, queue, role, after, joining, workers, history>>
    BY DEF AwaitReply
  <2>2. \/ pc'[Main] = pc[Main]
        \/ pc[Main] = "block" /\ pc'[Main] = "idle"
    BY <1>3
  <2>3. Connections'
    <3>1. \A c \in Conn : Live(c)' <=> Live(c)
      BY <1>3 DEF Live
    <3>2. \A x \in Role : conn_[x] \in Conn \cup {NULL} /\ (Dangling(x)' <=> Dangling(x))
      BY <2>1, <2>2 DEF Dangling
    <3> HIDE DEF Dangling
    <3> HIDE DEF Live
    <3>3. QED
      BY <2>1, <3>1, <3>2 DEF Connections
  <2>4. Listener'
    <3>1. \A s \in Caller : pc'[s] = "join" <=> pc[s] = "join"
      BY <1>3
    <3>2. QED
      BY <2>1, <2>2, <3>1 DEF Listener, Running
  <2>5. Kept'
    BY <1>3 DEF Kept
  <2>6. QED
    BY <2>3, <2>4, <2>5
<1>5. Names' /\ Granteds'
  BY DEF AwaitReply, Goto, Returns, Released, Names, NamesReachable, Holds,
         Granteds, HasName, BusName
<1>6. QED
  BY <1>1, <1>2, <1>3, <1>4, <1>5 DEF SessionHolds

LEMMA InitFailsInv ==
  ASSUME Patient, SessionHolds, TypeOK', NEW t \in Caller,
         NEW arg \in Service \cup {NULL, Empty},
         NEW proc \in Callback \cup {NULL},
         InitFails(t, arg, proc)
  PROVE  SessionHolds'
<1> USE SessionAssumption DEF SessionHolds, TypeOK
<1>1. Discipline'
  BY DEF InitFails, Goto, Returns, MayConnect, Discipline
<1>2. Pointers'
  BY DEF InitFails, Goto, Returns, MayConnect, Ready, Pointers
<1>3. Connections'
  BY DEF InitFails, MayConnect, Ready, Pointers, Connections, Live
<1>4. Listener' /\ Kept'
  BY DEF InitFails, Goto, Returns, MayConnect, Ready, Kept, Listener,
         Running
<1>5. Names' /\ Granteds'
  BY DEF InitFails, Goto, Returns, MayConnect, Ready, Pointers, Names,
         NamesReachable, Holds, Granteds
<1>6. QED
  BY <1>1, <1>2, <1>3, <1>4, <1>5 DEF SessionHolds

LEMMA InitSessionInv ==
  ASSUME Patient, SessionHolds, TypeOK', NEW t \in Caller,
         NEW arg \in Service \cup {NULL, Empty},
         NEW proc \in Callback \cup {NULL},
         InitSession(t, arg, proc)
  PROVE  SessionHolds'
<1> USE SessionAssumption DEF SessionHolds, TypeOK
<1>1. Discipline'
  BY DEF InitSession, Goto, Enters, MayConnect, Discipline
<1>2. Pointers'
  BY DEF InitSession, Goto, Enters, MayConnect, Rebuilt, Ready, Pointers
<1>3. Connections'
  BY DEF InitSession, MayConnect, Rebuilt, Ready, Pointers, Connections,
         Live
<1>4. Listener' /\ Kept'
  BY DEF InitSession, Goto, Enters, MayConnect, Rebuilt, Ready, Kept, Listener, Running
<1>5. Names' /\ Granteds'
  BY DEF InitSession, Goto, Enters, MayConnect, Ready, Pointers, Names,
         NamesReachable, Holds, Granteds
<1>6. QED
  BY <1>1, <1>2, <1>3, <1>4, <1>5 DEF SessionHolds

LEMMA SendMessageInv ==
  ASSUME Patient, SessionHolds, TypeOK', NEW t \in Caller,
         NEW kind \in {"notice", "request"}, SendMessage(t, kind)
  PROVE  SessionHolds'
<1> USE SessionAssumption DEF SessionHolds, TypeOK
<1>1. Discipline'
  BY DEF SendMessage, Goto, Enters, Returns, MaySend, Ready,
         Discipline
<1>2. Pointers'
  BY DEF SendMessage, Goto, Enters, Returns, MaySend, Ready, Pointers
<1>3. Connections'
  BY DEF SendMessage, Goto, Enters, Returns, MaySend, Ready, Connections,
         Live, Dangling
<1>4. Listener' /\ Kept'
  BY DEF SendMessage, Goto, Enters, Returns, MaySend, Ready, Kept, Listener, Running
<1>5. Names' /\ Granteds'
  BY DEF SendMessage, Goto, Enters, Returns, Names, NamesReachable, Holds,
         Granteds, HasName, BusName
<1>6. QED
  BY <1>1, <1>2, <1>3, <1>4, <1>5 DEF SessionHolds

LEMMA WorkerStartsInv ==
  ASSUME Patient, SessionHolds, TypeOK', NEW w \in Worker,
         WorkerStarts(w)
  PROVE  SessionHolds'
<1> USE SessionAssumption DEF SessionHolds, TypeOK
<1>1. Discipline'
  BY DEF WorkerStarts, Discipline
<1>2. Pointers'
  BY DEF WorkerStarts, Pointers
<1>3. Connections'
  BY DEF WorkerStarts, Connections, Live, Dangling
<1>4. Listener' /\ Kept'
  BY DEF WorkerStarts, Kept, Listener, Running
<1>5. Names' /\ Granteds'
  BY DEF WorkerStarts, Names, NamesReachable, Holds, Granteds, HasName,
         BusName
<1>6. QED
  BY <1>1, <1>2, <1>3, <1>4, <1>5 DEF SessionHolds

LEMMA WorkerPollsInv ==
  ASSUME Patient, SessionHolds, TypeOK', NEW w \in Worker,
         WorkerPolls(w)
  PROVE  SessionHolds'
<1> USE SessionAssumption DEF SessionHolds, TypeOK
<1>1. Discipline'
  BY DEF WorkerPolls, Discipline
<1>2. Pointers'
  BY DEF WorkerPolls, Pointers
<1>3. Connections'
  BY DEF WorkerPolls, Connections, Live, Dangling
<1>4. Listener' /\ Kept'
  BY DEF WorkerPolls, Discipline, Kept, Listener, Running
<1>5. Names' /\ Granteds'
  BY DEF WorkerPolls, Names, NamesReachable, Holds, Granteds, HasName, BusName
<1>6. QED
  BY <1>1, <1>2, <1>3, <1>4, <1>5 DEF SessionHolds

LEMMA WorkerReadsInv ==
  ASSUME Patient, SessionHolds, TypeOK', NEW w \in Worker,
         WorkerReads(w)
  PROVE  SessionHolds'
<1> USE SessionAssumption DEF SessionHolds, TypeOK
<1>1. Discipline'
  BY DEF WorkerReads, Discipline
<1>2. Pointers'
  BY DEF WorkerReads, Pointers
<1>3. Connections'
  BY DEF WorkerReads, Connections, Live, Dangling
<1>4. Listener' /\ Kept'
  BY DEF WorkerReads, Discipline, Pointers, Kept, Listener, Running
<1>5. Names' /\ Granteds'
  BY DEF WorkerReads, Names, NamesReachable, Holds, Granteds, HasName, BusName
<1>6. QED
  BY <1>1, <1>2, <1>3, <1>4, <1>5 DEF SessionHolds

LEMMA CallbackReturnsInv ==
  ASSUME Patient, SessionHolds, TypeOK', NEW w \in Worker,
         CallbackReturns(w)
  PROVE  SessionHolds'
<1> USE SessionAssumption DEF SessionHolds, TypeOK
<1>1. Discipline'
  BY DEF CallbackReturns, Discipline
<1>2. Pointers'
  BY DEF CallbackReturns, Pointers
<1>3. Connections'
  BY DEF CallbackReturns, Connections, Live, Dangling
<1>4. Listener' /\ Kept'
  BY DEF CallbackReturns, Kept, Listener, Running
<1>5. Names' /\ Granteds'
  BY DEF CallbackReturns, Names, NamesReachable, Holds, Granteds, HasName,
         BusName
<1>6. QED
  BY <1>1, <1>2, <1>3, <1>4, <1>5 DEF SessionHolds

LEMMA WorkerRepliesInv ==
  ASSUME Patient, SessionHolds, TypeOK', NEW w \in Worker,
         WorkerReplies(w)
  PROVE  SessionHolds'
<1> USE SessionAssumption DEF SessionHolds, TypeOK
<1>1. Discipline'
  BY DEF WorkerReplies, Discipline
<1>2. Pointers'
  BY DEF WorkerReplies, Pointers
<1>3. Connections'
  BY DEF WorkerReplies, Connections, Live, Dangling
<1>4. Listener' /\ Kept'
  BY DEF WorkerReplies, Kept, Listener, Running
<1>5. Names' /\ Granteds'
  BY DEF WorkerReplies, Names, NamesReachable, Holds, Granteds, HasName,
         BusName
<1>6. QED
  BY <1>1, <1>2, <1>3, <1>4, <1>5 DEF SessionHolds

LEMMA BusCutsInv ==
  ASSUME Patient, SessionHolds, TypeOK', NEW c \in Conn,
         BusCuts(c)
  PROVE  SessionHolds'
<1> USE SessionAssumption DEF SessionHolds, TypeOK
<1>1. Discipline'
  BY DEF BusCuts, Discipline
<1>2. Pointers'
  BY DEF BusCuts, Pointers
<1>3. Connections'
  BY DEF BusCuts, Connections, Live, Dangling
<1>4. Listener' /\ Kept'
  BY DEF BusCuts, Kept, Listener, Running
<1>5. Names' /\ Granteds'
  <2>1. /\ \A n \in Name, x \in Conn \cup Other : Holds(x, n)' => Holds(x, n)
        /\ \A n \in Name : owner'[n] \notin queue'[n]
        /\ \A n \in Name : owner[n] # c => owner'[n] = owner[n]
    <3>1. /\ TypeOK
          /\ c \in Conn \cup Other
          /\ Withdraw(c, Name)
      BY DEF BusCuts
    <3>2. \A n \in Name : owner[n] \notin queue[n]
      BY DEF Names
    <3> HIDE DEF SessionHolds, TypeOK
    <3>3. QED
      BY <3>1, <3>2, WithdrawDrops
  <2>2. \A n \in Name : ~Holds(c, n)'
    BY DEF BusCuts, Withdraw, Heirs, Holds, Names, NamesReachable,
           Connections, BusName
  <2>3. /\ UNCHANGED <<conn_, dbus_name_, pc, role, up>>
        /\ status' = [status EXCEPT ![c] = "dead"]
    BY DEF BusCuts
  <2>4. pc[Main] \in {"name", "close"} => conn_[role[Main]] \in Conn
    BY DEF Pointers
  <2>5. Names'
    BY <2>1, <2>2, <2>3, <2>4 DEF Names, NamesReachable, BusName
  <2>6. Granteds'
    BY <2>1, <2>3 DEF Granteds, HasName, BusName, Pointers
  <2>7. QED
    BY <2>5, <2>6
<1>6. QED
  BY <1>1, <1>2, <1>3, <1>4, <1>5 DEF SessionHolds

LEMMA OtherRequestsInv ==
  ASSUME Patient, SessionHolds, TypeOK', NEW o \in Other, NEW n \in Name,
         OtherRequests(o, n)
  PROVE  SessionHolds'
<1> USE SessionAssumption DEF SessionHolds, TypeOK
<1>1. Discipline'
  BY DEF OtherRequests, Discipline
<1>2. Pointers'
  BY DEF OtherRequests, Pointers
<1>3. Connections'
  BY DEF OtherRequests, Connections, Live, Dangling
<1>4. Listener' /\ Kept'
  BY DEF OtherRequests, Kept, Listener, Running
<1>5. Names' /\ Granteds'
  <2>1. UNCHANGED <<statics, status, frames, workers, history>>
    BY DEF OtherRequests
  <2>2. /\ \A m \in Name, c \in Conn : Holds(c, m)' => Holds(c, m)
        /\ \A m \in Name : owner'[m] \notin queue'[m]
        /\ \A m \in Name : owner[m] # NULL => owner'[m] = owner[m]
    <3>1. CASE /\ owner[n] = NULL /\ owner' = [owner EXCEPT ![n] = o]
               /\ UNCHANGED queue
      BY <3>1 DEF OtherRequests, Holds, Names
    <3>2. CASE /\ owner[n] # NULL /\ queue' = [queue EXCEPT ![n] = @ \cup {o}]
               /\ UNCHANGED owner
      BY <3>2 DEF OtherRequests, Holds, Names
    <3>3. QED
      BY <3>1, <3>2 DEF OtherRequests
  <2>3. pc[Main] \in {"name", "close"} => conn_[role[Main]] \in Conn
    BY DEF Pointers
  <2>4. Names'
    BY <2>1, <2>2, <2>3 DEF Names, NamesReachable, BusName
  <2>5. Granteds'
    BY <2>1, <2>2 DEF Granteds, HasName, BusName, Pointers
  <2>6. QED
    BY <2>4, <2>5
<1>6. QED
  BY <1>1, <1>2, <1>3, <1>4, <1>5 DEF SessionHolds

LEMMA OtherReleasesInv ==
  ASSUME Patient, SessionHolds, TypeOK', NEW o \in Other, NEW n \in Name,
         OtherReleases(o, n)
  PROVE  SessionHolds'
<1> USE SessionAssumption DEF SessionHolds, TypeOK
<1>1. Discipline'
  BY DEF OtherReleases, Discipline
<1>2. Pointers'
  BY DEF OtherReleases, Pointers
<1>3. Connections'
  BY DEF OtherReleases, Connections, Live, Dangling
<1>4. Listener' /\ Kept'
  BY DEF OtherReleases, Kept, Listener, Running
<1>5. Names' /\ Granteds'
  <2>1. /\ Withdraw(o, {n})
        /\ UNCHANGED <<statics, status, frames, workers, history>>
    BY DEF OtherReleases
  <2>2. /\ \A m \in Name, c \in Conn : Holds(c, m)' => Holds(c, m)
        /\ \A m \in Name : owner'[m] \notin queue'[m]
        /\ \A m \in Name : owner[m] # o => owner'[m] = owner[m]
    <3>1. /\ TypeOK
          /\ o \in Conn \cup Other
          /\ {n} \in SUBSET Name
      OBVIOUS
    <3>2. \A m \in Name : owner[m] \notin queue[m]
      BY DEF Names
    <3> HIDE DEF SessionHolds, TypeOK
    <3>3. QED
      BY <2>1, <3>1, <3>2, WithdrawDrops
  <2>3. pc[Main] \in {"name", "close"} => conn_[role[Main]] \in Conn
    BY DEF Pointers
  <2>4. Names'
    BY <2>1, <2>2, <2>3 DEF Names, NamesReachable, BusName
  <2>5. Granteds'
    <3>1. ASSUME NEW x \in Role, conn_[x] # NULL, dbus_name_ # NULL,
                 HasName(x)
          PROVE  HasName(x)'
      BY <2>1, <2>2, <3>1 DEF HasName, BusName
    <3>2. QED
      BY <2>1, <3>1 DEF Granteds, Pointers
  <2>6. QED
    BY <2>4, <2>5
<1>6. QED
  BY <1>1, <1>2, <1>3, <1>4, <1>5 DEF SessionHolds

\* A pointer that libdbus should not be given changes nothing but the fault.
LEMMA MisuseInv ==
  ASSUME Patient, SessionHolds, TypeOK',
         UNCHANGED <<statics, bus, frames, workers, up>>
  PROVE  SessionHolds'
<1>1. Discipline' /\ Pointers' /\ Connections' /\ Kept'
  BY DEF SessionHolds, Discipline, Pointers, Connections, Live, Dangling, Kept
<1>2. Listener'
  BY DEF SessionHolds, Listener, Running
<1>3. Names' /\ Granteds'
  BY DEF SessionHolds, Names, NamesReachable, Holds, Granteds, HasName, BusName
<1>4. QED
  BY <1>1, <1>2, <1>3 DEF SessionHolds

\* Together: no step breaks the session.
LEMMA NextSession ==
  ASSUME Patient, SessionHolds, [Next]_vars
  PROVE  SessionHolds'
<1>1. TypeOK'
  BY NextType DEF SessionHolds
<1>2. ASSUME NEW t \in Caller, Call(t)
      PROVE  SessionHolds'
  BY <1>1, <1>2, InitFailsInv, InitSessionInv, DisconnectInv, SendMessageInv
     DEF Call
<1>3. ASSUME NEW t \in Caller, Step(t)
      PROVE  SessionHolds'
  <2>1. CASE CallerMisuses(t)
    BY <1>1, <2>1, MisuseInv DEF CallerMisuses
  <2>2. QED
    BY <1>1, <1>3, <2>1, SetTerminatedInv, JoinListenerInv, SkipReleaseInv,
       ReleaseNameInv, CloseConnectionInv, ClearPointerInv, ReuseConnectionInv,
       OpenConnectionInv, NameGrantedInv, NameRefusedInv, AddMatchInv,
       CreateListenerInv, SetConnectedInv, SendNoticeInv, FlushNoticeInv,
       SendRequestInv, FlushRequestInv, AwaitReplyInv
       DEF Step
<1>4. ASSUME NEW w \in Worker, Listen(w) \/ CallbackReturns(w)
      PROVE  SessionHolds'
  <2>1. CASE WorkerMisuses(w)
    BY <1>1, <2>1, MisuseInv DEF WorkerMisuses
  <2>2. QED
    BY <1>1, <1>4, <2>1, WorkerStartsInv, WorkerPollsInv, WorkerReadsInv,
       WorkerRepliesInv, CallbackReturnsInv
       DEF Listen
<1>5. CASE World
  BY <1>1, <1>5, BusCutsInv, OtherRequestsInv, OtherReleasesInv DEF World
<1>6. CASE UNCHANGED vars
  BY <1>1, <1>6, MisuseInv DEF vars
<1>7. QED
  BY <1>2, <1>3, <1>4, <1>5, <1>6 DEF Next, Process

\* Whoever sends, and whenever, the session is sound.
THEOREM SessionInvariance == ASSUME Patient PROVE Spec => []SessionHolds
<1>1. Init => SessionHolds
  BY InitInv
<1>2. SessionHolds /\ [Next]_vars => SessionHolds'
  BY NextSession
<1>3. QED
  BY <1>1, <1>2, PTL DEF Spec

-----------------------------------------------------------------------------
(***************************************************************************)
(* What follows, whoever sends                                             *)
(***************************************************************************)

\* Each property is part of the invariant or follows from two or three parts.
LEMMA Consequences ==
  SessionHolds => /\ OneListener /\ ListenerServesSession /\ NothingLeftWhenDown
                  /\ ServingWhenUp /\ NamesReachable
<1> SUFFICES ASSUME SessionHolds
             PROVE  /\ OneListener /\ ListenerServesSession
                    /\ NothingLeftWhenDown /\ ServingWhenUp /\ NamesReachable
  OBVIOUS
<1> USE SessionAssumption DEF SessionHolds, TypeOK
<1>1. OneListener
  BY DEF OneListener, Listener
<1>2. ListenerServesSession
  <2>1. SUFFICES ASSUME NEW w \in Worker, Running(w)
                 PROVE  /\ conn_["rec"] # NULL
                        /\ Allocated(conn_["rec"])
                        /\ conn_["rec"] = IF wrk[w] = "created"
                                         THEN thread_param ELSE wconn[w]
    BY DEF ListenerServesSession
  <2>2. rpcclient_thread_id_ # NULL
    BY <2>1 DEF Listener, Running
  <2>3. pc[Main] # "clear" /\ conn_["rec"] # NULL
    BY <2>2 DEF Listener, Discipline
  <2>4. Allocated(conn_["rec"])
    BY <2>3 DEF Connections, Dangling, Live, Allocated
  <2>5. QED
    BY <2>1, <2>3, <2>4 DEF Listener
<1>3. NothingLeftWhenDown
  <2>1. SUFFICES ASSUME pc[Main] = "idle", ~up
                 PROVE  /\ \A c \in Conn : Allocated(c) =>
                             status[c] = "closed" /\ \E t \in Caller : pend[t] = c
                        /\ \A n \in Name, c \in Conn : ~Holds(c, n)
                        /\ \A w \in Worker : wrk[w] = "none"
    BY DEF NothingLeftWhenDown
  <2>2. \A x \in Role : conn_[x] = NULL
    BY <2>1 DEF Pointers
  <2>3. \A c \in Conn : Allocated(c) =>
          status[c] = "closed" /\ \E t \in Caller : pend[t] = c
    BY <2>2 DEF Connections, Kept, Allocated, Live
  <2>4. \A n \in Name, c \in Conn : ~Holds(c, n)
    BY <2>2 DEF Names, NamesReachable
  <2>5. rpcclient_thread_id_ = NULL
    BY <2>1 DEF Listener
  <2>6. \A w \in Worker : wrk[w] = "none"
    BY <2>5 DEF Listener
  <2>7. QED
    BY <2>3, <2>4, <2>6
<1>4. ServingWhenUp
  <2>1. SUFFICES ASSUME pc[Main] = "idle", up
                 PROVE  /\ connect_flag
                        /\ conn_["send"] # conn_["rec"]
                        /\ \A r \in Role : /\ conn_[r] # NULL
                                           /\ \/ status[conn_[r]] = "dead"
                                              \/ owner[BusName(r)] = conn_[r]
                        /\ \E w \in Worker :
                             Running(w) /\ w = rpcclient_thread_id_
    BY DEF ServingWhenUp
  <2>2. connect_flag /\ \A r \in Role : conn_[r] # NULL
    BY <2>1 DEF Discipline, Pointers
  <2>3. ASSUME NEW r \in Role
        PROVE  status[conn_[r]] = "dead" \/ owner[BusName(r)] = conn_[r]
    BY <2>1, <2>2 DEF Connections, Live, Dangling, Granteds, HasName
  <2>4. \E w \in Worker : Running(w) /\ w = rpcclient_thread_id_
    <3>1. rpcclient_thread_id_ \in Worker
      BY <2>1 DEF Listener
    <3>2. wrk[rpcclient_thread_id_] \notin {"none", "exited"}
      BY <2>1, <3>1 DEF Listener
    <3>3. QED
      BY <3>1, <3>2 DEF Running
  <2>5. QED
    BY <2>1, <2>2, <2>3, <2>4 DEF Connections
<1>5. NamesReachable
  BY DEF Names
<1>6. QED
  BY <1>1, <1>2, <1>3, <1>4, <1>5

\* The thread that terminate() joins is the only listening thread.
THEOREM SingleListener == ASSUME Patient PROVE Spec => []OneListener
<1>1. SessionHolds => OneListener
  BY Consequences
<1>2. QED
  BY <1>1, SessionInvariance, PTL

\* A listening thread reads the session's own listening connection, which is
\* not closed under it.
THEOREM ListenerHasSession ==
  ASSUME Patient PROVE Spec => []ListenerServesSession
<1>1. SessionHolds => ListenerServesSession
  BY Consequences
<1>2. QED
  BY <1>1, SessionInvariance, PTL

\* After a disconnect, and after a connect that failed at any step, there is no
\* name and no thread left, and no connection but one that a call still waits on.
THEOREM CleanWhenDown == ASSUME Patient PROVE Spec => []NothingLeftWhenDown
<1>1. SessionHolds => NothingLeftWhenDown
  BY Consequences
<1>2. QED
  BY <1>1, SessionInvariance, PTL

\* After a successful connect the process has its two connections, their names
\* as long as the bus does not cut them, and a running listener.
THEOREM ServesWhenUp == ASSUME Patient PROVE Spec => []ServingWhenUp
<1>1. SessionHolds => ServingWhenUp
  BY Consequences
<1>2. QED
  BY <1>1, SessionInvariance, PTL

\* No name is held through a connection that the session cannot close.
THEOREM NoLostName == ASSUME Patient PROVE Spec => []NamesReachable
<1>1. SessionHolds => NamesReachable
  BY Consequences
<1>2. QED
  BY <1>1, SessionInvariance, PTL

-----------------------------------------------------------------------------
(***************************************************************************)
(* The orderly use                                                         *)
(***************************************************************************)

\* In a state of the orderly use nobody hands libdbus a bad pointer.
LEMMA NeverMisused ==
  ASSUME Adverse = {}, IInv
  PROVE  /\ \A t \in Caller : ~CallerMisuses(t)
         /\ \A w \in Worker : ~WorkerMisuses(w)
<1> USE SessionAssumption DEF IInv, SessionHolds, TypeOK
<1>1. ASSUME NEW t \in Caller, UsesConnection(t)
      PROVE  Usable(CallerPointer(t)) /\ status[CallerPointer(t)] # "closed"
  <2>1. CASE pc[t] \in {"notice", "noticeFlush", "request", "requestFlush"}
    BY <2>1 DEF CallerPointer, Usable, Discipline, NobodyEarly, Pointers, Connections,
                Live, Dangling, Listener
  <2>2. CASE pc[t] \in {"match", "name", "close"}
    BY <2>2 DEF CallerPointer, Usable, Discipline, Pointers, Connections,
                Live, Dangling
  <2>3. CASE pc[t] = "release" /\ ~NothingToRelease(t)
    BY <2>3 DEF CallerPointer, Usable, Discipline, Pointers, Connections,
                Live, Dangling, NothingToRelease
  <2>4. QED
    BY <1>1, <2>1, <2>2, <2>3 DEF UsesConnection
<1>2. ASSUME NEW w \in Worker, wrk[w] \in {"read", "reply"}
      PROVE  Usable(wconn[w])
  BY <1>2 DEF Usable, Listener, Running, Discipline, Connections, Live,
              Dangling
<1>3. QED
  BY <1>1, <1>2 DEF CallerMisuses, WorkerMisuses

\* With the session down and no listener, nobody is inside the library but the
\* main thread.
LEMMA NobodyElseInside ==
  ASSUME Discipline, NobodyEarly, Listener, ~up, rpcclient_thread_id_ = NULL
  PROVE  \A s \in Caller \ {Main} : pc[s] = "idle"
<1>1. \A w \in Worker : w # NULL
  BY SessionAssumption
<1>2. \A w \in Worker : pc[w] = "idle"
  BY <1>1 DEF Discipline, Listener
<1>3. \A a \in App \ {Main} : pc[a] = "idle"
  BY DEF NobodyEarly
<1>4. QED
  BY <1>2, <1>3

\* Nothing else is a fault.
LEMMA NextNoFault ==
  ASSUME Adverse = {}, IInv, Next
  PROVE  NoFault'
<1>1. fault = "none"
  BY DEF IInv, NoFault
<1>2. ASSUME NEW t \in Caller, Call(t)
      PROVE  fault' = fault
  BY <1>2 DEF Call, InitFails, InitSession, Disconnect, SendMessage
<1>3. ASSUME NEW t \in Caller, Step(t)
      PROVE  fault' = fault
  BY <1>3, NeverMisused
     DEF Step, SetTerminated, JoinListener, SkipRelease, ReleaseName, CloseConnection,
         ClearPointer, ReuseConnection, OpenConnection, NameGranted, NameRefused, AddMatch,
         CreateListener, SetConnected, SendNotice, FlushNotice, SendRequest, FlushRequest,
         AwaitReply
<1>4. ASSUME NEW w \in Worker, Listen(w) \/ CallbackReturns(w)
      PROVE  fault' = fault
  BY <1>4, NeverMisused
     DEF Listen, WorkerStarts, WorkerPolls, WorkerReads, WorkerReplies, CallbackReturns
<1>5. CASE World
  BY <1>1, <1>5 DEF World, BusCuts, OtherRequests, OtherReleases, NoFault
<1>6. QED
  BY <1>1, <1>2, <1>3, <1>4, <1>5 DEF Next, Process, NoFault

\* Where a thread goes in its next step, unless it is the main thread and has
\* reached the end of a connect.
LEMMA StepsInside ==
  ASSUME SessionHolds, NEW t \in Caller, Step(t), ~SetConnected(t)
  PROVE  /\ pc[t] # "idle"
         /\ up' = up
         /\ \/ pc' = pc
            \/ \E l \in Location : /\ pc' = [pc EXCEPT ![t] = l]
                                   /\ l \in Sending => pc[t] \in Sending
<1> USE DEF Goto, Returns, Terminate, Location
<1>1. CASE SetTerminated(t) \/ JoinListener(t) \/ SkipRelease(t) \/ ReleaseName(t)
  BY <1>1 DEF SetTerminated, JoinListener, SkipRelease, ReleaseName, NextRole
<1>2. CASE CloseConnection(t) \/ ClearPointer(t) \/ ReuseConnection(t) \/ OpenConnection(t)
  BY <1>2 DEF CloseConnection, ClearPointer, ReuseConnection, OpenConnection, Opened, NextRole
<1>3. CASE NameGranted(t) \/ NameRefused(t) \/ AddMatch(t) \/ CreateListener(t)
  BY <1>3 DEF NameGranted, NameRefused, AddMatch, CreateListener, Opened, Undo, NoThread
<1>4. CASE SendNotice(t) \/ FlushNotice(t) \/ SendRequest(t) \/ FlushRequest(t)
           \/ AwaitReply(t) \/ CallerMisuses(t)
  BY <1>4 DEF SendNotice, FlushNotice, SendRequest, FlushRequest, AwaitReply, CallerMisuses,
               UsesConnection
<1>5. QED
  BY <1>1, <1>2, <1>3, <1>4 DEF Step

\* Nobody begins to send while the session is not up, and it is not taken
\* down while somebody sends.
LEMMA NextNobodyEarly ==
  ASSUME Adverse = {}, IInv, Next
  PROVE  NobodyEarly'
<1> USE SessionAssumption DEF IInv, SessionHolds, TypeOK, NobodyEarly
<1>1. ASSUME NEW t \in Caller, Call(t)
      PROVE  NobodyEarly'
  <2>1. ASSUME NEW arg, NEW proc,
         InitFails(t, arg, proc) \/ InitSession(t, arg, proc)
        PROVE  NobodyEarly'
    BY <2>1 DEF InitFails, InitSession, MayConnect, Quiet, Returns, Enters, Goto
  <2>2. CASE Disconnect(t)
    BY <2>2 DEF Disconnect, MayDisconnect, Quiet, Returns, Enters, Goto
  <2>3. ASSUME NEW kind \in {"notice", "request"}, SendMessage(t, kind)
        PROVE  NobodyEarly'
    BY <2>3 DEF SendMessage, MaySend, Returns, Enters, Goto
  <2>4. QED
    BY <1>1, <2>1, <2>2, <2>3 DEF Call
<1>2. ASSUME NEW t \in Caller, Step(t)
      PROVE  NobodyEarly'
  <2>1. CASE SetConnected(t)
    BY <2>1 DEF SetConnected, Returns, Goto
  <2>2. CASE ~SetConnected(t)
    <3>1. PICK l \in Location : \/ pc' = pc
                                \/ /\ pc' = [pc EXCEPT ![t] = l]
                                   /\ l \in Sending => pc[t] \in Sending
      BY <1>2, <2>2, StepsInside DEF Location
    <3>2. up' = up /\ pc[t] # "idle"
      BY <1>2, <2>2, StepsInside
    <3>3. QED
      BY <3>1, <3>2
  <2>3. QED
    BY <2>1, <2>2
<1>3. ASSUME NEW w \in Worker, Listen(w) \/ CallbackReturns(w)
      PROVE  NobodyEarly'
  BY <1>3 DEF Listen, WorkerStarts, WorkerPolls, WorkerReads, WorkerReplies, WorkerMisuses,
              CallbackReturns
<1>4. CASE World
  BY <1>4 DEF World, BusCuts, OtherRequests, OtherReleases
<1>5. QED
  BY <1>1, <1>2, <1>3, <1>4 DEF Next, Process

\* A step that leaves the pending calls, and the pointer they were made with,
\* alone.
LEMMA SamePending ==
  ASSUME PendingCalls, pend' = pend, conn_'["send"] = conn_["send"],
         \A c \in Conn : status'[c] # "closed",
         \A s \in Caller : pc'[s] \in {"requestFlush", "block"} <=>
                           pc[s] \in {"requestFlush", "block"}
  PROVE  PendingCalls'
BY DEF PendingCalls

\* Who waits for a reply waits on the send connection, which stays open.
LEMMA NextPending ==
  ASSUME Adverse = {}, IInv, Next
  PROVE  PendingCalls'
<1> USE SessionAssumption DEF Goto, Returns, Enters, Terminate
<1>1. TypeOK /\ PendingCalls /\ \A c \in Conn : status[c] # "closed"
  BY DEF IInv, SessionHolds, PendingCalls
<1>2. ASSUME ~up, rpcclient_thread_id_ = NULL, pc[Main] \notin {"requestFlush", "block"}
      PROVE  \A s \in Caller : pc[s] \notin {"requestFlush", "block"} /\ pend[s] = NULL
  BY <1>1, <1>2, NobodyElseInside DEF IInv, SessionHolds, PendingCalls
<1>3. ASSUME NEW t \in Caller, Call(t)
      PROVE  PendingCalls'
  <2>1. UNCHANGED <<pend, status>> /\ conn_'["send"] = conn_["send"]
    BY <1>1, <1>3 DEF Call, InitFails, InitSession, Rebuilt, Disconnect, SendMessage, TypeOK
  <2>2. pc[t] = "idle" /\ \E l \in {"idle", "open", "term", "notice", "request"} :
                            pc' = [pc EXCEPT ![t] = l]
    BY <1>3 DEF Call, InitFails, InitSession, MayConnect, Disconnect, MayDisconnect,
                SendMessage, MaySend, Ready
  <2>3. QED
    BY <1>1, <2>1, <2>2, SamePending DEF TypeOK
<1>4. ASSUME NEW t \in Caller, Step(t)
      PROVE  PendingCalls'
  <2>1. CASE SetTerminated(t) \/ JoinListener(t) \/ SkipRelease(t) \/ ReleaseName(t)
             \/ ReuseConnection(t)
    <3>1. UNCHANGED <<pend, status, conn_>>
      BY <2>1 DEF SetTerminated, JoinListener, SkipRelease, ReleaseName, ReuseConnection
    <3>2. \/ pc' = pc
          \/ \E l \in Location \ {"requestFlush", "block"} :
               pc' = [pc EXCEPT ![t] = l] /\ pc[t] \notin {"requestFlush", "block"}
      BY <2>1 DEF SetTerminated, JoinListener, SkipRelease, ReleaseName, ReuseConnection,
                  Opened, NextRole, Location
    <3>3. QED
      BY <1>1, <3>1, <3>2, SamePending DEF TypeOK
  <2>2. CASE NameGranted(t) \/ NameRefused(t) \/ AddMatch(t) \/ CreateListener(t)
             \/ SetConnected(t)
    <3>1. UNCHANGED <<pend, status, conn_>>
      BY <2>2 DEF NameGranted, NameRefused, AddMatch, CreateListener, SetConnected
    <3>2. \/ pc' = pc
          \/ \E l \in Location \ {"requestFlush", "block"} :
               pc' = [pc EXCEPT ![t] = l] /\ pc[t] \notin {"requestFlush", "block"}
      BY <2>2 DEF NameGranted, NameRefused, AddMatch, CreateListener, SetConnected,
                  Opened, Undo, NoThread, Location
    <3>3. QED
      BY <1>1, <3>1, <3>2, SamePending DEF TypeOK
  <2>3. CASE CloseConnection(t) \/ ClearPointer(t) \/ OpenConnection(t)
    <3>1. t = Main /\ ~up /\ rpcclient_thread_id_ = NULL
          /\ pc[Main] \notin {"requestFlush", "block"}
      BY <2>3 DEF CloseConnection, ClearPointer, OpenConnection, IInv, SessionHolds,
                  Discipline, Listener
    <3>2. \A s \in Caller : pc[s] \notin {"requestFlush", "block"} /\ pend[s] = NULL
      BY <1>2, <3>1
    <3>3. \E l \in Location \ {"requestFlush", "block"} : pc' = [pc EXCEPT ![t] = l]
      BY <2>3 DEF CloseConnection, ClearPointer, OpenConnection, NextRole, Location
    <3>4. pend' = pend /\ \A c \in Conn : status'[c] # "closed"
      <4>1. CASE CloseConnection(t)
        <5>1. conn_[role[t]] \in Conn
          BY <1>1, <4>1 DEF CloseConnection, Usable, TypeOK
        <5>2. \A s \in Caller : pend[s] # conn_[role[t]]
          BY <3>2, <5>1
        <5>3. Released(conn_[role[t]], pend) = "free"
          BY <5>2 DEF Released
        <5>4. QED
          BY <1>1, <4>1, <5>3 DEF CloseConnection, TypeOK
      <4>2. CASE ClearPointer(t) \/ OpenConnection(t)
        BY <1>1, <4>2 DEF ClearPointer, OpenConnection, TypeOK
      <4>3. QED
        BY <2>3, <4>1, <4>2
    <3>5. QED
      BY <1>1, <3>2, <3>3, <3>4 DEF PendingCalls, TypeOK
  <2>4. CASE SendNotice(t) \/ FlushNotice(t) \/ CallerMisuses(t)
    <3>1. UNCHANGED <<pend, status, conn_>>
      BY <2>4 DEF SendNotice, FlushNotice, CallerMisuses
    <3>2. \/ pc' = pc
          \/ \E l \in {"noticeFlush", "idle"} :
               pc' = [pc EXCEPT ![t] = l] /\ pc[t] \notin {"requestFlush", "block"}
      BY <2>4 DEF SendNotice, FlushNotice, CallerMisuses
    <3>3. QED
      BY <1>1, <3>1, <3>2, SamePending DEF TypeOK
  <2>5. CASE SendRequest(t)
    <3>1. UNCHANGED <<status, conn_>> /\ pc[t] = "request"
      BY <2>5 DEF SendRequest
    <3>2. \/ pc' = [pc EXCEPT ![t] = "requestFlush"] /\ pend' = [pend EXCEPT ![t] = conn_["send"]]
          \/ pc' = [pc EXCEPT ![t] = "idle"] /\ pend' = pend
      BY <2>5 DEF SendRequest
    <3>3. QED
      BY <1>1, <3>1, <3>2 DEF PendingCalls, TypeOK
  <2>6. CASE FlushRequest(t)
    BY <1>1, <2>6, SamePending DEF FlushRequest, TypeOK
  <2>7. CASE AwaitReply(t)
    <3>1. status' = status
      BY <1>1, <2>7 DEF AwaitReply, PendingCalls, TypeOK
    <3>2. UNCHANGED conn_ /\ pc' = [pc EXCEPT ![t] = "idle"]
          /\ pend' = [pend EXCEPT ![t] = NULL]
      BY <2>7 DEF AwaitReply
    <3>3. QED
      BY <1>1, <3>1, <3>2 DEF PendingCalls, TypeOK
  <2>8. QED
    BY <1>4, <2>1, <2>2, <2>3, <2>4, <2>5, <2>6, <2>7 DEF Step
<1>5. ASSUME NEW w \in Worker, Listen(w) \/ CallbackReturns(w)
      PROVE  PendingCalls'
  <2>1. UNCHANGED <<pend, status, conn_, pc>>
    BY <1>5 DEF Listen, WorkerStarts, WorkerPolls, WorkerReads, WorkerReplies, WorkerMisuses,
                CallbackReturns
  <2>2. QED
    BY <1>1, <2>1, SamePending
<1>6. CASE World
  <2>1. /\ UNCHANGED <<pend, conn_, pc>>
        /\ status' = status \/ \E c \in Conn : status' = [status EXCEPT ![c] = "dead"]
    BY <1>6 DEF World, BusCuts, OtherRequests, OtherReleases
  <2>2. QED
    BY <1>1, <2>1, SamePending DEF TypeOK
<1>7. QED
  BY <1>3, <1>4, <1>5, <1>6 DEF Next, Process

LEMMA InitOrderly == Init => IInv
<1> SUFFICES ASSUME Init PROVE IInv
  OBVIOUS
<1>1. NoFault /\ NobodyEarly /\ PendingCalls
  BY SessionAssumption DEF Init, NoFault, NobodyEarly, PendingCalls
<1>2. QED
  BY <1>1, InitInv DEF IInv

\* Together: a step of the orderly use preserves the invariant.
LEMMA NextInv ==
  ASSUME Adverse = {}, IInv, [Next]_vars
  PROVE  IInv'
<1>1. SessionHolds'
  BY NextSession DEF IInv
<1>2. CASE Next
  BY <1>1, <1>2, NextNoFault, NextNobodyEarly, NextPending DEF IInv
<1>3. CASE UNCHANGED vars
  BY <1>1, <1>3 DEF vars, IInv, NoFault, NobodyEarly, PendingCalls
<1>4. QED
  BY <1>2, <1>3

\* The inductive invariant holds in every state of the orderly use.
THEOREM Invariance == ASSUME Adverse = {} PROVE Spec => []IInv
<1>1. Init => IInv
  BY InitOrderly
<1>2. IInv /\ [Next]_vars => IInv'
  BY NextInv
<1>3. QED
  BY <1>1, <1>2, PTL DEF Spec

\* libdbus is never handed a null or a freed connection while senders wait for the session.
THEOREM NeverFaults == ASSUME Adverse = {} PROVE Spec => []NoFault
<1>1. IInv => NoFault
  BY DEF IInv
<1>2. QED
  BY <1>1, Invariance, PTL

-----------------------------------------------------------------------------
(***************************************************************************)
(* The contract                                                            *)
(***************************************************************************)

\* Where the main thread is tells the phase.
LEMMA PhaseIs ==
  ASSUME Discipline, TypeOK
  PROVE  /\ up => Phase = "up"
         /\ pc[Main] \in Connecting => Phase = "connecting"
         /\ pc[Main] \in Ending => Phase = "closing"
         /\ ~up /\ pc[Main] = "idle" => Phase = "down"
<1>1. up => pc[Main] \notin Connecting /\ pc[Main] \notin Ending
  BY DEF Discipline
<1>2. pc[Main] \in Connecting => pc[Main] \notin Ending
  OBVIOUS
<1>3. up \/ ~up
  OBVIOUS
<1>4. QED
  BY <1>1, <1>2, <1>3 DEF Phase

\* The same of the next state.
LEMMA PhaseNext ==
  ASSUME Discipline', TypeOK'
  PROVE  /\ up' => Phase' = "up"
         /\ pc'[Main] \in Connecting => Phase' = "connecting"
         /\ pc'[Main] \in Ending => Phase' = "closing"
         /\ ~up' /\ pc'[Main] = "idle" => Phase' = "down"
<1>1. up' => pc'[Main] \notin Connecting /\ pc'[Main] \notin Ending
  BY DEF Discipline
<1>2. pc'[Main] \in Connecting => pc'[Main] \notin Ending
  OBVIOUS
<1>4. QED
  BY <1>1, <1>2 DEF Phase

\* The listening thread is all there is, and its two connections.
LEMMA SetsAre ==
  ASSUME SessionHolds
  PROVE  /\ Threads = {rpcclient_thread_id_} \ {NULL}
         /\ Conns = {conn_[x] : x \in {y \in Role : conn_[y] # NULL /\ ~Dangling(y)}}
<1> USE SessionAssumption DEF SessionHolds, TypeOK
<1>1. Threads = {rpcclient_thread_id_} \ {NULL}
  BY DEF Threads, Listener
<1>2. Conns = {conn_[x] : x \in {y \in Role : conn_[y] # NULL /\ ~Dangling(y)}}
  BY DEF Conns, Connections
<1>3. QED
  BY <1>1, <1>2

\* A session that is down has nothing, after a step as well as before.
LEMMA DownNext ==
  ASSUME SessionHolds', ~up', pc'[Main] = "idle"
  PROVE  Conns' = {} /\ Threads' = {}
<1> USE SessionAssumption DEF SessionHolds, TypeOK
<1>1. \A x \in Role : conn_'[x] = NULL
  BY DEF Pointers
<1>2. rpcclient_thread_id_' = NULL
  BY DEF Listener
<1>3. QED
  BY <1>1, <1>2 DEF Conns, Threads, Connections, Listener

\* What the contract does not see is a stutter.
LEMMA Stutters ==
  ASSUME Phase' = Phase, Conns' = Conns, Threads' = Threads
  PROVE  [Contract!Next]_(Contract!vars)
  BY DEF Contract!vars

\* What changes neither connections nor threads does not change the contract's sets.
LEMMA SameSets ==
  ASSUME status' = status, wrk' = wrk
  PROVE  Conns' = Conns /\ Threads' = Threads
  BY DEF Conns, Threads, Live

\* Only the main thread is ever busy with a connect or a terminate.
LEMMA MainIsBusy ==
  ASSUME SessionHolds, NEW t \in Caller, pc[t] \in Connecting \cup Ending
  PROVE  t = Main /\ ~up
  BY DEF SessionHolds, Discipline

\* Setting terminated_ changes no phase and no set.
LEMMA SetTerminatedKeeps ==
  ASSUME SessionHolds, SessionHolds', NEW t \in Caller, SetTerminated(t)
  PROVE  [Contract!Next]_(Contract!vars)
<1>1. t = Main /\ pc[Main] = "term" /\ pc'[Main] = "join" /\ status' = status /\ wrk' = wrk
  BY MainIsBusy, SessionAssumption DEF SetTerminated, Goto, SessionHolds, TypeOK
<1>2. Phase = "closing" /\ Phase' = "closing"
  BY <1>1, PhaseIs, PhaseNext DEF SessionHolds
<1>3. QED
  BY <1>1, <1>2, SameSets, Stutters

\* The join takes the one thread away, while the session is closing.
LEMMA JoinListenerJoins ==
  ASSUME SessionHolds, SessionHolds', NEW t \in Caller, JoinListener(t)
  PROVE  [Contract!Next]_(Contract!vars)
<1>1. t = Main /\ pc[Main] = "join" /\ pc'[Main] = "release" /\ status' = status
  BY MainIsBusy, SessionAssumption DEF JoinListener, Goto, SessionHolds, TypeOK
<1>2. Phase = "closing" /\ Phase' = "closing"
  BY <1>1, PhaseIs, PhaseNext DEF SessionHolds
<1>3. Conns' = Conns
  BY <1>1 DEF Conns, Live
<1>4. rpcclient_thread_id_' = NULL
  BY <1>1, SessionAssumption DEF JoinListener, NobodyToJoin, SessionHolds, TypeOK, Listener
<1>5. Threads' = {}
  BY <1>4, SessionAssumption DEF SessionHolds, TypeOK, Listener, Threads
<1>6. Contract!JoinListener
  BY <1>2, <1>3, <1>5 DEF Contract!JoinListener
<1>7. QED
  BY <1>6 DEF Contract!Next

\* A terminate goes on, or is at its end, where nothing is left.
LEMMA TerminateGoesOn ==
  ASSUME SessionHolds, SessionHolds', ~up, ~up', status' = status, wrk' = wrk,
         pc[Main] \in Ending, pc'[Main] \in Ending \cup {"idle"}
  PROVE  [Contract!Next]_(Contract!vars)
<1>1. Phase = "closing"
  BY PhaseIs DEF SessionHolds
<1>2. Conns' = Conns /\ Threads' = Threads
  BY SameSets
<1>3. CASE pc'[Main] \in Ending
  <2>1. Phase' = "closing"
    BY <1>3, PhaseNext DEF SessionHolds
  <2>2. QED
    BY <1>1, <1>2, <2>1, Stutters
<1>4. CASE pc'[Main] = "idle"
  <2>1. Phase' = "down" /\ Conns' = {} /\ Threads' = {}
    BY <1>4, PhaseNext, DownNext DEF SessionHolds
  <2>2. Contract!End
    BY <1>1, <1>2, <2>1 DEF Contract!End
  <2>3. QED
    BY <2>2 DEF Contract!Next
<1>5. QED
  BY <1>3, <1>4

\* A terminate that has nothing to release for a role goes on, or is at its end.
LEMMA SkipReleaseEnds ==
  ASSUME SessionHolds, SessionHolds', NEW t \in Caller, SkipRelease(t)
  PROVE  [Contract!Next]_(Contract!vars)
<1>1. t = Main /\ pc[Main] = "release" /\ ~up /\ up' = up /\ status' = status /\ wrk' = wrk
  BY MainIsBusy DEF SkipRelease
<1>2. pc'[Main] \in Ending \cup {"idle"}
  BY <1>1, SessionAssumption
     DEF SkipRelease, NextRole, Goto, Returns, Terminate, SessionHolds, TypeOK
<1>3. QED
  BY <1>1, <1>2, TerminateGoesOn

\* Giving back a name is a stutter.
LEMMA ReleaseNameKeeps ==
  ASSUME SessionHolds, SessionHolds', NEW t \in Caller, ReleaseName(t)
  PROVE  [Contract!Next]_(Contract!vars)
<1>1. t = Main /\ pc[Main] = "release" /\ ~up /\ up' = up /\ status' = status /\ wrk' = wrk
  BY MainIsBusy DEF ReleaseName
<1>2. pc'[Main] = "close"
  BY <1>1, SessionAssumption DEF ReleaseName, Goto, SessionHolds, TypeOK
<1>3. QED
  BY <1>1, <1>2, TerminateGoesOn

\* The unref takes one connection away, after the thread is gone.
LEMMA CloseConnectionCloses ==
  ASSUME SessionHolds, SessionHolds', NEW t \in Caller, CloseConnection(t)
  PROVE  [Contract!Next]_(Contract!vars)
<1> DEFINE c == conn_[role[Main]]
<1>1. t = Main /\ pc[Main] = "close" /\ pc'[Main] = "clear" /\ wrk' = wrk
  BY MainIsBusy, SessionAssumption DEF CloseConnection, Goto, SessionHolds, TypeOK
<1>2. Phase = "closing" /\ Phase' = "closing"
  BY <1>1, PhaseIs, PhaseNext DEF SessionHolds
<1>3. c \in Conn /\ status' = [status EXCEPT ![c] = Released(c, pend)]
  BY <1>1, SessionAssumption DEF CloseConnection, Usable, SessionHolds, TypeOK
<1>4. status'[c] \in {"free", "closed"}
  BY <1>3 DEF Released, SessionHolds, TypeOK
<1>5. Conns' = Conns \ {c}
  BY <1>3, <1>4 DEF Conns, Live, SessionHolds, TypeOK
<1>6. Threads = {} /\ Threads' = Threads
  <2>1. rpcclient_thread_id_ = NULL
    BY <1>1, MainIsBusy DEF SessionHolds, Listener
  <2>2. QED
    BY <1>1, <2>1, SetsAre DEF Threads
<1>7. Contract!CloseConnection(c)
  BY <1>2, <1>5, <1>6 DEF Contract!CloseConnection
<1>8. QED
  BY <1>3, <1>7 DEF Contract!Next

\* Clearing a pointer lets a terminate go on, or is its end.
LEMMA ClearPointerEnds ==
  ASSUME SessionHolds, SessionHolds', NEW t \in Caller, ClearPointer(t)
  PROVE  [Contract!Next]_(Contract!vars)
<1>1. t = Main /\ pc[Main] = "clear" /\ ~up /\ up' = up /\ status' = status /\ wrk' = wrk
  BY MainIsBusy DEF ClearPointer
<1>2. pc'[Main] \in Ending \cup {"idle"}
  BY <1>1, SessionAssumption
     DEF ClearPointer, NextRole, Goto, Returns, Terminate, SessionHolds, TypeOK
<1>3. QED
  BY <1>1, <1>2, TerminateGoesOn

\* A connect goes on with the next connection, or gives up before a thread is made.
LEMMA ConnectGoesOn ==
  ASSUME SessionHolds, SessionHolds', pc[Main] \in Connecting, pc'[Main] \in Connecting,
         status' = status, wrk' = wrk
  PROVE  [Contract!Next]_(Contract!vars)
  BY PhaseIs, PhaseNext, SameSets, Stutters DEF SessionHolds

\* While a connect is before pthread_create, there is no thread.
LEMMA NoThreadYet ==
  ASSUME SessionHolds, pc[Main] \in Connecting \ {"flag"}
  PROVE  Threads = {}
<1>1. rpcclient_thread_id_ = NULL
  BY DEF SessionHolds, Listener, Discipline
<1>2. QED
  BY <1>1, SetsAre

\* A connect that fails begins to close.
LEMMA ConnectGivesUp ==
  ASSUME SessionHolds, SessionHolds', pc[Main] \in Connecting \ {"flag"}, pc'[Main] \in Ending,
         status' = status, wrk' = wrk
  PROVE  [Contract!Next]_(Contract!vars)
<1>1. Phase = "connecting" /\ Phase' = "closing"
  BY PhaseIs, PhaseNext DEF SessionHolds
<1>2. Contract!GiveUp
  BY <1>1, NoThreadYet, SameSets DEF Contract!GiveUp
<1>3. QED
  BY <1>2 DEF Contract!Next

\* A connect begins from down.
LEMMA InitSessionBegins ==
  ASSUME Patient, SessionHolds, SessionHolds', NEW t \in Caller, NEW arg, NEW proc,
         InitSession(t, arg, proc)
  PROVE  [Contract!Next]_(Contract!vars)
<1>1. t = Main /\ pc[Main] = "idle" /\ pc'[Main] = "open" /\ ~up
      /\ status' = status /\ wrk' = wrk
  BY SessionAssumption DEF InitSession, MayConnect, Ready, Enters, Goto, SessionHolds, TypeOK
<1>2. Phase = "down" /\ Phase' = "connecting"
  BY <1>1, PhaseIs, PhaseNext DEF SessionHolds
<1>3. Contract!BeginConnect
  BY <1>1, <1>2, SameSets DEF Contract!BeginConnect
<1>4. QED
  BY <1>3 DEF Contract!Next

\* A connect whose init fails is a stutter.
LEMMA InitFailsKeeps ==
  ASSUME Patient, SessionHolds, SessionHolds', NEW t \in Caller, NEW arg, NEW proc,
         InitFails(t, arg, proc)
  PROVE  [Contract!Next]_(Contract!vars)
<1>1. t = Main /\ pc[Main] = "idle" /\ pc'[Main] = "idle" /\ ~up /\ ~up'
      /\ status' = status /\ wrk' = wrk
  BY SessionAssumption DEF InitFails, MayConnect, Ready, Returns, Goto, SessionHolds, TypeOK
<1>2. Phase = "down" /\ Phase' = "down"
  BY <1>1, PhaseIs, PhaseNext DEF SessionHolds
<1>3. QED
  BY <1>1, <1>2, SameSets, Stutters

\* A pointer that is not null is taken for the connection: a stutter.
LEMMA ReuseConnectionKeeps ==
  ASSUME SessionHolds, SessionHolds', NEW t \in Caller, ReuseConnection(t)
  PROVE  [Contract!Next]_(Contract!vars)
<1>1. t = Main /\ pc[Main] = "open" /\ pc'[Main] \in Connecting /\ status' = status /\ wrk' = wrk
  BY MainIsBusy, SessionAssumption DEF ReuseConnection, Opened, Goto, SessionHolds, TypeOK
<1>2. QED
  BY <1>1, ConnectGoesOn

\* dbus_bus_get_private adds one connection, or the connect gives up.
LEMMA OpenConnectionOpens ==
  ASSUME SessionHolds, SessionHolds', NEW t \in Caller, OpenConnection(t)
  PROVE  [Contract!Next]_(Contract!vars)
<1>1. t = Main /\ pc[Main] = "open" /\ wrk' = wrk /\ conn_[role[Main]] = NULL
      /\ role[Main] \in Role
  BY MainIsBusy, SessionAssumption DEF OpenConnection, SessionHolds, TypeOK
<1>2. CASE Terminate(t, "fail") /\ UNCHANGED <<status, conn_>>
  <2>1. pc'[Main] = "term" /\ status' = status
    BY <1>1, <1>2, SessionAssumption DEF Terminate, Goto, SessionHolds, TypeOK
  <2>2. QED
    BY <1>1, <2>1, ConnectGivesUp
<1>3. ASSUME NEW c \in Conn, status[c] = "free", status' = [status EXCEPT ![c] = "open"],
             Goto(t, "name")
      PROVE  [Contract!Next]_(Contract!vars)
  <2>1. pc'[Main] = "name"
    BY <1>1, <1>3, SessionAssumption DEF Goto, SessionHolds, TypeOK
  <2>2. Phase = "connecting" /\ Phase' = "connecting"
    BY <1>1, <2>1, PhaseIs, PhaseNext DEF SessionHolds
  <2>3. c \notin Conns /\ Conns' = Conns \cup {c}
    BY <1>3 DEF Conns, Live, SessionHolds, TypeOK
  <2>4. \A a, b \in Conns : a = b
    <3>1. \E x \in Role : \A a \in Conns : a = conn_[x]
      <4>1. CASE role[Main] = "send"
        BY <1>1, <4>1, SetsAre
      <4>2. CASE role[Main] = "rec"
        BY <1>1, <4>2, SetsAre
      <4>3. QED
        BY <1>1, <4>1, <4>2
    <3>2. QED
      BY <3>1
  <2>5. Threads = {} /\ Threads' = Threads
    BY <1>1, NoThreadYet DEF Threads
  <2>6. Contract!OpenConnection(c)
    BY <2>2, <2>3, <2>4, <2>5 DEF Contract!OpenConnection
  <2>7. QED
    BY <2>6 DEF Contract!Next
<1>4. QED
  BY <1>2, <1>3 DEF OpenConnection

\* A granted name is a stutter.
LEMMA NameGrantedKeeps ==
  ASSUME SessionHolds, SessionHolds', NEW t \in Caller, NameGranted(t)
  PROVE  [Contract!Next]_(Contract!vars)
<1>1. t = Main /\ pc[Main] = "name" /\ pc'[Main] \in Connecting /\ status' = status /\ wrk' = wrk
  BY MainIsBusy, SessionAssumption DEF NameGranted, Opened, Goto, SessionHolds, TypeOK
<1>2. QED
  BY <1>1, ConnectGoesOn

\* A refused name makes the connect give up.
LEMMA NameRefusedGivesUp ==
  ASSUME SessionHolds, SessionHolds', NEW t \in Caller, NameRefused(t)
  PROVE  [Contract!Next]_(Contract!vars)
<1>1. t = Main /\ pc[Main] = "name" /\ pc'[Main] = "release" /\ status' = status /\ wrk' = wrk
  BY MainIsBusy, SessionAssumption DEF NameRefused, Undo, Goto, SessionHolds, TypeOK
<1>2. QED
  BY <1>1, ConnectGivesUp

\* The match rule is a stutter, or makes the connect give up.
LEMMA AddMatchGoesOn ==
  ASSUME SessionHolds, SessionHolds', NEW t \in Caller, AddMatch(t)
  PROVE  [Contract!Next]_(Contract!vars)
<1>1. t = Main /\ pc[Main] = "match" /\ pc'[Main] \in {"spawn", "term"}
      /\ status' = status /\ wrk' = wrk
  BY MainIsBusy, SessionAssumption DEF AddMatch, Terminate, Goto, SessionHolds, TypeOK
<1>2. QED
  BY <1>1, ConnectGoesOn, ConnectGivesUp

\* pthread_create adds the one thread, when both connections are there, or the connect gives up.
LEMMA CreateListenerCreates ==
  ASSUME SessionHolds, SessionHolds', NEW t \in Caller, CreateListener(t)
  PROVE  [Contract!Next]_(Contract!vars)
<1>1. t = Main /\ pc[Main] = "spawn" /\ status' = status
  BY MainIsBusy DEF CreateListener
<1>2. CASE NoThread(t) /\ UNCHANGED <<wrk, rpcclient_thread_id_>>
  <2>1. pc'[Main] = "term" /\ wrk' = wrk
    BY <1>1, <1>2, SessionAssumption DEF NoThread, Terminate, Goto, SessionHolds, TypeOK
  <2>2. QED
    BY <1>1, <2>1, ConnectGivesUp
<1>3. ASSUME NEW w \in Worker, wrk' = [wrk EXCEPT ![w] = "created"], Goto(t, "flag")
      PROVE  [Contract!Next]_(Contract!vars)
  <2>1. pc'[Main] = "flag"
    BY <1>1, <1>3, SessionAssumption DEF Goto, SessionHolds, TypeOK
  <2>2. Phase = "connecting" /\ Phase' = "connecting"
    BY <1>1, <2>1, PhaseIs, PhaseNext DEF SessionHolds
  <2>3. Threads = {}
    BY <1>1, NoThreadYet
  <2>4. Threads' = {w}
    BY <1>3, <2>3 DEF Threads, SessionHolds, TypeOK
  <2>5. conn_["send"] \in Conns /\ conn_["rec"] \in Conns /\ conn_["send"] # conn_["rec"]
    <3>1. \A x \in Role : conn_[x] # NULL /\ ~Dangling(x)
      BY <1>1 DEF SessionHolds, Pointers, Dangling
    <3>2. QED
      BY <3>1, SetsAre DEF SessionHolds, Connections
  <2>6. Contract!CreateListener(w)
    BY <1>1, <2>2, <2>3, <2>4, <2>5 DEF Contract!CreateListener, Conns, Live
  <2>7. QED
    BY <2>6 DEF Contract!Next
<1>4. QED
  BY <1>2, <1>3 DEF CreateListener

\* Setting connect_flag is the success of the connect.
LEMMA SetConnectedSucceeds ==
  ASSUME SessionHolds, SessionHolds', NEW t \in Caller, SetConnected(t)
  PROVE  [Contract!Next]_(Contract!vars)
<1>1. t = Main /\ pc[Main] = "flag" /\ up' /\ status' = status /\ wrk' = wrk
  BY MainIsBusy DEF SetConnected
<1>2. Phase = "connecting" /\ Phase' = "up"
  BY <1>1, PhaseIs, PhaseNext DEF SessionHolds
<1>3. Threads # {}
  BY <1>1, SetsAre DEF SessionHolds, Listener
<1>4. Contract!Succeed
  BY <1>1, <1>2, <1>3, SameSets DEF Contract!Succeed
<1>5. QED
  BY <1>4 DEF Contract!Next

\* libDbusDisconnect begins to close.
LEMMA DisconnectBegins ==
  ASSUME Patient, SessionHolds, SessionHolds', NEW t \in Caller, Disconnect(t)
  PROVE  [Contract!Next]_(Contract!vars)
<1>1. t = Main /\ pc[Main] = "idle" /\ ~up' /\ status' = status /\ wrk' = wrk
  BY DEF Disconnect, MayDisconnect, Ready
<1>2. Phase \in {"up", "down"}
  BY <1>1, PhaseIs DEF SessionHolds
<1>3. CASE connect_flag /\ Enters(t, "term")
  <2>1. pc'[Main] = "term"
    BY <1>1, <1>3, SessionAssumption DEF Enters, Goto, SessionHolds, TypeOK
  <2>2. Phase' = "closing"
    BY <2>1, PhaseNext DEF SessionHolds
  <2>3. Contract!BeginDisconnect
    BY <1>1, <1>2, <2>2, SameSets DEF Contract!BeginDisconnect
  <2>4. QED
    BY <2>3 DEF Contract!Next
<1>4. CASE ~connect_flag /\ Returns(t, "void")
  <2>1. pc'[Main] = "idle" /\ ~up
    BY <1>1, <1>4, SessionAssumption DEF Returns, Goto, SessionHolds, TypeOK, Discipline
  <2>2. Phase = "down" /\ Phase' = "down"
    BY <1>1, <2>1, PhaseIs, PhaseNext DEF SessionHolds
  <2>3. QED
    BY <1>1, <2>2, SameSets, Stutters
<1>5. QED
  BY <1>3, <1>4 DEF Disconnect

\* What the threads that send do, what the listener does and what the bus does leaves the
\* session where it is.
LEMMA OthersKeep ==
  ASSUME TypeOK, TypeOK', up' = up, Discipline, Discipline',
         \/ pc'[Main] = pc[Main]
         \/ {pc[Main], pc'[Main]} \subseteq Sending \cup {"idle"},
         \A c \in Conn : Live(c)' <=> Live(c),
         \A w \in Worker : wrk'[w] # "none" <=> wrk[w] # "none"
  PROVE  [Contract!Next]_(Contract!vars)
<1>1. Phase' = Phase
  BY DEF Phase
<1>2. Conns' = Conns /\ Threads' = Threads
  BY DEF Conns, Threads
<1>3. QED
  BY <1>1, <1>2, Stutters

\* Sending is a stutter.
LEMMA SendsKeep ==
  ASSUME SessionHolds, SessionHolds', NEW t \in Caller,
         \/ \E kind \in {"notice", "request"} : SendMessage(t, kind)
         \/ SendNotice(t) \/ FlushNotice(t) \/ SendRequest(t) \/ FlushRequest(t)
  PROVE  [Contract!Next]_(Contract!vars)
<1>1. up' = up /\ status' = status /\ wrk' = wrk
  BY DEF SendMessage, SendNotice, FlushNotice, SendRequest, FlushRequest
<1>2. \E l \in Sending \cup {"idle"} : pc' = [pc EXCEPT ![t] = l]
  <2>1. CASE \E kind \in {"notice", "request"} : SendMessage(t, kind)
    BY <2>1 DEF SendMessage, Enters, Returns, Goto
  <2>2. CASE SendNotice(t) \/ FlushNotice(t)
    BY <2>2 DEF SendNotice, FlushNotice, Returns, Goto
  <2>3. CASE SendRequest(t) \/ FlushRequest(t)
    BY <2>3 DEF SendRequest, FlushRequest, Returns, Goto
  <2>4. QED
    BY <2>1, <2>2, <2>3
<1>3. pc[t] \in Sending \cup {"idle"}
  BY DEF SendMessage, MaySend, Ready, SendNotice, FlushNotice, SendRequest, FlushRequest
<1>4. \/ pc'[Main] = pc[Main]
      \/ {pc[Main], pc'[Main]} \subseteq Sending \cup {"idle"}
  BY <1>2, <1>3, SessionAssumption DEF SessionHolds, TypeOK
<1>5. QED
  BY <1>1, <1>4, OthersKeep DEF SessionHolds, Live

\* The end of a wait is a stutter.
LEMMA AwaitReplyKeeps ==
  ASSUME SessionHolds, SessionHolds', NEW t \in Caller, AwaitReply(t)
  PROVE  [Contract!Next]_(Contract!vars)
<1>1. up' = up /\ wrk' = wrk
  BY DEF AwaitReply
<1>2. pc[t] = "block" /\ pc' = [pc EXCEPT ![t] = "idle"]
  BY DEF AwaitReply, Returns, Goto
<1>3. \/ pc'[Main] = pc[Main]
      \/ {pc[Main], pc'[Main]} \subseteq Sending \cup {"idle"}
  BY <1>2, SessionAssumption DEF SessionHolds, TypeOK
<1>4. \A c \in Conn : Live(c)' <=> Live(c)
  BY DEF AwaitReply, Released, Live, SessionHolds, TypeOK
<1>5. QED
  BY <1>1, <1>3, <1>4, OthersKeep DEF SessionHolds

\* What the listening thread does is a stutter.
LEMMA ListenerKeeps ==
  ASSUME SessionHolds, SessionHolds', NEW w \in Worker,
         \/ WorkerStarts(w) \/ WorkerPolls(w) \/ WorkerReads(w) \/ CallbackReturns(w)
         \/ WorkerReplies(w)
  PROVE  [Contract!Next]_(Contract!vars)
<1>1. up' = up /\ status' = status /\ pc' = pc
  BY DEF WorkerStarts, WorkerPolls, WorkerReads, CallbackReturns, WorkerReplies
<1>2. \A v \in Worker : wrk'[v] # "none" <=> wrk[v] # "none"
  BY DEF WorkerStarts, WorkerPolls, WorkerReads, CallbackReturns, WorkerReplies,
         SessionHolds, TypeOK
<1>3. QED
  BY <1>1, <1>2, OthersKeep DEF SessionHolds, Live

\* What the bus and other programs do is a stutter.
LEMMA WorldKeeps ==
  ASSUME SessionHolds, SessionHolds', World
  PROVE  [Contract!Next]_(Contract!vars)
<1>1. up' = up /\ wrk' = wrk /\ pc' = pc
  BY DEF World, BusCuts, OtherRequests, OtherReleases
<1>2. \A c \in Conn : Live(c)' <=> Live(c)
  <2>1. CASE \E c \in Conn : BusCuts(c)
    BY <2>1 DEF BusCuts, Live, SessionHolds, TypeOK
  <2>2. CASE \E o \in Other, n \in Name : OtherRequests(o, n) \/ OtherReleases(o, n)
    BY <2>2 DEF OtherRequests, OtherReleases, Live
  <2>3. QED
    BY <2>1, <2>2 DEF World
<1>3. QED
  BY <1>1, <1>2, OthersKeep DEF SessionHolds

\* A use of a bad pointer ends the program where it is.
LEMMA MisuseKeeps ==
  ASSUME UNCHANGED <<statics, bus, frames, workers, up>>
  PROVE  [Contract!Next]_(Contract!vars)
<1>1. Phase' = Phase
  BY DEF Phase, frames
<1>2. status' = status /\ wrk' = wrk
  BY DEF bus, workers
<1>3. QED
  BY <1>1, <1>2, SameSets, Stutters

\* Together: every step is a step of the contract, or the contract cannot see it.
LEMMA ContractNext ==
  ASSUME Patient, SessionHolds, SessionHolds', [Next]_vars
  PROVE  [Contract!Next]_(Contract!vars)
<1>1. ASSUME NEW t \in Caller, Call(t)
      PROVE  [Contract!Next]_(Contract!vars)
  BY <1>1, InitFailsKeeps, InitSessionBegins, DisconnectBegins, SendsKeep DEF Call
<1>2. ASSUME NEW t \in Caller, Step(t)
      PROVE  [Contract!Next]_(Contract!vars)
  BY <1>2, SetTerminatedKeeps, JoinListenerJoins, SkipReleaseEnds,
     ReleaseNameKeeps, CloseConnectionCloses, ClearPointerEnds, ReuseConnectionKeeps,
     OpenConnectionOpens, NameGrantedKeeps, NameRefusedGivesUp, AddMatchGoesOn,
     CreateListenerCreates, SetConnectedSucceeds, SendsKeep, AwaitReplyKeeps, MisuseKeeps
     DEF Step, CallerMisuses
<1>3. ASSUME NEW w \in Worker, Listen(w) \/ CallbackReturns(w)
      PROVE  [Contract!Next]_(Contract!vars)
  BY <1>3, ListenerKeeps, MisuseKeeps DEF Listen, WorkerMisuses
<1>4. CASE World
  BY <1>4, WorldKeeps
<1>5. CASE UNCHANGED vars
  <2>1. Phase' = Phase
    BY <1>5 DEF vars, Phase
  <2>2. QED
    BY <1>5, <2>1, SameSets, Stutters DEF vars
<1>6. QED
  BY <1>1, <1>2, <1>3, <1>4, <1>5 DEF Next, Process

\* Whoever sends, the session climbs the ladder of SessionContract and comes down it
\* again: nobody closes a connection under a listening thread, and a connect that fails
\* gives everything back.
THEOREM SessionImplementsContract ==
  ASSUME Patient PROVE Spec => ImplementsContract
<1>1. Init => Contract!Init
  <2>1. SUFFICES ASSUME Init PROVE Contract!Init
    OBVIOUS
  <2>2. Conns = {} /\ Threads = {}
    <3>1. \A c \in Conn : ~Live(c)
      BY <2>1 DEF Init, Live
    <3>2. \A w \in Worker : wrk[w] = "none"
      BY <2>1 DEF Init
    <3>3. QED
      BY <3>1, <3>2 DEF Conns, Threads
  <2>3. Phase = "down"
    <3>1. ~up /\ pc[Main] = "idle"
      BY <2>1, SessionAssumption DEF Init
    <3>2. SessionHolds
      BY <2>1, InitInv
    <3>3. QED
      BY <3>1, <3>2, PhaseIs DEF SessionHolds
  <2>4. QED
    BY <2>2, <2>3 DEF Contract!Init
<1>2. SessionHolds /\ SessionHolds' /\ [Next]_vars => [Contract!Next]_(Contract!vars)
  BY ContractNext
<1>3. QED
  BY <1>1, <1>2, SessionInvariance, PTL DEF Spec, ImplementsContract, Contract!Spec

-----------------------------------------------------------------------------
(***************************************************************************)
(* The send name, in any use that leaves the disconnect to the main thread *)
(***************************************************************************)

\* Only the main thread leaves the sending, unless a callback may disconnect.
LEMMA MainKeepsConnecting ==
  ASSUME "callback" \notin Adverse, TypeOK, OnlyMainConnects, [Next]_vars
  PROVE  OnlyMainConnects'
<1> USE SessionAssumption DEF TypeOK, OnlyMainConnects
<1>1. ASSUME NEW t \in Caller, Call(t)
      PROVE  OnlyMainConnects'
  <2>1. CASE \E arg \in Service \cup {NULL, Empty}, proc \in Callback \cup {NULL} :
               InitFails(t, arg, proc) \/ InitSession(t, arg, proc)
    BY <2>1 DEF InitFails, InitSession, MayConnect, Returns, Enters, Goto
  <2>2. CASE Disconnect(t)
    BY <2>2 DEF Disconnect, MayDisconnect, Returns, Enters, Goto
  <2>3. CASE \E kind \in {"notice", "request"} : SendMessage(t, kind)
    BY <2>3 DEF SendMessage, Returns, Enters, Goto
  <2>4. QED
    BY <1>1, <2>1, <2>2, <2>3 DEF Call
<1>2. ASSUME NEW t \in Caller, Step(t)
      PROVE  OnlyMainConnects'
  <2>1. CASE t = Main
    <3>1. pc' = pc \/ \E l \in Location : pc' = [pc EXCEPT ![Main] = l]
      <4>1. CASE SetTerminated(t) \/ JoinListener(t) \/ SkipRelease(t) \/ ReleaseName(t)
        BY <2>1, <4>1 DEF SetTerminated, JoinListener, SkipRelease, ReleaseName, NextRole,
                          Terminate, Returns, Goto, Location
      <4>2. CASE CloseConnection(t) \/ ClearPointer(t) \/ ReuseConnection(t)
                 \/ OpenConnection(t)
        BY <2>1, <4>2 DEF CloseConnection, ClearPointer, ReuseConnection, OpenConnection,
                          Opened, NextRole, Terminate, Returns, Goto, Location
      <4>3. CASE NameGranted(t) \/ NameRefused(t) \/ AddMatch(t) \/ CreateListener(t)
                 \/ SetConnected(t)
        BY <2>1, <4>3 DEF NameGranted, NameRefused, AddMatch, CreateListener, SetConnected,
                          Opened, Undo, NoThread, Terminate, Returns, Goto, Location
      <4>4. CASE SendNotice(t) \/ FlushNotice(t) \/ SendRequest(t) \/ FlushRequest(t)
                 \/ AwaitReply(t) \/ CallerMisuses(t)
        BY <2>1, <4>4 DEF SendNotice, FlushNotice, SendRequest, FlushRequest, AwaitReply,
                          CallerMisuses, Returns, Goto, Location
      <4>5. QED
        BY <1>2, <4>1, <4>2, <4>3, <4>4 DEF Step
    <3>2. QED
      BY <3>1
  <2>2. CASE t # Main
    <3>1. pc[t] \in Sending \cup {"idle"}
      BY <2>2
    <3>2. \/ SendNotice(t) \/ FlushNotice(t) \/ SendRequest(t) \/ FlushRequest(t)
          \/ AwaitReply(t) \/ CallerMisuses(t)
      BY <1>2, <3>1 DEF Step, SetTerminated, JoinListener, SkipRelease, ReleaseName,
                        CloseConnection, ClearPointer, ReuseConnection, OpenConnection,
                        NameGranted, NameRefused, AddMatch, CreateListener, SetConnected
    <3>3. pc' = pc \/ \E l \in Sending \cup {"idle"} : pc' = [pc EXCEPT ![t] = l]
      BY <3>2 DEF SendNotice, FlushNotice, SendRequest, FlushRequest, AwaitReply,
                  CallerMisuses, Returns, Goto
    <3>4. QED
      BY <3>3
  <2>3. QED
    BY <2>1, <2>2
<1>3. ASSUME NEW w \in Worker, Listen(w) \/ CallbackReturns(w)
      PROVE  OnlyMainConnects'
  BY <1>3 DEF Listen, WorkerStarts, WorkerPolls, WorkerReads, WorkerReplies, WorkerMisuses,
              CallbackReturns
<1>4. CASE World
  BY <1>4 DEF World, BusCuts, OtherRequests, OtherReleases
<1>5. CASE UNCHANGED vars
  BY <1>5 DEF vars
<1>6. QED
  BY <1>1, <1>2, <1>3, <1>4, <1>5 DEF Next, Process

\* No step that leaves connect_send_ alone and gives a connection no name can hide a send name.
LEMMA FewerNames ==
  ASSUME SInv, TypeOK', OnlyMainConnects',
         \A n \in Name, c \in Conn : Holds(c, n)' => Holds(c, n) /\ status'[c] = "open",
         \A n \in Name : owner'[n] \notin queue'[n],
         conn_'["send"] = conn_["send"],
         \/ pc'[Main] \notin {"name", "clear"}
         \/ pc'[Main] = pc[Main] /\ role'[Main] = role[Main] /\ conn_' = conn_
  PROVE  SInv'
<1> USE SessionAssumption DEF SInv
<1>1. OneName'
  BY DEF OneName
<1>2. SendNameReachable'
  BY DEF SendNameReachable, TypeOK
<1>3. Nameless'
  <2>1. CASE pc'[Main] \notin {"name", "clear"}
    BY <2>1 DEF Nameless
  <2>2. CASE pc'[Main] \in {"name", "clear"}
    <3>1. pc'[Main] = pc[Main] /\ role'[Main] = role[Main] /\ conn_' = conn_
      BY <2>2
    <3>2. conn_[role[Main]] \in Conn
      BY <2>2, <3>1, SessionAssumption DEF Nameless, TypeOK
    <3>3. QED
      BY <2>2, <3>1, <3>2 DEF Nameless, Holds
  <2>3. QED
    BY <2>1, <2>2
<1>4. QED
  BY <1>1, <1>2, <1>3

\* A step that changes neither names nor connect_send_ keeps the invariant.
LEMMA SameNames ==
  ASSUME SInv, TypeOK', OnlyMainConnects', owner' = owner, queue' = queue,
         \A c \in Conn : status[c] = "open" => status'[c] = "open",
         conn_'["send"] = conn_["send"],
         \/ pc'[Main] \notin {"name", "clear"}
         \/ pc'[Main] = pc[Main] /\ role'[Main] = role[Main] /\ conn_' = conn_
  PROVE  SInv'
<1>1. \A n \in Name, c \in Conn : Holds(c, n)' => Holds(c, n) /\ status'[c] = "open"
  BY DEF Holds, SInv, OneName
<1>2. \A n \in Name : owner'[n] \notin queue'[n]
  BY DEF SInv, OneName
<1>3. QED
  BY <1>1, <1>2, FewerNames

\* A connection that gives up its names has none left.
LEMMA WithdrawAll ==
  ASSUME TypeOK, OneName, NEW c \in Conn, Withdraw(c, Name)
  PROVE  /\ \A n \in Name : ~Holds(c, n)'
         /\ \A n \in Name, x \in Conn : Holds(x, n)' => Holds(x, n)
         /\ \A n \in Name : owner'[n] \notin queue'[n]
<1> USE SessionAssumption DEF TypeOK
<1>1. /\ \A n \in Name, x \in Conn \cup Other : Holds(x, n)' => Holds(x, n)
      /\ \A n \in Name : owner'[n] \notin queue'[n]
  <2> HIDE DEF TypeOK
  <2>1. QED
    BY WithdrawDrops DEF OneName
<1>2. ASSUME NEW n \in Name
      PROVE  ~Holds(c, n)'
  <2>1. CASE \A m \in Name : c # owner[m] /\ c \notin queue[m]
    BY <2>1, <1>1 DEF Holds
  <2>2. ASSUME NEW m \in Name, c = owner[m], NEW heir \in Heirs(m),
               owner' = [owner EXCEPT ![m] = heir], queue' = [queue EXCEPT ![m] = @ \ {heir}]
        PROVE  ~Holds(c, n)'
    <3>1. heir # c /\ c \notin queue[m]
      BY <2>2 DEF Heirs, OneName
    <3>2. ~Holds(c, m)'
      BY <2>2, <3>1 DEF Holds
    <3>3. n # m => ~Holds(c, n)
      BY <2>2 DEF OneName, Holds
    <3>4. QED
      BY <1>1, <3>2, <3>3
  <2>3. ASSUME NEW m \in Name, c \in queue[m], queue' = [queue EXCEPT ![m] = @ \ {c}],
               owner' = owner
        PROVE  ~Holds(c, n)'
    <3>1. owner[m] # c
      BY <2>3 DEF OneName
    <3>2. ~Holds(c, m)'
      BY <2>3, <3>1 DEF Holds
    <3>3. n # m => ~Holds(c, n)
      BY <2>3 DEF OneName, Holds
    <3>4. QED
      BY <1>1, <3>2, <3>3
  <2>4. QED
    BY <2>1, <2>2, <2>3 DEF Withdraw
<1>3. QED
  BY <1>1, <1>2

\* A new connection holds no name, so none is lost when the pointer takes it.
LEMMA OpenConnectionSend ==
  ASSUME SInv, TypeOK', OnlyMainConnects', NEW t \in Caller, OpenConnection(t)
  PROVE  SInv'
<1> USE SessionAssumption DEF TypeOK
<1>1. t = Main /\ pc[Main] = "open" /\ conn_[role[Main]] = NULL /\ owner' = owner
      /\ queue' = queue /\ role' = role
  BY DEF OpenConnection, SInv, OnlyMainConnects
<1>2. CASE Terminate(t, "fail") /\ UNCHANGED <<status, conn_>>
  <2>1. pc'[Main] = "term"
    BY <1>1, <1>2 DEF Terminate, Goto, SInv
  <2>2. QED
    BY <1>1, <1>2, <2>1, SameNames
<1>3. ASSUME NEW c \in Conn, status[c] = "free", status' = [status EXCEPT ![c] = "open"],
             conn_' = [conn_ EXCEPT ![role[t]] = c], Goto(t, "name")
      PROVE  SInv'
  <2>1. \A n \in Name, x \in Conn : Holds(x, n)' <=> Holds(x, n)
    BY <1>1 DEF Holds
  <2>2. \A n \in Name : ~Holds(c, n)
    BY <1>3 DEF SInv, OneName
  <2>3. OneName'
    BY <1>1, <1>3, <2>1 DEF SInv, OneName
  <2>4. conn_'[role'[Main]] = c
    BY <1>1, <1>3 DEF SInv
  <2>5. Nameless'
    BY <1>1, <2>2, <2>4 DEF Nameless, Holds
  <2>6. SendNameReachable'
    <3>1. SUFFICES ASSUME NEW s \in Service, NEW x \in Conn, Holds(x, SendName[s])'
                   PROVE  conn_'["send"] = x
      BY DEF SendNameReachable
    <3>2. SendName[s] \in Name /\ Holds(x, SendName[s])
      BY <2>1, <3>1
    <3>3. conn_["send"] = x
      BY <3>2 DEF SInv, SendNameReachable
    <3>4. role[Main] # "send"
      BY <1>1, <3>3
    <3>5. QED
      BY <1>1, <1>3, <3>3, <3>4 DEF SInv
  <2>7. QED
    BY <2>3, <2>5, <2>6 DEF SInv
<1>4. QED
  BY <1>2, <1>3 DEF OpenConnection

\* Closing a connection withdraws what it held.
LEMMA CloseConnectionSend ==
  ASSUME SInv, TypeOK', OnlyMainConnects', NEW t \in Caller, CloseConnection(t)
  PROVE  SInv'
<1>1. t = Main /\ pc[Main] = "close" /\ pc'[Main] = "clear" /\ role' = role /\ conn_' = conn_
  BY SessionAssumption DEF CloseConnection, Goto, SInv, OnlyMainConnects, TypeOK
<1>2. PICK c \in Conn : c = conn_[role[Main]]
  BY <1>1, SessionAssumption DEF CloseConnection, Usable, SInv, TypeOK
<1>3. status' = [status EXCEPT ![c] = Released(c, pend)] /\ Withdraw(c, Name)
  BY <1>1, <1>2 DEF CloseConnection
<1>4. /\ \A n \in Name : ~Holds(c, n)'
      /\ \A n \in Name, x \in Conn : Holds(x, n)' => Holds(x, n)
      /\ \A n \in Name : owner'[n] \notin queue'[n]
  BY <1>3, WithdrawAll DEF SInv
<1>5. OneName'
  <2>1. \A x \in Conn : x # c => status'[x] = status[x]
    BY <1>3 DEF SInv, TypeOK
  <2>2. QED
    BY <1>4, <2>1 DEF SInv, OneName
<1>6. Nameless'
  BY <1>1, <1>2, <1>4, SessionAssumption DEF Nameless, Holds
<1>7. SendNameReachable'
  BY <1>1, <1>4, SessionAssumption DEF SInv, SendNameReachable
<1>8. QED
  BY <1>5, <1>6, <1>7 DEF SInv

\* The pointer is cleared when its connection holds nothing any more.
LEMMA ClearPointerSend ==
  ASSUME SInv, TypeOK', OnlyMainConnects', NEW t \in Caller, ClearPointer(t)
  PROVE  SInv'
<1> USE SessionAssumption DEF TypeOK
<1>1. t = Main /\ pc[Main] = "clear" /\ pc'[Main] \in {"term", "release", "idle"}
      /\ conn_' = [conn_ EXCEPT ![role[Main]] = NULL]
      /\ status' = status /\ owner' = owner /\ queue' = queue
  <2>1. t = Main /\ pc[Main] = "clear"
    BY DEF ClearPointer, SInv, OnlyMainConnects
  <2>2. pc'[Main] \in {"term", "release", "idle"}
    BY <2>1 DEF ClearPointer, NextRole, Terminate, Returns, Goto, SInv
  <2>3. QED
    BY <2>1, <2>2 DEF ClearPointer
<1>2. \A n \in Name, x \in Conn : Holds(x, n)' <=> Holds(x, n)
  BY <1>1 DEF Holds
<1>3. OneName'
  BY <1>1, <1>2 DEF SInv, OneName
<1>4. Nameless'
  BY <1>1 DEF Nameless
<1>5. SendNameReachable'
  <2>1. SUFFICES ASSUME NEW s \in Service, NEW x \in Conn, Holds(x, SendName[s])'
                 PROVE  conn_'["send"] = x
    BY DEF SendNameReachable
  <2>2. SendName[s] \in Name /\ Holds(x, SendName[s])
    BY <1>2, <2>1
  <2>3. conn_["send"] = x
    BY <2>2 DEF SInv, SendNameReachable
  <2>4. role[Main] # "send"
    BY <1>1, <2>2, <2>3 DEF SInv, Nameless
  <2>5. QED
    BY <1>1, <2>3, <2>4 DEF SInv
<1>6. QED
  BY <1>3, <1>4, <1>5 DEF SInv

\* A send name is granted to the connection that connect_send_ points to.
LEMMA NameGrantedSend ==
  ASSUME \A s \in Service : SendName[s] \notin Service,
         SInv, TypeOK', OnlyMainConnects', NEW t \in Caller, NameGranted(t)
  PROVE  SInv'
<1>1. t = Main /\ pc[Main] = "name" /\ conn_' = conn_ /\ status' = status
  BY DEF NameGranted, SInv, OnlyMainConnects
<1>2. PICK c \in Conn, k \in Role : c = conn_[k] /\ k = role[Main] /\ status[c] = "open"
  BY <1>1, SessionAssumption DEF NameGranted, Usable, SInv, TypeOK
<1>3. PICK n : n = BusName(k) /\ Granted(c, n) /\ owner' = [owner EXCEPT ![n] = c]
               /\ queue' = [queue EXCEPT ![n] = @ \cup ({owner[n]} \cap Yields)]
  BY <1>1, <1>2 DEF NameGranted, BusName
<1>4. pc'[Main] \in {"open", "match"}
  BY <1>1, SessionAssumption DEF NameGranted, Opened, Goto, SInv, TypeOK
<1>5. \A m \in Name : ~Holds(c, m)
  BY <1>1, <1>2 DEF SInv, Nameless
<1>6. \A m \in Name, x \in Conn : Holds(x, m)' => Holds(x, m) \/ (x = c /\ m = n)
  BY <1>3, SessionAssumption DEF Holds, SInv, TypeOK
<1>7. \A m \in Name : owner'[m] \notin queue'[m]
  BY <1>3, <1>5, SessionAssumption DEF Holds, SInv, OneName, TypeOK
<1>8. OneName'
  BY <1>1, <1>2, <1>5, <1>6, <1>7 DEF SInv, OneName
<1>9. Nameless'
  BY <1>4 DEF Nameless
<1>10. SendNameReachable'
  <2>1. SUFFICES ASSUME NEW s \in Service, NEW x \in Conn, Holds(x, SendName[s])'
                 PROVE  conn_["send"] = x
    BY <1>1 DEF SendNameReachable
  <2>2. SendName[s] \in Name
    BY SessionAssumption
  <2>3. CASE Holds(x, SendName[s])
    BY <2>3 DEF SInv, SendNameReachable
  <2>4. CASE x = c /\ SendName[s] = n
    <3>1. k # "rec"
      BY <1>3, <2>2, <2>4, SessionAssumption DEF BusName, SInv, TypeOK
    <3>2. QED
      BY <1>2, <2>4, <3>1
  <2>5. QED
    BY <1>6, <2>1, <2>2, <2>3, <2>4
<1>11. QED
  BY <1>8, <1>9, <1>10 DEF SInv

\* A place in the queue of a send name is one of connect_send_ too.
LEMMA NameRefusedSend ==
  ASSUME \A s \in Service : SendName[s] \notin Service,
         SInv, TypeOK', OnlyMainConnects', NEW t \in Caller, NameRefused(t)
  PROVE  SInv'
<1>1. t = Main /\ pc[Main] = "name" /\ pc'[Main] = "release"
      /\ conn_' = conn_ /\ status' = status /\ owner' = owner
  BY SessionAssumption DEF NameRefused, Undo, Goto, SInv, OnlyMainConnects, TypeOK
<1>2. PICK c \in Conn, k \in Role : c = conn_[k] /\ k = role[Main]
  BY <1>1, SessionAssumption DEF NameRefused, Usable, SInv, TypeOK
<1>3. CASE queue' = queue
  BY <1>1, <1>3, SameNames
<1>4. ASSUME NEW n, n = BusName(k), status[c] = "open", ~Granted(c, n),
             queue' = [queue EXCEPT ![n] = @ \cup {c}]
      PROVE  SInv'
  <2>1. \A m \in Name : ~Holds(c, m)
    BY <1>1, <1>2 DEF SInv, Nameless
  <2>2. \A m \in Name, x \in Conn : Holds(x, m)' => Holds(x, m) \/ (x = c /\ m = n)
    BY <1>1, <1>4, SessionAssumption DEF Holds, SInv, TypeOK
  <2>3. \A m \in Name : owner'[m] \notin queue'[m]
    BY <1>1, <1>4, <2>1, SessionAssumption DEF Holds, SInv, OneName, TypeOK
  <2>4. OneName'
    BY <1>1, <1>4, <2>1, <2>2, <2>3 DEF SInv, OneName
  <2>5. Nameless'
    BY <1>1 DEF Nameless
  <2>6. SendNameReachable'
    <3>1. SUFFICES ASSUME NEW s \in Service, NEW x \in Conn, Holds(x, SendName[s])'
                   PROVE  conn_["send"] = x
      BY <1>1 DEF SendNameReachable
    <3>2. SendName[s] \in Name
      BY SessionAssumption
    <3>3. CASE Holds(x, SendName[s])
      BY <3>3 DEF SInv, SendNameReachable
    <3>4. CASE x = c /\ SendName[s] = n
      <4>1. k # "rec"
        BY <1>4, <3>2, <3>4, SessionAssumption DEF BusName, SInv, TypeOK
      <4>2. QED
        BY <1>2, <3>4, <4>1
    <3>5. QED
      BY <2>2, <3>1, <3>2, <3>3, <3>4
  <2>7. QED
    BY <2>4, <2>5, <2>6 DEF SInv
<1>5. QED
  BY <1>1, <1>2, <1>3, <1>4 DEF NameRefused, BusName

\* Releasing a name takes it from one connection and gives it to an heir that waited for it.
LEMMA ReleaseNameSend ==
  ASSUME SInv, TypeOK', OnlyMainConnects', NEW t \in Caller, ReleaseName(t)
  PROVE  SInv'
<1>1. t = Main /\ pc'[Main] = "close" /\ conn_' = conn_ /\ status' = status
  BY SessionAssumption DEF ReleaseName, Goto, SInv, OnlyMainConnects, TypeOK
<1>2. PICK c \in Conn : c = conn_[role[Main]]
  BY <1>1, SessionAssumption DEF ReleaseName, Usable, SInv, TypeOK
<1>3. PICK n : n = BusName(role[Main]) /\ Withdraw(c, {n})
  BY <1>1, <1>2 DEF ReleaseName
<1>4. /\ \A m \in Name, x \in Conn : Holds(x, m)' => Holds(x, m)
      /\ \A m \in Name : owner'[m] \notin queue'[m]
  <2>1. CASE n \in Name
    <3>1. {n} \in SUBSET Name /\ c \in Conn \cup Other
      BY <2>1
    <3>2. QED
      BY <1>3, <3>1, WithdrawDrops DEF SInv, OneName
  <2>2. CASE n \notin Name
    <3>1. \A m \in Name : owner'[m] = owner[m] /\ queue'[m] = queue[m]
      BY <1>3, <2>2 DEF Withdraw, SInv, TypeOK
    <3>2. QED
      BY <3>1 DEF SInv, OneName, Holds
  <2>3. QED
    BY <2>1, <2>2
<1>5. \A m \in Name, x \in Conn : Holds(x, m)' => Holds(x, m) /\ status'[x] = "open"
  BY <1>1, <1>4 DEF SInv, OneName
<1>6. QED
  BY <1>1, <1>4, <1>5, FewerNames

\* The end of a wait changes no name.
LEMMA AwaitReplySend ==
  ASSUME SInv, TypeOK', OnlyMainConnects', NEW t \in Caller, AwaitReply(t)
  PROVE  SInv'
<1>1. pc[t] = "block" /\ pc' = [pc EXCEPT ![t] = "idle"]
  BY DEF AwaitReply, Returns, Goto
<1>2. conn_' = conn_ /\ role' = role /\ owner' = owner /\ queue' = queue
  BY DEF AwaitReply
<1>3. \A c \in Conn : status[c] = "open" => status'[c] = "open"
  BY DEF AwaitReply, SInv, TypeOK
<1>4. pc'[Main] \notin {"name", "clear"} \/ pc'[Main] = pc[Main]
  BY <1>1, SessionAssumption DEF SInv, TypeOK
<1>5. QED
  BY <1>2, <1>3, <1>4, SameNames

\* The steps of the main thread that change neither a name nor connect_send_.
LEMMA OtherStepsSend ==
  ASSUME SInv, TypeOK', OnlyMainConnects', NEW t \in Caller,
         \/ SetTerminated(t) \/ JoinListener(t) \/ SkipRelease(t) \/ ReuseConnection(t)
         \/ AddMatch(t) \/ CreateListener(t) \/ SetConnected(t)
  PROVE  SInv'
<1>1. t = Main
  BY DEF SetTerminated, JoinListener, SkipRelease, ReuseConnection, AddMatch, CreateListener,
         SetConnected, SInv, OnlyMainConnects
<1>2. conn_' = conn_ /\ status' = status /\ owner' = owner /\ queue' = queue
  BY DEF SetTerminated, JoinListener, SkipRelease, ReuseConnection, AddMatch, CreateListener,
         SetConnected
<1>3. pc'[Main] \notin {"name", "clear"}
  BY <1>1, SessionAssumption
     DEF SetTerminated, JoinListener, SkipRelease, ReuseConnection, AddMatch, CreateListener,
         SetConnected, NextRole, Opened, NoThread, Terminate, Returns, Goto, SInv, TypeOK
<1>4. QED
  BY <1>2, <1>3, SameNames

\* Sending changes no name.
LEMMA SendsSend ==
  ASSUME SInv, TypeOK', OnlyMainConnects', NEW t \in Caller,
         \/ \E kind \in {"notice", "request"} : SendMessage(t, kind)
         \/ SendNotice(t) \/ FlushNotice(t) \/ SendRequest(t) \/ FlushRequest(t)
         \/ CallerMisuses(t)
  PROVE  SInv'
<1>1. conn_' = conn_ /\ status' = status /\ owner' = owner /\ queue' = queue /\ role' = role
  BY DEF SendMessage, SendNotice, FlushNotice, SendRequest, FlushRequest, CallerMisuses
<1>2. pc' = pc \/ \E l \in Sending \cup {"idle"} : pc' = [pc EXCEPT ![t] = l]
  <2>1. CASE \E kind \in {"notice", "request"} : SendMessage(t, kind)
    BY <2>1 DEF SendMessage, Enters, Returns, Goto
  <2>2. CASE SendNotice(t) \/ FlushNotice(t) \/ CallerMisuses(t)
    BY <2>2 DEF SendNotice, FlushNotice, CallerMisuses, Returns, Goto
  <2>3. CASE SendRequest(t) \/ FlushRequest(t)
    BY <2>3 DEF SendRequest, FlushRequest, Returns, Goto
  <2>4. QED
    BY <2>1, <2>2, <2>3
<1>3. pc'[Main] \notin {"name", "clear"} \/ pc'[Main] = pc[Main]
  BY <1>2, SessionAssumption DEF SInv, TypeOK
<1>4. QED
  BY <1>1, <1>3, SameNames

\* A call that begins changes no name; a second connect keeps connect_send_.
LEMMA CallSend ==
  ASSUME SInv, TypeOK', OnlyMainConnects', NEW t \in Caller, Call(t)
  PROVE  SInv'
<1>1. ASSUME NEW arg, NEW proc,
         InitFails(t, arg, proc) \/ InitSession(t, arg, proc)
      PROVE  SInv'
  <2>1. conn_'["send"] = conn_["send"] /\ status' = status /\ owner' = owner /\ queue' = queue
    BY <1>1 DEF InitFails, InitSession, Rebuilt, SInv, TypeOK
  <2>2. pc'[Main] \in {"idle", "open"}
    BY <1>1, SessionAssumption
       DEF InitFails, InitSession, MayConnect, Returns, Enters, Goto, SInv, TypeOK
  <2>3. QED
    BY <2>1, <2>2, SameNames
<1>2. CASE Disconnect(t)
  <2>1. conn_' = conn_ /\ status' = status /\ owner' = owner /\ queue' = queue /\ role' = role
    BY <1>2 DEF Disconnect
  <2>2. pc'[Main] \notin {"name", "clear"} \/ pc'[Main] = pc[Main]
    BY <1>2, SessionAssumption DEF Disconnect, Returns, Enters, Goto, SInv, TypeOK
  <2>3. QED
    BY <2>1, <2>2, SameNames
<1>3. QED
  BY <1>1, <1>2, SendsSend DEF Call

\* The listening thread changes no name.
LEMMA ListenerSend ==
  ASSUME SInv, TypeOK', OnlyMainConnects', NEW w \in Worker, Listen(w) \/ CallbackReturns(w)
  PROVE  SInv'
<1>1. conn_' = conn_ /\ status' = status /\ owner' = owner /\ queue' = queue /\ role' = role
      /\ pc' = pc
  BY DEF Listen, WorkerStarts, WorkerPolls, WorkerReads, WorkerReplies, WorkerMisuses,
         CallbackReturns
<1>2. QED
  BY <1>1, SameNames

\* A cut connection holds nothing, and other programs move names only among those who wait.
LEMMA WorldSend ==
  ASSUME SInv, TypeOK', OnlyMainConnects', World
  PROVE  SInv'
<1>1. conn_' = conn_ /\ role' = role /\ pc' = pc
  BY DEF World, BusCuts, OtherRequests, OtherReleases
<1>2. ASSUME NEW c \in Conn, BusCuts(c)
      PROVE  SInv'
  <2>1. /\ \A n \in Name : ~Holds(c, n)'
        /\ \A n \in Name, x \in Conn : Holds(x, n)' => Holds(x, n)
        /\ \A n \in Name : owner'[n] \notin queue'[n]
    BY <1>2, WithdrawAll DEF BusCuts, SInv
  <2>2. \A x \in Conn : x # c => status'[x] = status[x]
    BY <1>2 DEF BusCuts, SInv, TypeOK
  <2>3. \A n \in Name, x \in Conn : Holds(x, n)' => Holds(x, n) /\ status'[x] = "open"
    BY <2>1, <2>2 DEF SInv, OneName
  <2>4. QED
    BY <1>1, <2>1, <2>3, FewerNames
<1>3. ASSUME NEW o \in Other, NEW n \in Name, OtherRequests(o, n)
      PROVE  SInv'
  <2>1. \A m \in Name, x \in Conn : Holds(x, m)' => Holds(x, m)
    BY <1>3, SessionAssumption DEF OtherRequests, Holds, SInv, TypeOK
  <2>2. \A m \in Name : owner'[m] \notin queue'[m]
    <3>1. o # owner[n] /\ o \notin queue[n] /\ \A m \in Name : owner[m] \notin queue[m]
      BY <1>3 DEF OtherRequests, SInv, OneName
    <3>2. CASE owner' = [owner EXCEPT ![n] = o] /\ UNCHANGED queue
      BY <3>1, <3>2 DEF SInv, TypeOK
    <3>3. CASE queue' = [queue EXCEPT ![n] = @ \cup {o}] /\ UNCHANGED owner
      BY <3>1, <3>3 DEF SInv, TypeOK
    <3>4. QED
      BY <1>3, <3>2, <3>3 DEF OtherRequests
  <2>3. \A m \in Name, x \in Conn : Holds(x, m)' => Holds(x, m) /\ status'[x] = "open"
    BY <1>3, <2>1 DEF OtherRequests, SInv, OneName
  <2>4. QED
    BY <1>1, <2>2, <2>3, FewerNames
<1>4. ASSUME NEW o \in Other, NEW n \in Name, OtherReleases(o, n)
      PROVE  SInv'
  <2>1. /\ \A m \in Name, x \in Conn \cup Other : Holds(x, m)' => Holds(x, m)
        /\ \A m \in Name : owner'[m] \notin queue'[m]
    BY <1>4, WithdrawDrops DEF OtherReleases, SInv, OneName
  <2>2. \A m \in Name, x \in Conn : Holds(x, m)' => Holds(x, m) /\ status'[x] = "open"
    BY <1>4, <2>1 DEF OtherReleases, SInv, OneName
  <2>3. QED
    BY <1>1, <2>1, <2>2, FewerNames
<1>5. QED
  BY <1>2, <1>3, <1>4 DEF World

\* The send name stays within reach of terminate(), for every application that leaves the
\* disconnect to its main thread, where no send name is a service's own name.
THEOREM SendNameStaysReachable ==
  ASSUME "callback" \notin Adverse, \A s \in Service : SendName[s] \notin Service
  PROVE  Spec => []SendNameReachable
<1>1. Init => SInv
  <2>1. SUFFICES ASSUME Init PROVE SInv
    OBVIOUS
  <2>2. TypeOK
    BY <2>1, InitType
  <2>3. \A n \in Name, c \in Conn : ~Holds(c, n)
    BY <2>1, SessionAssumption DEF Init, Holds
  <2>4. OnlyMainConnects
    BY <2>1 DEF Init, OnlyMainConnects
  <2>5. OneName /\ SendNameReachable
    BY <2>1, <2>3, SessionAssumption DEF Init, OneName, SendNameReachable
  <2>6. Nameless
    BY <2>1, SessionAssumption DEF Init, Nameless
  <2>7. QED
    BY <2>2, <2>4, <2>5, <2>6 DEF SInv
<1>2. SInv /\ [Next]_vars => SInv'
  <2>1. SUFFICES ASSUME SInv, [Next]_vars PROVE SInv'
    OBVIOUS
  <2>2. TypeOK' /\ OnlyMainConnects'
    BY <2>1, NextType, MainKeepsConnecting DEF SInv
  <2>3. ASSUME NEW t \in Caller, Step(t)
        PROVE  SInv'
    BY <2>1, <2>2, <2>3, ReleaseNameSend, CloseConnectionSend, ClearPointerSend, OpenConnectionSend,
       NameGrantedSend, NameRefusedSend, AwaitReplySend, OtherStepsSend, SendsSend
       DEF Step
  <2>4. CASE UNCHANGED vars
    BY <2>1, <2>2, <2>4, SameNames DEF vars
  <2>5. QED
    BY <2>1, <2>2, <2>3, <2>4, CallSend, ListenerSend, WorldSend DEF Next, Process
<1>3. SInv => SendNameReachable
  BY DEF SInv
<1>4. QED
  BY <1>1, <1>2, <1>3, PTL DEF Spec
=============================================================================
