------------------------------- MODULE Calls -------------------------------
(***************************************************************************)
(* Requests and notices between processes that use the library: from       *)
(* libDbusSendMessage through the sender's send connection, the bus daemon *)
(* and the receiver's listening connection to run(), replyToMessage() and  *)
(* the callback, and the answer all the way back.                          *)
(*                                                                         *)
(* A process provides one service, which is named after it.  How a session *)
(* is set up and torn down, and what happens when the bus cuts it, is      *)
(* module Session's subject; here a process connects in one step,          *)
(* disconnects in two (terminate() waits for the listening thread) and may *)
(* crash.  A message is its number; its text is a member of Outcome.       *)
(***************************************************************************)
EXTENDS Naturals, Sequences

CONSTANTS
  Proc,         \* processes, each also standing for its listening thread
  Client,       \* application threads
  Home,         \* Home[t] is the process of thread t
  Outcome,      \* what a callback can return: a code and a payload
  Crashing,     \* the processes that may crash
  Foreign,      \* what other programs put in a listening connection's inbox
  MaxSent,      \* bound on the messages sent
  MaxSessions,  \* bound on the sessions a process has
  MaxForeign,   \* bound on the messages of other programs
  NULL

Thread == Client \cup Proc
ProcessOf(t) == IF t \in Proc THEN t ELSE Home[t]

ASSUME CallsAssumption ==
  /\ Client \cap Proc = {}
  /\ Home \in [Client -> Proc]
  /\ Outcome \subseteq [code : {"SOK", "EGENERAL"}, payload : {"value", "none"}]
  /\ Crashing \subseteq Proc
  /\ Foreign \subseteq {"signal", "junk"}
  /\ MaxSent \in Nat /\ MaxSessions \in Nat /\ MaxForeign \in Nat
  /\ NULL \notin Thread /\ NULL \notin Outcome

\* global_config.h
BUS_NOTICE == 1
BUS_REQUEST == 2

VARIABLES
  session,    \* of a process: "down", "up" or "leaving" (inside terminate())
  sessions,   \* how many sessions a process has had
  call_proc_, \* whether a process has installed a callback
  \* threads
  on,         \* the message a thread is blocked on, 0 if it is not
  listener,   \* of a process: "off", "poll", "read", "callback" or "reply"
  current,    \* the item its listener is busy with
  \* the bus
  sent,       \* the messages sent, in the order they were sent
  outbox,     \* of a process: what its send connection has flushed
  inbox,      \* what waits in its listening connection
  replies,    \* the replies its listening connection has flushed
  expected,   \* the requests the daemon expects a reply to
  foreign,    \* how many messages other programs have sent
  arrived,    \* what has come back for a message, NULL if nothing has
  \* history
  ran,        \* how often the callback was entered for a message
  outcome,    \* what the callback returned for it
  ret         \* what its sender was told, NULL before that

sessionVars == <<session, sessions, call_proc_>>
daemonVars  == <<outbox, inbox, replies, expected, foreign>>
pastVars    == <<ran, outcome>>
vars == <<sessionVars, on, listener, current, sent, daemonVars, arrived,
          pastVars, ret>>

Msg == 1 .. MaxSent
Failed == [code |-> "EGENERAL", payload |-> "none"]
Sent == [code |-> "SOK", payload |-> "none"]

\* A slip: a missing payload goes out as a null pointer.
Answer_Null(o) == [o EXCEPT !.payload = IF @ = "none" THEN NULL ELSE @]

\* replyToMessage puts a text of its own in place of a missing payload.
Answer(o) ==
  [o EXCEPT !.payload = IF @ = "none" THEN "get info fail!" ELSE @]

Result == [code : {"SOK", "EGENERAL"}, payload : {"value", "get info fail!", "none"}]

Item == [kind : {"request", "notice"}, id : Msg] \cup [kind : Foreign]

TypeOK ==
  /\ session \in [Proc -> {"down", "up", "leaving"}]
  /\ sessions \in [Proc -> 0 .. MaxSessions]
  /\ call_proc_ \in [Proc -> BOOLEAN]
  /\ on \in [Thread -> Msg \cup {0}]
  /\ listener \in [Proc -> {"off", "poll", "read", "callback", "reply"}]
  /\ current \in [Proc -> Item \cup {NULL}]
  /\ sent \in Seq([by : Thread, to : Proc, type : {BUS_NOTICE, BUS_REQUEST}])
  /\ Len(sent) <= MaxSent
  /\ outbox \in [Proc -> Seq(Msg)]
  /\ inbox \in [Proc -> Seq(Item)]
  /\ replies \in [Proc -> Seq(Msg)]
  /\ expected \subseteq Msg
  /\ foreign \in 0 .. MaxForeign
  /\ arrived \in [Msg -> Result \cup {NULL}]
  /\ ran \in [Msg -> Nat]
  /\ outcome \in [Msg -> Outcome \cup {NULL}]
  /\ ret \in [Msg -> Result \cup {NULL}]

Init ==
  /\ session = [p \in Proc |-> "down"]
  /\ sessions = [p \in Proc |-> 0]
  /\ call_proc_ = [p \in Proc |-> FALSE]
  /\ on = [t \in Thread |-> 0]
  /\ listener = [p \in Proc |-> "off"]
  /\ current = [p \in Proc |-> NULL]
  /\ sent = <<>>
  /\ outbox = [p \in Proc |-> <<>>]
  /\ inbox = [p \in Proc |-> <<>>]
  /\ replies = [p \in Proc |-> <<>>]
  /\ expected = {}
  /\ foreign = 0
  /\ arrived = [m \in Msg |-> NULL]
  /\ ran = [m \in Msg |-> 0]
  /\ outcome = [m \in Msg |-> NULL]
  /\ ret = [m \in Msg |-> NULL]

-----------------------------------------------------------------------------
\* Sessions

\* The listening connection of p is closed: what it had not read is lost, and
\* the daemon answers for p the requests that p has not answered.
Unanswered(p) ==
  {m \in expected : sent[m].to = p /\ \A i \in DOMAIN replies[p] : replies[p][i] # m}

CloseListening(p) ==
  /\ inbox' = [inbox EXCEPT ![p] = <<>>]
  /\ expected' = expected \ Unanswered(p)
  /\ arrived' = [m \in Msg |-> IF m \in Unanswered(p) THEN Failed ELSE arrived[m]]
  /\ listener' = [listener EXCEPT ![p] = "off"]
  /\ current' = [current EXCEPT ![p] = NULL]

Connect(p, withCallback) ==
  /\ session[p] = "down" /\ sessions[p] < MaxSessions
  /\ session' = [session EXCEPT ![p] = "up"]
  /\ sessions' = [sessions EXCEPT ![p] = @ + 1]
  /\ call_proc_' = [call_proc_ EXCEPT ![p] = withCallback]
  /\ listener' = [listener EXCEPT ![p] = "poll"]
  /\ UNCHANGED <<on, current, sent, daemonVars, arrived, pastVars, ret>>

\* The application's threads are not inside the library; the callback may be.
Disconnect(p) ==
  /\ session[p] = "up"
  /\ \A t \in Client : Home[t] = p => on[t] = 0
  /\ session' = [session EXCEPT ![p] = "leaving"]
  /\ UNCHANGED <<sessions, call_proc_, on, listener, current, sent, daemonVars,
                 arrived, pastVars, ret>>

\* The listening thread sees terminated_ and ends; terminate() goes on.
ListenerEnds(p) ==
  /\ session[p] = "leaving" /\ listener[p] = "poll"
  /\ session' = [session EXCEPT ![p] = "down"]
  /\ CloseListening(p)
  /\ UNCHANGED <<sessions, call_proc_, on, sent, outbox, replies, foreign,
                 pastVars, ret>>

Crash(p) ==
  /\ p \in Crashing /\ session[p] # "down"
  /\ session' = [session EXCEPT ![p] = "down"]
  /\ on' = [t \in Thread |-> IF ProcessOf(t) = p THEN 0 ELSE on[t]]
  /\ CloseListening(p)
  /\ UNCHANGED <<sessions, call_proc_, sent, outbox, replies, foreign, pastVars,
                 ret>>

-----------------------------------------------------------------------------
\* libDbusSendMessage

MaySend(t) ==
  /\ on[t] = 0
  /\ IF t \in Proc THEN listener[t] = "callback" ELSE session[Home[t]] = "up"

\* The message is built, sent on connect_send_ and flushed.  A call without a
\* service or a method, with another type, or without the memory for all this
\* returns an error and changes nothing.
Post(t, service, msg_type) ==
  /\ Len(sent) < MaxSent
  /\ sent' = Append(sent, [by |-> t, to |-> service, type |-> msg_type])
  /\ outbox' = [outbox EXCEPT ![ProcessOf(t)] = Append(@, Len(sent'))]

\* sendMessage: sendSingalMsg does not wait for anything, sendMethodMsg goes
\* on to wait for its pending call.
SendMessage(t, service, msg_type) ==
  /\ MaySend(t)
  /\ Post(t, service, msg_type)
  /\ \/ /\ msg_type = BUS_NOTICE
        /\ ret' = [ret EXCEPT ![Len(sent')] = Sent]
        /\ UNCHANGED on
     \/ /\ msg_type = BUS_REQUEST
        /\ on' = [on EXCEPT ![t] = Len(sent')]
        /\ UNCHANGED ret
  /\ UNCHANGED <<sessionVars, listener, current, inbox, replies, expected,
                 foreign, arrived, pastVars>>

\* The pending call ends and sendMethodMsg returns r.
Returns(t, r) ==
  /\ ret' = [ret EXCEPT ![on[t]] = r]
  /\ on' = [on EXCEPT ![t] = 0]
  /\ UNCHANGED <<sessionVars, listener, current, sent, daemonVars, arrived,
                 pastVars>>

\* A slip: the first answer on the send connection is taken for one's own.
Reply_First(t) ==
  LET mates == {s \in Thread : ProcessOf(s) = ProcessOf(t) /\ on[s] # 0}
      some == {on[s] : s \in mates}
  IN  IF \E m \in some : arrived[m] # NULL
      THEN arrived[CHOOSE m \in some : arrived[m] # NULL] ELSE NULL

Reply(t) == arrived[on[t]]

Awake(t) ==
  /\ on[t] # 0 /\ Reply(t) # NULL
  /\ Returns(t, Reply(t))

\* A slip: the pending call is made without a time limit.
Timeout_Unlimited(t) == FALSE /\ Returns(t, Failed)

\* When the time is over libdbus makes an error message of its own; a caller
\* gives a limit (INT_MAX would mean none).
Timeout(t) ==
  /\ on[t] # 0 /\ arrived[on[t]] = NULL
  /\ Returns(t, Failed)

-----------------------------------------------------------------------------
\* The listening thread

\* The loop condition of run()
Poll(p) ==
  /\ listener[p] = "poll" /\ session[p] = "up"
  /\ listener' = [listener EXCEPT ![p] = "read"]
  /\ UNCHANGED <<sessionVars, on, current, sent, daemonVars, arrived, pastVars, ret>>

\* Slips: the newest message is taken; a message is read and not removed.
Oldest_Newest(q) == Len(q)
Without_Kept(q, i) == q

Oldest(q) == 1
Without(q, i) == SubSeq(q, 1, i - 1) \o SubSeq(q, i + 1, Len(q))

\* What gets through the tests of run() and replyToMessage to the callback: a
\* signal or a method call for this path with its two arguments.
ForCallback(p, item) ==
  /\ call_proc_[p]
  /\ \/ item.kind \in {"request", "signal"}
     \/ item.kind = "notice" /\ sent[item.id].to = p

Entered(item) ==
  IF item.kind \in {"request", "notice"}
  THEN ran' = [ran EXCEPT ![item.id] = @ + 1]
  ELSE UNCHANGED ran

\* dbus_connection_pop_message gives the oldest message, or none.  One that is
\* not for the callback is dropped, and a request among those never answered.
Receive(p) ==
  LET i == Oldest(inbox[p])  item == inbox[p][i] IN
  /\ listener[p] = "read"
  /\ \/ /\ inbox[p] # <<>> /\ ForCallback(p, item)
        /\ inbox' = [inbox EXCEPT ![p] = Without(@, i)]
        /\ listener' = [listener EXCEPT ![p] = "callback"]
        /\ current' = [current EXCEPT ![p] = item]
        /\ Entered(item)
     \/ /\ inbox[p] # <<>> /\ ~ForCallback(p, item)
        /\ inbox' = [inbox EXCEPT ![p] = Without(@, i)]
        /\ listener' = [listener EXCEPT ![p] = "poll"]
        /\ UNCHANGED <<current, ran>>
     \/ /\ inbox[p] = <<>>
        /\ listener' = [listener EXCEPT ![p] = "poll"]
        /\ UNCHANGED <<inbox, current, ran>>
  /\ UNCHANGED <<sessionVars, on, sent, outbox, replies, expected, foreign,
                 arrived, outcome, ret>>

\* A slip: the callback has a thread of its own, and run() goes on without it.
Busy_OwnThread(p) == FALSE

\* The callback runs in the listening thread, and waits where it waits.
Busy(p) == on[p] # 0

\* The callback returns: for a request there is a reply to make.
CallbackReturns(p) ==
  /\ listener[p] = "callback" /\ ~Busy(p)
  /\ IF current[p].kind = "request"
     THEN /\ \E o \in Outcome : outcome' = [outcome EXCEPT ![current[p].id] = o]
          /\ listener' = [listener EXCEPT ![p] = "reply"]
          /\ UNCHANGED current
     ELSE /\ listener' = [listener EXCEPT ![p] = "poll"]
          /\ current' = [current EXCEPT ![p] = NULL]
          /\ UNCHANGED outcome
  /\ UNCHANGED <<sessionVars, on, sent, daemonVars, arrived, ran, ret>>

\* The reply is sent and flushed, or lost for want of memory.
SendReply(p) ==
  /\ listener[p] = "reply"
  /\ \/ replies' = [replies EXCEPT ![p] = Append(@, current[p].id)]
     \/ UNCHANGED replies
  /\ listener' = [listener EXCEPT ![p] = "poll"]
  /\ current' = [current EXCEPT ![p] = NULL]
  /\ UNCHANGED <<sessionVars, on, sent, outbox, inbox, expected, foreign, arrived,
                 pastVars, ret>>

-----------------------------------------------------------------------------
\* The bus daemon

\* The interface in the match rule that regSysDbus adds, and the one that
\* sendSingalMsg puts in a notice.
RuleInterface == "com.Kylin.interface"
NoticeInterface == "com.LibDbus.interface"

\* The daemon takes the next message of a send connection: a request goes to
\* the owner of the service's name, if there is one; a notice to everyone
\* whose match rule it fits.
Subscribers == {q \in Proc : session[q] # "down" /\ NoticeInterface = RuleInterface}

Route(p) ==
  LET m == Head(outbox[p])  q == sent[m].to IN
  /\ outbox[p] # <<>>
  /\ outbox' = [outbox EXCEPT ![p] = Tail(@)]
  /\ \/ /\ sent[m].type = BUS_REQUEST /\ session[q] # "down"
        /\ inbox' = [inbox EXCEPT ![q] = Append(@, [kind |-> "request", id |-> m])]
        /\ expected' = expected \cup {m}
        /\ UNCHANGED arrived
     \/ /\ sent[m].type = BUS_REQUEST /\ session[q] = "down"
        /\ arrived' = [arrived EXCEPT ![m] = Failed]
        /\ UNCHANGED <<inbox, expected>>
     \/ /\ sent[m].type = BUS_NOTICE
        /\ inbox' = [r \in Proc |-> IF r \in Subscribers
                                    THEN Append(inbox[r], [kind |-> "notice", id |-> m])
                                    ELSE inbox[r]]
        /\ UNCHANGED <<expected, arrived>>
  /\ UNCHANGED <<sessionVars, on, listener, current, sent, replies, foreign,
                 pastVars, ret>>

RouteReply(p) ==
  LET m == Head(replies[p]) IN
  /\ replies[p] # <<>>
  /\ replies' = [replies EXCEPT ![p] = Tail(@)]
  /\ arrived' = [arrived EXCEPT ![m] = IF m \in expected THEN Answer(outcome[m]) ELSE @]
  /\ expected' = expected \ {m}
  /\ UNCHANGED <<sessionVars, on, listener, current, sent, outbox, inbox, foreign,
                 pastVars, ret>>

\* Another program's signal on the rule's interface and this service's path,
\* or a message that is not for the callback.
ForeignMessage(p, kind) ==
  /\ session[p] # "down" /\ foreign < MaxForeign
  /\ foreign' = foreign + 1
  /\ inbox' = [inbox EXCEPT ![p] = Append(@, [kind |-> kind])]
  /\ UNCHANGED <<sessionVars, on, listener, current, sent, outbox, replies,
                 expected, arrived, pastVars, ret>>

-----------------------------------------------------------------------------
Next ==
  \/ \E p \in Proc :
       \/ \E withCallback \in BOOLEAN : Connect(p, withCallback)
       \/ Disconnect(p) \/ ListenerEnds(p) \/ Crash(p)
       \/ Poll(p) \/ Receive(p) \/ CallbackReturns(p) \/ SendReply(p)
       \/ Route(p) \/ RouteReply(p)
       \/ \E kind \in Foreign : ForeignMessage(p, kind)
  \/ \E t \in Thread :
       \/ \E service \in Proc, msg_type \in {BUS_NOTICE, BUS_REQUEST} :
            SendMessage(t, service, msg_type)
       \/ Awake(t) \/ Timeout(t)

Spec == Init /\ [][Next]_vars

\* Threads and the daemon run, a pending call ends, a callback returns.
Fairness ==
  /\ \A p \in Proc : /\ WF_vars(ListenerEnds(p))
                     /\ WF_vars(Poll(p)) /\ WF_vars(Receive(p))
                     /\ WF_vars(SendReply(p)) /\ SF_vars(CallbackReturns(p))
                     /\ WF_vars(Route(p)) /\ WF_vars(RouteReply(p))
  /\ \A t \in Thread : WF_vars(Awake(t) \/ Timeout(t))

FairSpec == Spec /\ Fairness

-----------------------------------------------------------------------------
(***************************************************************************)
(* Properties                                                              *)
(***************************************************************************)

Requests == {m \in 1 .. Len(sent) : sent[m].type = BUS_REQUEST}

\* Whatever is lost, late or given up, the callback runs at most once for a
\* request, and what a caller is told as an answer is what that one run gave
\* for this very request, not what arrives late for an earlier one.
Contract == INSTANCE RequestContract WITH
  Request <- Msg,
  made <- Requests,
  run <- outcome,
  told <- [m \in Msg |-> IF m \in Requests THEN ret[m] ELSE NULL]

ImplementsContract == Contract!Spec

\* A message enters the callback at most once.
AtMostOnce == \A m \in Msg : ran[m] <= 1

\* A callback that sends a request to its own service never gets an answer:
\* the thread that would make it is the one that waits.
SelfRequestFails ==
  \A m \in Requests : sent[m].by = sent[m].to => ret[m] \in {NULL, Failed}

\* Two requests of one thread to one service reach its callback in the order
\* they were sent, even when the first was given up.
OrderKept ==
  [][\A m, k \in Requests :
       m < k /\ sent[m].by = sent[k].by /\ sent[m].to = sent[k].to
       /\ ran[k] > 0 /\ ran[m] = 0 => ran'[m] = 0]_vars

\* What has reached a service is looked at or the service goes away: a
\* callback that waits for another service delays the rest, and no more.
InboxServed ==
  \A p \in Proc, m \in Msg :
    (\E i \in DOMAIN inbox[p] : inbox[p][i] = [kind |-> "request", id |-> m])
      ~> ~(\E i \in DOMAIN inbox[p] : inbox[p][i] = [kind |-> "request", id |-> m])
=============================================================================
