----------------------------- MODULE CallsProofs -----------------------------
(***************************************************************************)
(* Proofs about module Calls, for every set of processes, threads and      *)
(* outcomes and for all bounds: that CInv of module CallsInv is inductive, *)
(* with a lemma for each action, and what follows from it.                 *)
(*                                                                         *)
(* Posted, FirstTaken, HandedOn and HeadLeaves are what happens to the     *)
(* queues when a message is sent, received, handed on and taken by the     *)
(* daemon; the lemmas for the actions rest on them.                        *)
(***************************************************************************)
EXTENDS CallsInv, SequenceTheorems, TLAPS

-----------------------------------------------------------------------------
(***************************************************************************)
(* Queues                                                                  *)
(***************************************************************************)

\* What is appended to a queue is its last item, and the others stay.
LEMMA AppendItems ==
  ASSUME NEW S, NEW q \in Seq(S), NEW e \in S
  PROVE  /\ Append(q, e) \in Seq(S) /\ Len(Append(q, e)) = Len(q) + 1
         /\ DOMAIN q = 1 .. Len(q) /\ DOMAIN Append(q, e) = 1 .. Len(q) + 1
         /\ \A i \in DOMAIN q : Append(q, e)[i] = q[i]
         /\ Append(q, e)[Len(q) + 1] = e
OBVIOUS

\* Without its first item a queue is one shorter, and each item one place further on.
LEMMA TailItems ==
  ASSUME NEW S, NEW q \in Seq(S), q # <<>>
  PROVE  /\ Tail(q) \in Seq(S) /\ Len(Tail(q)) = Len(q) - 1
         /\ 1 \in DOMAIN q /\ Head(q) = q[1] /\ Head(q) \in S /\ DOMAIN q = 1 .. Len(q)
         /\ \A i \in DOMAIN Tail(q) : i + 1 \in DOMAIN q /\ Tail(q)[i] = q[i + 1]
         /\ \A i \in DOMAIN q : i # 1 => i - 1 \in DOMAIN Tail(q)
OBVIOUS

\* The oldest item is the first: removing it leaves the tail.
LEMMA WithoutFirst ==
  ASSUME NEW S, NEW q \in Seq(S), q # <<>>
  PROVE  Without(q, 1) = Tail(q)
<1>1. SubSeq(q, 1, 0) = <<>>
  OBVIOUS
<1>2. SubSeq(q, 2, Len(q)) = Tail(q)
  OBVIOUS
<1>3. Tail(q) \in Seq(S)
  OBVIOUS
<1>4. QED
  BY <1>1, <1>2, <1>3 DEF Without

-----------------------------------------------------------------------------
(***************************************************************************)
(* The invariant at the start and under each action                        *)
(***************************************************************************)

\* At the start nothing has been sent and nobody is connected.
LEMMA InitCInv == ASSUME CallsAssumption PROVE Init => CInv
<1> SUFFICES ASSUME Init PROVE CInv
  OBVIOUS
<1> USE DEF Init
<1>1. TypeOK
  <2>1. \A S : <<>> \in Seq(S)
    OBVIOUS
  <2>2. Len(sent) = 0
    OBVIOUS
  <2>3. QED
    BY <2>1, <2>2 DEF TypeOK, CallsAssumption, Item, Msg, Thread
<1>2. DOMAIN <<>> = {} /\ Len(<<>>) = 0
  OBVIOUS
<1>3. Requests = {} /\ \A m : ~InOutbox(m)
  BY <1>2 DEF Requests, InOutbox
<1>4. Outgoing /\ Incoming /\ Entering
  BY <1>2, <1>3 DEF Outgoing, Incoming, Entering, Asked
<1>5. Handling
  BY DEF Handling
<1>6. Answers
  BY <1>2 DEF Answers
<1>7. Waits
  BY DEF Waits, Thread
<1>8. AtMostOnce /\ SelfRequestFails
  BY <1>3 DEF AtMostOnce, SelfRequestFails
<1>9. QED
  BY <1>1, <1>4, <1>5, <1>6, <1>7, <1>8 DEF CInv

\* What only depends on the messages on their way
LEMMA OnTheWay ==
  ASSUME UNCHANGED <<sent, outbox>>
  PROVE  /\ Requests' = Requests
         /\ \A m : InOutbox(m)' <=> InOutbox(m)
         /\ Outgoing => Outgoing'
  BY DEF Requests, InOutbox, Outgoing

\* What is said of the inboxes after a step that sends nothing.
LEMMA IncomingMoved ==
  ASSUME UNCHANGED <<sent, outbox>>,
         \A p \in Proc : \A i \in DOMAIN inbox'[p] : inbox'[p][i].kind # "notice",
         \A p \in Proc : \A i \in Asked(p)' :
           LET m == inbox'[p][i].id IN
           m \in Requests /\ sent[m].to = p /\ ~InOutbox(m) /\ ran'[m] = 0,
         \A p \in Proc : \A i \in Asked(p)' : \A j \in Asked(p)' :
           i < j /\ sent[inbox'[p][i].id].by = sent[inbox'[p][j].id].by
             => inbox'[p][i].id < inbox'[p][j].id
  PROVE  Incoming'
  BY OnTheWay DEF Incoming

\* When neither queues nor calls of the callback change, what is said of them stays.
LEMMA InboxesStay ==
  ASSUME UNCHANGED <<sent, outbox, inbox, ran>>, Outgoing, Incoming, Entering
  PROVE  Outgoing' /\ Incoming' /\ Entering'
<1>1. \A p \in Proc : Asked(p)' = Asked(p)
  BY DEF Asked
<1>2. Incoming'
  BY OnTheWay, <1>1 DEF Incoming
<1>3. Entering'
  <2>1. \A m \in Msg : ran'[m] > 0 => m \in Requests' /\ ~InOutbox(m)'
    BY OnTheWay DEF Entering
  <2>2. QED
    BY OnTheWay, <2>1 DEF Entering, Asked
<1>4. QED
  BY OnTheWay, <1>2, <1>3

\* A request is a message, from a thread to a process.
LEMMA RequestTypes ==
  ASSUME CallsAssumption, TypeOK, NEW m \in Requests
  PROVE  m \in Msg /\ m \in 1 .. Len(sent) /\ sent[m].to \in Proc /\ sent[m].by \in Thread
<1>1. m \in 1 .. Len(sent) /\ Len(sent) \in Nat /\ Len(sent) <= MaxSent /\ MaxSent \in Nat
  BY DEF Requests, TypeOK, CallsAssumption
<1>2. sent[m] \in [by : Thread, to : Proc, type : {BUS_NOTICE, BUS_REQUEST}]
  BY <1>1, ElementOfSeq DEF TypeOK
<1>3. QED
  BY <1>1, <1>2 DEF Msg

\* A process that connects had no listener, and its new one starts without an item.
LEMMA ConnectKeeps ==
  ASSUME CallsAssumption, CInv, NEW p \in Proc, NEW c \in BOOLEAN, Connect(p, c)
  PROVE  CInv'
<1> USE DEF Connect, daemonVars, pastVars
<1>1. listener[p] = "off" /\ on[p] = 0
  BY DEF CInv, Handling, Waits
<1>2. TypeOK'
  BY DEF CInv, TypeOK, CallsAssumption
<1>3. Outgoing' /\ Incoming' /\ Entering'
  BY InboxesStay DEF CInv
<1>4. Handling'
  BY <1>1 DEF CInv, TypeOK, Handling, Requests
<1>5. Answers'
  BY DEF CInv, Answers
<1>6. Waits'
  BY <1>1 DEF CInv, TypeOK, Waits, Requests
<1>7. AtMostOnce' /\ SelfRequestFails'
  BY DEF CInv, AtMostOnce, SelfRequestFails, Requests
<1>8. QED
  BY <1>2, <1>3, <1>4, <1>5, <1>6, <1>7 DEF CInv

\* terminate() asks the listener to end, and touches no message.
LEMMA DisconnectKeeps ==
  ASSUME CallsAssumption, CInv, NEW p \in Proc, Disconnect(p)
  PROVE  CInv'
<1> USE DEF Disconnect, daemonVars, pastVars
<1>1. TypeOK'
  BY DEF CInv, TypeOK
<1>2. Outgoing' /\ Incoming' /\ Entering'
  BY InboxesStay DEF CInv
<1>3. Handling'
  BY DEF CInv, TypeOK, Handling, Requests
<1>4. Answers' /\ Waits'
  BY DEF CInv, Answers, Waits, Requests
<1>5. AtMostOnce' /\ SelfRequestFails'
  BY DEF CInv, AtMostOnce, SelfRequestFails, Requests
<1>6. QED
  BY <1>1, <1>2, <1>3, <1>4, <1>5 DEF CInv

\* What is lost with a listening connection is in no other place, and the daemon
\* answers with failures.
LEMMA CloseListeningKeeps ==
  ASSUME CallsAssumption, CInv, NEW p \in Proc, CloseListening(p),
         session' = [session EXCEPT ![p] = "down"],
         \/ on' = [t \in Thread |-> IF ProcessOf(t) = p THEN 0 ELSE on[t]]
         \/ UNCHANGED on /\ on[p] = 0,
         UNCHANGED <<sessions, call_proc_, sent, outbox, replies, foreign, pastVars, ret>>
  PROVE  CInv'
<1> USE DEF CloseListening, pastVars
<1>1. \A t \in Thread : on'[t] \in {0, on[t]}
  BY DEF CInv, TypeOK
<1>2. on'[p] = 0
  BY DEF Thread, ProcessOf
<1>3. TypeOK'
  <2>1. Failed \in Result /\ <<>> \in Seq(Item)
    BY DEF Failed, Result
  <2>2. on' \in [Thread -> Msg \cup {0}]
    BY DEF CInv, TypeOK
  <2>3. arrived' \in [Msg -> Result \cup {NULL}] /\ expected' \subseteq Msg
    BY <2>1 DEF CInv, TypeOK
  <2>4. inbox' \in [Proc -> Seq(Item)]
    BY <2>1 DEF CInv, TypeOK
  <2>5. current' \in [Proc -> Item \cup {NULL}]
    BY DEF CInv, TypeOK
  <2>6. QED
    BY <2>2, <2>3, <2>4, <2>5 DEF CInv, TypeOK
<1>4. Outgoing' /\ Incoming' /\ Entering'
  <2>1. /\ Requests' = Requests /\ (\A m : InOutbox(m)' <=> InOutbox(m))
        /\ Outgoing'
    BY OnTheWay DEF CInv
  <2>2. /\ Asked(p)' = {} /\ inbox'[p] = <<>>
        /\ \A q \in Proc : q # p => Asked(q)' = Asked(q) /\ inbox'[q] = inbox[q]
    BY DEF CInv, TypeOK, Asked
  <2>3. Incoming'
    BY <2>1, <2>2 DEF CInv, Incoming
  <2>4. Entering'
    <3>1. \A m \in Msg : ran'[m] > 0 => m \in Requests' /\ ~InOutbox(m)'
      BY <2>1 DEF CInv, Entering
    <3>2. ASSUME NEW m \in Requests, NEW k \in Requests,
                 m < k, sent[m].by = sent[k].by, sent[m].to = sent[k].to, ran[k] > 0,
                 NEW i \in Asked(sent[m].to)'
          PROVE  inbox'[sent[m].to][i].id # m
      <4>1. sent[m].to \in Proc
        BY RequestTypes DEF CInv
      <4>2. sent[m].to # p /\ i \in Asked(sent[m].to) /\ inbox'[sent[m].to] = inbox[sent[m].to]
        BY <2>2, <3>2, <4>1
      <4>3. QED
        BY <3>2, <4>2 DEF CInv, Entering
    <3>3. QED
      BY <2>1, <3>1, <3>2 DEF Entering
  <2>5. QED
    BY <2>1, <2>3, <2>4
<1>5. Handling'
  <2>1. listener'[p] = "off"
    BY DEF CInv, TypeOK
  <2>2. ASSUME NEW q \in Proc, q # p
        PROVE  /\ listener'[q] = listener[q] /\ current'[q] = current[q]
               /\ session'[q] = session[q]
    BY <2>2 DEF CInv, TypeOK
  <2>3. QED
    BY <2>1, <2>2, OnTheWay DEF CInv, Handling
<1>6. Answers'
  BY DEF CInv, TypeOK, Answers
<1>7. Waits'
  <2>1. \A q \in Proc : on'[q] # 0 => q # p /\ listener'[q] = listener[q] /\ on'[q] = on[q]
    BY <1>1, <1>2 DEF CInv, TypeOK, Thread
  <2>2. \A q \in Proc : on'[q] # 0 =>
          listener'[q] = "callback" /\ (sent'[on'[q]].to = q => ran'[on'[q]] = 0)
    BY <2>1 DEF CInv, Waits
  <2>3. QED
    BY <1>1, <2>2, OnTheWay DEF CInv, Waits
<1>8. AtMostOnce' /\ SelfRequestFails'
  BY DEF CInv, AtMostOnce, SelfRequestFails, Requests
<1>9. QED
  BY <1>3, <1>4, <1>5, <1>6, <1>7, <1>8 DEF CInv

\* A listener that ends does so outside its callback, and waits for nothing.
LEMMA ListenerEndsKeeps ==
  ASSUME CallsAssumption, CInv, NEW p \in Proc, ListenerEnds(p)
  PROVE  CInv'
<1>1. on[p] = 0
  BY DEF ListenerEnds, CInv, Waits
<1>2. QED
  BY <1>1, CloseListeningKeeps DEF ListenerEnds

\* With a process the calls of all its threads are gone, and its listening connection.
LEMMA CrashKeeps ==
  ASSUME CallsAssumption, CInv, NEW p \in Proc, Crash(p)
  PROVE  CInv'
<1>1. on' = [t \in Thread |-> IF ProcessOf(t) = p THEN 0 ELSE on[t]]
  BY DEF Crash
<1>2. QED
  BY <1>1, CloseListeningKeeps DEF Crash

\* The loop of run() goes on, and touches no message.
LEMMA PollKeeps ==
  ASSUME CallsAssumption, CInv, NEW p \in Proc, Poll(p)
  PROVE  CInv'
<1> USE DEF Poll, sessionVars, daemonVars, pastVars
<1>1. TypeOK'
  BY DEF CInv, TypeOK
<1>2. Outgoing' /\ Incoming' /\ Entering'
  BY InboxesStay DEF CInv
<1>3. Handling' /\ Waits'
  BY DEF CInv, TypeOK, Handling, Waits, Requests
<1>4. Answers'
  BY DEF CInv, Answers
<1>5. AtMostOnce' /\ SelfRequestFails'
  BY DEF CInv, AtMostOnce, SelfRequestFails, Requests
<1>6. QED
  BY <1>1, <1>2, <1>3, <1>4, <1>5 DEF CInv

\* A message that is new is the last one, and nobody has been told anything of it.
LEMMA Posted ==
  ASSUME CallsAssumption, CInv, NEW t \in Thread, NEW service \in Proc,
         NEW msg_type \in {BUS_NOTICE, BUS_REQUEST}, Len(sent) < MaxSent,
         sent' = Append(sent, [by |-> t, to |-> service, type |-> msg_type]),
         NEW n, n = Len(sent) + 1
  PROVE  /\ n \in Msg /\ Len(sent') = n /\ Len(sent) \in Nat /\ ProcessOf(t) \in Proc
         /\ sent' \in Seq([by : Thread, to : Proc, type : {BUS_NOTICE, BUS_REQUEST}])
         /\ sent'[n] = [by |-> t, to |-> service, type |-> msg_type]
         /\ \A m \in 1 .. Len(sent) : sent'[m] = sent[m]
         /\ \A m \in Requests :
              m \in Requests' /\ m # n /\ m \in 1 .. Len(sent) /\ sent'[m] = sent[m]
         /\ \A m \in Requests' : m # n => m \in Requests
         /\ n \in Requests' <=> msg_type = BUS_REQUEST
         /\ ret[n] = NULL
<1> DEFINE new == [by |-> t, to |-> service, type |-> msg_type]
<1>1. new \in [by : Thread, to : Proc, type : {BUS_NOTICE, BUS_REQUEST}]
  OBVIOUS
<1>2. sent \in Seq([by : Thread, to : Proc, type : {BUS_NOTICE, BUS_REQUEST}])
  BY DEF CInv, TypeOK
<1>3. ProcessOf(t) \in Proc
  BY DEF Thread, ProcessOf, CallsAssumption
<1>4. sent' = Append(sent, new) /\ Len(sent) \in Nat /\ n \in Msg
  BY <1>2 DEF CallsAssumption, Msg
<1> HIDE DEF new
<1>5. /\ Len(sent') = n /\ sent'[n] = new /\ \A m \in 1 .. Len(sent) : sent'[m] = sent[m]
      /\ sent' \in Seq([by : Thread, to : Proc, type : {BUS_NOTICE, BUS_REQUEST}])
  BY <1>1, <1>2, <1>4, AppendItems
<1>6. \A m \in Requests : m \in Requests' /\ m # n /\ m \in 1 .. Len(sent) /\ sent'[m] = sent[m]
  BY <1>4, <1>5 DEF Requests
<1>7. \A m \in Requests' : m # n => m \in Requests
  BY <1>4, <1>5 DEF Requests
<1>8. n \in Requests' <=> msg_type = BUS_REQUEST
  BY <1>4, <1>5 DEF Requests, new
<1>9. ret[n] = NULL
  BY <1>4 DEF CInv, Waits
<1>10. QED
  BY <1>3, <1>4, <1>5, <1>6, <1>7, <1>8, <1>9 DEF new

\* The new message is the last in its outbox too, and in no inbox.
LEMMA SendMessageKeeps ==
  ASSUME CallsAssumption, CInv, NEW t \in Thread, NEW service \in Proc,
         NEW msg_type \in {BUS_NOTICE, BUS_REQUEST}, SendMessage(t, service, msg_type)
  PROVE  CInv'
<1>1. PICK n : n = Len(sent) + 1
  OBVIOUS
<1>2. /\ Len(sent) < MaxSent
      /\ sent' = Append(sent, [by |-> t, to |-> service, type |-> msg_type])
  BY DEF SendMessage, Post
<1>3. /\ n \in Msg /\ Len(sent') = n /\ Len(sent) \in Nat /\ ProcessOf(t) \in Proc
      /\ sent' \in Seq([by : Thread, to : Proc, type : {BUS_NOTICE, BUS_REQUEST}])
      /\ sent'[n] = [by |-> t, to |-> service, type |-> msg_type]
      /\ \A m \in 1 .. Len(sent) : sent'[m] = sent[m]
      /\ \A m \in Requests :
           m \in Requests' /\ m # n /\ m \in 1 .. Len(sent) /\ sent'[m] = sent[m]
      /\ \A m \in Requests' : m # n => m \in Requests
      /\ n \in Requests' <=> msg_type = BUS_REQUEST
  <2>1. n \in Msg /\ Len(sent') = n /\ Len(sent) \in Nat /\ ProcessOf(t) \in Proc
    BY <1>1, <1>2, Posted
  <2>2. sent' \in Seq([by : Thread, to : Proc, type : {BUS_NOTICE, BUS_REQUEST}])
    BY <1>1, <1>2, Posted
  <2>3. /\ sent'[n] = [by |-> t, to |-> service, type |-> msg_type]
        /\ \A m \in 1 .. Len(sent) : sent'[m] = sent[m]
    BY <1>1, <1>2, Posted
  <2>4. /\ \A m \in Requests :
             m \in Requests' /\ m # n /\ m \in 1 .. Len(sent) /\ sent'[m] = sent[m]
        /\ \A m \in Requests' : m # n => m \in Requests
        /\ n \in Requests' <=> msg_type = BUS_REQUEST
    BY <1>1, <1>2, Posted
  <2>5. QED
    BY <2>1, <2>2, <2>3, <2>4
<1> USE DEF SendMessage, Post, sessionVars, pastVars
<1> DEFINE new == [by |-> t, to |-> service, type |-> msg_type]
           q == ProcessOf(t)
<1>4. /\ n \in Msg /\ Len(sent') = n /\ Len(sent) \in Nat /\ q \in Proc
      /\ sent' \in Seq([by : Thread, to : Proc, type : {BUS_NOTICE, BUS_REQUEST}])
      /\ sent'[n] = new /\ \A m \in 1 .. Len(sent) : sent'[m] = sent[m]
  BY <1>3
<1>5. /\ outbox' = [outbox EXCEPT ![q] = Append(outbox[q], n)]
      /\ \/ /\ msg_type = BUS_NOTICE
            /\ ret' = [ret EXCEPT ![n] = Sent] /\ on' = on
         \/ /\ msg_type = BUS_REQUEST
            /\ on' = [on EXCEPT ![t] = n] /\ ret' = ret
  BY <1>4
<1>6. /\ UNCHANGED <<session, sessions, call_proc_, listener, current, inbox, replies, expected,
                       foreign, arrived, ran, outcome>>
       /\ MaySend(t)
  OBVIOUS
<1> HIDE DEF new, q, SendMessage, Post, sessionVars, pastVars
<1>7. /\ outbox[q] \in Seq(Msg) /\ outbox'[q] = Append(outbox[q], n)
      /\ \A p \in Proc : p # q => outbox'[p] = outbox[p]
  BY <1>4, <1>5 DEF CInv, TypeOK
<1>8. /\ DOMAIN outbox[q] = 1 .. Len(outbox[q]) /\ Len(outbox[q]) \in Nat
      /\ DOMAIN outbox'[q] = 1 .. Len(outbox[q]) + 1
      /\ outbox'[q][Len(outbox[q]) + 1] = n /\ outbox'[q] \in Seq(Msg)
      /\ \A i \in DOMAIN outbox[q] : outbox'[q][i] = outbox[q][i]
  BY <1>4, <1>7, AppendItems
<1>9. \A p \in Proc : \A i \in DOMAIN outbox[p] : outbox[p][i] \in 1 .. Len(sent)
  <2> TAKE p \in Proc
  <2> TAKE i \in DOMAIN outbox[p]
  <2>1. outbox[p][i] \in Msg
    BY ElementOfSeq DEF CInv, TypeOK
  <2>2. QED
    BY <1>4, <2>1 DEF CInv, Outgoing, Msg
<1>10. /\ \A m \in 1 .. Len(sent) : InOutbox(m)' <=> InOutbox(m)
       /\ InOutbox(n)'
  <2>1. InOutbox(n)'
    <3>1. q \in Proc /\ Len(outbox[q]) + 1 \in DOMAIN outbox'[q]
      BY <1>4, <1>8
    <3>2. QED
      BY <1>8, <3>1 DEF InOutbox
  <2>2. ASSUME NEW m \in 1 .. Len(sent), NEW p \in Proc
        PROVE  (\E i \in DOMAIN outbox'[p] : outbox'[p][i] = m)
                 <=> \E i \in DOMAIN outbox[p] : outbox[p][i] = m
    <3>1. m # n
      BY <1>1
    <3>2. CASE p = q
      <4>1. /\ DOMAIN outbox[q] \subseteq DOMAIN outbox'[q]
            /\ \A i \in DOMAIN outbox'[q] : i \in DOMAIN outbox[q] \/ i = Len(outbox[q]) + 1
        BY <1>8
      <4>2. QED
        BY <1>8, <3>1, <3>2, <4>1
    <3>3. CASE p # q
      BY <1>7, <3>3
    <3>4. QED
      BY <3>2, <3>3
  <2>3. ASSUME NEW m \in 1 .. Len(sent) PROVE InOutbox(m)' <=> InOutbox(m)
    BY <2>2 DEF InOutbox
  <2>4. QED
    BY <2>1, <2>3
<1>11. /\ \A m \in Requests :
            m \in Requests' /\ m # n /\ m \in 1 .. Len(sent) /\ sent'[m] = sent[m]
       /\ \A m \in Requests' : m # n => m \in Requests
       /\ n \in Requests' <=> msg_type = BUS_REQUEST
  BY <1>3
<1>12. /\ \A p \in Proc : Asked(p)' = Asked(p)
       /\ ran[n] = 0 /\ outcome[n] = NULL /\ ret[n] = NULL
  <2>1. ran[n] = 0 /\ ~(n <= Len(sent))
    <3>1. ~(n <= Len(sent)) /\ n \notin Requests
      BY <1>1, <1>4 DEF Requests
    <3>2. ran[n] \in Nat /\ ~(ran[n] > 0)
      BY <1>4, <3>1 DEF CInv, TypeOK, Entering
    <3>3. QED
      BY <3>1, <3>2
  <2>2. QED
    BY <1>6, <1>4, <2>1 DEF CInv, Answers, Waits, Asked
<1>13. TypeOK'
  <2>1. outbox' \in [Proc -> Seq(Msg)]
    BY <1>4, <1>5, <1>8 DEF CInv, TypeOK
  <2>2. on' \in [Thread -> Msg \cup {0}] /\ ret' \in [Msg -> Result \cup {NULL}]
    <3>1. Sent \in Result
      BY DEF Sent, Result
    <3>2. on \in [Thread -> Msg \cup {0}] /\ ret \in [Msg -> Result \cup {NULL}]
      BY DEF CInv, TypeOK
    <3>3. [on EXCEPT ![t] = n] \in [Thread -> Msg \cup {0}]
      BY <1>4, <3>2
    <3>4. [ret EXCEPT ![n] = Sent] \in [Msg -> Result \cup {NULL}]
      BY <1>4, <3>1, <3>2
    <3>5. QED
      BY <1>5, <3>2, <3>3, <3>4
  <2>3. Len(sent') <= MaxSent
    BY <1>4 DEF Msg, CallsAssumption
  <2>4. QED
    BY <1>6, <1>4, <2>1, <2>2, <2>3 DEF CInv, TypeOK
<1>14. Outgoing'
  <2>1. ASSUME NEW p \in Proc, NEW i \in DOMAIN outbox'[p]
        PROVE  \/ i \in DOMAIN outbox[p] /\ outbox'[p][i] = outbox[p][i]
               \/ p = q /\ i = Len(outbox[q]) + 1
    BY <1>7, <1>8, SMTT(60)
  <2>2. ProcessOf(sent'[n].by) = q
    BY <1>4 DEF new, q
  <2>3. ASSUME NEW p \in Proc, NEW i \in DOMAIN outbox'[p]
        PROVE  /\ outbox'[p][i] <= Len(sent')
               /\ ProcessOf(sent'[outbox'[p][i]].by) = p
    <3>1. CASE i \in DOMAIN outbox[p] /\ outbox'[p][i] = outbox[p][i]
      <4>1. PICK m \in 1 .. Len(sent) : m = outbox[p][i]
        BY <1>9, <3>1
      <4>2. m <= Len(sent') /\ sent'[m] = sent[m]
        BY <1>1, <1>4
      <4>3. ProcessOf(sent[m].by) = p
        BY <3>1, <4>1 DEF CInv, Outgoing
      <4>4. QED
        BY <3>1, <4>1, <4>2, <4>3
    <3>2. CASE p = q /\ i = Len(outbox[q]) + 1
      BY <1>1, <1>4, <1>8, <2>2, <3>2
    <3>3. QED
      BY <2>1, <3>1, <3>2
  <2>4. ASSUME NEW p \in Proc, NEW i \in DOMAIN outbox'[p], NEW j \in DOMAIN outbox'[p], i < j
        PROVE  outbox'[p][i] < outbox'[p][j]
    <3>1. i \in DOMAIN outbox[p] /\ outbox'[p][i] = outbox[p][i]
      <4>1. CASE p = q
        BY <1>8, <2>4, <4>1, SMTT(60)
      <4>2. CASE p # q
        BY <2>1, <4>2
      <4>3. QED
        BY <4>1, <4>2
    <3>2. CASE j \in DOMAIN outbox[p] /\ outbox'[p][j] = outbox[p][j]
      BY <2>4, <3>1, <3>2 DEF CInv, Outgoing
    <3>3. CASE p = q /\ j = Len(outbox[q]) + 1
      BY <1>1, <1>4, <1>8, <1>9, <3>1, <3>3
    <3>4. QED
      BY <2>1, <3>2, <3>3
  <2>5. ASSUME NEW m \in 1 .. Len(sent'), NEW k \in 1 .. Len(sent'), m < k,
               ProcessOf(sent'[m].by) = ProcessOf(sent'[k].by), InOutbox(m)'
        PROVE  InOutbox(k)'
    <3>1. CASE k = n
      BY <1>10, <3>1
    <3>2. CASE k # n
      <4>1. m \in 1 .. Len(sent) /\ k \in 1 .. Len(sent)
        BY <1>1, <1>4, <2>5, <3>2
      <4>2. QED
        BY <1>4, <1>10, <2>5, <4>1 DEF CInv, Outgoing
    <3>3. QED
      BY <3>1, <3>2
  <2>6. QED
    BY <2>3, <2>4, <2>5 DEF Outgoing
<1>15. Incoming'
  BY <1>6, <1>4, <1>10, <1>11, <1>12, SMTT(60) DEF CInv, Incoming
<1>16. Entering'
  <2>1. \A m \in Msg : ran'[m] > 0 => m \in Requests' /\ ~InOutbox(m)'
    BY <1>6, <1>10, <1>11 DEF CInv, Entering
  <2>2. \A m, k \in Requests' :
          m < k /\ ran[k] > 0 => m \in Requests /\ k \in Requests
    BY <1>1, <1>4, <1>11, <1>12 DEF Requests
  <2>3. ASSUME NEW m \in Requests', NEW k \in Requests', m < k, sent'[m].by = sent'[k].by,
               sent'[m].to = sent'[k].to, ran'[k] > 0,
               NEW i \in DOMAIN inbox'[sent'[m].to], inbox'[sent'[m].to][i].kind = "request"
        PROVE  inbox'[sent'[m].to][i].id # m
    <3>1. m \in Requests /\ k \in Requests
      BY <1>6, <2>2, <2>3
    <3>2. sent'[m] = sent[m] /\ sent'[k] = sent[k] /\ sent[m].to \in Proc
      BY <1>11, <3>1, RequestTypes DEF CInv
    <3>3. i \in Asked(sent[m].to)
      BY <1>6, <2>3, <3>2 DEF Asked
    <3>4. QED
      BY <1>6, <2>3, <3>1, <3>2, <3>3 DEF CInv, Entering
  <2>4. QED
    BY <2>1, <2>3 DEF Entering, Asked
<1>17. Handling'
  BY <1>6, <1>11 DEF CInv, Handling
<1>18. Answers'
  BY <1>6 DEF CInv, Answers
<1>19. Waits'
  <2>1. \A m \in Msg : ret'[m] # NULL => m <= Len(sent')
    <3>1. ASSUME NEW m \in Msg, m # n PROVE ret'[m] = ret[m]
      BY <1>4, <1>5, <3>1 DEF CInv, TypeOK
    <3>2. QED
      BY <1>1, <1>4, <3>1 DEF CInv, Waits, Msg
  <2>2. CASE msg_type = BUS_NOTICE
    <3>1. on' = on /\ ret' = [ret EXCEPT ![n] = Sent]
      BY <1>5, <2>2 DEF BUS_NOTICE, BUS_REQUEST
    <3>2. \A m \in Requests : m \in Requests' /\ sent'[m] = sent[m] /\ ret'[m] = ret[m]
      BY <1>11, <3>1, RequestTypes DEF CInv, TypeOK
    <3>3. \A s \in Thread : on'[s] # 0 =>
            on'[s] \in Requests' /\ sent'[on'[s]].by = s /\ ret'[on'[s]] = NULL
      BY <3>1, <3>2 DEF CInv, Waits
    <3>4. \A p \in Proc : on'[p] # 0 =>
            listener'[p] = "callback" /\ (sent'[on'[p]].to = p => ran'[on'[p]] = 0)
      BY <1>6, <3>1, <3>2 DEF CInv, Waits, Thread
    <3>5. QED
      BY <2>1, <3>3, <3>4 DEF Waits
  <2>3. CASE msg_type = BUS_REQUEST
    <3>1. ret' = ret /\ on' = [on EXCEPT ![t] = n]
      BY <1>5, <2>3 DEF BUS_NOTICE, BUS_REQUEST
    <3>2. \A s \in Thread : on'[s] = IF s = t THEN n ELSE on[s]
      BY <3>1 DEF CInv, TypeOK
    <3>3. \A s \in Thread : on'[s] # 0 =>
            on'[s] \in Requests' /\ sent'[on'[s]].by = s /\ ret'[on'[s]] = NULL
      BY <1>4, <1>11, <1>12, <2>3, <3>1, <3>2 DEF CInv, Waits, new
    <3>4. \A p \in Proc : on'[p] # 0 =>
            listener'[p] = "callback" /\ (sent'[on'[p]].to = p => ran'[on'[p]] = 0)
      BY <1>6, <1>11, <1>12, <3>2 DEF CInv, Waits, MaySend, Thread
    <3>5. QED
      BY <2>1, <3>3, <3>4 DEF Waits
  <2>4. QED
    BY <2>2, <2>3
<1>20. AtMostOnce'
  BY <1>6 DEF CInv, AtMostOnce
<1>21. SelfRequestFails'
  <2>1. ASSUME NEW m \in Requests' PROVE ret'[m] \in {NULL, ret[m]}
    <3>1. CASE msg_type = BUS_NOTICE
      <4>1. m # n /\ m \in Requests /\ m \in Msg /\ ret' = [ret EXCEPT ![n] = Sent]
        BY <1>4, <1>5, <1>11, <3>1, RequestTypes DEF CInv, BUS_NOTICE, BUS_REQUEST
      <4>2. QED
        BY <4>1 DEF CInv, TypeOK
    <3>2. CASE msg_type = BUS_REQUEST
      BY <1>5, <3>2 DEF BUS_NOTICE, BUS_REQUEST
    <3>3. QED
      BY <3>1, <3>2
  <2>2. QED
    BY <1>11, <1>12, <2>1 DEF CInv, SelfRequestFails
<1>22. QED
  BY <1>13, <1>14, <1>15, <1>16, <1>17, <1>18, <1>19, <1>20, <1>21 DEF CInv

\* A call that returns is told what came for its own request.
LEMMA ReturnsKeeps ==
  ASSUME CallsAssumption, CInv, NEW t \in Thread, NEW r \in Result, on[t] # 0, Returns(t, r),
         r = Failed \/ r = arrived[on[t]]
  PROVE  CInv'
<1> USE DEF Returns, sessionVars, daemonVars, pastVars
<1> DEFINE m == on[t]
<1>1. m \in Requests /\ m \in Msg /\ m \in 1 .. Len(sent) /\ sent[m].by = t /\ sent[m].to \in Proc
  BY RequestTypes DEF CInv, Waits
<1>2. /\ \A s \in Thread : on'[s] = IF s = t THEN 0 ELSE on[s]
      /\ \A k \in Msg : ret'[k] = IF k = m THEN r ELSE ret[k]
  BY DEF CInv, TypeOK
<1>3. \A s \in Thread : on'[s] # 0 => on'[s] = on[s] /\ on[s] # m
  BY <1>1, <1>2 DEF CInv, Waits
<1>4. TypeOK'
  BY <1>1 DEF CInv, TypeOK
<1>5. Outgoing' /\ Incoming' /\ Entering'
  BY InboxesStay DEF CInv
<1>6. Handling' /\ Answers'
  BY OnTheWay DEF CInv, Handling, Answers
<1>7. Waits'
  <2>1. \A k \in Msg : ret'[k] # NULL => k <= Len(sent')
    BY <1>1, <1>2 DEF CInv, Waits
  <2>2. \A s \in Thread : on'[s] # 0 =>
          on'[s] \in Requests' /\ sent'[on'[s]].by = s /\ ret'[on'[s]] = NULL
    BY <1>2, <1>3, OnTheWay, RequestTypes DEF CInv, Waits
  <2>3. QED
    BY <1>3, <2>1, <2>2 DEF CInv, Waits, Thread
<1>8. AtMostOnce'
  BY DEF CInv, AtMostOnce
<1>9. SelfRequestFails'
  <2>1. sent[m].by = sent[m].to => r \in {NULL, Failed}
    BY <1>1 DEF CInv, Waits, Answers
  <2>2. QED
    BY <1>1, <1>2, <2>1, OnTheWay, RequestTypes, SMTT(60) DEF CInv, SelfRequestFails
<1>10. QED
  BY <1>4, <1>5, <1>6, <1>7, <1>8, <1>9 DEF CInv

\* The pending call is completed by what arrived.
LEMMA AwakeKeeps ==
  ASSUME CallsAssumption, CInv, NEW t \in Thread, Awake(t)
  PROVE  CInv'
<1>1. on[t] \in Msg
  BY RequestTypes DEF CInv, Waits, Awake
<1>2. Reply(t) \in Result
  BY <1>1 DEF CInv, TypeOK, Awake, Reply
<1>3. QED
  BY <1>2, ReturnsKeeps DEF Awake, Reply

\* The pending call is completed by libdbus's own error.
LEMMA TimeoutKeeps ==
  ASSUME CallsAssumption, CInv, NEW t \in Thread, Timeout(t)
  PROVE  CInv'
<1>1. Failed \in Result
  BY DEF Failed, Result
<1>2. QED
  BY <1>1, ReturnsKeeps DEF Timeout

\* The first item of an inbox is dropped, or the callback is entered for it.
LEMMA FirstTaken ==
  ASSUME CallsAssumption, CInv, NEW p \in Proc, inbox[p] # <<>>,
         inbox' = [inbox EXCEPT ![p] = Without(@, 1)],
         UNCHANGED <<sent, outbox>>,
         \/ UNCHANGED ran
         \/ inbox[p][1].kind = "request" /\ ran' = [ran EXCEPT ![inbox[p][1].id] = @ + 1]
  PROVE  /\ inbox' \in [Proc -> Seq(Item)] /\ inbox[p][1] \in Item /\ 1 \in DOMAIN inbox[p]
         /\ Outgoing' /\ Incoming' /\ Entering'
<1> DEFINE first == inbox[p][1]
<1>1. inbox[p] \in Seq(Item) /\ inbox \in [Proc -> Seq(Item)]
  BY DEF CInv, TypeOK
<1>2. /\ inbox'[p] = Tail(inbox[p]) /\ Tail(inbox[p]) \in Seq(Item)
      /\ \A q \in Proc : q # p => inbox'[q] = inbox[q]
  BY <1>1, WithoutFirst, TailItems
<1>3. /\ 1 \in DOMAIN inbox[p] /\ first \in Item
      /\ \A i \in DOMAIN Tail(inbox[p]) :
           i + 1 \in DOMAIN inbox[p] /\ Tail(inbox[p])[i] = inbox[p][i + 1] /\ i \in Nat \ {0}
  <2>1. DOMAIN Tail(inbox[p]) = 1 .. Len(Tail(inbox[p])) /\ Head(inbox[p]) = inbox[p][1]
    BY <1>1, <1>2, TailItems
  <2>2. QED
    BY <1>1, <2>1, TailItems
<1>4. inbox' \in [Proc -> Seq(Item)]
  BY <1>1, <1>2
<1> HIDE DEF first
<1>5. /\ \A i \in Asked(p)' : i + 1 \in Asked(p) /\ inbox'[p][i] = inbox[p][i + 1] /\ i \in Nat \ {0}
      /\ \A q \in Proc : q # p => Asked(q)' = Asked(q)
  BY <1>2, <1>3, ZenonT(60) DEF Asked
<1>6. Requests' = Requests /\ (\A m : InOutbox(m)' <=> InOutbox(m)) /\ Outgoing'
  BY OnTheWay DEF CInv
<1>7. \A q \in Proc : \A i \in DOMAIN inbox'[q] : inbox'[q][i].kind # "notice"
  <2> TAKE q \in Proc
  <2>1. CASE q = p
    <3>1. \A i \in DOMAIN inbox[p] : inbox[p][i].kind # "notice"
      BY DEF CInv, Incoming
    <3>2. inbox'[q] = Tail(inbox[p])
      BY <1>2, <2>1
    <3>3. ASSUME NEW i \in DOMAIN Tail(inbox[p]) PROVE Tail(inbox[p])[i].kind # "notice"
      <4>1. i + 1 \in DOMAIN inbox[p] /\ Tail(inbox[p])[i] = inbox[p][i + 1]
        BY <1>3
      <4>2. QED
        BY <3>1, <4>1
    <3>4. QED
      BY <3>2, <3>3
  <2>2. CASE q # p
    BY <1>2, <2>2 DEF CInv, Incoming
  <2>3. QED
    BY <2>1, <2>2
<1>8. CASE UNCHANGED ran
  <2>1. Incoming'
    <3>1. ASSUME NEW q \in Proc, NEW i \in Asked(q)'
          PROVE  LET m == inbox'[q][i].id IN
                 m \in Requests /\ sent[m].to = q /\ ~InOutbox(m) /\ ran[m] = 0
      BY <1>2, <1>5 DEF CInv, Incoming
    <3>2. ASSUME NEW q \in Proc, NEW i \in Asked(q)', NEW j \in Asked(q)', i < j,
                 sent[inbox'[q][i].id].by = sent[inbox'[q][j].id].by
          PROVE  inbox'[q][i].id < inbox'[q][j].id
      <4>1. CASE q # p
        BY <1>2, <1>5, <3>2, <4>1 DEF CInv, Incoming
      <4>2. CASE q = p
        <5>1. i + 1 < j + 1
          BY <1>5, <3>2, <4>2
        <5>2. QED
          BY <1>5, <3>2, <4>2, <5>1 DEF CInv, Incoming
      <4>3. QED
        BY <4>1, <4>2
    <3>3. QED
      BY <1>7, <1>8, <3>1, <3>2, IncomingMoved
  <2>2. Entering'
    <3>1. \A m \in Msg : ran'[m] > 0 => m \in Requests' /\ ~InOutbox(m)'
      BY <1>6, <1>8 DEF CInv, Entering
    <3>2. ASSUME NEW m \in Requests, NEW k \in Requests, m < k, sent[m].by = sent[k].by,
                 sent[m].to = sent[k].to, ran[k] > 0,
                 NEW q \in Proc, q = sent[m].to, NEW i \in Asked(q)'
          PROVE  inbox'[q][i].id # m
      <4>1. \A l \in Asked(sent[m].to) : inbox[sent[m].to][l].id # m
        BY <3>2 DEF CInv, Entering
      <4>2. CASE q = p
        <5>1. \A l \in Asked(p) : inbox[p][l].id # m
          BY <3>2, <4>1, <4>2
        <5>2. i + 1 \in Asked(p) /\ inbox'[p][i] = inbox[p][i + 1]
          BY <1>5, <3>2, <4>2
        <5>3. QED
          BY <4>2, <5>1, <5>2
      <4>3. CASE q # p
        BY <1>2, <1>5, <3>2, <4>1, <4>3
      <4>4. QED
        BY <4>2, <4>3
    <3>3. QED
      BY <1>6, <1>8, <3>1, <3>2, RequestTypes, SMTT(60) DEF CInv, Entering, Asked
  <2>3. QED
    BY <1>3, <1>4, <1>6, <2>1, <2>2 DEF first
<1>9. CASE first.kind = "request" /\ ran' = [ran EXCEPT ![first.id] = @ + 1]
  <2> DEFINE m0 == first.id
  <2>1. /\ 1 \in Asked(p) /\ m0 \in Requests /\ sent[m0].to = p /\ ~InOutbox(m0)
        /\ ran[m0] = 0 /\ m0 \in Msg
    <3>1. 1 \in Asked(p)
      BY <1>3, <1>9 DEF Asked, first
    <3>2. m0 \in Requests /\ sent[m0].to = p /\ ~InOutbox(m0) /\ ran[m0] = 0
      BY <3>1 DEF CInv, Incoming, first
    <3>3. QED
      BY <3>1, <3>2, RequestTypes DEF CInv
  <2>2. ran'[m0] = 1 /\ \A m \in Msg : m # m0 => ran'[m] = ran[m]
    <3>1. ran \in [Msg -> Nat]
      BY DEF CInv, TypeOK
    <3>2. QED
      BY <1>9, <2>1, <3>1
  <2> HIDE DEF m0
  <2>3. ASSUME NEW q \in Proc, NEW i \in Asked(q)'
        PROVE  LET m == inbox'[q][i].id IN
               /\ m \in Requests /\ sent[m].to = q /\ ~InOutbox(m) /\ ran[m] = 0 /\ m # m0
               /\ q = p /\ sent[m].by = sent[m0].by => m0 < m
    <3>1. CASE q # p
      BY <1>2, <1>5, <2>1, <3>1 DEF CInv, Incoming
    <3>2. CASE q = p
      <4> DEFINE m == inbox[p][i + 1].id
      <4>1. i + 1 \in Asked(p) /\ 1 < i + 1 /\ inbox'[p][i].id = m
        BY <1>5, <3>2
      <4>2. m \in Requests /\ sent[m].to = p /\ ~InOutbox(m) /\ ran[m] = 0
        BY <4>1 DEF CInv, Incoming
      <4>3. sent[m].by = sent[m0].by => m0 < m
        BY <2>1, <4>1 DEF CInv, Incoming, m0, first
      <4>4. m \in Nat /\ m0 \in Nat
        <5>1. m \in Msg
          BY <4>2, RequestTypes DEF CInv
        <5>2. QED
          BY <2>1, <5>1 DEF Msg
      <4>5. m # m0
        <5>1. ~(m0 < m0)
          BY <4>4, SMTT(60)
        <5>2. QED
          BY <4>3, <5>1
      <4>6. QED
        BY <3>2, <4>1, <4>2, <4>3, <4>5
    <3>3. QED
      BY <3>1, <3>2
  <2>4. Incoming'
    <3>1. ASSUME NEW q \in Proc, NEW i \in Asked(q)'
          PROVE  LET m == inbox'[q][i].id IN
                 m \in Requests /\ sent[m].to = q /\ ~InOutbox(m) /\ ran'[m] = 0
      BY <2>2, <2>3, RequestTypes DEF CInv
    <3>2. ASSUME NEW q \in Proc, NEW i \in Asked(q)', NEW j \in Asked(q)', i < j,
                 sent[inbox'[q][i].id].by = sent[inbox'[q][j].id].by
          PROVE  inbox'[q][i].id < inbox'[q][j].id
      <4>1. CASE q # p
        BY <1>2, <1>5, <3>2, <4>1 DEF CInv, Incoming
      <4>2. CASE q = p
        <5>1. i + 1 < j + 1
          BY <1>5, <3>2, <4>2
        <5>2. QED
          BY <1>5, <3>2, <4>2, <5>1 DEF CInv, Incoming
      <4>3. QED
        BY <4>1, <4>2
    <3>3. QED
      BY <1>7, <3>1, <3>2, IncomingMoved
  <2>5. Entering'
    <3>1. \A m \in Msg : ran'[m] > 0 => m \in Requests' /\ ~InOutbox(m)'
      BY <1>6, <2>1, <2>2 DEF CInv, Entering
    <3>2. ASSUME NEW m \in Requests, NEW k \in Requests, m < k, sent[m].by = sent[k].by,
                 sent[m].to = sent[k].to, ran'[k] > 0,
                 NEW q \in Proc, q = sent[m].to, NEW i \in Asked(q)'
          PROVE  inbox'[q][i].id # m
      <4>1. k \in Msg /\ m \in Msg
        BY RequestTypes DEF CInv
      <4>2. CASE k # m0
        <5>1. ran[k] > 0
          BY <2>2, <3>2, <4>1, <4>2
        <5>2. \A l \in Asked(sent[m].to) : inbox[sent[m].to][l].id # m
          BY <3>2, <5>1 DEF CInv, Entering
        <5>3. CASE q = p
          <6>1. \A l \in Asked(p) : inbox[p][l].id # m
            BY <3>2, <5>2, <5>3
          <6>2. i + 1 \in Asked(p) /\ inbox'[p][i] = inbox[p][i + 1]
            BY <1>5, <3>2, <5>3
          <6>3. QED
            BY <5>3, <6>1, <6>2
        <5>4. CASE q # p
          BY <1>2, <1>5, <3>2, <5>2, <5>4, SMTT(60)
        <5>5. QED
          BY <5>3, <5>4
      <4>3. CASE k = m0
        <5>1. sent[m].to = p /\ m < m0 /\ sent[m].by = sent[m0].by /\ ~(m0 < m)
          BY <2>1, <3>2, <4>1, <4>3 DEF Msg
        <5>2. QED
          BY <2>3, <3>2, <5>1
      <4>4. QED
        BY <4>2, <4>3
    <3>3. \A m \in Requests : sent[m].to \in Proc
      BY RequestTypes DEF CInv
    <3>4. \A m, k \in Requests :
            m < k /\ sent[m].by = sent[k].by /\ sent[m].to = sent[k].to /\ ran'[k] > 0
              => \A i \in Asked(sent[m].to)' : inbox'[sent[m].to][i].id # m
      BY <3>2, <3>3 DEF Asked
    <3>5. QED
      BY <1>6, <3>1, <3>4 DEF Entering, Asked
  <2>6. QED
    BY <1>3, <1>4, <1>6, <2>4, <2>5 DEF first
<1>10. QED
  BY <1>8, <1>9 DEF first

\* The callback of p is entered, but the listener waits for nothing yet.
LEMMA ReceiveKeeps ==
  ASSUME CallsAssumption, CInv, NEW p \in Proc, Receive(p)
  PROVE  CInv'
<1> USE DEF Receive, Oldest, sessionVars
<1> DEFINE item == inbox[p][1]
<1>1. /\ listener[p] = "read" /\ on[p] = 0
      /\ UNCHANGED <<session, sessions, call_proc_, on, sent, outbox, replies, expected,
                     foreign, arrived, outcome, ret>>
  BY DEF CInv, Waits
<1>2. Requests' = Requests
  BY OnTheWay
<1>3. CASE /\ inbox[p] # <<>> /\ ForCallback(p, item)
           /\ inbox' = [inbox EXCEPT ![p] = Without(@, 1)]
           /\ listener' = [listener EXCEPT ![p] = "callback"]
           /\ current' = [current EXCEPT ![p] = item]
           /\ Entered(item)
  <2>1. 1 \in DOMAIN inbox[p] /\ item \in Item
    <3>1. inbox[p] \in Seq(Item) /\ inbox[p] # <<>>
      BY <1>3 DEF CInv, TypeOK
    <3>2. QED
      BY <3>1, TailItems
  <2>2. item.kind # "notice"
    BY <2>1 DEF CInv, Incoming
  <2>3. \/ UNCHANGED ran /\ item.kind # "request"
        \/ item.kind = "request" /\ ran' = [ran EXCEPT ![item.id] = @ + 1]
    BY <1>3, <2>2 DEF Entered
  <2>4. inbox' \in [Proc -> Seq(Item)] /\ Outgoing' /\ Incoming' /\ Entering'
    BY <1>1, <1>3, <2>3, FirstTaken
  <2>5. item.kind = "request" =>
          /\ item.id \in Requests /\ item.id \in Msg /\ sent[item.id].to = p
          /\ ran[item.id] = 0 /\ outcome[item.id] = NULL /\ ran'[item.id] = 1
    <3>1. SUFFICES ASSUME item.kind = "request"
                   PROVE  /\ item.id \in Requests /\ item.id \in Msg /\ sent[item.id].to = p
                          /\ ran[item.id] = 0 /\ outcome[item.id] = NULL /\ ran'[item.id] = 1
      OBVIOUS
    <3>2. 1 \in Asked(p)
      BY <2>1, <3>1 DEF Asked
    <3>3. item.id \in Requests /\ sent[item.id].to = p /\ ran[item.id] = 0
      BY <3>2 DEF CInv, Incoming
    <3>4. item.id \in Msg
      BY <3>3, RequestTypes DEF CInv
    <3>5. QED
      BY <2>3, <3>1, <3>3, <3>4 DEF CInv, TypeOK, Answers
  <2>6. \A m \in Msg : ~(item.kind = "request" /\ m = item.id) => ran'[m] = ran[m]
    BY <2>3, <2>5 DEF CInv, TypeOK
  <2>7. /\ listener'[p] = "callback" /\ current'[p] = item
        /\ \A q \in Proc : q # p => listener'[q] = listener[q] /\ current'[q] = current[q]
    BY <1>3 DEF CInv, TypeOK
  <2>8. TypeOK'
    <3>1. ran' \in [Msg -> Nat]
      BY <2>3, <2>5 DEF CInv, TypeOK
    <3>2. current' \in [Proc -> Item \cup {NULL}]
      BY <1>3, <2>1 DEF CInv, TypeOK
    <3>3. listener' \in [Proc -> {"off", "poll", "read", "callback", "reply"}]
      BY <1>3 DEF CInv, TypeOK
    <3>4. QED
      BY <1>1, <2>4, <3>1, <3>2, <3>3 DEF CInv, TypeOK
  <2> HIDE DEF item
  <2>9. Handling'
    <3>1. ASSUME NEW q \in Proc
          PROVE  /\ session[q] = "down" => listener'[q] = "off"
                 /\ listener'[q] \in {"callback", "reply"} => current'[q] \in Item
                 /\ listener'[q] = "callback" /\ current'[q].kind = "request" =>
                      LET m == current'[q].id IN
                      m \in Requests /\ sent[m].to = q /\ ran'[m] = 1 /\ outcome[m] = NULL
                 /\ listener'[q] = "reply" =>
                      current'[q].kind = "request" /\ outcome[current'[q].id] # NULL
      <4>1. CASE q = p
        BY <1>1, <2>1, <2>5, <2>7, <4>1 DEF CInv, Handling
      <4>2. CASE q # p
        BY <2>5, <2>6, <2>7, <4>2, RequestTypes DEF CInv, Handling
      <4>3. QED
        BY <4>1, <4>2
    <3>2. QED
      BY <1>1, <1>2, <3>1 DEF Handling
  <2>10. Answers'
    BY <1>1, <2>5, <2>6 DEF CInv, Answers
  <2>11. Waits'
    <3>1. \A q \in Proc : on'[q] # 0 =>
            listener'[q] = "callback" /\ (sent'[on'[q]].to = q => ran'[on'[q]] = 0)
      BY <1>1, <2>5, <2>6, <2>7, RequestTypes DEF CInv, Waits, Thread
    <3>2. QED
      BY <1>1, <1>2, <3>1 DEF CInv, Waits
  <2>12. AtMostOnce' /\ SelfRequestFails'
    BY <1>1, <1>2, <2>5, <2>6 DEF CInv, AtMostOnce, SelfRequestFails
  <2>13. QED
    BY <2>4, <2>8, <2>9, <2>10, <2>11, <2>12 DEF CInv
<1>4. CASE /\ listener' = [listener EXCEPT ![p] = "poll"]
           /\ UNCHANGED <<current, ran>>
           /\ \/ inbox[p] # <<>> /\ inbox' = [inbox EXCEPT ![p] = Without(@, 1)]
              \/ UNCHANGED inbox
  <2>1. inbox' \in [Proc -> Seq(Item)] /\ Outgoing' /\ Incoming' /\ Entering'
    <3>1. CASE inbox[p] # <<>> /\ inbox' = [inbox EXCEPT ![p] = Without(@, 1)]
      BY <1>1, <1>4, <3>1, FirstTaken
    <3>2. CASE UNCHANGED inbox
      BY <1>1, <1>4, <3>2, InboxesStay DEF CInv, TypeOK
    <3>3. QED
      BY <1>4, <3>1, <3>2
  <2>2. /\ listener'[p] = "poll"
        /\ \A q \in Proc : q # p => listener'[q] = listener[q]
    BY <1>4 DEF CInv, TypeOK
  <2>3. TypeOK'
    BY <1>1, <1>4, <2>1 DEF CInv, TypeOK
  <2>4. Handling'
    <3>1. session[p] # "down"
      BY <1>1 DEF CInv, Handling
    <3>2. QED
      BY <1>1, <1>2, <1>4, <2>2, <3>1 DEF CInv, Handling
  <2>5. Answers' /\ AtMostOnce' /\ SelfRequestFails'
    BY <1>1, <1>2, <1>4 DEF CInv, Answers, AtMostOnce, SelfRequestFails
  <2>6. Waits'
    BY <1>1, <1>2, <1>4, <2>2 DEF CInv, Waits
  <2>7. QED
    BY <2>1, <2>3, <2>4, <2>5, <2>6 DEF CInv
<1>5. QED
  BY <1>3, <1>4

\* What the callback gives is the outcome of a request that had none.
LEMMA CallbackReturnsKeeps ==
  ASSUME CallsAssumption, CInv, NEW p \in Proc, CallbackReturns(p)
  PROVE  CInv'
<1> USE DEF CallbackReturns, Busy, sessionVars, daemonVars
<1> DEFINE m == current[p].id
<1>1. /\ listener[p] = "callback" /\ on[p] = 0 /\ session[p] # "down"
      /\ UNCHANGED <<session, sessions, call_proc_, on, sent, outbox, inbox, replies, expected,
                     foreign, arrived, ran, ret>>
  BY DEF CInv, Handling
<1>2. Requests' = Requests /\ Outgoing' /\ Incoming' /\ Entering'
  BY <1>1, OnTheWay, InboxesStay DEF CInv
<1>3. AtMostOnce' /\ SelfRequestFails'
  BY <1>1, <1>2 DEF CInv, AtMostOnce, SelfRequestFails
<1>4. CASE current[p].kind = "request"
  <2>1. /\ m \in Requests /\ m \in Msg /\ sent[m].to = p /\ ran[m] = 1 /\ outcome[m] = NULL
    BY <1>1, <1>4, RequestTypes DEF CInv, Handling
  <2>2. PICK o \in Outcome : outcome' = [outcome EXCEPT ![m] = o]
    BY <1>4
  <2>3. o # NULL /\ outcome' \in [Msg -> Outcome \cup {NULL}]
    BY <2>1, <2>2 DEF CallsAssumption, CInv, TypeOK
  <2>4. outcome'[m] = o /\ \A k \in Msg : k # m => outcome'[k] = outcome[k]
    BY <2>1, <2>2, ZenonT(60) DEF CInv, TypeOK
  <2>5. /\ listener'[p] = "reply" /\ current' = current
        /\ \A q \in Proc : q # p => listener'[q] = listener[q]
    BY <1>4 DEF CInv, TypeOK
  <2>6. TypeOK'
    <3>1. listener' = [listener EXCEPT ![p] = "reply"]
      BY <1>4
    <3>2. listener \in [Proc -> {"off", "poll", "read", "callback", "reply"}]
      BY DEF CInv, TypeOK
    <3> HIDE DEF CallbackReturns
    <3>3. listener' \in [Proc -> {"off", "poll", "read", "callback", "reply"}]
      BY <3>1, <3>2
    <3>4. QED
      BY <1>1, <2>3, <2>5, <3>3 DEF CInv, TypeOK
  <2>7. Handling'
    <3>1. ASSUME NEW q \in Proc
          PROVE  /\ session[q] = "down" => listener'[q] = "off"
                 /\ listener'[q] \in {"callback", "reply"} => current[q] \in Item
                 /\ listener'[q] = "callback" /\ current[q].kind = "request" =>
                      LET k == current[q].id IN
                      k \in Requests /\ sent[k].to = q /\ ran[k] = 1 /\ outcome'[k] = NULL
                 /\ listener'[q] = "reply" =>
                      current[q].kind = "request" /\ outcome'[current[q].id] # NULL
      <4>1. CASE q = p
        BY <1>1, <1>4, <2>3, <2>4, <2>5, <4>1 DEF CInv, Handling
      <4>2. CASE q # p
        <5>1. CASE listener[q] = "reply"
          <6>1. current[q] \in Item /\ current[q].kind = "request" /\ outcome[current[q].id] # NULL
            BY <5>1 DEF CInv, Handling
          <6>2. current[q].id \in Msg
            BY <6>1 DEF Item, CallsAssumption
          <6>3. QED
            BY <2>1, <2>4, <2>5, <4>2, <5>1, <6>1, <6>2 DEF CInv, Handling
        <5>2. CASE listener[q] # "reply"
          BY <2>1, <2>4, <2>5, <4>2, <5>2, RequestTypes DEF CInv, Handling
        <5>3. QED
          BY <5>1, <5>2
      <4>3. QED
        BY <4>1, <4>2
    <3>2. QED
      BY <1>1, <1>2, <2>5, <3>1 DEF Handling
  <2>8. Answers'
    <3>1. \A q \in Proc : \A i \in DOMAIN replies[q] : outcome'[replies[q][i]] # NULL
      <4> TAKE q \in Proc
      <4> TAKE i \in DOMAIN replies[q]
      <4>1. replies[q][i] \in Msg
        BY ElementOfSeq DEF CInv, TypeOK
      <4>2. QED
        BY <2>3, <2>4, <4>1 DEF CInv, Answers
    <3>2. \A k \in Msg : outcome'[k] # NULL => ran[k] = 1
      BY <2>1, <2>4 DEF CInv, Answers
    <3>3. \A k \in Msg : \/ arrived[k] \in {NULL, Failed}
                         \/ outcome'[k] # NULL /\ arrived[k] = Answer(outcome'[k])
      <4> TAKE k \in Msg
      <4>1. \/ arrived[k] \in {NULL, Failed}
            \/ outcome[k] # NULL /\ arrived[k] = Answer(outcome[k])
        BY DEF CInv, Answers
      <4>2. CASE k = m
        BY <2>1, <4>1, <4>2
      <4>3. CASE k # m
        BY <2>4, <4>1, <4>3
      <4>4. QED
        BY <4>2, <4>3
    <3>4. QED
      BY <1>1, <3>1, <3>2, <3>3 DEF Answers
  <2>9. Waits'
    <3>1. \A q \in Proc : on[q] # 0 =>
            listener'[q] = "callback" /\ (sent[on[q]].to = q => ran[on[q]] = 0)
      BY <1>1, <2>5 DEF CInv, Waits
    <3>2. QED
      BY <1>1, <1>2, <3>1 DEF CInv, Waits
  <2>10. QED
    BY <1>2, <1>3, <2>6, <2>7, <2>8, <2>9 DEF CInv
<1>5. CASE current[p].kind # "request"
  <2>1. /\ listener'[p] = "poll" /\ outcome' = outcome
        /\ \A q \in Proc : q # p => listener'[q] = listener[q] /\ current'[q] = current[q]
    BY <1>5 DEF CInv, TypeOK
  <2>2. TypeOK'
    <3>1. listener' = [listener EXCEPT ![p] = "poll"] /\ current' = [current EXCEPT ![p] = NULL]
      BY <1>5
    <3>2. /\ listener \in [Proc -> {"off", "poll", "read", "callback", "reply"}]
          /\ current \in [Proc -> Item \cup {NULL}]
      BY DEF CInv, TypeOK
    <3> HIDE DEF CallbackReturns
    <3>3. /\ listener' \in [Proc -> {"off", "poll", "read", "callback", "reply"}]
          /\ current' \in [Proc -> Item \cup {NULL}]
      BY <3>1, <3>2
    <3>4. QED
      BY <1>1, <2>1, <3>3 DEF CInv, TypeOK
  <2>3. Handling'
    BY <1>1, <1>2, <2>1 DEF CInv, Handling
  <2>4. Answers'
    BY <1>1, <2>1 DEF CInv, Answers
  <2>5. Waits'
    BY <1>1, <1>2, <2>1 DEF CInv, Waits
  <2>6. QED
    BY <1>2, <1>3, <2>2, <2>3, <2>4, <2>5 DEF CInv
<1>6. QED
  BY <1>4, <1>5

\* What is replied is the outcome of the current request.
LEMMA SendReplyKeeps ==
  ASSUME CallsAssumption, CInv, NEW p \in Proc, SendReply(p)
  PROVE  CInv'
<1> USE DEF SendReply, sessionVars, pastVars
<1> DEFINE m == current[p].id
<1>1. /\ listener[p] = "reply" /\ session[p] # "down"
      /\ UNCHANGED <<session, sessions, call_proc_, on, sent, outbox, inbox, expected,
                     foreign, arrived, ran, outcome, ret>>
  BY DEF CInv, Handling
<1>2. Requests' = Requests /\ Outgoing' /\ Incoming' /\ Entering'
  BY <1>1, OnTheWay, InboxesStay DEF CInv
<1>3. m \in Msg /\ outcome[m] # NULL
  <2>1. current[p] \in Item /\ current[p].kind = "request" /\ outcome[m] # NULL
    BY <1>1 DEF CInv, Handling
  <2>2. QED
    BY <2>1 DEF Item, CallsAssumption
<1> HIDE DEF m
<1>4. /\ listener'[p] = "poll"
      /\ \A q \in Proc : q # p => listener'[q] = listener[q] /\ current'[q] = current[q]
  BY DEF CInv, TypeOK
<1>5. /\ replies' \in [Proc -> Seq(Msg)]
      /\ \A q \in Proc : \A i \in DOMAIN replies'[q] : outcome[replies'[q][i]] # NULL
  <2>1. replies \in [Proc -> Seq(Msg)] /\ replies[p] \in Seq(Msg)
    BY DEF CInv, TypeOK
  <2>2. CASE UNCHANGED replies
    BY <2>1, <2>2 DEF CInv, Answers
  <2>3. CASE replies' = [replies EXCEPT ![p] = Append(@, m)]
    <3>1. /\ Append(replies[p], m) \in Seq(Msg)
          /\ \A i \in DOMAIN Append(replies[p], m) :
               \/ i \in DOMAIN replies[p] /\ Append(replies[p], m)[i] = replies[p][i]
               \/ Append(replies[p], m)[i] = m
      BY <1>3, <2>1, AppendItems
    <3>2. replies'[p] = Append(replies[p], m) /\ \A q \in Proc : q # p => replies'[q] = replies[q]
      BY <2>1, <2>3
    <3>3. replies' \in [Proc -> Seq(Msg)]
      BY <2>1, <2>3, <3>1
    <3>4. ASSUME NEW q \in Proc, NEW i \in DOMAIN replies'[q]
          PROVE  outcome[replies'[q][i]] # NULL
      <4>1. \A r \in Proc : \A j \in DOMAIN replies[r] : outcome[replies[r][j]] # NULL
        BY DEF CInv, Answers
      <4>2. CASE q = p
        BY <1>3, <3>1, <3>2, <4>1, <4>2, SMTT(60)
      <4>3. CASE q # p
        BY <3>2, <4>1, <4>3
      <4>4. QED
        BY <4>2, <4>3
    <3>5. QED
      BY <3>3, <3>4
  <2>4. QED
    BY <2>2, <2>3 DEF m
<1>6. TypeOK'
  <2>1. listener' \in [Proc -> {"off", "poll", "read", "callback", "reply"}]
    BY DEF CInv, TypeOK
  <2>2. current' \in [Proc -> Item \cup {NULL}]
    BY DEF CInv, TypeOK
  <2>3. QED
    BY <1>1, <1>5, <2>1, <2>2 DEF CInv, TypeOK
<1>7. Handling'
  BY <1>1, <1>2, <1>4 DEF CInv, Handling
<1>8. Answers'
  BY <1>1, <1>5 DEF CInv, Answers
<1>9. Waits'
  BY <1>1, <1>2, <1>4 DEF CInv, Waits
<1>10. AtMostOnce' /\ SelfRequestFails'
  BY <1>1, <1>2 DEF CInv, AtMostOnce, SelfRequestFails
<1>11. QED
  BY <1>2, <1>6, <1>7, <1>8, <1>9, <1>10 DEF CInv

\* The first message of an outbox leaves it, and is in none any more; the later ones
\* of its sender are.
LEMMA HeadLeaves ==
  ASSUME CallsAssumption, CInv, NEW p \in Proc, outbox[p] # <<>>,
         outbox' = [outbox EXCEPT ![p] = Tail(@)], UNCHANGED sent,
         NEW m, m = Head(outbox[p])
  PROVE  /\ m \in Msg /\ m \in 1 .. Len(sent) /\ InOutbox(m) /\ ~InOutbox(m)'
         /\ ProcessOf(sent[m].by) = p
         /\ \A k : InOutbox(k)' <=> InOutbox(k) /\ k # m
         /\ outbox' \in [Proc -> Seq(Msg)]
         /\ Requests' = Requests
         /\ Outgoing'
<1>1. outbox \in [Proc -> Seq(Msg)] /\ outbox[p] \in Seq(Msg)
  BY DEF CInv, TypeOK
<1>2. /\ outbox'[p] = Tail(outbox[p]) /\ outbox' \in [Proc -> Seq(Msg)]
      /\ \A q \in Proc : q # p => outbox'[q] = outbox[q]
  BY <1>1, TailItems
<1>3. /\ 1 \in DOMAIN outbox[p] /\ m = outbox[p][1] /\ m \in Msg /\ DOMAIN outbox[p] \subseteq Nat \ {0}
      /\ \A i \in DOMAIN outbox'[p] :
           /\ i + 1 \in DOMAIN outbox[p] /\ outbox'[p][i] = outbox[p][i + 1]
           /\ i \in Nat \ {0}
      /\ \A i \in DOMAIN outbox[p] : i # 1 => i - 1 \in DOMAIN outbox'[p]
  <2>1. DOMAIN Tail(outbox[p]) = 1 .. Len(Tail(outbox[p]))
    BY <1>1, TailItems
  <2>2. QED
    BY <1>1, <1>2, <2>1, TailItems
<1>4. m \in 1 .. Len(sent) /\ ProcessOf(sent[m].by) = p /\ InOutbox(m)
  <2>1. InOutbox(m)
    BY <1>3 DEF InOutbox
  <2>2. m <= Len(sent) /\ ProcessOf(sent[m].by) = p
    BY <1>3 DEF CInv, Outgoing
  <2>3. Len(sent) \in Nat
    BY DEF CInv, TypeOK
  <2>4. QED
    BY <1>3, <2>1, <2>2, <2>3 DEF Msg
<1>5. \A i \in DOMAIN outbox'[p] : outbox'[p][i] # m
  <2> TAKE i \in DOMAIN outbox'[p]
  <2>1. 1 < i + 1 /\ i + 1 \in DOMAIN outbox[p] /\ outbox'[p][i] = outbox[p][i + 1]
    BY <1>3
  <2>2. m < outbox[p][i + 1]
    BY <1>3, <2>1 DEF CInv, Outgoing
  <2>3. QED
    BY <1>3, <2>1, <2>2 DEF Msg
<1>6. \A k : InOutbox(k)' <=> InOutbox(k) /\ k # m
  <2> TAKE k
  <2>1. ASSUME InOutbox(k)' PROVE InOutbox(k) /\ k # m
    <3>1. PICK q \in Proc : \E i \in DOMAIN outbox'[q] : outbox'[q][i] = k
      BY <2>1 DEF InOutbox
    <3>2. PICK i \in DOMAIN outbox'[q] : outbox'[q][i] = k
      BY <3>1
    <3>3. CASE q = p
      BY <1>3, <1>5, <3>2, <3>3 DEF InOutbox
    <3>4. CASE q # p
      <4>1. i \in DOMAIN outbox[q] /\ outbox[q][i] = k
        BY <1>2, <3>2, <3>4
      <4>2. ProcessOf(sent[k].by) = q
        BY <4>1 DEF CInv, Outgoing
      <4>3. QED
        BY <1>4, <3>4, <4>1, <4>2 DEF InOutbox
    <3>5. QED
      BY <3>3, <3>4
  <2>2. ASSUME InOutbox(k), k # m PROVE InOutbox(k)'
    <3>1. PICK q \in Proc : \E i \in DOMAIN outbox[q] : outbox[q][i] = k
      BY <2>2 DEF InOutbox
    <3>2. PICK i \in DOMAIN outbox[q] : outbox[q][i] = k
      BY <3>1
    <3>3. CASE q # p
      BY <1>2, <3>2, <3>3 DEF InOutbox
    <3>4. CASE q = p
      <4>1. i # 1 /\ i - 1 \in DOMAIN outbox'[p] /\ i \in Nat
        BY <1>3, <2>2, <3>2, <3>4
      <4>2. outbox'[p][i - 1] = k
        <5>1. outbox'[p][i - 1] = outbox[p][(i - 1) + 1] /\ (i - 1) + 1 = i
          BY <1>3, <4>1
        <5>2. QED
          BY <3>2, <3>4, <5>1
      <4>3. QED
        BY <4>1, <4>2 DEF InOutbox
    <3>5. QED
      BY <3>3, <3>4
  <2>3. QED
    BY <2>1, <2>2
<1>7. Outgoing'
  <2>1. \A q \in Proc : \A i \in DOMAIN outbox'[q] :
          outbox'[q][i] <= Len(sent) /\ ProcessOf(sent[outbox'[q][i]].by) = q
    BY <1>2, <1>3 DEF CInv, Outgoing
  <2>2. ASSUME NEW q \in Proc, NEW i \in DOMAIN outbox'[q], NEW j \in DOMAIN outbox'[q], i < j
        PROVE  outbox'[q][i] < outbox'[q][j]
    <3>1. CASE q # p
      BY <1>2, <2>2, <3>1 DEF CInv, Outgoing
    <3>2. CASE q = p
      <4>1. i + 1 < j + 1
        BY <1>3, <2>2, <3>2
      <4>2. QED
        BY <1>3, <3>2, <4>1 DEF CInv, Outgoing
    <3>3. QED
      BY <3>1, <3>2
  <2>3. ASSUME NEW a \in 1 .. Len(sent), NEW k \in 1 .. Len(sent), a < k,
               ProcessOf(sent[a].by) = ProcessOf(sent[k].by), InOutbox(a)'
        PROVE  InOutbox(k)'
    <3>1. InOutbox(a) /\ a # m /\ InOutbox(k)
      BY <1>6, <2>3 DEF CInv, Outgoing
    <3>2. k # m
      <4>1. SUFFICES ASSUME k = m PROVE FALSE
        OBVIOUS
      <4>2. PICK q \in Proc : \E i \in DOMAIN outbox[q] : outbox[q][i] = a
        BY <3>1 DEF InOutbox
      <4>3. PICK i \in DOMAIN outbox[q] : outbox[q][i] = a
        BY <4>2
      <4>4. q = p
        BY <1>4, <2>3, <4>1, <4>3 DEF CInv, Outgoing
      <4>5. 1 < i
        BY <1>3, <3>1, <4>3, <4>4
      <4>6. m < a
        BY <1>3, <4>3, <4>4, <4>5 DEF CInv, Outgoing
      <4>7. QED
        BY <1>3, <2>3, <4>1, <4>6 DEF Msg
    <3>3. QED
      BY <1>6, <3>1, <3>2
  <2>4. QED
    BY <2>1, <2>2, <2>3 DEF Outgoing
<1>8. Requests' = Requests
  BY DEF Requests
<1>9. QED
  BY <1>2, <1>3, <1>4, <1>6, <1>7, <1>8

\* When no inbox changes, what leaves an outbox changes nothing there.
LEMMA InboxesWait ==
  ASSUME UNCHANGED <<sent, inbox, ran>>, \A k : InOutbox(k)' => InOutbox(k),
         Incoming, Entering
  PROVE  Incoming' /\ Entering'
<1>1. Requests' = Requests /\ \A p \in Proc : Asked(p)' = Asked(p)
  BY DEF Requests, Asked
<1>2. Incoming'
  BY <1>1 DEF Incoming
<1>3. Entering'
  BY <1>1 DEF Entering, Asked
<1>4. QED
  BY <1>2, <1>3

\* A request that the daemon hands on goes behind the earlier ones of its sender.
LEMMA HandedOn ==
  ASSUME CallsAssumption, CInv, NEW m \in Requests, NEW q \in Proc, sent[m].to = q,
         InOutbox(m), \A k : InOutbox(k)' <=> InOutbox(k) /\ k # m,
         UNCHANGED <<sent, ran>>, NEW last,
         \A p \in Proc : p # q => inbox'[p] = inbox[p],
         \A i \in DOMAIN inbox'[q] : i # last => i \in DOMAIN inbox[q] /\ inbox'[q][i] = inbox[q][i],
         \A i \in DOMAIN inbox'[q] : i <= last /\ i \in Nat, last \in Nat,
         inbox'[q][last] = [kind |-> "request", id |-> m]
  PROVE  Incoming' /\ Entering'
<1>1. m \in Msg /\ m \in 1 .. Len(sent) /\ sent[m].by \in Thread /\ ran[m] = 0
  <2>1. m \in Msg /\ m \in 1 .. Len(sent) /\ sent[m].by \in Thread
    BY RequestTypes DEF CInv
  <2>2. ~(ran[m] > 0) /\ ran[m] \in Nat
    BY <2>1 DEF CInv, Entering, TypeOK
  <2>3. QED
    BY <2>1, <2>2
<1>2. Requests' = Requests /\ \A p \in Proc : p # q => Asked(p)' = Asked(p)
  BY DEF Requests, Asked
<1>3. \A i \in Asked(q)' :
        i <= last /\ i \in Nat /\ (i # last => i \in Asked(q) /\ inbox'[q][i] = inbox[q][i])
  BY DEF Asked
<1>4. inbox'[q][last].id = m /\ inbox'[q][last].kind = "request"
  OBVIOUS
\* A later request of the same sender has not left the outbox.
<1>5. \A k \in Requests : m < k /\ sent[m].by = sent[k].by => InOutbox(k)
  BY <1>1, RequestTypes DEF CInv, Outgoing
<1>6. Incoming'
  <2>1. ASSUME NEW p \in Proc, NEW i \in DOMAIN inbox'[p]
        PROVE  inbox'[p][i].kind # "notice"
    <3>1. CASE p # q
      BY <3>1 DEF CInv, Incoming
    <3>2. CASE p = q /\ i = last
      BY <1>4, <3>2
    <3>3. CASE p = q /\ i # last
      <4>1. i \in DOMAIN inbox[q] /\ inbox'[q][i] = inbox[q][i]
        BY <3>3
      <4>2. QED
        BY <3>3, <4>1 DEF CInv, Incoming
    <3>4. QED
      BY <3>1, <3>2, <3>3
  <2>2. ASSUME NEW p \in Proc, NEW i \in Asked(p)'
        PROVE  LET k == inbox'[p][i].id IN
               k \in Requests /\ sent[k].to = p /\ ~(InOutbox(k) /\ k # m) /\ ran[k] = 0
    <3>1. CASE p # q
      BY <1>2, <3>1 DEF CInv, Incoming
    <3>2. CASE p = q /\ i = last
      BY <1>1, <1>4, <3>2
    <3>3. CASE p = q /\ i # last
      <4>1. i \in Asked(q) /\ inbox'[q][i] = inbox[q][i]
        BY <1>3, <3>3
      <4>2. QED
        BY <3>3, <4>1 DEF CInv, Incoming
    <3>4. QED
      BY <3>1, <3>2, <3>3
  <2>3. ASSUME NEW p \in Proc, NEW i \in Asked(p)', NEW j \in Asked(p)', i < j,
               sent[inbox'[p][i].id].by = sent[inbox'[p][j].id].by
        PROVE  inbox'[p][i].id < inbox'[p][j].id
    <3>1. CASE p # q
      BY <1>2, <2>3, <3>1 DEF CInv, Incoming
    <3>2. CASE p = q /\ j # last
      <4>1. j \in Asked(q) /\ inbox'[q][j] = inbox[q][j] /\ i # last
        <5>1. j \in Asked(q) /\ inbox'[q][j] = inbox[q][j]
          BY <1>3, <3>2
        <5>2. QED
          BY <1>3, <2>3, <3>2, <5>1
      <4>2. i \in Asked(q) /\ inbox'[q][i] = inbox[q][i]
        BY <1>3, <3>2, <4>1
      <4>3. QED
        BY <2>3, <3>2, <4>1, <4>2 DEF CInv, Incoming
    <3>3. CASE p = q /\ j = last
      <4>1. i \in Asked(q) /\ inbox'[q][i] = inbox[q][i]
        <5>1. i # last /\ i \in Asked(q)'
          BY <1>3, <2>3, <3>3
        <5>2. QED
          BY <1>3, <3>3, <5>1
      <4>2. PICK k : k = inbox[q][i].id
        OBVIOUS
      <4>3. k \in Requests /\ ~InOutbox(k)
        BY <4>1, <4>2 DEF CInv, Incoming
      <4>4. inbox'[p][i].id = k /\ inbox'[p][j].id = m
        BY <1>4, <3>3, <4>1, <4>2
      <4>5. k # m /\ ~(m < k)
        BY <1>5, <2>3, <4>3, <4>4
      <4>6. k \in Nat /\ m \in Nat
        <5>1. k \in Msg
          BY <4>3, RequestTypes DEF CInv
        <5>2. QED
          BY <1>1, <5>1 DEF Msg
      <4>7. k < m
        BY <4>5, <4>6
      <4>8. QED
        BY <4>4, <4>7
    <3>4. QED
      BY <3>1, <3>2, <3>3
  <2>4. Requests' = Requests
    BY <1>2
  <2>5. QED
    BY <2>1, <2>2, <2>3, <2>4 DEF Incoming
<1>7. Entering'
  <2>1. \A k \in Msg : ran'[k] > 0 => k \in Requests' /\ ~InOutbox(k)'
    BY <1>2 DEF CInv, Entering
  <2>2. ASSUME NEW a \in Requests, NEW k \in Requests, a < k, sent[a].by = sent[k].by,
               sent[a].to = sent[k].to, ran[k] > 0,
               NEW p \in Proc, p = sent[a].to, NEW i \in Asked(p)'
        PROVE  inbox'[p][i].id # a
    <3>1. \A l \in Asked(p) : inbox[p][l].id # a
      BY <2>2 DEF CInv, Entering
    <3>2. CASE p = q /\ i = last
      <4>1. k \in Msg
        BY RequestTypes DEF CInv
      <4>2. ~InOutbox(k)
        BY <2>2, <4>1 DEF CInv, Entering
      <4>3. QED
        BY <1>4, <1>5, <2>2, <3>2, <4>2
    <3>3. CASE ~(p = q /\ i = last)
      BY <1>2, <1>3, <3>1, <3>3
    <3>4. QED
      BY <3>2, <3>3
  <2>3. \A a \in Requests : sent[a].to \in Proc
    BY RequestTypes DEF CInv
  <2>4. \A a, k \in Requests :
          a < k /\ sent[a].by = sent[k].by /\ sent[a].to = sent[k].to /\ ran'[k] > 0
            => \A i \in Asked(sent[a].to)' : inbox'[sent[a].to][i].id # a
    BY <2>2, <2>3, SMTT(60) DEF Asked
  <2>5. Requests' = Requests
    BY <1>2
  <2>6. QED
    BY <2>1, <2>4, <2>5, SMTT(60) DEF Entering, Asked
<1>8. QED
  BY <1>6, <1>7

\* The daemon hands a request on or answers that there is nobody; a notice fits no
\* match rule.
LEMMA RouteKeeps ==
  ASSUME CallsAssumption, CInv, NEW p \in Proc, Route(p)
  PROVE  CInv'
<1>1. PICK m : m = Head(outbox[p])
  OBVIOUS
<1>2. /\ outbox[p] # <<>> /\ outbox' = [outbox EXCEPT ![p] = Tail(@)]
      /\ UNCHANGED <<session, sessions, call_proc_, on, listener, current, sent, replies,
                     foreign, ran, outcome, ret>>
  BY DEF Route, sessionVars, pastVars
<1>3. /\ m \in Msg /\ m \in 1 .. Len(sent) /\ InOutbox(m)
      /\ \A k : InOutbox(k)' <=> InOutbox(k) /\ k # m
      /\ outbox' \in [Proc -> Seq(Msg)]
      /\ Requests' = Requests
      /\ Outgoing'
  BY <1>1, <1>2, HeadLeaves
<1>4. \/ /\ m \in Requests
         /\ inbox' = [inbox EXCEPT ![sent[m].to] = Append(@, [kind |-> "request", id |-> m])]
         /\ expected' = expected \cup {m}
         /\ UNCHANGED arrived
      \/ arrived' = [arrived EXCEPT ![m] = Failed] /\ UNCHANGED <<inbox, expected>>
      \/ UNCHANGED <<inbox, expected, arrived>>
  <2>1. inbox \in [Proc -> Seq(Item)]
    BY DEF CInv, TypeOK
  <2>2. [r \in Proc |-> inbox[r]] = inbox
    BY <2>1
  <2>3. Subscribers = {}
    BY DEF Subscribers, NoticeInterface, RuleInterface
  <2>4. sent[m].type = BUS_REQUEST => m \in Requests
    BY <1>3 DEF Requests
  <2>5. QED
    BY <1>1, <2>2, <2>3, <2>4 DEF Route
<1>5. /\ inbox' \in [Proc -> Seq(Item)] /\ Incoming' /\ Entering'
      /\ expected' \subseteq Msg /\ arrived' \in [Msg -> Result \cup {NULL}]
      /\ \A k \in Msg : arrived'[k] \in {arrived[k], Failed}
  <2>1. /\ inbox \in [Proc -> Seq(Item)] /\ expected \subseteq Msg
        /\ arrived \in [Msg -> Result \cup {NULL}] /\ Failed \in Result
    BY DEF CInv, TypeOK, Failed, Result
  <2>2. CASE /\ m \in Requests
             /\ inbox' = [inbox EXCEPT ![sent[m].to] = Append(@, [kind |-> "request", id |-> m])]
             /\ expected' = expected \cup {m}
             /\ UNCHANGED arrived
    <3>1. sent[m].to \in Proc
      BY <2>2, RequestTypes DEF CInv
    <3>2. PICK q : q = sent[m].to
      OBVIOUS
    <3>3. PICK item : item = [kind |-> "request", id |-> m]
      OBVIOUS
    <3>4. item \in Item /\ inbox[q] \in Seq(Item) /\ q \in Proc
      BY <1>3, <2>1, <3>1, <3>2, <3>3 DEF Item
    <3>5. inbox'[q] = Append(inbox[q], item) /\ \A r \in Proc : r # q => inbox'[r] = inbox[r]
      BY <2>1, <2>2, <3>2, <3>3, <3>4
    <3>6. PICK last : last = Len(inbox[q]) + 1
      OBVIOUS
    <3>7. /\ inbox'[q] \in Seq(Item) /\ inbox'[q][last] = item /\ last \in Nat
          /\ \A i \in DOMAIN inbox'[q] :
               /\ i <= last /\ i \in Nat
               /\ i # last => i \in DOMAIN inbox[q] /\ inbox'[q][i] = inbox[q][i]
      BY <3>4, <3>5, <3>6, AppendItems
    <3>8. inbox' \in [Proc -> Seq(Item)]
      BY <2>1, <2>2, <3>2, <3>3, <3>4, <3>5, <3>7
    <3>9. Incoming' /\ Entering'
      <4>1. UNCHANGED <<sent, ran>> /\ m \in Requests /\ sent[m].to = q
        BY <1>2, <2>2, <3>2
      <4>2. \A i \in DOMAIN inbox'[q] :
              i # last => i \in DOMAIN inbox[q] /\ inbox'[q][i] = inbox[q][i]
        BY <3>7
      <4>3. \A i \in DOMAIN inbox'[q] : i <= last /\ i \in Nat
        BY <3>7
      <4>4. inbox'[q][last] = [kind |-> "request", id |-> m] /\ last \in Nat /\ q \in Proc
        BY <3>3, <3>4, <3>7
      <4>5. \A r \in Proc : r # q => inbox'[r] = inbox[r]
        BY <3>5
      <4>6. InOutbox(m) /\ \A k : InOutbox(k)' <=> InOutbox(k) /\ k # m
        BY <1>3
      <4>7. QED
        BY <4>1, <4>2, <4>3, <4>4, <4>5, <4>6, HandedOn
    <3>10. QED
      BY <1>3, <2>1, <2>2, <3>8, <3>9
  <2>3. CASE UNCHANGED <<inbox, expected>>
    <3>1. Incoming' /\ Entering'
      BY <1>2, <1>3, <2>3, InboxesWait DEF CInv
    <3>2. QED
      BY <1>3, <1>4, <2>1, <2>3, <3>1
  <2>4. QED
    BY <1>4, <2>2, <2>3
<1>6. TypeOK'
  BY <1>2, <1>3, <1>5 DEF CInv, TypeOK
<1>7. Handling' /\ Waits'
  BY <1>2, <1>3 DEF CInv, Handling, Waits
<1>8. Answers'
  BY <1>2, <1>5 DEF CInv, Answers
<1>9. AtMostOnce' /\ SelfRequestFails'
  BY <1>2, <1>3 DEF CInv, AtMostOnce, SelfRequestFails
<1>10. QED
  BY <1>3, <1>5, <1>6, <1>7, <1>8, <1>9 DEF CInv

\* What the daemon passes back is an outcome.
LEMMA RouteReplyKeeps ==
  ASSUME CallsAssumption, CInv, NEW p \in Proc, RouteReply(p)
  PROVE  CInv'
<1>1. PICK m : m = Head(replies[p])
  OBVIOUS
<1>2. /\ replies[p] # <<>> /\ replies' = [replies EXCEPT ![p] = Tail(@)]
      /\ arrived' = [arrived EXCEPT ![m] = IF m \in expected THEN Answer(outcome[m]) ELSE @]
      /\ expected' = expected \ {m}
      /\ UNCHANGED <<session, sessions, call_proc_, on, listener, current, sent, outbox, inbox,
                     foreign, ran, outcome, ret>>
  BY <1>1 DEF RouteReply, sessionVars, pastVars
<1>3. replies \in [Proc -> Seq(Msg)] /\ replies[p] \in Seq(Msg)
  BY DEF CInv, TypeOK
<1>4. /\ m \in Msg /\ 1 \in DOMAIN replies[p] /\ m = replies[p][1]
      /\ replies'[p] = Tail(replies[p]) /\ replies' \in [Proc -> Seq(Msg)]
      /\ \A q \in Proc : q # p => replies'[q] = replies[q]
      /\ \A i \in DOMAIN replies'[p] : i + 1 \in DOMAIN replies[p] /\ replies'[p][i] = replies[p][i + 1]
  <2>1. replies'[p] = Tail(replies[p]) /\ \A q \in Proc : q # p => replies'[q] = replies[q]
    BY <1>2, <1>3
  <2>2. /\ 1 \in DOMAIN replies[p] /\ m = replies[p][1] /\ m \in Msg /\ Tail(replies[p]) \in Seq(Msg)
        /\ \A i \in DOMAIN Tail(replies[p]) :
             i + 1 \in DOMAIN replies[p] /\ Tail(replies[p])[i] = replies[p][i + 1]
    BY <1>1, <1>2, <1>3, TailItems
  <2>3. replies' \in [Proc -> Seq(Msg)]
    BY <1>2, <1>3, <2>2
  <2>4. QED
    BY <2>1, <2>2, <2>3
<1>5. outcome[m] \in Outcome
  BY <1>4 DEF CInv, TypeOK, Answers
<1>6. Answer(outcome[m]) \in Result
  <2>1. outcome[m] \in [code : {"SOK", "EGENERAL"}, payload : {"value", "none"}]
    BY <1>5 DEF CallsAssumption
  <2>2. QED
    BY <2>1 DEF Answer, Result
<1>7. /\ arrived' \in [Msg -> Result \cup {NULL}]
      /\ \A k \in Msg : arrived'[k] # arrived[k] => k = m /\ arrived'[k] = Answer(outcome[m])
  BY <1>2, <1>4, <1>6 DEF CInv, TypeOK
<1>8. TypeOK'
  BY <1>2, <1>4, <1>7 DEF CInv, TypeOK
<1>9. Requests' = Requests /\ Outgoing' /\ Incoming' /\ Entering'
  BY <1>2, OnTheWay, InboxesStay DEF CInv
<1>10. Handling' /\ Waits'
  BY <1>2, <1>9 DEF CInv, Handling, Waits
<1>11. Answers'
  <2>1. ASSUME NEW q \in Proc, NEW i \in DOMAIN replies'[q]
        PROVE  outcome[replies'[q][i]] # NULL
    <3>1. CASE q = p
      <4>1. i + 1 \in DOMAIN replies[p] /\ replies'[q][i] = replies[p][i + 1]
        BY <1>4, <3>1
      <4>2. QED
        BY <4>1 DEF CInv, Answers
    <3>2. CASE q # p
      <4>1. i \in DOMAIN replies[q] /\ replies'[q][i] = replies[q][i]
        BY <1>4, <3>2
      <4>2. QED
        BY <4>1 DEF CInv, Answers
    <3>3. QED
      BY <3>1, <3>2
  <2>2. ASSUME NEW k \in Msg
        PROVE  \/ arrived'[k] \in {NULL, Failed}
               \/ outcome[k] # NULL /\ arrived'[k] = Answer(outcome[k])
    <3>1. outcome[m] # NULL
      BY <1>5 DEF CallsAssumption
    <3>2. QED
      BY <1>7, <3>1 DEF CInv, Answers
  <2>3. \A k \in Msg : outcome[k] # NULL => ran[k] = 1
    BY DEF CInv, Answers
  <2>4. QED
    BY <1>2, <2>1, <2>2, <2>3 DEF Answers
<1>12. AtMostOnce' /\ SelfRequestFails'
  BY <1>2, <1>9 DEF CInv, AtMostOnce, SelfRequestFails
<1>13. QED
  BY <1>8, <1>9, <1>10, <1>11, <1>12 DEF CInv

\* Another program's message is no request of this system.
LEMMA ForeignMessageKeeps ==
  ASSUME CallsAssumption, CInv, NEW p \in Proc, NEW kind \in Foreign, ForeignMessage(p, kind)
  PROVE  CInv'
<1> DEFINE item == [kind |-> kind]
<1>1. /\ foreign < MaxForeign /\ foreign' = foreign + 1
      /\ inbox' = [inbox EXCEPT ![p] = Append(@, item)]
      /\ UNCHANGED <<session, sessions, call_proc_, on, listener, current, sent, outbox, replies,
                     expected, arrived, ran, outcome, ret>>
  BY DEF ForeignMessage, sessionVars, pastVars
<1>2. item \in Item /\ item.kind \notin {"request", "notice"}
  BY DEF Item, CallsAssumption
<1>3. inbox[p] \in Seq(Item) /\ inbox \in [Proc -> Seq(Item)]
  BY DEF CInv, TypeOK
<1> HIDE DEF item
<1>4. /\ inbox'[p] = Append(inbox[p], item) /\ inbox' \in [Proc -> Seq(Item)]
      /\ \A q \in Proc : q # p => inbox'[q] = inbox[q]
  BY <1>1, <1>2, <1>3, AppendItems
<1>5. /\ \A i \in DOMAIN inbox'[p] :
           inbox'[p][i] # item => i \in DOMAIN inbox[p] /\ inbox'[p][i] = inbox[p][i]
      /\ \A i \in DOMAIN inbox[p] : i \in DOMAIN inbox'[p] /\ inbox'[p][i] = inbox[p][i]
  BY <1>2, <1>3, <1>4, AppendItems
<1>6. \A q \in Proc :
        Asked(q)' = Asked(q) /\ \A i \in Asked(q) : inbox'[q][i] = inbox[q][i]
  <2> TAKE q \in Proc
  <2>1. CASE q # p
    BY <1>4, <2>1 DEF Asked
  <2>2. CASE q = p
    <3>1. ASSUME NEW i \in Asked(p)' PROVE i \in Asked(p)
      <4>1. i \in DOMAIN inbox'[p] /\ inbox'[p][i].kind = "request"
        BY DEF Asked
      <4>2. i \in DOMAIN inbox[p] /\ inbox'[p][i] = inbox[p][i]
        BY <1>2, <1>5, <4>1
      <4>3. QED
        BY <4>1, <4>2 DEF Asked
    <3>2. ASSUME NEW i \in Asked(p) PROVE i \in Asked(p)' /\ inbox'[p][i] = inbox[p][i]
      BY <1>5 DEF Asked
    <3>3. QED
      BY <2>2, <3>1, <3>2
  <2>3. QED
    BY <2>1, <2>2
<1>7. Requests' = Requests /\ (\A k : InOutbox(k)' <=> InOutbox(k)) /\ Outgoing'
  BY <1>1, OnTheWay DEF CInv
<1>8. UNCHANGED <<sent, ran>>
  BY <1>1
<1>9. Incoming'
  <2>1. ASSUME NEW q \in Proc, NEW i \in DOMAIN inbox'[q]
        PROVE  inbox'[q][i].kind # "notice"
    <3>1. CASE q = p
      BY <1>2, <1>5, <3>1 DEF CInv, Incoming
    <3>2. CASE q # p
      BY <1>4, <3>2, SMTT(60) DEF CInv, Incoming
    <3>3. QED
      BY <3>1, <3>2
  <2>2. QED
    BY <1>8, <1>6, <1>7, <2>1 DEF CInv, Incoming
<1>10. Entering'
  <2>1. \A k \in Msg : ran'[k] > 0 => k \in Requests' /\ ~InOutbox(k)'
    BY <1>1, <1>7 DEF CInv, Entering
  <2>2. \A m \in Requests : sent[m].to \in Proc
    BY RequestTypes DEF CInv
  <2>3. ASSUME NEW m \in Requests, NEW k \in Requests, m < k, sent[m].by = sent[k].by,
               sent[m].to = sent[k].to, ran'[k] > 0,
               NEW q \in Proc, q = sent[m].to, NEW i \in Asked(q)'
        PROVE  inbox'[q][i].id # m
    <3>1. \A l \in Asked(q) : inbox[q][l].id # m
      BY <1>1, <2>3 DEF CInv, Entering
    <3>2. QED
      BY <1>6, <2>3, <3>1
  <2>4. \A m, k \in Requests :
          m < k /\ sent[m].by = sent[k].by /\ sent[m].to = sent[k].to /\ ran'[k] > 0
            => \A i \in Asked(sent[m].to)' : inbox'[sent[m].to][i].id # m
    BY <1>1, <2>2, <2>3, SMTT(60) DEF Asked
  <2>5. QED
    BY <1>8, <1>7, <2>1, <2>4 DEF Entering, Asked
<1>11. TypeOK'
  <2>1. foreign' \in 0 .. MaxForeign
    BY <1>1 DEF CInv, TypeOK, CallsAssumption
  <2>2. QED
    BY <1>1, <1>4, <2>1 DEF CInv, TypeOK
<1>12. Handling' /\ Waits' /\ Answers'
  BY <1>1, <1>7 DEF CInv, Handling, Waits, Answers
<1>13. AtMostOnce' /\ SelfRequestFails'
  BY <1>1, <1>7 DEF CInv, AtMostOnce, SelfRequestFails
<1>14. QED
  BY <1>7, <1>9, <1>10, <1>11, <1>12, <1>13 DEF CInv

-----------------------------------------------------------------------------
(***************************************************************************)
(* The invariant, and what follows from it                                 *)
(***************************************************************************)

\* Every step keeps the invariant.
LEMMA NextKeeps == ASSUME CallsAssumption, CInv, [Next]_vars PROVE CInv'
<1>1. ASSUME NEW p \in Proc, NEW c \in BOOLEAN, Connect(p, c) PROVE CInv'
  BY <1>1, ConnectKeeps
<1>2. ASSUME NEW p \in Proc, Disconnect(p) \/ ListenerEnds(p) \/ Crash(p) PROVE CInv'
  BY <1>2, DisconnectKeeps, ListenerEndsKeeps, CrashKeeps
<1>3. ASSUME NEW p \in Proc, Poll(p) \/ Receive(p) \/ CallbackReturns(p) \/ SendReply(p)
      PROVE  CInv'
  BY <1>3, PollKeeps, ReceiveKeeps, CallbackReturnsKeeps, SendReplyKeeps
<1>4. ASSUME NEW p \in Proc, Route(p) \/ RouteReply(p) PROVE CInv'
  BY <1>4, RouteKeeps, RouteReplyKeeps
<1>5. ASSUME NEW p \in Proc, NEW kind \in Foreign, ForeignMessage(p, kind) PROVE CInv'
  BY <1>5, ForeignMessageKeeps
<1>6. ASSUME NEW t \in Thread, NEW service \in Proc, NEW msg_type \in {BUS_NOTICE, BUS_REQUEST},
             SendMessage(t, service, msg_type)
      PROVE  CInv'
  BY <1>6, SendMessageKeeps
<1>7. ASSUME NEW t \in Thread, Awake(t) \/ Timeout(t) PROVE CInv'
  BY <1>7, AwakeKeeps, TimeoutKeeps
<1>8. CASE UNCHANGED vars
  <2>1. UNCHANGED <<session, sessions, call_proc_, on, listener, current, sent, outbox, inbox,
                    replies, expected, foreign, arrived, ran, outcome, ret>>
    BY <1>8 DEF vars, sessionVars, daemonVars, pastVars
  <2>2. Requests' = Requests /\ Outgoing' /\ Incoming' /\ Entering'
    BY <2>1, OnTheWay, InboxesStay DEF CInv
  <2>3. TypeOK'
    BY <2>1 DEF CInv, TypeOK
  <2>4. Handling' /\ Answers' /\ Waits'
    BY <2>1, <2>2 DEF CInv, Handling, Answers, Waits
  <2>5. AtMostOnce' /\ SelfRequestFails'
    BY <2>1, <2>2 DEF CInv, AtMostOnce, SelfRequestFails
  <2>6. QED
    BY <2>2, <2>3, <2>4, <2>5 DEF CInv
<1>9. QED
  BY <1>1, <1>2, <1>3, <1>4, <1>5, <1>6, <1>7, <1>8 DEF Next

\* The inductive invariant holds in every state.
THEOREM CallsInvariance == Spec => []CInv
<1>1. Init => CInv
  BY InitCInv, CallsAssumption
<1>2. CInv /\ [Next]_vars => CInv'
  BY NextKeeps, CallsAssumption
<1>3. QED
  BY <1>1, <1>2, PTL DEF Spec

\* The types of the state, for any application, crashes and foreign messages.
THEOREM TypeCorrect == Spec => []TypeOK
<1>1. CInv => TypeOK
  BY DEF CInv
<1>2. QED
  BY <1>1, CallsInvariance, PTL

\* However threads, daemon and sessions interleave, and whatever is lost, run() enters
\* the callback once at most for a message.
THEOREM OnceAtMost == Spec => []AtMostOnce
<1>1. CInv => AtMostOnce
  BY DEF CInv
<1>2. QED
  BY <1>1, CallsInvariance, PTL

\* A callback that asks its own service is told "failed": its thread is the one that
\* would have to answer.
THEOREM NoAnswerFromOneself == Spec => []SelfRequestFails
<1>1. CInv => SelfRequestFails
  BY DEF CInv
<1>2. QED
  BY <1>1, CallsInvariance, PTL

\* The callback is entered for no request that a later one of its sender has overtaken.
LEMMA StepInOrder ==
  ASSUME CallsAssumption, CInv, [Next]_vars, NEW m \in Requests, NEW k \in Requests,
         m < k, sent[m].by = sent[k].by, sent[m].to = sent[k].to, ran[k] > 0, ran[m] = 0
  PROVE  ran'[m] = 0
<1>1. m \in Msg
  BY RequestTypes DEF CInv
<1>2. CASE UNCHANGED ran
  BY <1>2
<1>3. ASSUME NEW p \in Proc, Receive(p), ~UNCHANGED ran
      PROVE  ran'[m] = 0
  <2>1. PICK item : item = inbox[p][1]
    OBVIOUS
  <2>2. inbox[p] # <<>> /\ Entered(item)
    BY <1>3, <2>1 DEF Receive, Oldest
  <2>3. inbox[p] \in Seq(Item) /\ 1 \in DOMAIN inbox[p]
    BY <2>2, TailItems DEF CInv, TypeOK
  <2>4. item.kind # "notice"
    BY <2>1, <2>3 DEF CInv, Incoming
  <2>5. item.kind = "request" /\ ran' = [ran EXCEPT ![item.id] = @ + 1]
    BY <1>3, <2>2, <2>4 DEF Entered
  <2>6. 1 \in Asked(p)
    BY <2>1, <2>3, <2>5 DEF Asked
  <2>7. item.id # m
    <3>1. SUFFICES ASSUME item.id = m PROVE FALSE
      OBVIOUS
    <3>2. sent[m].to = p
      BY <2>1, <2>6, <3>1 DEF CInv, Incoming
    <3>3. \A i \in Asked(p) : inbox[p][i].id # m
      BY <3>2 DEF CInv, Entering
    <3>4. QED
      BY <2>1, <2>6, <3>1, <3>3
  <2>8. QED
    BY <1>1, <2>5, <2>7 DEF CInv, TypeOK
<1>4. [\E p \in Proc : Receive(p)]_ran
  BY ZenonT(60) DEF Next, vars, pastVars, Connect, Disconnect, ListenerEnds, Crash, Poll,
     CallbackReturns, SendReply, Route, RouteReply, ForeignMessage, SendMessage,
     Awake, Timeout, Returns
<1>5. QED
  BY <1>2, <1>3, <1>4

\* Requests of one thread to one service reach the callback in the order they were
\* sent, those that were given up too.
THEOREM KeepsOrder == Spec => OrderKept
<1> DEFINE InOrder == \A m, k \in Requests :
             m < k /\ sent[m].by = sent[k].by /\ sent[m].to = sent[k].to
             /\ ran[k] > 0 /\ ran[m] = 0 => ran'[m] = 0
<1>1. CInv /\ [Next]_vars => [InOrder]_vars
  BY StepInOrder, CallsAssumption
<1>2. QED
  BY <1>1, CallsInvariance, PTL DEF Spec, OrderKept

\* At the start no request has been made.
LEMMA ContractInit == ASSUME CallsAssumption, Init PROVE Contract!Init
<1>1. Len(<<>>) = 0
  OBVIOUS
<1>2. Requests = {}
  BY <1>1 DEF Init, Requests
<1>3. QED
  BY <1>2 DEF Init, Contract!Init

\* What a caller is told, of a request
Told == [m \in Msg |-> IF m \in Requests THEN ret[m] ELSE NULL]

\* A request that is posted is made; a notice is no business of the contract.
LEMMA SendMessageMakes ==
  ASSUME CallsAssumption, CInv, NEW t \in Thread, NEW service \in Proc,
         NEW msg_type \in {BUS_NOTICE, BUS_REQUEST}, SendMessage(t, service, msg_type)
  PROVE  (\E m \in Msg : Contract!Make(m)) \/ UNCHANGED Contract!vars
<1>1. PICK n : n = Len(sent) + 1
  OBVIOUS
<1>2. /\ n \in Msg /\ Len(sent') = n /\ ret[n] = NULL
      /\ \A m \in Requests : m \in Requests' /\ m # n
      /\ \A m \in Requests' : m # n => m \in Requests
      /\ n \in Requests' <=> msg_type = BUS_REQUEST
  <2>1. /\ Len(sent) < MaxSent
        /\ sent' = Append(sent, [by |-> t, to |-> service, type |-> msg_type])
    BY DEF SendMessage, Post
  <2>2. QED
    BY <1>1, <2>1, Posted
<1>3. UNCHANGED outcome
  BY DEF SendMessage, pastVars
<1>4. CASE msg_type = BUS_REQUEST
  <2>1. ret' = ret
    BY <1>4 DEF SendMessage, BUS_REQUEST, BUS_NOTICE
  <2>2. n \notin Requests /\ Requests' = Requests \cup {n}
    BY <1>2, <1>4
  <2>3. Told' = Told
    BY <1>2, <2>1, <2>2 DEF Told, Msg
  <2>4. Contract!Make(n)
    BY <1>3, <2>2, <2>3 DEF Contract!Make, Told
  <2>5. QED
    BY <1>2, <2>4
<1>5. CASE msg_type = BUS_NOTICE
  <2>1. ret' = [ret EXCEPT ![n] = Sent]
    BY <1>2, <1>5 DEF SendMessage, BUS_REQUEST, BUS_NOTICE
  <2>2. n \notin Requests /\ Requests' = Requests
    <3>1. n \notin Requests' /\ n \notin Requests
      BY <1>2, <1>5 DEF BUS_REQUEST, BUS_NOTICE
    <3>2. QED
      BY <1>2, <3>1
  <2>3. Told' = Told
    BY <2>1, <2>2 DEF Told, Msg, CInv, TypeOK
  <2>4. QED
    BY <1>3, <2>2, <2>3 DEF Contract!vars, Told
<1>6. QED
  BY <1>4, <1>5

\* A call that returns has been told, once, what its one run gave or a failure.
LEMMA ReturnsTells ==
  ASSUME CallsAssumption, CInv, NEW t \in Thread, NEW r, on[t] # 0, Returns(t, r),
         r = Failed \/ (r = arrived[on[t]] /\ r # NULL)
  PROVE  \E m \in Msg : Contract!TellAnswer(m) \/ Contract!TellFailed(m)
<1>1. PICK m : m = on[t]
  OBVIOUS
<1>2. m \in Msg /\ m \in Requests /\ ret[m] = NULL
  BY <1>1, RequestTypes DEF CInv, Waits
<1>3. ret' = [ret EXCEPT ![m] = r] /\ UNCHANGED <<sent, outcome>>
  BY <1>1 DEF Returns, pastVars
<1>4. Requests' = Requests
  BY <1>3 DEF Requests
<1>5. Told' = [Told EXCEPT ![m] = r]
  <2>1. ret \in [Msg -> Result \cup {NULL}]
    BY DEF CInv, TypeOK
  <2>2. \A k \in Msg : ret'[k] = IF k = m THEN r ELSE ret[k]
    BY <1>2, <1>3, <2>1
  <2>3. Told' = [k \in Msg |-> IF k \in Requests THEN ret'[k] ELSE NULL]
    BY <1>4 DEF Told, Msg
  <2>4. QED
    BY <1>2, <2>2, <2>3 DEF Told
<1>6. Told[m] = NULL
  BY <1>2 DEF Told
<1>7. CASE r = Failed
  BY <1>2, <1>3, <1>4, <1>5, <1>6, <1>7 DEF Contract!TellFailed, Told
<1>8. CASE r # Failed
  <2>1. outcome[m] # NULL /\ r = Answer(outcome[m])
    BY <1>1, <1>2, <1>8 DEF CInv, Answers
  <2>2. QED
    BY <1>2, <1>3, <1>4, <1>5, <1>6, <2>1 DEF Contract!TellAnswer, Told
<1>9. QED
  BY <1>7, <1>8

\* A callback that returns from a request is its one run.
LEMMA CallbackReturnsRuns ==
  ASSUME CallsAssumption, CInv, NEW p \in Proc, CallbackReturns(p)
  PROVE  (\E m \in Msg, o \in Outcome : Contract!Run(m, o)) \/ UNCHANGED Contract!vars
<1>1. UNCHANGED <<sent, ret>> /\ listener[p] = "callback"
  BY DEF CallbackReturns
<1>2. Requests' = Requests /\ Told' = Told
  BY <1>1 DEF Requests, Told
<1>3. CASE current[p].kind = "request"
  <2>1. PICK m : m = current[p].id
    OBVIOUS
  <2>2. m \in Requests /\ m \in Msg /\ outcome[m] = NULL
    BY <1>1, <1>3, <2>1, RequestTypes DEF CInv, Handling
  <2>3. PICK o \in Outcome : outcome' = [outcome EXCEPT ![m] = o]
    BY <1>3, <2>1 DEF CallbackReturns
  <2>4. Contract!Run(m, o)
    BY <1>2, <2>2, <2>3 DEF Contract!Run, Told
  <2>5. QED
    BY <2>2, <2>4
<1>4. CASE current[p].kind # "request"
  BY <1>2, <1>4 DEF CallbackReturns, Contract!vars, Told
<1>5. QED
  BY <1>3, <1>4

\* Every step is one of the contract's, or none to it.
LEMMA ContractNext ==
  ASSUME CallsAssumption, CInv, [Next]_vars PROVE [Contract!Next]_(Contract!vars)
<1>1. ASSUME NEW t \in Thread, NEW service \in Proc, NEW msg_type \in {BUS_NOTICE, BUS_REQUEST},
             SendMessage(t, service, msg_type)
      PROVE  [Contract!Next]_(Contract!vars)
  BY <1>1, SendMessageMakes DEF Contract!Next
<1>2. ASSUME NEW t \in Thread, Awake(t) \/ Timeout(t)
      PROVE  [Contract!Next]_(Contract!vars)
  <2>1. \E r : /\ on[t] # 0 /\ Returns(t, r)
               /\ r = Failed \/ (r = arrived[on[t]] /\ r # NULL)
    BY <1>2 DEF Awake, Timeout, Reply
  <2>2. \E m \in Msg : Contract!TellAnswer(m) \/ Contract!TellFailed(m)
    BY <2>1, ReturnsTells
  <2>3. QED
    BY <2>2 DEF Contract!Next
<1>3. ASSUME NEW p \in Proc, CallbackReturns(p)
      PROVE  [Contract!Next]_(Contract!vars)
  BY <1>3, CallbackReturnsRuns DEF Contract!Next
<1>4. CASE UNCHANGED <<sent, outcome, ret>>
  BY <1>4, SMTT(60) DEF Contract!vars, Requests
<1>5. \/ UNCHANGED <<sent, outcome, ret>>
      \/ \E p \in Proc : CallbackReturns(p)
      \/ \E t \in Thread : Awake(t) \/ Timeout(t)
      \/ \E t \in Thread, service \in Proc, msg_type \in {BUS_NOTICE, BUS_REQUEST} :
           SendMessage(t, service, msg_type)
  BY ZenonT(60) DEF Next, vars, pastVars, Connect, Disconnect, ListenerEnds, Crash, Poll, Receive,
     SendReply, Route, RouteReply, ForeignMessage
<1>6. QED
  BY <1>1, <1>2, <1>3, <1>4, <1>5

\* Requests are answered as RequestContract promises: one run at most, and nothing is
\* told a caller but what that run gave, or a failure.
THEOREM AnswersItsRequests == Spec => ImplementsContract
<1>1. Init => Contract!Init
  BY ContractInit, CallsAssumption
<1>2. CInv /\ [Next]_vars => [Contract!Next]_(Contract!vars)
  BY ContractNext, CallsAssumption
<1>3. QED
  BY <1>1, <1>2, CallsInvariance, PTL DEF Spec, ImplementsContract, Contract!Spec
=============================================================================
