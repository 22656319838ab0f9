------------------------------- MODULE CallsInv -------------------------------
(***************************************************************************)
(* The inductive invariant of Calls.  A message is on its way in one place *)
(* at most, an outbox or an inbox, and there behind the earlier ones of    *)
(* its sender; the callback has not been entered for it before it leaves   *)
(* the last of them.                                                       *)
(***************************************************************************)
EXTENDS Calls

InOutbox(m) == \E p \in Proc : \E i \in DOMAIN outbox[p] : outbox[p][i] = m

\* Where the items with a number in an inbox are
Asked(p) == {i \in DOMAIN inbox[p] : inbox[p][i].kind = "request"}

\* A send connection holds messages of its own process, in the order in which
\* they were sent, and they leave it in this order.
Outgoing ==
  /\ \A p \in Proc : \A i \in DOMAIN outbox[p] :
       outbox[p][i] <= Len(sent) /\ ProcessOf(sent[outbox[p][i]].by) = p
  /\ \A p \in Proc : \A i, j \in DOMAIN outbox[p] : i < j => outbox[p][i] < outbox[p][j]
  /\ \A m, k \in 1 .. Len(sent) :
       m < k /\ ProcessOf(sent[m].by) = ProcessOf(sent[k].by) /\ InOutbox(m)
         => InOutbox(k)

\* An inbox holds requests to its own service that have left the outbox and that
\* no callback has seen, those of one sender in their order.  A notice is in none.
Incoming ==
  /\ \A p \in Proc : \A i \in DOMAIN inbox[p] : inbox[p][i].kind # "notice"
  /\ \A p \in Proc : \A i \in Asked(p) :
       LET m == inbox[p][i].id IN
       /\ m \in Requests /\ sent[m].to = p
       /\ ~InOutbox(m) /\ ran[m] = 0
  /\ \A p \in Proc : \A i, j \in Asked(p) :
       i < j /\ sent[inbox[p][i].id].by = sent[inbox[p][j].id].by
         => inbox[p][i].id < inbox[p][j].id

\* What the callback has been entered for had left its outbox, and no earlier
\* request of the same sender is behind it.
Entering ==
  /\ \A m \in Msg : ran[m] > 0 => m \in Requests /\ ~InOutbox(m)
  /\ \A m, k \in Requests :
       m < k /\ sent[m].by = sent[k].by /\ sent[m].to = sent[k].to /\ ran[k] > 0
         => \A i \in Asked(sent[m].to) : inbox[sent[m].to][i].id # m

\* A listener in its callback has an item, whose request has no outcome yet; one
\* that replies has a request that has.  A process that is down has none.
Handling == \A p \in Proc :
  /\ session[p] = "down" => listener[p] = "off"
  /\ listener[p] \in {"callback", "reply"} => current[p] \in Item
  /\ listener[p] = "callback" /\ current[p].kind = "request" =>
       LET m == current[p].id IN
       m \in Requests /\ sent[m].to = p /\ ran[m] = 1 /\ outcome[m] = NULL
  /\ listener[p] = "reply" =>
       current[p].kind = "request" /\ outcome[current[p].id] # NULL

\* Only an outcome is replied, and what arrives is that or a failure.
Answers ==
  /\ \A p \in Proc : \A i \in DOMAIN replies[p] : outcome[replies[p][i]] # NULL
  /\ \A m \in Msg : outcome[m] # NULL => ran[m] = 1
  /\ \A m \in Msg : \/ arrived[m] \in {NULL, Failed}
                    \/ outcome[m] # NULL /\ arrived[m] = Answer(outcome[m])

\* A thread waits for a request of its own that has not returned; a listening
\* thread does so in its callback, where it cannot handle a request to itself.
Waits ==
  /\ \A m \in Msg : ret[m] # NULL => m <= Len(sent)
  /\ \A t \in Thread : on[t] # 0 =>
       on[t] \in Requests /\ sent[on[t]].by = t /\ ret[on[t]] = NULL
  /\ \A p \in Proc : on[p] # 0 =>
       listener[p] = "callback" /\ (sent[on[p]].to = p => ran[on[p]] = 0)

CInv ==
  /\ TypeOK /\ Outgoing /\ Incoming /\ Entering /\ Handling /\ Answers /\ Waits
  /\ AtMostOnce /\ SelfRequestFails
=============================================================================
