-------------------------- MODULE RequestContract --------------------------
(***************************************************************************)
(* What a request promises its caller: the callback of the service runs at *)
(* most once for it, perhaps after the caller has given up; a caller that  *)
(* is told anything but "failed" is told what that one run gave.           *)
(***************************************************************************)
CONSTANTS
  Request,      \* identities of requests
  Outcome,      \* what a callback can give
  Answer(_),    \* what the caller is told of an outcome
  Failed,       \* what the caller is told when no answer came
  NULL

VARIABLES
  made,  \* the requests made so far
  run,   \* run[m] is what the callback gave for m, NULL if it has not ended
  told   \* told[m] is what the caller was told, NULL while it waits

vars == <<made, run, told>>

TypeOK ==
  /\ made \subseteq Request
  /\ run \in [Request -> Outcome \cup {NULL}]
  /\ told \in [Request -> {Answer(o) : o \in Outcome} \cup {Failed, NULL}]

Init ==
  /\ made = {}
  /\ run = [m \in Request |-> NULL]
  /\ told = [m \in Request |-> NULL]

Make(m) ==
  /\ m \notin made
  /\ made' = made \cup {m}
  /\ UNCHANGED <<run, told>>

Run(m, o) ==
  /\ m \in made /\ run[m] = NULL
  /\ run' = [run EXCEPT ![m] = o]
  /\ UNCHANGED <<made, told>>

TellAnswer(m) ==
  /\ m \in made /\ told[m] = NULL /\ run[m] # NULL
  /\ told' = [told EXCEPT ![m] = Answer(run[m])]
  /\ UNCHANGED <<made, run>>

TellFailed(m) ==
  /\ m \in made /\ told[m] = NULL
  /\ told' = [told EXCEPT ![m] = Failed]
  /\ UNCHANGED <<made, run>>

Next ==
  \E m \in Request :
    \/ Make(m) \/ TellAnswer(m) \/ TellFailed(m)
    \/ \E o \in Outcome : Run(m, o)

Spec == Init /\ [][Next]_vars
=============================================================================
