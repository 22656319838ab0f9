-------------------------- MODULE XmlStringContract --------------------------
(***************************************************************************)
(* What tinyxml relies on of its strings: each has a text of its own, and  *)
(* a call changes one of them to what it was given, whatever string that   *)
(* text was taken from.  Only what is appended to a string from its own    *)
(* data may be lost.                                                       *)
(***************************************************************************)
EXTENDS Naturals, Sequences

CONSTANTS Str, Literal, Offset, Garbage

VARIABLE value

Become(s, v) == value' = [value EXCEPT ![s] = v]
Rest(t) == {SubSeq(value[t], i + 1, Len(value[t])) : i \in Offset}

Init == value = [s \in Str |-> <<>>]

Next == \E s \in Str :
  \/ \E str \in Literal \cup {<<>>} : Become(s, str) \/ Become(s, value[s] \o str)
  \/ \E t \in Str :
       \/ Become(s, value[t])
       \/ \E str \in Rest(t) : Become(s, str) \/ Become(s, value[s] \o str)
       \/ \E u \in Str : Become(s, value[t] \o value[u])
       \/ value' = [value EXCEPT ![s] = value[t], ![t] = value[s]]
  \/ \E str \in Rest(s) : Become(s, value[s] \o [i \in DOMAIN str |-> Garbage])

Spec == Init /\ [][Next]_value
=============================================================================
