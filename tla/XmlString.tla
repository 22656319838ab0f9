------------------------------ MODULE XmlString ------------------------------
(***************************************************************************)
(* TiXmlString, the string class of tinyxml in this build (TIXML_USE_STL   *)
(* is not defined).  A string holds a buffer with a size and a capacity,   *)
(* or the one static nullrep_ that all empty strings share; assign and     *)
(* append choose between the buffer they have and a new one, and their     *)
(* argument may lie in the very buffer they change.                        *)
(***************************************************************************)
EXTENDS XmlStringRep

vars == <<rep, capacity, text>>

Init ==
  /\ rep = [s \in Str |-> nullrep]
  /\ capacity = [r \in Rep |-> 0]
  /\ text = [r \in Rep |-> <<>>]

Free == {b \in Buffer : capacity[b] = 0}

\* What a call is given: a text of the program, or the rest of a string, which
\* may be the string it is called on.
Rest(s) == {SubSeq(Value(s), i + 1, Len(Value(s))) : i \in Offset}

-----------------------------------------------------------------------------
\* A slip: the old buffer is not deleted.
Swapped_Kept(s, r, b, cap, str) ==
  /\ rep' = [rep EXCEPT ![s] = b]
  /\ capacity' = [capacity EXCEPT ![b] = cap]
  /\ text' = [text EXCEPT ![b] = str]

\* A buffer of size cap with the text str takes the place of r = rep[s], which
\* quit deletes.  None is needed when cap is 0.
Swapped(s, r, b, cap, str) ==
  /\ rep' = [rep EXCEPT ![s] = b]
  /\ capacity' = [x \in Rep |-> IF x = nullrep THEN 0 ELSE
                                IF x = b THEN cap ELSE
                                IF x = r THEN 0 ELSE capacity[x]]
  /\ text' = [x \in Rep |-> IF x = nullrep THEN <<>> ELSE
                            IF x = b THEN str ELSE
                            IF x = r THEN <<>> ELSE text[x]]

NewRep(s, cap, str) ==
  IF cap = 0 THEN Swapped(s, rep[s], nullrep, 0, <<>>)
  ELSE \E b \in Free : Swapped(s, rep[s], b, cap, str)

InPlace(s, str) ==
  /\ text' = [text EXCEPT ![rep[s]] = str]
  /\ UNCHANGED <<rep, capacity>>

\* assign keeps a buffer that is large enough and not more than three times
\* too large.  The argument is copied before the old buffer is deleted.
Assign(s, str) ==
  LET cap == capacity[rep[s]]
      len == Len(str) IN
  IF len > cap \/ cap > 3 * (len + 8) THEN NewRep(s, len, str)
                                      ELSE InPlace(s, str)

\* What memcpy reads where str was
Deleted(str) == [i \in DOMAIN str |-> Garbage]

\* append doubles the buffer.  reserve has deleted the old one when the
\* argument is read.
Append1(s, str, own) ==
  LET cap == capacity[rep[s]]
      newsize == Len(Value(s)) + Len(str) IN
  /\ newsize <= MaxLength
  /\ IF newsize > cap
     THEN \E read \in IF own THEN {str, Deleted(str)} ELSE {str} :
            NewRep(s, newsize + cap, Value(s) \o read)
     ELSE InPlace(s, Value(s) \o str)

AssignLiteral(s, str) == Assign(s, str)
AssignString(s, t, str) == str \in Rest(t) /\ Assign(s, str)

AppendLiteral(s, str) == Append1(s, str, FALSE)
AppendString(s, t, str) == str \in Rest(t) /\ Append1(s, str, s = t)

\* s = a + b: the sum is a string of its own with room for both.
AssignSum(s, a, b) ==
  /\ Len(Value(a)) + Len(Value(b)) <= MaxLength
  /\ Assign(s, Value(a) \o Value(b))

Reserve(s, cap) ==
  /\ cap > capacity[rep[s]]
  /\ NewRep(s, cap, Value(s))

\* A slip: the copy takes the other's buffer.
Copy_Shared(s, t) ==
  /\ rep' = [rep EXCEPT ![s] = rep[t]]
  /\ UNCHANGED <<capacity, text>>

\* s is destroyed, and a copy-constructed string takes its place.
Copy(s, t) == s # t /\ NewRep(s, Len(Value(t)), Value(t))

\* s is destroyed and comes back empty.
Clear(s) == NewRep(s, 0, <<>>)

Swap(s, t) ==
  /\ rep' = [rep EXCEPT ![s] = rep[t], ![t] = rep[s]]
  /\ UNCHANGED <<capacity, text>>

Next == \E s \in Str :
  \/ \E str \in Literal : AssignLiteral(s, str) \/ AppendLiteral(s, str)
  \/ \E cap \in Room : Reserve(s, cap)
  \/ Clear(s)
  \/ \E t \in Str :
       \/ \E str \in Rest(t) : AssignString(s, t, str) \/ AppendString(s, t, str)
       \/ Copy(s, t)
       \/ Swap(s, t)
       \/ \E u \in Str : AssignSum(s, t, u)

Spec == Init /\ [][Next]_vars

=============================================================================
