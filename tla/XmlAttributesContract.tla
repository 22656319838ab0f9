----------------------- MODULE XmlAttributesContract -----------------------
(***************************************************************************)
(* What a program may rely on of an element's attributes: a sequence of    *)
(* names, each with its value, in the order in which they were first set.  *)
(***************************************************************************)
EXTENDS Naturals, SequencesExt

CONSTANTS Element, Text, Empty, NULL

VARIABLE attributes  \* a sequence of <<name, value>> for each element

Names(e) == {a[1] : a \in ToSet(attributes[e])}
Lookup(e, n) == IF n \in Names(e)
                THEN (CHOOSE a \in ToSet(attributes[e]) : a[1] = n)[2]
                ELSE NULL
Become(e, list) == attributes' = [attributes EXCEPT ![e] = list]

\* A copy ends where an attribute without name and value comes, unless it
\* comes first.
Copied(list) ==
  LET ends == {i \in DOMAIN list : i > 1 /\ list[i] = <<Empty, Empty>>}
  IN  IF ends = {} THEN list ELSE SubSeq(list, 1, Min(ends) - 1)

Init == attributes = [e \in Element |-> <<>>]

Change(e, n, v) ==
  /\ n \in Names(e)
  /\ Become(e, [i \in DOMAIN attributes[e] |->
                  IF attributes[e][i][1] = n THEN <<n, v>> ELSE attributes[e][i]])

Extend(e, n, v) == n \notin Names(e) /\ Become(e, Append(attributes[e], <<n, v>>))

\* The program may not set a new name after the empty one; a text that is read
\* may have one there.
Set(e, n, v) == Change(e, n, v) \/ (Empty \notin Names(e) /\ Extend(e, n, v))
Read(e, n, v) == n # Empty /\ Extend(e, n, v)

\* No name is there twice.
Drop(e, n) == \E i \in DOMAIN attributes[e] :
  attributes[e][i][1] = n /\ Become(e, RemoveAt(attributes[e], i))

\* A copy may not go on after the empty name.
Copy(e, src) ==
  LET list == Copied(attributes[src]) IN
  /\ \A i \in DOMAIN list : i < Len(list) => list[i][1] # Empty
  /\ Become(e, list)

Next == \E e \in Element :
  \/ \E n, v \in Text : Set(e, n, v) \/ Read(e, n, v)
  \/ \E n \in Text : Drop(e, n)
  \/ Become(e, <<>>)
  \/ \E src \in Element \ {e} : Copy(e, src)

Spec == Init /\ [][Next]_attributes
=============================================================================
