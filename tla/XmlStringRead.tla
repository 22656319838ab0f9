---------------------------- MODULE XmlStringRead ----------------------------
(***************************************************************************)
(* What TiXmlString tells of its text: at, find, and the comparisons.      *)
(*                                                                         *)
(* A text is a sequence of bytes, the numbers from 0; behind it lies the   *)
(* zero byte that set_size writes.  A text that is given with its length   *)
(* may have zero bytes inside, and the functions that look for the zero    *)
(* byte take the first one.                                                *)
(***************************************************************************)
EXTENDS Integers, Sequences

Terminated(s) == Append(s, 0)
Least(S) == CHOOSE i \in S : \A j \in S : i <= j

length(s) == Len(s)
empty(s) == Len(s) = 0

npos == -1
NoByte == -1

\* An index past the end does not pass the assertion.
at(s, index) == IF index < length(s) THEN s[index + 1] ELSE NoByte

\* Offsets and results count from 0.
find(s, tofind, offset) ==
  LET end == Least({i \in offset + 1..Len(s) + 1 : Terminated(s)[i] = 0})
      found == {i \in offset + 1..end - 1 : s[i] = tofind}
  IN  IF offset >= length(s) \/ found = {} THEN npos ELSE Least(found) - 1

\* strcmp: the difference at the first place where two texts differ, or one ends
strcmp(s, t) ==
  LET a == Terminated(s)
      b == Terminated(t)
      place == Least({i \in 1..Len(a) : i <= Len(b) /\ (a[i] # b[i] \/ a[i] = 0)})
  IN  a[place] - b[place]

Equal(s, t) == length(s) = length(t) /\ strcmp(s, t) = 0
NotEqual(s, t) == ~ Equal(s, t)
Less(s, t) == strcmp(s, t) < 0
Greater(s, t) == Less(t, s)
LessOrEqual(s, t) == ~ Less(t, s)
GreaterOrEqual(s, t) == ~ Less(s, t)

\* The comparison with a char*, which has no length
EqualText(s, str) == strcmp(s, str) = 0

-----------------------------------------------------------------------------
Plain(s) == \A i \in DOMAIN s : s[i] # 0

\* The comparisons are those of one total order, and agree with each other, on
\* texts without a zero byte.  With one, a text can be neither equal to another
\* nor less nor greater.  (tinystr.h, operator==, operator<)
OrderAgrees(texts) ==
  /\ \A s, t \in texts :
       /\ (Plain(s) /\ Plain(t)) => (Equal(s, t) <=> s = t)
       /\ (Plain(s) /\ Plain(t)) =>
            {Less(s, t), Equal(s, t)} = {TRUE, FALSE} \/ Greater(s, t)
       /\ ~ (Less(s, t) /\ Greater(s, t))
       /\ Equal(s, t) => LessOrEqual(s, t) /\ GreaterOrEqual(s, t) /\ EqualText(s, t)
       /\ NotEqual(s, t) /\ ~ Less(s, t) /\ ~ Greater(s, t) <=>
            EqualText(s, t) /\ length(s) # length(t)
  /\ \A s, t, u \in texts : Less(s, t) /\ Less(t, u) => Less(s, u)

\* find gives the first place from the offset on, and what at shows there; it sees
\* nothing behind a zero byte.  (TiXmlString::find, at)
FindAgrees(texts, bytes) ==
  \A s \in texts, c \in bytes \ {0}, offset \in 0..3 :
    LET place == find(s, c, offset) IN
    /\ place # npos => at(s, place) = c /\ place >= offset
    /\ (place = npos /\ Plain(s)) => \A i \in offset..length(s) - 1 : at(s, i) # c
    /\ place # npos => \A i \in offset..place - 1 : at(s, i) \notin {c, 0}
=============================================================================
