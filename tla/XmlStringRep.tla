----------------------------- MODULE XmlStringRep -----------------------------
(***************************************************************************)
(* The buffers of tinyxml's strings: what TiXmlString has for its state,   *)
(* the texts that it stands for, and what has to hold of it.  The calls    *)
(* are in XmlString.                                                       *)
(***************************************************************************)
EXTENDS Naturals, Sequences

CONSTANTS
  Str,       \* the string objects
  Buffer,    \* the addresses at which a buffer can be allocated
  nullrep,   \* the static empty buffer
  Char,
  Literal,   \* the texts that the program brings
  Offset,    \* where in a string's own data an argument may begin, from 0
  Room,      \* the capacities that the program reserves
  Garbage,   \* the character that is read from a deleted buffer
  MaxLength  \* bound on a text

ASSUME StringAssumption ==
  /\ nullrep \notin Buffer
  /\ Literal \subseteq Seq(Char)
  /\ Offset \subseteq Nat
  /\ Room \subseteq Nat
  /\ Garbage \in Char
  /\ MaxLength \in Nat

VARIABLES
  rep,       \* the buffer of each string
  capacity,  \* of each buffer; 0 when it is free
  text       \* the characters in it, whose number is its size

Rep == Buffer \cup {nullrep}

Value(s) == text[rep[s]]

-----------------------------------------------------------------------------
\* A text fits in its buffer, and the shared empty buffer is never written:
\* set_size puts the zero byte where it is already.
TextFits ==
  /\ \A r \in Rep : Len(text[r]) <= capacity[r]
  /\ capacity[nullrep] = 0

\* No two strings share a buffer but the static one, so that a change of one
\* string never shows in another.
RepsApart == \A s, t \in Str :
  rep[s] = rep[t] => s = t \/ rep[s] = nullrep

\* Each buffer that is allocated is some string's: none is lost, and none is
\* deleted while a string has it.
NoneLost == \A b \in Buffer : capacity[b] > 0 <=> \E s \in Str : rep[s] = b

RepTypeOK ==
  /\ rep \in [Str -> Rep]
  /\ capacity \in [Rep -> Nat]
  /\ text \in [Rep -> Seq(Char)]

\* Every text has a buffer of its own that is large enough.  (TiXmlString's
\* init, quit, assign, append and swap)
BuffersOwned == RepTypeOK /\ TextFits /\ RepsApart /\ NoneLost

Contract == INSTANCE XmlStringContract WITH value <- [s \in Str |-> Value(s)]

\* Whatever the buffers do, the strings have the texts they were given.
ImplementsContract == Contract!Spec
=============================================================================
