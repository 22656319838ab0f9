--------------------------- MODULE XmlAttributes ---------------------------
(***************************************************************************)
(* The attributes of tinyxml's elements: TiXmlAttributeSet, a circular     *)
(* list through a sentinel, and the calls of TiXmlElement that look up,    *)
(* set, remove and copy attributes.  The sentinel is itself an attribute,  *)
(* inside the element, so that the element stands for it here.             *)
(***************************************************************************)
EXTENDS Naturals, Functions

CONSTANTS
  Element,  \* the elements, each with its sentinel
  Attr,     \* the addresses at which an attribute can be allocated
  Text,     \* names and values
  Empty,    \* the empty text
  NULL

ASSUME AttributesAssumption ==
  /\ NULL \notin Element \cup Attr
  /\ Element \cap Attr = {}
  /\ Empty \in Text

Cell == Element \cup Attr

VARIABLES
  name, value,  \* of each attribute and sentinel
  prev, next,   \* the circular lists
  owner,        \* the element in whose list a cell is; NULL when it is free
  rank          \* and its place there, 0 for the sentinel: not in the code

vars == <<name, value, prev, next, owner, rank>>

TypeOK ==
  /\ name \in [Cell -> Text]
  /\ value \in [Cell -> Text]
  /\ prev \in [Cell -> Cell \cup {NULL}]
  /\ next \in [Cell -> Cell \cup {NULL}]
  /\ owner \in [Cell -> Element \cup {NULL}]
  /\ rank \in [Cell -> Nat]

\* A sentinel points to itself when the element has no attributes.
Ring == [c \in Cell |-> IF c \in Element THEN c ELSE NULL]

Init ==
  /\ name = [c \in Cell |-> Empty]
  /\ value = [c \in Cell |-> Empty]
  /\ prev = Ring
  /\ next = Ring
  /\ owner = Ring
  /\ rank = [c \in Cell |-> 0]

Free == {a \in Attr : owner[a] = NULL}

-----------------------------------------------------------------------------
\* What the walks meet

\* Find and Remove go round the list until they are back at the sentinel.
Round(e, S) ==
  /\ next[e] \in S \cup {e}
  /\ \A a \in S : next[a] \in S \cup {e}

Met(e) == {a \in Attr : \A S \in SUBSET Attr : Round(e, S) => a \in S}

\* Next and Previous know the sentinel by its empty name and value.
Blank == {c \in Cell : name[c] = Empty /\ value[c] = Empty}

\* First knows it by its address.
Shown(e, S) ==
  /\ next[e] \in S \cup {e}
  /\ \A a \in S : next[a] \in S \cup Blank

Visible(e) == {a \in Attr : \A S \in SUBSET Attr : Shown(e, S) => a \in S}

\* The walk back, from Last by Previous
ShownBack(e, S) ==
  /\ prev[e] \in S \cup {e}
  /\ \A a \in S : prev[a] \in S \cup Blank

VisibleBack(e) == {a \in Attr : \A S \in SUBSET Attr : ShownBack(e, S) => a \in S}

\* A slip: only the first attribute is looked at.
Find_First(e, n) == {a \in Met(e) : a = next[e] /\ name[a] = n}

Find(e, n) == {a \in Met(e) : name[a] = n}

\* Attribute gives the value, or null.
Attribute(e, n) ==
  IF Find(e, n) = {} THEN NULL ELSE value[CHOOSE a \in Find(e, n) : TRUE]

-----------------------------------------------------------------------------
\* A slip: Add, after the sentinel.
Add_InFront(e, a, n, v) ==
  /\ a \in Free
  /\ name' = [name EXCEPT ![a] = n]
  /\ value' = [value EXCEPT ![a] = v]
  /\ prev' = [prev EXCEPT ![a] = e, ![next[e]] = a]
  /\ next' = [next EXCEPT ![a] = next[e], ![e] = a]
  /\ owner' = [owner EXCEPT ![a] = e]
  /\ rank' = [c \in Cell |-> IF c = a THEN 1 ELSE
                             IF owner[c] = e /\ c # e THEN rank[c] + 1 ELSE rank[c]]

\* Add, before the sentinel.
Add(e, a, n, v) ==
  /\ a \in Free
  /\ name' = [name EXCEPT ![a] = n]
  /\ value' = [value EXCEPT ![a] = v]
  /\ next' = [next EXCEPT ![a] = e, ![prev[e]] = a]
  /\ prev' = [prev EXCEPT ![a] = prev[e], ![e] = a]
  /\ owner' = [owner EXCEPT ![a] = e]
  /\ rank' = [rank EXCEPT ![a] = rank[prev[e]] + 1]

\* FindOrCreate adds an attribute that has no name yet, and Add asserts that its
\* name is not in the list: where an attribute has the empty name the process ends.
AddsUnnamed(e) == Find(e, Empty) = {}

\* SetAttribute, with a text or a printed number: FindOrCreate, then SetValue.
SetAttribute(e, n, v) ==
  \/ \E a \in Find(e, n) :
       /\ value' = [value EXCEPT ![a] = v]
       /\ UNCHANGED <<name, prev, next, owner, rank>>
  \/ /\ Find(e, n) = {} /\ AddsUnnamed(e)
     /\ \E a \in Free : Add(e, a, n, v)

\* SetValue of an attribute that the application has walked to
SetValue(e, a, v) ==
  /\ owner[a] = e
  /\ value' = [value EXCEPT ![a] = v]
  /\ UNCHANGED <<name, prev, next, owner, rank>>

\* A slip: an attribute whose name is there already is added again.
ParseAttribute_Twice(e, n, v) == n # Empty /\ \E a \in Free : Add(e, a, n, v)

\* The parser: an attribute that cannot be read, or whose name is there
\* already, is an error and is dropped.
ParseAttribute(e, n, v) ==
  /\ n # Empty
  /\ Find(e, n) = {}
  /\ \E a \in Free : Add(e, a, n, v)

RemoveAttribute(e, n) == \E a \in Find(e, n) :
  /\ next' = [next EXCEPT ![prev[a]] = next[a], ![a] = NULL]
  /\ prev' = [prev EXCEPT ![next[a]] = prev[a], ![a] = NULL]
  /\ name' = [name EXCEPT ![a] = Empty]
  /\ value' = [value EXCEPT ![a] = Empty]
  /\ owner' = [owner EXCEPT ![a] = NULL]
  /\ rank' = [c \in Cell |-> IF c = a THEN 0 ELSE
                             IF owner[c] = e /\ rank[c] > rank[a]
                             THEN rank[c] - 1 ELSE rank[c]]

\* ClearThis removes the first attribute until there is none.
Kept(f, e, void) ==
  LET met == Met(e) IN [c \in Cell |-> IF c \in met THEN void ELSE f[c]]

ClearThis(e) ==
  /\ name' = Kept(name, e, Empty)
  /\ value' = Kept(value, e, Empty)
  /\ prev' = [Kept(prev, e, NULL) EXCEPT ![e] = e]
  /\ next' = [Kept(next, e, NULL) EXCEPT ![e] = e]
  /\ owner' = Kept(owner, e, NULL)
  /\ rank' = Kept(rank, e, 0)

\* e = src: ClearThis, then CopyTo sets what the walk from First by Next meets.
\* Each name is new to e, and only the last may be empty: after it, FindOrCreate
\* ends the process.
Assign(e, src) ==
  \E f \in Injection(Visible(src), Free \cup Met(e)) :
    LET From == [b \in Range(f) |-> CHOOSE a \in DOMAIN f : f[a] = b]
        Copy(c) == IF c \in DOMAIN f THEN f[c] ELSE e
        Carried(g, kept) ==
          [c \in Cell |-> IF c \in Range(f) THEN g[From[c]] ELSE kept[c]]
        Linked(g, kept) ==
          [c \in Cell |-> IF c \in Range(f) THEN Copy(g[From[c]]) ELSE kept[c]]
        last == {a \in DOMAIN f : next[a] \notin DOMAIN f} IN
    /\ e # src
    /\ \A a \in Visible(src) : name[a] = Empty => next[a] \notin Visible(src)
    /\ name' = Carried(name, Kept(name, e, Empty))
    /\ value' = Carried(value, Kept(value, e, Empty))
    /\ next' = [Linked(next, Kept(next, e, NULL)) EXCEPT ![e] = Copy(next[src])]
    /\ prev' = [Linked(prev, Kept(prev, e, NULL)) EXCEPT
                  ![e] = IF last = {} THEN e ELSE f[CHOOSE a \in last : TRUE]]
    /\ owner' = LET kept == Kept(owner, e, NULL)
                IN  [c \in Cell |-> IF c \in Range(f) THEN e ELSE kept[c]]
    /\ rank' = Carried(rank, Kept(rank, e, 0))

Next ==
  \E e \in Element :
    \/ \E n, v \in Text : SetAttribute(e, n, v) \/ ParseAttribute(e, n, v)
    \/ \E n \in Text : RemoveAttribute(e, n)
    \/ \E a \in Attr, v \in Text : SetValue(e, a, v)
    \/ ClearThis(e)
    \/ \E src \in Element : Assign(e, src)

Spec == Init /\ [][Next]_vars

-----------------------------------------------------------------------------
\* What holds of the lists

\* Each list is one ring through its sentinel, and the pointers back are those
\* forth the other way round; a removed attribute points nowhere.
Circular ==
  /\ \A c \in Cell : owner[c] # NULL =>
       /\ next[c] # NULL /\ prev[c] # NULL
       /\ owner[next[c]] = owner[c] /\ owner[prev[c]] = owner[c]
       /\ prev[next[c]] = c /\ next[prev[c]] = c
       /\ next[c] \in Attr => rank[next[c]] = rank[c] + 1
  /\ \A a \in Attr :
       /\ owner[a] = NULL => /\ prev[a] = NULL /\ next[a] = NULL
                             /\ rank[a] = 0 /\ a \in Blank
       /\ owner[a] # NULL => rank[a] > 0
  /\ \A e \in Element : owner[e] = e /\ rank[e] = 0 /\ e \in Blank

\* An element never has two attributes of one name, so that it does not matter
\* which of them Find meets first.
NamesUnique == \A a, b \in Attr :
  owner[a] # NULL /\ owner[a] = owner[b] /\ name[a] = name[b] => a = b

IInv == TypeOK /\ Circular /\ NamesUnique

\* Find meets every attribute of the element and none of another.
FindMeetsAll == \A e \in Element : Met(e) = {a \in Attr : owner[a] = e}

\* The walks by Next and by Previous both meet all attributes, unless one is
\* empty and taken for the sentinel: then they end at it, when it is not where
\* they begin.
WalksEndAtBlank == \A e \in Element :
  LET all == {a \in Attr : owner[a] = e}
      hidden == all \cap Blank IN
  /\ Visible(e) = {a \in all : \A b \in hidden : rank[b] = 1 \/ rank[b] > rank[a]}
  /\ VisibleBack(e) = {a \in all : \A b \in hidden :
       rank[b] < rank[a] \/ \A c \in all : rank[c] <= rank[b]}
=============================================================================
