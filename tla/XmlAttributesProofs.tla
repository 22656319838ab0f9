------------------------ MODULE XmlAttributesProofs ------------------------
(***************************************************************************)
(* Proofs about module XmlAttributes, for all elements, addresses and      *)
(* texts: IInv is inductive, Find meets every attribute, and the lists     *)
(* implement XmlAttributesContract.  A list has no length in the           *)
(* invariant, so what is true of a whole list comes from the least rank at *)
(* which it would fail.                                                    *)
(***************************************************************************)
EXTENDS XmlAttributesWalks, NatLeast, FiniteSetTheorems, SequenceTheorems, TLAPS

\* The attributes of an element, by the auxiliary variable
Owned(e) == {a \in Attr : owner[a] = e}

\* The neighbours of a cell are in its own list, and know it.
LEMMA Neighbours ==
  ASSUME AttributesAssumption, TypeOK, Circular,
         NEW c \in Cell, NEW e \in Element, owner[c] = e
  PROVE  /\ next[c] \in Owned(e) \cup {e} /\ prev[next[c]] = c
         /\ prev[c] \in Owned(e) \cup {e} /\ next[prev[c]] = c
<1>1. e # NULL
  BY DEF AttributesAssumption
<1>2. /\ next[c] \in Cell /\ prev[c] \in Cell
      /\ owner[next[c]] = e /\ owner[prev[c]] = e
      /\ prev[next[c]] = c /\ next[prev[c]] = c
  BY <1>1 DEF TypeOK, Circular
<1>3. \A d \in Cell : owner[d] = e => d \in Owned(e) \cup {e}
  BY DEF Cell, Owned, Circular
<1>4. QED
  BY <1>2, <1>3

\* An attribute comes right after the cell before it.
LEMMA RankOfNext ==
  ASSUME AttributesAssumption, TypeOK, Circular,
         NEW e \in Element, NEW a \in Owned(e)
  PROVE  /\ prev[a] \in Cell /\ owner[prev[a]] = e
         /\ rank[a] \in Nat /\ rank[prev[a]] \in Nat
         /\ rank[a] = rank[prev[a]] + 1
<1>1. a \in Cell /\ owner[a] = e /\ a \in Attr
  BY DEF Owned, Cell
<1>2. prev[a] \in Owned(e) \cup {e} /\ next[prev[a]] = a
  BY <1>1, Neighbours
<1>3. prev[a] \in Cell /\ owner[prev[a]] = e /\ e # NULL
  BY <1>2 DEF Owned, Cell, Circular, AttributesAssumption
<1>4. QED
  BY <1>1, <1>2, <1>3 DEF Circular, TypeOK

\* A place in a list has one cell.
LEMMA RanksApart ==
  ASSUME AttributesAssumption, TypeOK, Circular, NEW e \in Element
  PROVE  \A a, b \in Cell : owner[a] = e /\ owner[b] = e /\ rank[a] = rank[b] => a = b
<1> DEFINE Twice(r) == \E a, b \in Cell : /\ owner[a] = e /\ owner[b] = e /\ a # b
                                          /\ rank[a] = r /\ rank[b] = r
           Bad == {r \in Nat : Twice(r)}
<1>1. ASSUME Bad # {} PROVE FALSE
  <2>1. PICK r \in Bad : \A s \in Bad : r <= s
    BY <1>1, LeastExists
  <2>2. PICK a \in Cell, b \in Cell : /\ owner[a] = e /\ owner[b] = e /\ a # b
                                      /\ rank[a] = r /\ rank[b] = r
    BY <2>1
  <2>3. a \in Owned(e) /\ b \in Owned(e)
    <3>1. \A c \in Cell : owner[c] = e => c = e \/ (c \in Owned(e) /\ rank[c] > 0)
      BY DEF Cell, Owned, Circular, AttributesAssumption
    <3>2. rank[e] = 0 /\ ~ (0 > 0)
      BY DEF Circular
    <3>3. QED
      BY <2>2, <3>1, <3>2
  <2>4. /\ prev[a] \in Cell /\ owner[prev[a]] = e /\ rank[a] = rank[prev[a]] + 1
        /\ prev[b] \in Cell /\ owner[prev[b]] = e /\ rank[b] = rank[prev[b]] + 1
        /\ rank[prev[a]] \in Nat /\ rank[prev[b]] \in Nat
    BY <2>3, RankOfNext
  <2>5. prev[a] # prev[b]
    BY <2>2, Neighbours
  <2>6. rank[prev[a]] \in Bad
    <3>1. rank[prev[a]] = rank[prev[b]]
      BY <2>2, <2>4
    <3>2. QED
      BY <3>1, <2>4, <2>5
  <2>7. QED
    BY <2>1, <2>2, <2>4, <2>6
<1>2. \A c \in Cell : rank[c] \in Nat
  BY DEF TypeOK
<1>3. QED
  BY <1>1, <1>2

\* Going round by Next meets the attributes of the element and no other.
LEMMA MeetsOwned ==
  ASSUME AttributesAssumption, TypeOK, Circular, NEW e \in Element
  PROVE  Met(e) = Owned(e)
<1>1. Owned(e) \in SUBSET Attr /\ Round(e, Owned(e))
  <2>1. e \in Cell /\ owner[e] = e /\ \A a \in Owned(e) : a \in Cell /\ owner[a] = e
    BY DEF Owned, Cell, Circular
  <2>2. QED
    BY <2>1, Neighbours DEF Round, Owned
<1>2. ASSUME NEW S \in SUBSET Attr, Round(e, S), NEW b \in Owned(e), b \notin S
      PROVE  FALSE
  <2> DEFINE Bad == {r \in Nat : \E a \in Owned(e) \ S : rank[a] = r}
  <2>1. b \in Cell /\ rank[b] \in Bad
    BY <1>2, RankOfNext DEF Owned, Cell
  <2>2. PICK r \in Bad : \A s \in Bad : r <= s
    BY <2>1, LeastExists
  <2>3. PICK a \in Owned(e) \ S : rank[a] = r
    BY <2>2
  <2>4. /\ prev[a] \in Owned(e) \cup {e} /\ next[prev[a]] = a /\ a # e
        /\ rank[prev[a]] \in Nat /\ rank[a] = rank[prev[a]] + 1
    BY RankOfNext, Neighbours DEF Owned, Cell, AttributesAssumption
  <2>5. prev[a] \notin S \cup {e}
    BY <1>2, <2>3, <2>4 DEF Round
  <2>6. rank[prev[a]] \in Bad
    BY <2>4, <2>5
  <2>7. QED
    BY <2>2, <2>3, <2>4, <2>6
<1>3. QED
  BY <1>1, <1>2 DEF Met, Owned

-----------------------------------------------------------------------------
\* A new value changes no list and no name.
LEMMA NewValueKeeps ==
  ASSUME AttributesAssumption, IInv, NEW a \in Attr, NEW v \in Text, owner[a] # NULL,
         value' = [value EXCEPT ![a] = v],
         UNCHANGED <<name, prev, next, owner, rank>>
  PROVE  IInv'
<1>1. TypeOK' /\ NamesUnique'
  BY DEF IInv, TypeOK, NamesUnique
<1>2. \A c \in Cell : c # a => (c \in Blank <=> c \in Blank')
  BY DEF IInv, TypeOK, Blank
<1>3. \A e \in Element : e # a /\ e \in Cell
  BY DEF AttributesAssumption, Cell
<1>4. \A b \in Attr : b \in Cell
  BY DEF Cell
<1>5. Circular'
  BY <1>2, <1>3, <1>4 DEF IInv, Circular
<1>6. QED
  BY <1>1, <1>5 DEF IInv

\* A new attribute comes last, under a name that was not there.
LEMMA AddKeeps ==
  ASSUME AttributesAssumption, IInv,
         NEW e \in Element, NEW a \in Attr, NEW n \in Text, NEW v \in Text,
         Find(e, n) = {}, Add(e, a, n, v)
  PROVE  IInv'
<1> USE DEF Add, Free
<1> DEFINE l == prev[e]
<1>1. /\ e \in Cell /\ owner[e] = e /\ rank[e] = 0 /\ e \in Blank /\ e # NULL /\ e # a
      /\ a \in Cell /\ owner[a] = NULL /\ Cell = Element \cup Attr
      /\ \A d \in Element : d # a
  BY DEF IInv, Circular, Cell, AttributesAssumption
<1>2. l \in Owned(e) \cup {e} /\ next[l] = e /\ prev[e] = l
  BY <1>1, Neighbours DEF IInv
<1>3. l \in Cell /\ owner[l] = e /\ l # a /\ rank[l] \in Nat
  BY <1>1, <1>2 DEF Owned, Cell, IInv, TypeOK
<1>4. /\ \A c \in Cell : c # a => /\ name'[c] = name[c] /\ value'[c] = value[c]
                                  /\ owner'[c] = owner[c] /\ rank'[c] = rank[c]
      /\ name'[a] = n /\ owner'[a] = e /\ rank'[a] = rank[l] + 1
      /\ \A c \in Cell : c # a /\ c # l => next'[c] = next[c]
      /\ \A c \in Cell : c # a /\ c # e => prev'[c] = prev[c]
      /\ next'[a] = e /\ next'[l] = a /\ prev'[a] = l /\ prev'[e] = a
  BY <1>1, <1>3 DEF IInv, TypeOK
<1>5. TypeOK'
  BY <1>1, <1>3 DEF IInv, TypeOK
<1> HIDE DEF Add, l
<1>6. ASSUME NEW c \in Cell, owner'[c] # NULL
      PROVE  /\ next'[c] # NULL /\ prev'[c] # NULL
             /\ owner'[next'[c]] = owner'[c] /\ owner'[prev'[c]] = owner'[c]
             /\ prev'[next'[c]] = c /\ next'[prev'[c]] = c
             /\ next'[c] \in Attr => rank'[next'[c]] = rank'[c] + 1
  <2>1. CASE c = a
    <3>1. next'[a] \notin Attr
      BY <1>1, <1>4 DEF AttributesAssumption
    <3>2. QED
      BY <2>1, <3>1, <1>1, <1>3, <1>4 DEF AttributesAssumption
  <2>2. CASE c # a
    <3>1. owner[c] \in Element /\ owner'[c] = owner[c]
      BY <1>4, <1>6, <2>2 DEF IInv, TypeOK
    <3>2. /\ next[c] \in Owned(owner[c]) \cup {owner[c]} /\ prev[next[c]] = c
          /\ prev[c] \in Owned(owner[c]) \cup {owner[c]} /\ next[prev[c]] = c
      BY <3>1, Neighbours DEF IInv
    <3>3. /\ next[c] \in Cell /\ prev[c] \in Cell /\ owner[next[c]] = owner[c]
          /\ owner[prev[c]] = owner[c] /\ next[c] # NULL /\ prev[c] # NULL
          /\ next[c] # a /\ prev[c] # a
      BY <3>1, <3>2, <1>1 DEF Owned, Cell, IInv, Circular, AttributesAssumption
    <3>4. next[c] \in Attr => rank[next[c]] = rank[c] + 1
      BY <3>1 DEF IInv, Circular, AttributesAssumption
    <3>5. CASE c = l
      <4>1. next'[c] = a /\ prev'[a] = c /\ owner'[a] = owner'[c] /\ rank'[a] = rank'[c] + 1
        BY <1>3, <1>4, <3>5
      <4>2. CASE c = e
        BY <4>1, <4>2, <1>1, <1>3, <1>4, <3>5 DEF AttributesAssumption
      <4>3. CASE c # e
        <5>1. prev'[c] = prev[c] /\ prev[c] # l
          BY <4>3, <1>2, <1>4, <2>2, <3>2, <3>5
        <5>2. next'[prev[c]] = c /\ owner'[prev[c]] = owner'[c]
          BY <5>1, <1>4, <2>2, <3>1, <3>2, <3>3
        <5>3. next'[c] # NULL /\ prev'[c] # NULL
          BY <4>1, <5>1, <3>3 DEF AttributesAssumption
        <5>4. QED
          BY <4>1, <5>1, <5>2, <5>3
      <4>4. QED
        BY <4>2, <4>3
    <3>6. CASE c # l
      <4>1. next'[c] = next[c] /\ next[c] # e
        BY <1>2, <1>4, <2>2, <3>2, <3>6
      <4>2. prev'[next[c]] = c
        BY <1>4, <3>2, <3>3, <4>1
      <4>3. CASE c = e
        BY <4>1, <4>2, <4>3, <1>1, <1>4, <3>1, <3>3, <3>4, <2>2 DEF AttributesAssumption
      <4>4. CASE c # e
        <5>1. prev'[c] = prev[c] /\ prev[c] # l
          BY <4>4, <1>2, <1>4, <2>2, <3>2
        <5>2. QED
          BY <4>1, <4>2, <5>1, <1>4, <2>2, <3>2, <3>3, <3>4
      <4>5. QED
        BY <4>3, <4>4
    <3>7. QED
      BY <3>5, <3>6
  <2>3. QED
    BY <2>1, <2>2
<1>7. ASSUME NEW b \in Attr
      PROVE  /\ owner'[b] = NULL => /\ prev'[b] = NULL /\ next'[b] = NULL
                                    /\ rank'[b] = 0 /\ b \in Blank'
             /\ owner'[b] # NULL => rank'[b] > 0
  <2>1. CASE b = a
    BY <2>1, <1>1, <1>3, <1>4
  <2>2. CASE b # a
    <3>1. b \in Cell /\ b # e
      BY <1>1 DEF AttributesAssumption
    <3>2. b = l => owner[b] # NULL
      BY <1>1, <1>3
    <3>3. b \in Blank => b \in Blank'
      BY <1>4, <2>2, <3>1 DEF Blank
    <3>4. QED
      BY <1>4, <2>2, <3>1, <3>2, <3>3 DEF IInv, Circular
  <2>3. QED
    BY <2>1, <2>2
<1>8. \A d \in Element : owner'[d] = d /\ rank'[d] = 0 /\ d \in Blank'
  BY <1>1, <1>4 DEF IInv, Circular, Blank
<1>9. NamesUnique'
  <2>1. \A b \in Attr : owner[b] = e => name[b] # n
    BY MeetsOwned DEF IInv, Find, Owned
  <2>2. QED
    BY <1>1, <1>4, <2>1 DEF IInv, NamesUnique
<1>10. QED
  BY <1>5, <1>6, <1>7, <1>8, <1>9 DEF IInv, Circular

\* What is left of a list closes around the attribute that is taken out.
LEMMA RemoveKeeps ==
  ASSUME AttributesAssumption, IInv, NEW e \in Element, NEW n \in Text,
         RemoveAttribute(e, n)
  PROVE  IInv'
<1>1. PICK a \in Find(e, n) :
        /\ next' = [next EXCEPT ![prev[a]] = next[a], ![a] = NULL]
        /\ prev' = [prev EXCEPT ![next[a]] = prev[a], ![a] = NULL]
        /\ name' = [name EXCEPT ![a] = Empty]
        /\ value' = [value EXCEPT ![a] = Empty]
        /\ owner' = [owner EXCEPT ![a] = NULL]
        /\ rank' = [c \in Cell |-> IF c = a THEN 0 ELSE
                                   IF owner[c] = e /\ rank[c] > rank[a]
                                   THEN rank[c] - 1 ELSE rank[c]]
  BY DEF RemoveAttribute
<1> DEFINE p == prev[a]  q == next[a]
<1>2. /\ a \in Owned(e) /\ a \in Attr /\ a \in Cell /\ owner[a] = e /\ e \in Cell
      /\ owner[e] = e /\ e # NULL /\ a # NULL /\ Cell = Element \cup Attr
      /\ \A d \in Element : d # a
  BY MeetsOwned DEF IInv, Circular, Find, Owned, Cell, AttributesAssumption
<1>3. /\ p \in Cell /\ owner[p] = e /\ next[p] = a /\ rank[a] = rank[p] + 1
      /\ q \in Cell /\ owner[q] = e /\ prev[q] = a /\ q # NULL /\ p # NULL
      /\ rank[p] \in Nat /\ rank[a] \in Nat
      /\ prev[a] = p /\ next[a] = q
  <2>1. /\ p \in Owned(e) \cup {e} /\ next[p] = a
        /\ q \in Owned(e) \cup {e} /\ prev[q] = a
    BY <1>2, Neighbours DEF IInv
  <2>2. \A c \in Owned(e) \cup {e} : c \in Cell /\ owner[c] = e /\ c # NULL
    BY <1>2 DEF Owned, Cell, AttributesAssumption
  <2>3. /\ rank[p] \in Nat /\ rank[a] \in Nat /\ rank[a] = rank[p] + 1
    BY <1>2, RankOfNext DEF IInv
  <2>4. QED
    BY <2>1, <2>2, <2>3
<1>4. p # a /\ q # a
  BY <1>3
<1>5. /\ \A c \in Cell : c # a => /\ name'[c] = name[c] /\ value'[c] = value[c]
                                  /\ owner'[c] = owner[c]
                                  /\ rank'[c] = IF owner[c] = e /\ rank[c] > rank[a]
                                                THEN rank[c] - 1 ELSE rank[c]
      /\ name'[a] = Empty /\ value'[a] = Empty /\ owner'[a] = NULL /\ rank'[a] = 0
      /\ \A c \in Cell : c # a /\ c # p => next'[c] = next[c]
      /\ \A c \in Cell : c # a /\ c # q => prev'[c] = prev[c]
      /\ next'[a] = NULL /\ prev'[a] = NULL /\ next'[p] = q /\ prev'[q] = p
  BY <1>1, <1>2, <1>3, <1>4 DEF IInv, TypeOK
<1>6. TypeOK'
  <2>1. \A c \in Cell : rank[c] \in Nat
    BY DEF IInv, TypeOK
  <2>2. rank' \in [Cell -> Nat]
    BY <1>1, <1>3, <2>1
  <2>3. QED
    BY <1>1, <1>2, <1>3, <2>2 DEF IInv, TypeOK, AttributesAssumption
<1> HIDE DEF p, q
<1>7. ASSUME NEW c \in Cell, owner'[c] # NULL
      PROVE  /\ next'[c] # NULL /\ prev'[c] # NULL
             /\ owner'[next'[c]] = owner'[c] /\ owner'[prev'[c]] = owner'[c]
             /\ prev'[next'[c]] = c /\ next'[prev'[c]] = c
             /\ next'[c] \in Attr => rank'[next'[c]] = rank'[c] + 1
  <2>1. c # a /\ owner[c] \in Element /\ owner'[c] = owner[c]
    BY <1>5, <1>7 DEF IInv, TypeOK
  <2>2. /\ next[c] \in Owned(owner[c]) \cup {owner[c]} /\ prev[next[c]] = c
        /\ prev[c] \in Owned(owner[c]) \cup {owner[c]} /\ next[prev[c]] = c
    BY <2>1, Neighbours DEF IInv
  <2>3. /\ next[c] \in Cell /\ prev[c] \in Cell /\ owner[next[c]] = owner[c]
        /\ owner[prev[c]] = owner[c] /\ next[c] # NULL /\ prev[c] # NULL
    BY <2>1, <2>2 DEF Owned, Cell, IInv, Circular, AttributesAssumption
  <2>4. next[c] \in Attr => rank[next[c]] = rank[c] + 1
    BY <2>1 DEF IInv, Circular, AttributesAssumption
  <2>5. rank[c] \in Nat /\ rank[next[c]] \in Nat
    BY <2>3 DEF IInv, TypeOK
  <2>6. /\ next'[c] = IF c = p THEN q ELSE next[c]
        /\ prev'[c] = IF c = q THEN p ELSE prev[c]
    BY <1>5, <2>1
  <2>7. (c = p <=> next[c] = a) /\ (c = q <=> prev[c] = a)
    BY <1>3, <2>2
  <2>8. /\ next'[c] # NULL /\ next'[c] \in Cell
        /\ owner'[next'[c]] = owner'[c] /\ prev'[next'[c]] = c
    <3>1. CASE c = p
      BY <3>1, <1>3, <1>4, <1>5, <2>1, <2>6
    <3>2. CASE c # p
      <4>1. next[c] # a /\ next[c] # q
        BY <1>3, <2>1, <2>2, <2>7, <3>2
      <4>2. QED
        BY <3>2, <4>1, <1>5, <2>1, <2>2, <2>3, <2>6
    <3>3. QED
      BY <3>1, <3>2
  <2>9. /\ prev'[c] # NULL /\ owner'[prev'[c]] = owner'[c] /\ next'[prev'[c]] = c
    <3>1. CASE c = q
      BY <3>1, <1>3, <1>4, <1>5, <2>1, <2>6
    <3>2. CASE c # q
      <4>1. prev[c] # a /\ prev[c] # p
        BY <1>3, <2>1, <2>2, <2>7, <3>2
      <4>2. QED
        BY <3>2, <4>1, <1>5, <2>1, <2>2, <2>3, <2>6
    <3>3. QED
      BY <3>1, <3>2
  <2>10. ASSUME next'[c] \in Attr PROVE rank'[next'[c]] = rank'[c] + 1
    <3>1. CASE c = p
      <4>1. q \in Attr => rank[q] = rank[a] + 1
        BY <1>2, <1>3 DEF IInv, Circular
      <4>2. rank'[q] = rank[q] - 1 /\ rank'[p] = rank[p] /\ rank[q] \in Nat
        BY <1>3, <1>4, <1>5, <2>6, <2>10, <3>1, <4>1 DEF IInv, TypeOK
      <4>3. QED
        BY <3>1, <4>1, <4>2, <1>3, <2>6, <2>10
    <3>2. CASE c # p
      <4>1. next'[c] = next[c] /\ rank[next[c]] = rank[c] + 1 /\ next[c] # a
        BY <2>4, <2>6, <2>7, <2>10, <3>2
      <4>2. owner[c] = e => rank[c] # rank[a] /\ rank[next[c]] # rank[a]
        BY <1>2, <2>1, <2>3, <4>1, RanksApart DEF IInv
      <4>3. /\ rank'[c] = IF owner[c] = e /\ rank[c] > rank[a] THEN rank[c] - 1 ELSE rank[c]
            /\ rank'[next[c]] = IF owner[c] = e /\ rank[next[c]] > rank[a]
                                THEN rank[next[c]] - 1 ELSE rank[next[c]]
        BY <1>5, <2>1, <2>3, <4>1
      <4>4. QED
        BY <4>1, <4>2, <4>3, <1>3, <2>5
    <3>3. QED
      BY <3>1, <3>2
  <2>11. QED
    BY <2>8, <2>9, <2>10
<1>8. ASSUME NEW b \in Attr
      PROVE  /\ owner'[b] = NULL => /\ prev'[b] = NULL /\ next'[b] = NULL
                                    /\ rank'[b] = 0 /\ b \in Blank'
             /\ owner'[b] # NULL => rank'[b] > 0
  <2>1. CASE b = a
    BY <2>1, <1>2, <1>5 DEF Blank
  <2>2. CASE b # a
    <3>1. b \in Cell /\ rank[b] \in Nat
      BY DEF Cell, IInv, TypeOK
    <3>2. b \in Blank => b \in Blank'
      BY <1>5, <2>2, <3>1 DEF Blank
    <3>3. CASE owner[b] = NULL
      <4>1. b # p /\ b # q
        BY <1>2, <1>3, <3>3
      <4>2. QED
        BY <3>3, <4>1, <1>2, <1>5, <2>2, <3>1, <3>2 DEF IInv, Circular
    <3>4. CASE owner[b] # NULL
      <4>1. rank[b] > 0
        BY <3>4 DEF IInv, Circular
      <4>2. QED
        BY <3>4, <4>1, <1>3, <1>5, <2>2, <3>1
    <3>5. QED
      BY <3>3, <3>4
  <2>3. QED
    BY <2>1, <2>2
<1>9. \A d \in Element : owner'[d] = d /\ rank'[d] = 0 /\ d \in Blank'
  <2> TAKE d \in Element
  <2>1. d \in Cell /\ d # a /\ owner[d] = d /\ rank[d] = 0 /\ d \in Blank
    BY <1>2 DEF IInv, Circular
  <2>2. ~ (0 > rank[a])
    BY <1>3
  <2>3. QED
    BY <1>5, <2>1, <2>2 DEF Blank
<1>10. NamesUnique'
  BY <1>2, <1>5 DEF IInv, NamesUnique
<1>11. QED
  BY <1>6, <1>7, <1>8, <1>9, <1>10 DEF IInv, Circular

\* An emptied element has its sentinel alone.
LEMMA ClearThisKeeps ==
  ASSUME AttributesAssumption, IInv, NEW e \in Element, ClearThis(e)
  PROVE  IInv'
<1>1. /\ e \in Cell /\ owner[e] = e /\ e # NULL /\ Cell = Element \cup Attr
      /\ Met(e) = Owned(e) /\ Owned(e) \subseteq Attr
      /\ \A d \in Element : d \notin Attr /\ d # NULL
  BY MeetsOwned DEF IInv, Circular, Owned, Cell, AttributesAssumption
<1>2. /\ \A c \in Cell \ Owned(e) : /\ name'[c] = name[c] /\ value'[c] = value[c]
                                    /\ owner'[c] = owner[c] /\ rank'[c] = rank[c]
                                    /\ c # e => next'[c] = next[c] /\ prev'[c] = prev[c]
      /\ \A c \in Owned(e) : /\ name'[c] = Empty /\ value'[c] = Empty /\ owner'[c] = NULL
                             /\ rank'[c] = 0 /\ next'[c] = NULL /\ prev'[c] = NULL
      /\ next'[e] = e /\ prev'[e] = e
  BY <1>1 DEF ClearThis, Kept
<1>3. TypeOK'
  BY <1>1 DEF ClearThis, Kept, IInv, TypeOK, AttributesAssumption
<1>4. ASSUME NEW c \in Cell, owner'[c] # NULL
      PROVE  /\ next'[c] # NULL /\ prev'[c] # NULL
             /\ owner'[next'[c]] = owner'[c] /\ owner'[prev'[c]] = owner'[c]
             /\ prev'[next'[c]] = c /\ next'[prev'[c]] = c
             /\ next'[c] \in Attr => rank'[next'[c]] = rank'[c] + 1
  <2>1. c \in Cell \ Owned(e) /\ owner'[c] = owner[c] /\ owner[c] \in Element
    BY <1>2, <1>4 DEF IInv, TypeOK
  <2>2. CASE c = e
    BY <2>1, <2>2, <1>1, <1>2
  <2>3. CASE c # e
    <3>1. owner[c] # e
      BY <1>1, <2>1, <2>3 DEF Owned, IInv, Circular
    <3>2. /\ next[c] \in Owned(owner[c]) \cup {owner[c]} /\ prev[next[c]] = c
          /\ prev[c] \in Owned(owner[c]) \cup {owner[c]} /\ next[prev[c]] = c
      BY <2>1, Neighbours DEF IInv
    <3>3. /\ next[c] \in Cell /\ prev[c] \in Cell /\ owner[next[c]] = owner[c]
          /\ owner[prev[c]] = owner[c] /\ next[c] # NULL /\ prev[c] # NULL
      BY <2>1, <3>2, <1>1 DEF Owned, IInv, Circular, AttributesAssumption
    <3>4. /\ next[c] # e /\ prev[c] # e
          /\ next[c] \in Cell \ Owned(e) /\ prev[c] \in Cell \ Owned(e)
      BY <3>1, <3>3, <1>1 DEF Owned
    <3>5. next[c] \in Attr => rank[next[c]] = rank[c] + 1
      BY <2>1 DEF IInv, Circular, AttributesAssumption
    <3>6. QED
      BY <1>2, <2>1, <2>3, <3>2, <3>3, <3>4, <3>5
  <2>4. QED
    BY <2>2, <2>3
<1>5. ASSUME NEW b \in Attr
      PROVE  /\ owner'[b] = NULL => /\ prev'[b] = NULL /\ next'[b] = NULL
                                    /\ rank'[b] = 0 /\ b \in Blank'
             /\ owner'[b] # NULL => rank'[b] > 0
  BY <1>1, <1>2 DEF IInv, Circular, Blank
<1>6. \A d \in Element : owner'[d] = d /\ rank'[d] = 0 /\ d \in Blank'
  BY <1>1, <1>2 DEF IInv, Circular, Blank
<1>7. NamesUnique'
  BY <1>1, <1>2 DEF IInv, NamesUnique
<1>8. QED
  BY <1>3, <1>4, <1>5, <1>6, <1>7 DEF IInv, Circular

-----------------------------------------------------------------------------
\* The walk by Next from First meets attributes of the element only, each after
\* the one before it.
LEMMA VisibleIsPrefix ==
  ASSUME AttributesAssumption, TypeOK, Circular, NEW s \in Element
  PROVE  /\ Visible(s) \subseteq Owned(s) /\ Shown(s, Visible(s))
         /\ \A a \in Visible(s) : prev[a] \in Visible(s) \cup {s}
<1> DEFINE V == Visible(s)
<1>1. s \in Cell /\ owner[s] = s /\ s \in Blank /\ s \notin Attr
  BY DEF Cell, Circular, AttributesAssumption
<1>2. \A a \in Owned(s) \cup {s} : /\ next[a] \in Owned(s) \cup {s} /\ prev[next[a]] = a
                                   /\ prev[a] \in Owned(s) \cup {s} /\ next[prev[a]] = a
  BY <1>1, Neighbours DEF Owned, Cell
<1>3. V \subseteq Owned(s)
  <2>1. Owned(s) \in SUBSET Attr /\ Shown(s, Owned(s))
    BY <1>1, <1>2 DEF Shown, Owned
  <2>2. QED
    BY <2>1 DEF Visible
<1>4. Shown(s, V)
  <2>1. next[s] \in V \cup {s}
    BY <1>2 DEF Visible, Shown, Owned
  <2>2. ASSUME NEW a \in V, next[a] \notin Blank
        PROVE  next[a] \in V
    <3>1. next[a] \in Attr
      BY <1>1, <1>2, <1>3, <2>2 DEF Owned
    <3>2. \A S \in SUBSET Attr : Shown(s, S) => next[a] \in S
      BY <2>2 DEF Visible, Shown
    <3>3. QED
      BY <3>1, <3>2 DEF Visible
  <2>3. QED
    BY <2>1, <2>2 DEF Shown
<1>5. ASSUME NEW a \in V, prev[a] \notin V \cup {s}
      PROVE  FALSE
  <2>1. V \ {a} \in SUBSET Attr
    BY <1>3 DEF Owned
  <2>2. next[s] # a /\ \A b \in V : next[b] # a
    BY <1>2, <1>3, <1>5
  <2>3. Shown(s, V \ {a})
    BY <1>4, <2>2 DEF Shown
  <2>4. QED
    BY <2>1, <2>3 DEF Visible
<1>6. QED
  BY <1>3, <1>4, <1>5

\* That walk ends after one attribute, if it meets any.
LEMMA VisibleEnds ==
  ASSUME AttributesAssumption, TypeOK, Circular, NEW s \in Element
  PROVE  /\ \A a, b \in Visible(s) :
              next[a] \notin Visible(s) /\ next[b] \notin Visible(s) => a = b
         /\ Visible(s) # {} => /\ next[s] \in Visible(s)
                               /\ \E a \in Visible(s) : next[a] \notin Visible(s)
<1> DEFINE V == Visible(s)
<1>1. V \subseteq Owned(s) /\ Shown(s, V)
  BY VisibleIsPrefix
<1>2. s \in Cell /\ owner[s] = s /\ rank[s] = 0 /\ s \notin Attr
  BY DEF Cell, Circular, AttributesAssumption
<1>3. \A a \in Owned(s) \cup {s} : /\ next[a] \in Owned(s) \cup {s} /\ prev[next[a]] = a
                                   /\ prev[a] \in Owned(s) \cup {s} /\ next[prev[a]] = a
  BY <1>2, Neighbours DEF Owned, Cell
<1>4. \A a \in Owned(s) : /\ a \in Cell /\ owner[a] = s /\ a \in Attr
                          /\ rank[a] \in Nat /\ rank[a] > 0
  BY DEF Owned, Cell, TypeOK, Circular, AttributesAssumption
<1>5. \A a \in Owned(s) \cup {s} : next[a] \in Attr => rank[next[a]] = rank[a] + 1
  BY <1>2, <1>4 DEF Circular, AttributesAssumption
<1>6. \A a, b \in Owned(s) \cup {s} : rank[a] = rank[b] => a = b
  BY <1>2, <1>4, RanksApart
<1>7. ASSUME NEW a \in V, NEW b \in V, next[a] \notin V, rank[a] < rank[b]
      PROVE  FALSE
  <2> DEFINE S == {c \in V : rank[c] <= rank[a]}
  <2>1. S \in SUBSET Attr
    BY <1>1, <1>4
  <2>2. next[s] \in S \cup {s}
    <3>1. next[s] \in V => rank[next[s]] = 1
      BY <1>1, <1>2, <1>4, <1>5
    <3>2. rank[a] \in Nat /\ rank[a] > 0
      BY <1>1, <1>4
    <3>3. QED
      BY <1>1, <3>1, <3>2 DEF Shown
  <2>3. ASSUME NEW c \in S
        PROVE  next[c] \in S \cup Blank
    <3>1. CASE next[c] \in V
      <4>1. rank[next[c]] = rank[c] + 1 /\ c # a
        BY <1>1, <1>4, <1>5, <1>7, <3>1
      <4>2. rank[c] # rank[a] /\ rank[c] \in Nat /\ rank[a] \in Nat
        BY <1>1, <1>4, <1>6, <4>1
      <4>3. QED
        BY <3>1, <4>1, <4>2
    <3>2. QED
      BY <1>1, <3>1 DEF Shown
  <2>4. b \in S
    BY <2>1, <2>2, <2>3 DEF Visible, Shown
  <2>5. QED
    BY <1>1, <1>4, <1>7, <2>4
<1>8. ASSUME NEW a \in V, NEW b \in V, next[a] \notin V, next[b] \notin V
      PROVE  a = b
  BY <1>1, <1>4, <1>6, <1>7, <1>8
<1>9. ASSUME V # {}
      PROVE  next[s] \in V
  <2>1. {} \in SUBSET Attr /\ ~ Shown(s, {})
    BY <1>9 DEF Visible
  <2>2. QED
    BY <1>1, <2>1 DEF Shown
<1>10. ASSUME V # {}, \A a \in V : next[a] \in V
       PROVE  FALSE
  <2> DEFINE l == prev[s]
             Bad == {r \in Nat : r > 0 /\ ~ \E a \in V : rank[a] = r}
  <2>1. l \in Owned(s) /\ next[l] = s /\ l \notin V
    BY <1>1, <1>2, <1>3, <1>4, <1>9, <1>10
  <2>2. rank[l] \in Bad
    BY <1>1, <1>4, <1>6, <2>1
  <2>3. PICK r \in Bad : \A k \in Bad : r <= k
    BY <2>2, LeastExists
  <2>4. r # 1
    BY <1>1, <1>2, <1>4, <1>5, <1>9, <1>10, <2>3
  <2>5. r - 1 \in Nat /\ r - 1 > 0 /\ r - 1 \notin Bad
    BY <2>3, <2>4
  <2>6. PICK a \in V : rank[a] = r - 1
    BY <2>5
  <2>7. next[a] \in V /\ rank[next[a]] = r
    BY <1>1, <1>4, <1>5, <1>10, <2>3, <2>6
  <2>8. QED
    BY <2>3, <2>7
<1>11. QED
  BY <1>8, <1>9, <1>10


\* The copies form a ring through the sentinel of e, as the originals do with
\* that of src.
LEMMA AssignKeeps ==
  ASSUME AttributesAssumption, IInv, NEW e \in Element, NEW src \in Element,
         Assign(e, src)
  PROVE  IInv'
<1> DEFINE V == Visible(src)
           Copy(f, c) == IF c \in V THEN f[c] ELSE e
<1>1. /\ e \in Cell /\ owner[e] = e /\ e # NULL /\ Cell = Element \cup Attr
      /\ Met(e) = Owned(e) /\ Owned(e) \subseteq Attr
      /\ src \in Cell /\ owner[src] = src /\ rank[src] = 0 /\ src \notin Attr
      /\ \A d \in Element : d \notin Attr /\ d # NULL
  BY MeetsOwned DEF IInv, Circular, Owned, Cell, AttributesAssumption
<1>2. /\ V \subseteq Owned(src) /\ next[src] \in V \cup {src}
      /\ \A a \in V : prev[a] \in V \cup {src}
      /\ V # {} => /\ next[src] \in V
                   /\ \E a \in V : next[a] \notin V
      /\ \A a, b \in V : next[a] \notin V /\ next[b] \notin V => a = b
  BY VisibleIsPrefix, VisibleEnds DEF IInv, Shown
<1>3. \A a \in V \cup {src} : /\ a \in Cell /\ owner[a] = src
                              /\ prev[next[a]] = a /\ next[prev[a]] = a
                              /\ rank[a] \in Nat /\ (next[a] \in V => rank[next[a]] = rank[a] + 1)
                              /\ next[a] # src => next[a] \in Attr
  <2> TAKE a \in V \cup {src}
  <2>1. a \in Cell /\ owner[a] = src
    BY <1>1, <1>2 DEF Owned
  <2>2. /\ next[a] \in Owned(src) \cup {src} /\ prev[next[a]] = a
        /\ next[prev[a]] = a
    BY <2>1, Neighbours DEF IInv
  <2>3. next[a] \in Attr => rank[next[a]] = rank[a] + 1
    BY <1>1, <2>1 DEF IInv, Circular
  <2>4. QED
    BY <1>1, <1>2, <2>1, <2>2, <2>3 DEF IInv, TypeOK, Owned
<1>4. PICK f \in Injection(V, Free \cup Met(e)) :
    LET From == [b \in Range(f) |-> CHOOSE a \in DOMAIN f : f[a] = b]
        Cp(c) == IF c \in DOMAIN f THEN f[c] ELSE e
        Carried(g, kept) ==
          [c \in Cell |-> IF c \in Range(f) THEN g[From[c]] ELSE kept[c]]
        Linked(g, kept) ==
          [c \in Cell |-> IF c \in Range(f) THEN Cp(g[From[c]]) ELSE kept[c]]
        last == {a \in DOMAIN f : next[a] \notin DOMAIN f} IN
    /\ e # src
    /\ name' = Carried(name, Kept(name, e, Empty))
    /\ value' = Carried(value, Kept(value, e, Empty))
    /\ next' = [Linked(next, Kept(next, e, NULL)) EXCEPT ![e] = Cp(next[src])]
    /\ prev' = [Linked(prev, Kept(prev, e, NULL)) EXCEPT
                  ![e] = IF last = {} THEN e ELSE f[CHOOSE a \in last : TRUE]]
    /\ owner' = LET kept == Kept(owner, e, NULL)
                IN  [c \in Cell |-> IF c \in Range(f) THEN e ELSE kept[c]]
    /\ rank' = Carried(rank, Kept(rank, e, 0))
  BY DEF Assign
<1> DEFINE R == Range(f)
           From == [b \in R |-> CHOOSE a \in V : f[a] = b]
           last == {a \in V : next[a] \notin V}
<1>5. /\ DOMAIN f = V /\ \A a \in V : f[a] \in R
      /\ \A a, b \in V : f[a] = f[b] => a = b
      /\ R \subseteq Free \cup Owned(e) /\ \A b \in R : \E a \in V : f[a] = b
  BY <1>1 DEF Injection, IsInjective, Range
<1>6. /\ \A b \in R : From[b] \in V /\ f[From[b]] = b
      /\ \A a \in V : From[f[a]] = a
  BY <1>5
<1>7. R \subseteq Attr /\ e \notin R /\ V \subseteq Attr /\ src \notin V /\ e \notin V
      /\ R \subseteq Cell /\ e # src /\ V \cap (R \cup Owned(e)) = {}
  <2>1. e # src
    BY <1>4
  <2>2. \A a \in V : a \in Attr /\ owner[a] = src
    BY <1>1, <1>2 DEF Owned
  <2>3. \A b \in R \cup Owned(e) : b \in Attr /\ owner[b] # src
    BY <1>1, <1>5, <2>1 DEF Owned, Free
  <2>4. QED
    BY <1>1, <2>1, <2>2, <2>3
<1>8. /\ name' = [c \in Cell |-> IF c \in R THEN name[From[c]] ELSE
                                 IF c \in Owned(e) THEN Empty ELSE name[c]]
      /\ value' = [c \in Cell |-> IF c \in R THEN value[From[c]] ELSE
                                  IF c \in Owned(e) THEN Empty ELSE value[c]]
      /\ owner' = [c \in Cell |-> IF c \in R THEN e ELSE
                                  IF c \in Owned(e) THEN NULL ELSE owner[c]]
      /\ rank' = [c \in Cell |-> IF c \in R THEN rank[From[c]] ELSE
                                 IF c \in Owned(e) THEN 0 ELSE rank[c]]
  BY <1>1, <1>4, <1>5 DEF Kept
<1>9. next' = [c \in Cell |-> IF c = e THEN Copy(f, next[src]) ELSE
                              IF c \in R THEN Copy(f, next[From[c]]) ELSE
                              IF c \in Owned(e) THEN NULL ELSE next[c]]
  <2> DEFINE N == [c \in Cell |-> IF c \in R THEN Copy(f, next[From[c]])
                                  ELSE Kept(next, e, NULL)[c]]
  <2>1. next' = [N EXCEPT ![e] = Copy(f, next[src])]
    BY <1>4, <1>5
  <2>2. N = [c \in Cell |-> IF c \in R THEN Copy(f, next[From[c]]) ELSE
                            IF c \in Owned(e) THEN NULL ELSE next[c]]
    BY <1>1 DEF Kept
  <2> HIDE DEF N, R, From, Copy
  <2>3. QED
    BY <1>1, <2>1, <2>2
<1>10. prev' = [c \in Cell |-> IF c = e THEN IF last = {} THEN e
                                             ELSE f[CHOOSE a \in last : TRUE] ELSE
                               IF c \in R THEN Copy(f, prev[From[c]]) ELSE
                               IF c \in Owned(e) THEN NULL ELSE prev[c]]
  <2> DEFINE P == [c \in Cell |-> IF c \in R THEN Copy(f, prev[From[c]])
                                  ELSE Kept(prev, e, NULL)[c]]
  <2>1. prev' = [P EXCEPT ![e] = IF last = {} THEN e ELSE f[CHOOSE a \in last : TRUE]]
    BY <1>4, <1>5
  <2>2. P = [c \in Cell |-> IF c \in R THEN Copy(f, prev[From[c]]) ELSE
                            IF c \in Owned(e) THEN NULL ELSE prev[c]]
    BY <1>1 DEF Kept
  <2> HIDE DEF P, R, From, Copy, last
  <2>3. QED
    BY <1>1, <2>1, <2>2
<1> HIDE DEF V, R, From, last
<1>11. \A a \in V : /\ f[a] \in R /\ f[a] \in Cell /\ f[a] # e
                    /\ name'[f[a]] = name[a] /\ value'[f[a]] = value[a] /\ owner'[f[a]] = e
                    /\ rank'[f[a]] = rank[a]
                    /\ next'[f[a]] = Copy(f, next[a]) /\ prev'[f[a]] = Copy(f, prev[a])
  BY <1>5, <1>6, <1>7, <1>8, <1>9, <1>10
<1>12. \A c \in Owned(e) \ R : /\ name'[c] = Empty /\ value'[c] = Empty /\ owner'[c] = NULL
                               /\ rank'[c] = 0 /\ next'[c] = NULL /\ prev'[c] = NULL
  BY <1>1, <1>8, <1>9, <1>10
<1>13. \A c \in Cell \ (Owned(e) \cup R) :
         /\ name'[c] = name[c] /\ value'[c] = value[c] /\ owner'[c] = owner[c]
         /\ rank'[c] = rank[c]
         /\ c # e => next'[c] = next[c] /\ prev'[c] = prev[c]
  BY <1>8, <1>9, <1>10
<1>14. /\ next'[e] = Copy(f, next[src])
       /\ V = {} => prev'[e] = e
       /\ \A a \in V : next[a] \notin V => prev'[e] = f[a]
  <2>1. V = {} => last = {}
    BY DEF last
  <2>2. ASSUME NEW a \in V, next[a] \notin V PROVE last = {a}
    BY <1>2, <2>2 DEF last
  <2>3. QED
    BY <1>1, <1>9, <1>10, <2>1, <2>2
<1>15. TypeOK'
  <2>1. \A b \in R : From[b] \in Cell
    BY <1>3, <1>6
  <2>2. /\ name' \in [Cell -> Text] /\ value' \in [Cell -> Text]
        /\ owner' \in [Cell -> Element \cup {NULL}] /\ rank' \in [Cell -> Nat]
    BY <1>8, <2>1 DEF IInv, TypeOK, AttributesAssumption
  <2>3. \A c : Copy(f, c) \in Cell
    BY <1>1, <1>5, <1>7
  <2>4. last # {} => f[CHOOSE a \in last : TRUE] \in Cell
    BY <1>5, <1>7 DEF last
  <2>5. next' \in [Cell -> Cell \cup {NULL}] /\ prev' \in [Cell -> Cell \cup {NULL}]
    BY <1>1, <1>9, <1>10, <2>3, <2>4 DEF IInv, TypeOK
  <2>6. QED
    BY <2>2, <2>5 DEF TypeOK
<1>16. ASSUME NEW c \in Cell, owner'[c] # NULL
       PROVE  /\ next'[c] # NULL /\ prev'[c] # NULL
              /\ owner'[next'[c]] = owner'[c] /\ owner'[prev'[c]] = owner'[c]
              /\ prev'[next'[c]] = c /\ next'[prev'[c]] = c
              /\ next'[c] \in Attr => rank'[next'[c]] = rank'[c] + 1
  <2>1. /\ owner'[e] = e /\ rank'[e] = 0 /\ e \notin Owned(e) \cup R
    BY <1>1, <1>7, <1>13 DEF IInv, Circular
  <2>2. \A b \in R : b # NULL /\ b \in Attr
    BY <1>7 DEF AttributesAssumption
  <2>3. CASE c = e
    <3>1. CASE V = {}
      <4>1. next'[e] = e /\ prev'[e] = e
        BY <1>14, <3>1
      <4>2. QED
        BY <1>1, <2>1, <2>3, <4>1
    <3>2. CASE V # {}
      <4>1. PICK a \in V : next[a] \notin V
        BY <1>2, <3>2
      <4>2. next'[e] = f[next[src]] /\ next[src] \in V /\ prev'[e] = f[a]
        BY <1>2, <1>14, <3>2, <4>1
      <4>3. prev'[f[next[src]]] = e /\ next'[f[a]] = e
        BY <1>3, <1>7, <1>11, <4>1, <4>2
      <4>4. rank'[f[next[src]]] = 1
        BY <1>1, <1>3, <1>11, <4>2
      <4>5. owner'[f[next[src]]] = e /\ owner'[f[a]] = e /\ f[next[src]] # NULL /\ f[a] # NULL
        BY <1>11, <2>2, <4>2
      <4>6. QED
        BY <2>1, <2>3, <4>2, <4>3, <4>4, <4>5
    <3>3. QED
      BY <3>1, <3>2
  <2>4. CASE c \in R
    <3>1. PICK a \in V : f[a] = c
      BY <1>5, <2>4
    <3>2. /\ owner'[c] = e /\ rank'[c] = rank[a]
          /\ next'[c] = Copy(f, next[a]) /\ prev'[c] = Copy(f, prev[a])
      BY <1>11, <3>1
    <3>3. /\ next'[c] # NULL /\ owner'[next'[c]] = e /\ prev'[next'[c]] = c
          /\ next'[c] \in Attr => rank'[next'[c]] = rank'[c] + 1
      <4>1. CASE next[a] \in V
        BY <1>3, <1>11, <2>2, <3>1, <3>2, <4>1
      <4>2. CASE next[a] \notin V
        BY <1>1, <1>14, <2>1, <3>1, <3>2, <4>2
      <4>3. QED
        BY <4>1, <4>2
    <3>4. prev'[c] # NULL /\ owner'[prev'[c]] = e /\ next'[prev'[c]] = c
      <4>1. CASE prev[a] \in V
        BY <1>3, <1>11, <2>2, <3>1, <3>2, <4>1
      <4>2. CASE prev[a] = src
        <5>1. prev'[c] = e /\ next[src] = a
          BY <1>3, <1>7, <3>1, <3>2, <4>2
        <5>2. QED
          BY <1>1, <1>14, <2>1, <3>1, <5>1
      <4>3. QED
        BY <1>2, <4>1, <4>2
    <3>5. QED
      BY <3>2, <3>3, <3>4
  <2>5. CASE c \notin R /\ c # e
    <3>1. c \in Cell \ (Owned(e) \cup R) /\ owner'[c] = owner[c] /\ owner[c] \in Element
      BY <1>12, <1>13, <1>16, <2>5 DEF IInv, TypeOK
    <3>2. owner[c] # e
      BY <1>1, <2>5, <3>1 DEF Owned, IInv, Circular
    <3>3. /\ next[c] \in Owned(owner[c]) \cup {owner[c]} /\ prev[next[c]] = c
          /\ prev[c] \in Owned(owner[c]) \cup {owner[c]} /\ next[prev[c]] = c
      BY <3>1, Neighbours DEF IInv
    <3>4. /\ next[c] \in Cell /\ prev[c] \in Cell /\ owner[next[c]] = owner[c]
          /\ owner[prev[c]] = owner[c] /\ next[c] # NULL /\ prev[c] # NULL
      BY <1>1, <3>1, <3>3 DEF Owned, IInv, Circular, AttributesAssumption
    <3>5. \A d \in Cell : owner[d] = owner[c] => d # e /\ d \notin R /\ d \notin Owned(e)
      BY <1>1, <1>5, <3>1, <3>2 DEF Owned, Free
    <3>6. next[c] \in Attr => rank[next[c]] = rank[c] + 1
      BY <1>1, <3>1 DEF IInv, Circular
    <3>7. QED
      BY <1>13, <2>5, <3>1, <3>3, <3>4, <3>5, <3>6
  <2>6. QED
    BY <2>3, <2>4, <2>5
<1>17. ASSUME NEW b \in Attr
       PROVE  /\ owner'[b] = NULL => /\ prev'[b] = NULL /\ next'[b] = NULL
                                     /\ rank'[b] = 0 /\ b \in Blank'
              /\ owner'[b] # NULL => rank'[b] > 0
  <2>1. b \in Cell /\ b # e
    BY <1>1
  <2>2. CASE b \in R
    <3>1. PICK a \in V : f[a] = b
      BY <1>5, <2>2
    <3>2. a \in Attr /\ owner[a] # NULL
      BY <1>1, <1>3, <1>7
    <3>3. rank[a] > 0
      BY <3>2 DEF IInv, Circular
    <3>4. QED
      BY <1>1, <1>11, <3>1, <3>3
  <2>3. CASE b \in Owned(e) \ R
    BY <1>12, <2>1, <2>3 DEF Blank
  <2>4. CASE b \notin Owned(e) \cup R
    <3>1. b \in Blank => b \in Blank'
      BY <1>13, <2>1, <2>4 DEF Blank
    <3>2. QED
      BY <1>13, <2>1, <2>4, <3>1 DEF IInv, Circular
  <2>5. QED
    BY <2>2, <2>3, <2>4
<1>18. \A d \in Element : owner'[d] = d /\ rank'[d] = 0 /\ d \in Blank'
  <2> TAKE d \in Element
  <2>1. d \in Cell \ (Owned(e) \cup R)
    BY <1>1, <1>7
  <2>2. QED
    BY <1>13, <2>1 DEF IInv, Circular, Blank
<1>19. NamesUnique'
  <2> SUFFICES ASSUME NEW b \in Attr, NEW c \in Attr, owner'[b] # NULL,
                      owner'[b] = owner'[c], name'[b] = name'[c]
               PROVE  b = c
    BY DEF NamesUnique
  <2>1. b \in Cell /\ c \in Cell /\ b \notin Owned(e) \ R /\ c \notin Owned(e) \ R
    BY <1>1, <1>12
  <2>2. \A d \in Cell \ (Owned(e) \cup R) : d \in Attr => owner'[d] = owner[d] /\ owner[d] # e
    BY <1>13 DEF Owned
  <2>3. \A d \in R : owner'[d] = e
    BY <1>5, <1>11
  <2>4. CASE b \in R
    <3>1. c \in R
      BY <2>1, <2>2, <2>3, <2>4
    <3>2. PICK a \in V, d \in V : f[a] = b /\ f[d] = c
      BY <1>5, <2>4, <3>1
    <3>3. a \in Attr /\ d \in Attr /\ owner[a] # NULL /\ owner[a] = owner[d]
          /\ name[a] = name[d]
      BY <1>1, <1>3, <1>7, <1>11, <3>2
    <3>4. QED
      BY <3>2, <3>3 DEF IInv, NamesUnique
  <2>5. CASE b \notin R
    <3>1. b \notin Owned(e) \cup R /\ c \notin Owned(e) \cup R
      BY <2>1, <2>2, <2>3, <2>5
    <3>2. QED
      BY <1>13, <2>1, <3>1 DEF IInv, NamesUnique
  <2>6. QED
    BY <2>4, <2>5
<1>20. QED
  BY <1>15, <1>16, <1>17, <1>18, <1>19 DEF IInv, Circular

-----------------------------------------------------------------------------
\* At first every element has its sentinel alone.
LEMMA InitKeeps ==
  ASSUME AttributesAssumption, Init
  PROVE  IInv
<1>1. TypeOK
  BY DEF Init, Ring, TypeOK, AttributesAssumption, Cell
<1>2. Circular
  BY DEF Init, Ring, Circular, AttributesAssumption, Cell, Blank
<1>3. NamesUnique
  BY DEF Init, Ring, NamesUnique, AttributesAssumption, Cell
<1>4. QED
  BY <1>1, <1>2, <1>3 DEF IInv

\* Every call keeps the lists.
LEMMA NextKeeps ==
  ASSUME AttributesAssumption, IInv, [Next]_vars
  PROVE  IInv'
<1>1. ASSUME NEW e \in Element, NEW n \in Text, NEW v \in Text, SetAttribute(e, n, v)
      PROVE  IInv'
  <2>1. \A a \in Find(e, n) : a \in Attr /\ owner[a] # NULL
    BY MeetsOwned DEF IInv, Find, Owned, AttributesAssumption
  <2>2. CASE Find(e, n) = {} /\ AddsUnnamed(e) /\ \E a \in Free : Add(e, a, n, v)
    BY <2>2, AddKeeps DEF Free
  <2>3. QED
    BY <1>1, <2>1, <2>2, NewValueKeeps DEF SetAttribute
<1>2. ASSUME NEW e \in Element, NEW n \in Text, NEW v \in Text, ParseAttribute(e, n, v)
      PROVE  IInv'
  BY <1>2, AddKeeps DEF ParseAttribute, Free
<1>3. ASSUME NEW e \in Element, NEW n \in Text, RemoveAttribute(e, n)
      PROVE  IInv'
  BY <1>3, RemoveKeeps
<1>4. ASSUME NEW e \in Element, NEW a \in Attr, NEW v \in Text, SetValue(e, a, v)
      PROVE  IInv'
  BY <1>4, NewValueKeeps DEF SetValue, AttributesAssumption
<1>5. ASSUME NEW e \in Element, ClearThis(e)
      PROVE  IInv'
  BY <1>5, ClearThisKeeps
<1>6. ASSUME NEW e \in Element, NEW src \in Element, Assign(e, src)
      PROVE  IInv'
  BY <1>6, AssignKeeps
<1>7. CASE UNCHANGED vars
  BY <1>7 DEF vars, IInv, TypeOK, Circular, Blank, NamesUnique
<1>8. QED
  BY <1>1, <1>2, <1>3, <1>4, <1>5, <1>6, <1>7 DEF Next

\* For all elements, addresses and texts, every list stays one ring through
\* its sentinel, back and forth, and no element has one name twice.
THEOREM ListsHold == Spec => []IInv
<1>1. Init => IInv
  BY InitKeeps, AttributesAssumption
<1>2. IInv /\ [Next]_vars => IInv'
  BY NextKeeps, AttributesAssumption
<1>3. QED
  BY <1>1, <1>2, PTL DEF Spec

\* Find and Remove, which go round by Next until they are back at the
\* sentinel, meet every attribute of the element and none of another.
THEOREM FindMeetsAllHolds == Spec => []FindMeetsAll
<1>1. IInv => FindMeetsAll
  BY MeetsOwned, AttributesAssumption DEF IInv, FindMeetsAll, Owned
<1>2. QED
  BY <1>1, ListsHold, PTL

-----------------------------------------------------------------------------
\* The attribute before the sentinel comes last.
LEMMA LastIsGreatest ==
  ASSUME AttributesAssumption, TypeOK, Circular, NEW e \in Element
  PROVE  \A a \in Owned(e) : /\ prev[e] \in Owned(e) /\ rank[a] <= rank[prev[e]]
                             /\ rank[a] \in Nat /\ rank[prev[e]] \in Nat
<1> DEFINE l == prev[e]
           Bad == {r \in Nat : \E a \in Owned(e) : rank[a] = r /\ r > rank[l]}
<1>1. e \in Cell /\ owner[e] = e /\ e \notin Attr /\ rank[e] = 0
  BY DEF Cell, Circular, AttributesAssumption
<1>2. l \in Owned(e) \cup {e} /\ next[l] = e
  BY <1>1, Neighbours
<1>3. \A a \in Owned(e) \cup {e} : a \in Cell /\ owner[a] = e /\ rank[a] \in Nat
  BY <1>1 DEF Owned, Cell, TypeOK
<1>4. \A a \in Owned(e) : rank[a] > 0 /\ a # e
  BY <1>1 DEF Owned, Circular, AttributesAssumption
<1>5. ASSUME Bad # {} PROVE FALSE
  <2>1. PICK r \in Bad : \A s \in Bad : r <= s
    BY <1>5, LeastExists
  <2>2. PICK a \in Owned(e) : rank[a] = r /\ r > rank[l]
    BY <2>1
  <2>3. /\ prev[a] \in Owned(e) \cup {e} /\ next[prev[a]] = a
        /\ rank[a] = rank[prev[a]] + 1
    BY <1>3, Neighbours, RankOfNext
  <2>4. CASE prev[a] = l
    BY <1>2, <1>4, <2>3, <2>4
  <2>5. CASE prev[a] # l
    <3>1. rank[prev[a]] # rank[l]
      BY <1>2, <1>3, <2>3, <2>5, RanksApart
    <3>2. rank[prev[a]] > rank[l] /\ rank[prev[a]] > 0
      BY <1>2, <1>3, <2>2, <2>3, <3>1
    <3>3. prev[a] \in Owned(e) /\ rank[prev[a]] \in Bad
      BY <1>1, <1>3, <2>3, <3>2
    <3>4. QED
      BY <1>3, <2>1, <2>2, <2>3, <3>3
  <2>6. QED
    BY <2>4, <2>5
<1>6. ASSUME NEW a \in Owned(e) PROVE l # e
  <2>1. rank[a] > 0 /\ ~ (rank[a] > rank[l])
    BY <1>3, <1>4, <1>5
  <2>2. QED
    BY <1>1, <2>1
<1>7. QED
  BY <1>2, <1>3, <1>5, <1>6

\* The walk by Next ends before the first empty attribute that is not its first.
LEMMA WalkForth ==
  ASSUME AttributesAssumption, TypeOK, Circular, NEW e \in Element
  PROVE  Visible(e) = {a \in Owned(e) : \A b \in Owned(e) \cap Blank :
                         rank[b] = 1 \/ rank[b] > rank[a]}
<1> DEFINE W == {a \in Owned(e) : \A b \in Owned(e) \cap Blank :
                   rank[b] = 1 \/ rank[b] > rank[a]}
<1>1. e \in Cell /\ owner[e] = e /\ e \notin Attr /\ rank[e] = 0 /\ e \in Blank
  BY DEF Cell, Circular, AttributesAssumption
<1>2. \A a \in Owned(e) \cup {e} : /\ next[a] \in Owned(e) \cup {e} /\ prev[next[a]] = a
                                   /\ prev[a] \in Owned(e) \cup {e} /\ next[prev[a]] = a
  BY <1>1, Neighbours DEF Owned, Cell
<1>3. \A a \in Owned(e) : /\ a \in Cell /\ owner[a] = e /\ a \in Attr
                          /\ rank[a] \in Nat /\ rank[a] > 0
  BY DEF Owned, Cell, TypeOK, Circular, AttributesAssumption
<1>4. \A a \in Owned(e) \cup {e} : next[a] \in Attr => rank[next[a]] = rank[a] + 1
  BY <1>1, <1>3 DEF Circular, AttributesAssumption
<1>5. \A a, b \in Owned(e) : rank[a] = rank[b] => a = b
  BY <1>3, RanksApart
<1>6. Visible(e) \subseteq Owned(e)
  BY VisibleIsPrefix
<1>7. ASSUME NEW a \in Visible(e), NEW b \in Owned(e) \cap Blank, rank[b] # 1
      PROVE  rank[b] > rank[a]
  <2> DEFINE S == {c \in Owned(e) : rank[c] < rank[b]}
  <2>1. S \in SUBSET Attr
    BY <1>3
  <2>2. next[e] \in S \cup {e}
    BY <1>1, <1>2, <1>3, <1>4, <1>7
  <2>3. ASSUME NEW c \in S
        PROVE  next[c] \in S \cup Blank
    <3>1. CASE next[c] = e
      BY <1>1, <3>1
    <3>2. CASE next[c] \in Owned(e)
      <4>1. rank[next[c]] = rank[c] + 1 /\ rank[next[c]] <= rank[b]
        BY <1>3, <1>4, <1>7, <3>2
      <4>2. CASE rank[next[c]] = rank[b]
        BY <1>5, <1>7, <3>2, <4>2
      <4>3. QED
        BY <1>3, <1>7, <3>2, <4>1, <4>2
    <3>3. QED
      BY <1>2, <3>1, <3>2
  <2>4. a \in S
    BY <2>1, <2>2, <2>3 DEF Visible, Shown
  <2>5. QED
    BY <1>3, <1>7, <2>4
<1>8. ASSUME NEW S \in SUBSET Attr, Shown(e, S), NEW w \in W, w \notin S
      PROVE  FALSE
  <2> DEFINE Bad == {r \in Nat : \E a \in W \ S : rank[a] = r}
  <2>1. rank[w] \in Bad
    BY <1>3, <1>8
  <2>2. PICK r \in Bad : \A s \in Bad : r <= s
    BY <2>1, LeastExists
  <2>3. PICK a \in W \ S : rank[a] = r
    BY <2>2
  <2> DEFINE p == prev[a]
  <2>4. p \in Owned(e) \cup {e} /\ next[p] = a /\ rank[a] = rank[p] + 1 /\ a \in Attr
    BY <1>2, <1>3, RankOfNext
  <2>5. p # e
    BY <1>1, <1>8, <2>3, <2>4 DEF Shown
  <2>6. p \in W
    <3>1. \A b \in Owned(e) \cap Blank : rank[b] > rank[a] => rank[b] > rank[p]
      BY <1>3, <2>4, <2>5
    <3>2. QED
      BY <2>3, <2>4, <2>5, <3>1
  <2>7. p \in S
    BY <1>3, <2>2, <2>3, <2>4, <2>6
  <2>8. a \in Blank
    BY <1>8, <2>3, <2>4, <2>7 DEF Shown
  <2>9. rank[a] = 1
    BY <1>3, <2>3, <2>8
  <2>10. QED
    BY <1>3, <2>4, <2>5, <2>9
<1>9. W \subseteq Visible(e)
  BY <1>3, <1>8 DEF Visible
<1>10. Visible(e) \subseteq W
  BY <1>6, <1>7
<1> HIDE DEF W
<1>11. QED
  BY <1>9, <1>10 DEF W

\* The walk by Previous ends after the last empty attribute but that at its begin.
LEMMA WalkBack ==
  ASSUME AttributesAssumption, TypeOK, Circular, NEW e \in Element
  PROVE  VisibleBack(e) = {a \in Owned(e) : \A b \in Owned(e) \cap Blank :
                             rank[b] < rank[a] \/ \A c \in Owned(e) : rank[c] <= rank[b]}
<1> DEFINE IsLast(b) == \A c \in Owned(e) : rank[c] <= rank[b]
           W == {a \in Owned(e) : \A b \in Owned(e) \cap Blank :
                   rank[b] < rank[a] \/ IsLast(b)}
           l == prev[e]
<1>1. e \in Cell /\ owner[e] = e /\ e \notin Attr /\ rank[e] = 0 /\ e \in Blank
  BY DEF Cell, Circular, AttributesAssumption
<1>2. \A a \in Owned(e) \cup {e} : /\ next[a] \in Owned(e) \cup {e} /\ prev[next[a]] = a
                                   /\ prev[a] \in Owned(e) \cup {e} /\ next[prev[a]] = a
  BY <1>1, Neighbours DEF Owned, Cell
<1>3. \A a \in Owned(e) : /\ a \in Cell /\ owner[a] = e /\ a \in Attr /\ a # e
                          /\ rank[a] \in Nat /\ rank[a] > 0
                          /\ l \in Owned(e) /\ rank[a] <= rank[l] /\ rank[l] \in Nat
  BY <1>1, LastIsGreatest DEF Owned, Cell, TypeOK, Circular, AttributesAssumption
<1>4. \A a \in Owned(e) : rank[a] = rank[prev[a]] + 1
  BY RankOfNext
<1>5. \A a, b \in Owned(e) : rank[a] = rank[b] => a = b
  BY <1>3, RanksApart
<1>6. VisibleBack(e) \subseteq Owned(e)
  <2>1. Owned(e) \in SUBSET Attr /\ ShownBack(e, Owned(e))
    BY <1>1, <1>2, <1>3 DEF ShownBack
  <2>2. QED
    BY <2>1 DEF VisibleBack
<1>7. ASSUME NEW a \in VisibleBack(e), NEW b \in Owned(e) \cap Blank, ~ IsLast(b)
      PROVE  rank[b] < rank[a]
  <2> DEFINE S == {c \in Owned(e) : rank[b] < rank[c]}
  <2>1. S \in SUBSET Attr
    BY <1>3
  <2>2. l \in S
    <3>1. PICK c \in Owned(e) : ~ (rank[c] <= rank[b])
      BY <1>7
    <3>2. rank[c] <= rank[l] /\ rank[c] \in Nat /\ rank[l] \in Nat /\ rank[b] \in Nat
          /\ l \in Owned(e)
      BY <1>3, <1>7
    <3>3. rank[b] < rank[l]
      BY <3>1, <3>2
    <3>4. QED
      BY <3>2, <3>3
  <2>3. ASSUME NEW c \in S
        PROVE  prev[c] \in S \cup Blank
    <3>1. CASE prev[c] = e
      BY <1>1, <3>1
    <3>2. CASE prev[c] \in Owned(e)
      <4>1. rank[c] = rank[prev[c]] + 1 /\ rank[b] <= rank[prev[c]]
        BY <1>3, <1>4, <1>7, <3>2
      <4>2. CASE rank[prev[c]] = rank[b]
        BY <1>5, <1>7, <3>2, <4>2
      <4>3. QED
        BY <1>3, <1>7, <3>2, <4>1, <4>2
    <3>3. QED
      BY <1>2, <3>1, <3>2
  <2>4. a \in S
    <3>1. ShownBack(e, S)
      BY <2>2, <2>3 DEF ShownBack
    <3>2. QED
      BY <2>1, <3>1 DEF VisibleBack
  <2>5. QED
    BY <2>4
<1>8. ASSUME NEW S \in SUBSET Attr, ShownBack(e, S), NEW w \in W, w \notin S
      PROVE  FALSE
  <2> DEFINE Bad == {r \in Nat : \E a \in W \ S : rank[a] + r = rank[l]}
  <2>1. Bad # {}
    <3>1. rank[l] - rank[w] \in Nat /\ rank[w] + (rank[l] - rank[w]) = rank[l]
      BY <1>3, <1>8
    <3>2. QED
      BY <1>8, <3>1
  <2>2. PICK r \in Bad : \A s \in Bad : r <= s
    BY <2>1, LeastExists
  <2>3. PICK a \in W \ S : rank[a] + r = rank[l]
    BY <2>2
  <2> DEFINE q == next[a]
  <2>4. q \in Owned(e) \cup {e} /\ prev[q] = a /\ a \in Attr /\ a \in Owned(e)
    BY <1>2, <1>3
  <2>5. q # e
    BY <1>1, <1>8, <2>3, <2>4 DEF ShownBack
  <2>6. rank[q] = rank[a] + 1 /\ rank[q] \in Nat /\ rank[a] \in Nat /\ rank[l] \in Nat
        /\ rank[q] <= rank[l]
    BY <1>3, <1>4, <2>4, <2>5
  <2>7. q \in W
    <3>1. \A b \in Owned(e) \cap Blank : rank[b] < rank[a] => rank[b] < rank[q]
      BY <1>3, <2>6
    <3>2. QED
      BY <2>3, <2>4, <2>5, <3>1
  <2>8. q \in S
    <3>1. r \in Nat /\ r # 0
      BY <2>2, <2>3, <2>6
    <3>2. r - 1 \in Nat /\ ~ (r <= r - 1) /\ rank[q] + (r - 1) = rank[l]
      BY <2>3, <2>6, <3>1
    <3>3. q \notin S => r - 1 \in Bad
      BY <2>7, <3>2
    <3>4. QED
      BY <2>2, <3>2, <3>3
  <2>9. a \in Blank
    BY <1>8, <2>3, <2>4, <2>8 DEF ShownBack
  <2>10. IsLast(a)
    BY <2>3, <2>4, <2>6, <2>9
  <2>11. rank[q] <= rank[a]
    BY <2>4, <2>5, <2>10
  <2>12. QED
    BY <2>6, <2>11
<1>9. W \subseteq VisibleBack(e)
  BY <1>3, <1>8 DEF VisibleBack
<1>10. VisibleBack(e) \subseteq W
  BY <1>6, <1>7
<1> HIDE DEF W
<1>11. QED
  BY <1>9, <1>10 DEF W

\* The application's walks over the attributes of an element, by Next and by
\* Previous, meet them all but those behind an attribute with an empty name
\* and value, which they take for the sentinel.
THEOREM WalksHold == Spec => []WalksEndAtBlank
<1>1. IInv => WalksEndAtBlank
  BY WalkForth, WalkBack, AttributesAssumption DEF IInv, WalksEndAtBlank, Owned
<1>2. QED
  BY <1>1, ListsHold, PTL

-----------------------------------------------------------------------------
(***************************************************************************)
(* The sequences that the lists stand for.  A list of n attributes is      *)
(* spelled out by the function from 1..n to them that goes by their places.*)
(***************************************************************************)

Listed(e, n, c) ==
  /\ \A i \in 1..n : owner[c[i]] = e /\ rank[c[i]] = i
  /\ \A a \in Attr : owner[a] = e => rank[a] <= n

Spelled(n, c) == [i \in 1..n |-> <<name[c[i]], value[c[i]]>>]

\* Every place up to the last one's is taken: the last that is not would have
\* an attribute after it and none before that one.
LEMMA ListedExists ==
  ASSUME AttributesAssumption, IInv, NEW e \in Element
  PROVE  \E n \in Nat : \E c \in [1..n -> Attr] : Listed(e, n, c)
<1> DEFINE l == prev[e]
<1>1. CASE Owned(e) = {}
  <2>1. PICK c : c = [i \in 1..0 |-> Empty]
    OBVIOUS
  <2>2. c \in [1..0 -> Attr] /\ Listed(e, 0, c)
    BY <1>1, <2>1 DEF Listed, Owned
  <2>3. QED
    BY <2>2
<1>2. CASE Owned(e) # {}
  <2>1. /\ l \in Owned(e) /\ rank[l] \in Nat
        /\ \A a \in Owned(e) : rank[a] \in Nat /\ rank[a] <= rank[l]
    BY <1>2, LastIsGreatest DEF IInv
  <2> DEFINE n == rank[l]
             Taken(i) == \E a \in Owned(e) : rank[a] = i
             Bad == {k \in Nat : k < n /\ ~ Taken(n - k)}
  <2>2. ASSUME Bad # {} PROVE FALSE
    <3>1. PICK k \in Bad : \A j \in Bad : k <= j
      BY <2>2, LeastExists
    <3>2. k \in Nat /\ k < n /\ n \in Nat /\ ~ Taken(n - k) /\ k # 0
      BY <2>1, <3>1
    <3>3. k - 1 \in Nat /\ k - 1 < n /\ k - 1 \notin Bad /\ n - (k - 1) = n - k + 1
      BY <3>1, <3>2
    <3>4. PICK a \in Owned(e) : rank[a] = n - k + 1
      BY <3>3
    <3>5. prev[a] \in Cell /\ owner[prev[a]] = e /\ rank[prev[a]] = n - k
      BY <3>2, <3>4, RankOfNext DEF IInv
    <3>6. prev[a] \in Owned(e)
      BY <3>2, <3>5 DEF Owned, Cell, IInv, Circular
    <3>7. QED
      BY <3>2, <3>5, <3>6
  <2>3. \A i \in 1..n : Taken(i)
    <3>1. \A i \in 1..n : n - i \in Nat /\ n - i < n /\ n - (n - i) = i
      BY <2>1
    <3>2. QED
      BY <2>2, <3>1
  <2> DEFINE c == [i \in 1..n |-> CHOOSE a \in Owned(e) : rank[a] = i]
  <2>4. \A i \in 1..n : c[i] \in Owned(e) /\ rank[c[i]] = i
    BY <2>3
  <2>5. c \in [1..n -> Attr] /\ Listed(e, n, c)
    BY <2>1, <2>4 DEF Listed, Owned
  <2>6. QED
    BY <2>1, <2>5
<1>3. QED
  BY <1>1, <1>2

\* As many attributes are met as there are places.
LEMMA CountIsLength ==
  ASSUME AttributesAssumption, IInv, NEW e \in Element, NEW n \in Nat,
         NEW c \in [1..n -> Attr], Listed(e, n, c)
  PROVE  Cardinality(Met(e)) = n /\ \A a \in Owned(e) : rank[a] \in 1..n /\ c[rank[a]] = a
<1>1. \A a \in Owned(e) : /\ a \in Cell /\ owner[a] = e /\ rank[a] \in Nat /\ rank[a] > 0
                          /\ rank[a] <= n
  BY DEF Owned, Cell, IInv, TypeOK, Circular, AttributesAssumption, Listed
<1>2. \A i \in 1..n : c[i] \in Attr /\ c[i] \in Owned(e) /\ c[i] \in Cell /\ owner[c[i]] = e
                      /\ rank[c[i]] = i
  BY DEF Owned, Cell, Listed
<1>3. \A a \in Owned(e) : rank[a] \in 1..n /\ c[rank[a]] = a
  BY <1>1, <1>2, RanksApart DEF IInv
<1>4. c \in Bijection(1..n, Owned(e))
  <2>1. c \in [1..n -> Owned(e)]
    BY <1>2
  <2>2. \A i, j \in 1..n : c[i] = c[j] => i = j
    BY <1>2
  <2>3. QED
    BY <1>3, <2>1, <2>2 DEF Bijection, Injection, IsInjective, Surjection
<1>5. Cardinality(Owned(e)) = n
  BY <1>4, FS_CountingElements DEF ExistsBijection
<1>6. QED
  BY <1>3, <1>5, MeetsOwned DEF IInv

\* The pointers lead from each place to the next.
LEMMA AlongIs ==
  ASSUME AttributesAssumption, IInv, NEW e \in Element, NEW n \in Nat,
         NEW c \in [1..n -> Attr], Listed(e, n, c)
  PROVE  Along(e) = c
<1> DEFINE at[i \in 1..n] == IF i = 1 THEN next[e] ELSE next[at[i - 1]]
<1>1. \A i \in 1..n : c[i] \in Cell /\ owner[c[i]] = e /\ rank[c[i]] = i /\ c[i] \in Owned(e)
  BY DEF Owned, Cell, Listed
<1>2. e \in Cell /\ owner[e] = e /\ rank[e] = 0 /\ e \notin Attr
  BY DEF Cell, IInv, Circular, AttributesAssumption
<1>3. \A i \in 1..n : c[i] = IF i = 1 THEN next[e] ELSE next[c[i - 1]]
  <2> TAKE i \in 1..n
  <2>1. /\ prev[c[i]] \in Owned(e) \cup {e} /\ next[prev[c[i]]] = c[i]
        /\ rank[prev[c[i]]] \in Nat /\ i = rank[prev[c[i]]] + 1
    BY <1>1, Neighbours, RankOfNext DEF IInv
  <2>2. CASE i = 1
    <3>1. rank[prev[c[i]]] = 0
      BY <2>1, <2>2
    <3>2. prev[c[i]] = e
      BY <2>1, <3>1 DEF Owned, IInv, Circular, AttributesAssumption
    <3>3. QED
      BY <2>1, <2>2, <3>2
  <2>3. CASE i # 1
    <3>1. i - 1 \in 1..n /\ rank[prev[c[i]]] = i - 1 /\ prev[c[i]] \in Owned(e)
      BY <1>2, <2>1, <2>3
    <3>2. prev[c[i]] = c[i - 1]
      BY <3>1, CountIsLength
    <3>3. QED
      BY <2>1, <2>3, <3>2
  <2>4. QED
    BY <2>2, <2>3
<1>4. c = [i \in 1..n |-> IF i = 1 THEN next[e] ELSE next[c[i - 1]]]
  BY <1>3
<1>5. at = [i \in 1..n |-> IF i = 1 THEN next[e] ELSE next[at[i - 1]]]
  BY <1>4
<1>6. Along(e) = at
  BY CountIsLength DEF Along
<1> HIDE DEF at
<1> DEFINE Bad == {i \in Nat : i \in 1..n /\ at[i] # c[i]}
<1>7. ASSUME Bad # {} PROVE FALSE
  <2>1. PICK i \in Bad : \A j \in Bad : i <= j
    BY <1>7, LeastExists
  <2>2. i \in 1..n /\ at[i] # c[i]
    BY <2>1
  <2>3. i = 1 \/ (i - 1 \in 1..n /\ at[i - 1] = c[i - 1])
    BY <2>1, <2>2
  <2>4. at[i] = IF i = 1 THEN next[e] ELSE next[at[i - 1]]
    BY <1>5, <2>2
  <2>5. QED
    BY <1>3, <2>2, <2>3, <2>4
<1>8. \A i \in 1..n : at[i] = c[i]
  BY <1>7
<1>9. at = [i \in 1..n |-> at[i]]
  BY <1>5, Zenon
<1>10. QED
  BY <1>6, <1>8, <1>9

\* So a walk spells its list.
AllSpell == \A e \in Element, n \in Nat : \A c \in [1..n -> Attr] :
  Listed(e, n, c) => Walk(e) = Spelled(n, c)

LEMMA WalksSpell == IInv => AllSpell
<1> SUFFICES ASSUME IInv, NEW e \in Element, NEW n \in Nat, NEW c \in [1..n -> Attr],
                    Listed(e, n, c)
             PROVE  Walk(e) = Spelled(n, c)
  BY DEF AllSpell
<1>1. Along(e) = c
  BY AlongIs, AttributesAssumption
<1>2. QED
  BY <1>1 DEF Walk, Spelled

\* The same of the next state.
LEMMA NextSpells == IInv' => AllSpell'
BY WalksSpell, PTL

\* What a list spells is a sequence.
LEMMA SpelledIsASeq ==
  ASSUME TypeOK, NEW n \in Nat, NEW c \in [1..n -> Attr]
  PROVE  /\ Spelled(n, c) \in Seq(Text \X Text)
         /\ Len(Spelled(n, c)) = n /\ DOMAIN Spelled(n, c) = 1..n
<1>1. \A i \in 1..n : c[i] \in Cell
  BY DEF Cell
<1>2. Spelled(n, c) \in [1..n -> Text \X Text]
  BY <1>1 DEF Spelled, TypeOK
<1>3. QED
  BY <1>2

Untouched(d) == \A a \in Attr :
  /\ owner'[a] = d <=> owner[a] = d
  /\ owner[a] = d => rank'[a] = rank[a] /\ name'[a] = name[a] /\ value'[a] = value[a]

\* A list whose attributes keep their places and texts spells what it spelled.
LEMMA UntouchedSame ==
  ASSUME AttributesAssumption, IInv, IInv', NEW d \in Element, Untouched(d)
  PROVE  Walk(d)' = Walk(d)
<1> PICK n \in Nat : \E c \in [1..n -> Attr] : Listed(d, n, c)
  BY ListedExists
<1>1. PICK c \in [1..n -> Attr] : Listed(d, n, c)
  OBVIOUS
<1>2. \A i \in 1..n : c[i] \in Attr /\ owner[c[i]] = d /\ rank[c[i]] = i
  BY <1>1 DEF Listed
<1>3. Listed(d, n, c)' /\ Spelled(n, c)' = Spelled(n, c)
  BY <1>1, <1>2 DEF Untouched, Listed, Spelled
<1>4. QED
  BY <1>1, <1>3, NextSpells, WalksSpell DEF AllSpell

\* So a call that touches one list changes one sequence.
LEMMA OneChanges ==
  ASSUME AttributesAssumption, IInv, IInv', attributes = Walks, attributes' = Walks',
         NEW e \in Element, \A d \in Element \ {e} : Untouched(d),
         NEW n \in Nat, NEW c \in [1..n -> Attr], Listed(e, n, c)'
  PROVE  List!Become(e, Spelled(n, c)')
<1>1. \A d \in Element \ {e} : Walk(d)' = Walk(d)
  BY UntouchedSame
<1>2. Walk(e)' = Spelled(n, c)'
  BY NextSpells DEF AllSpell
<1>3. attributes' = [d \in Element |-> IF d = e THEN Spelled(n, c)' ELSE attributes[d]]
  BY <1>1, <1>2 DEF Walks
<1>4. QED
  BY <1>3 DEF List!Become, Walks

\* At first there is nothing to spell.
LEMMA InitEmpty == ASSUME AttributesAssumption, WalkInit PROVE List!Init
<1>1. IInv
  BY InitKeeps DEF WalkInit
<1>2. ASSUME NEW e \in Element PROVE Walk(e) = <<>>
  <2>1. PICK c : c = [i \in 1..0 |-> Empty]
    OBVIOUS
  <2>2. \A a \in Attr : a \in Cell /\ owner[a] = NULL /\ e # NULL
    BY DEF WalkInit, Init, Ring, Cell, AttributesAssumption
  <2>3. c \in [1..0 -> Attr] /\ Listed(e, 0, c)
    BY <2>1, <2>2 DEF Listed
  <2>4. Walk(e) = Spelled(0, c)
    BY <1>1, <2>3, WalksSpell DEF AllSpell
  <2>5. Spelled(0, c) \in Seq(Text \X Text) /\ Len(Spelled(0, c)) = 0
    BY <1>1, <2>3, SpelledIsASeq DEF IInv
  <2>6. QED
    BY <2>4, <2>5
<1>3. QED
  BY <1>2 DEF WalkInit, Walks, List!Init

\* A new value changes one place, that of the one attribute of its name.
LEMMA NewValueSets ==
  ASSUME AttributesAssumption, IInv, IInv', attributes = Walks, attributes' = Walks',
         NEW e \in Element, NEW a \in Attr, NEW v \in Text, owner[a] = e,
         value' = [value EXCEPT ![a] = v],
         UNCHANGED <<name, prev, next, owner, rank>>
  PROVE  List!Change(e, name[a], v)
<1> PICK n \in Nat : \E c \in [1..n -> Attr] : Listed(e, n, c)
  BY ListedExists
<1>1. PICK c \in [1..n -> Attr] : Listed(e, n, c)
  OBVIOUS
<1>2. Listed(e, n, c)'
  BY <1>1 DEF Listed
<1>3. \A d \in Element \ {e} : Untouched(d)
  BY DEF Untouched, IInv, TypeOK
<1>4. List!Become(e, Spelled(n, c)')
  BY <1>2, <1>3, OneChanges
<1>5. attributes[e] = Spelled(n, c)
  BY <1>1, WalksSpell DEF Walks, AllSpell
<1>6. /\ DOMAIN Spelled(n, c) = 1..n
      /\ \A i \in 1..n : Spelled(n, c)[i] = <<name[c[i]], value[c[i]]>>
  BY DEF Spelled
<1>7. rank[a] \in 1..n /\ c[rank[a]] = a
  BY <1>1, CountIsLength DEF Owned
<1>8. name[a] \in List!Names(e)
  BY <1>5, <1>6, <1>7 DEF List!Names, List!ToSet
<1>9. \A i \in 1..n : c[i] \in Attr /\ c[i] \in Cell /\ owner[c[i]] = e
                      /\ (name[c[i]] = name[a] => c[i] = a)
  BY <1>1, AttributesAssumption DEF Listed, Cell, IInv, NamesUnique
<1>10. Spelled(n, c)' = [i \in 1..n |-> IF attributes[e][i][1] = name[a] THEN <<name[a], v>>
                                        ELSE attributes[e][i]]
  <2>1. \A i \in 1..n : <<name[c[i]], value[c[i]]>>'
          = IF name[c[i]] = name[a] THEN <<name[a], v>> ELSE <<name[c[i]], value[c[i]]>>
    BY <1>9 DEF IInv, TypeOK
  <2>2. QED
    BY <1>5, <1>6, <2>1 DEF Spelled
<1>11. DOMAIN attributes[e] = 1..n
  BY <1>5, <1>6
<1>12. Spelled(n, c)' = [i \in DOMAIN attributes[e] |->
                          IF attributes[e][i][1] = name[a] THEN <<name[a], v>>
                          ELSE attributes[e][i]]
  BY <1>10, <1>11
<1>13. QED
  BY <1>4, <1>8, <1>12 DEF List!Change

\* A name that Find does not find is not in the sequence.
LEMMA NotNamed ==
  ASSUME AttributesAssumption, IInv, attributes = Walks,
         NEW e \in Element, NEW x \in Text, Find(e, x) = {}
  PROVE  x \notin List!Names(e)
<1> PICK n \in Nat : \E c \in [1..n -> Attr] : Listed(e, n, c)
  BY ListedExists
<1>1. PICK c \in [1..n -> Attr] : Listed(e, n, c)
  OBVIOUS
<1>2. \A i \in 1..n : c[i] \in Attr /\ owner[c[i]] = e
  BY <1>1 DEF Listed
<1>3. \A i \in 1..n : name[c[i]] # x
  BY <1>2, MeetsOwned DEF Find, Owned, IInv
<1>4. attributes[e] = Spelled(n, c)
  BY <1>1, WalksSpell DEF Walks, AllSpell
<1>5. /\ DOMAIN Spelled(n, c) = 1..n
      /\ \A i \in 1..n : Spelled(n, c)[i] = <<name[c[i]], value[c[i]]>>
  BY DEF Spelled
<1>6. QED
  BY <1>3, <1>4, <1>5 DEF List!Names, List!ToSet

\* The last place is that of the attribute before the sentinel.
LEMMA LengthIsLastRank ==
  ASSUME AttributesAssumption, IInv, NEW e \in Element, NEW n \in Nat,
         NEW c \in [1..n -> Attr], Listed(e, n, c)
  PROVE  rank[prev[e]] = n
<1>1. CASE Owned(e) = {}
  <2>1. n = 0
    BY <1>1 DEF Listed, Owned
  <2>2. e \in Cell /\ owner[e] = e /\ rank[e] = 0
    BY DEF Cell, IInv, Circular
  <2>3. prev[e] = e
    BY <1>1, <2>2, Neighbours DEF IInv
  <2>4. QED
    BY <2>1, <2>2, <2>3
<1>2. CASE Owned(e) # {}
  <2>1. \A a \in Owned(e) : rank[a] \in 1..n
    BY CountIsLength
  <2>2. n \in 1..n
    BY <1>2, <2>1
  <2>3. c[n] \in Owned(e) /\ rank[c[n]] = n
    BY <2>2 DEF Listed, Owned
  <2>4. prev[e] \in Owned(e) /\ rank[prev[e]] >= n /\ rank[prev[e]] \in Nat
    BY <2>3, LastIsGreatest DEF IInv
  <2>5. QED
    BY <2>1, <2>4
<1>3. QED
  BY <1>1, <1>2

\* A new attribute comes at the end.
LEMMA AddAppends ==
  ASSUME AttributesAssumption, IInv, IInv', attributes = Walks, attributes' = Walks',
         NEW e \in Element, NEW a \in Attr, NEW n \in Text, NEW v \in Text,
         Find(e, n) = {}, Add(e, a, n, v)
  PROVE  List!Extend(e, n, v)
<1> PICK m \in Nat : \E c \in [1..m -> Attr] : Listed(e, m, c)
  BY ListedExists
<1>1. PICK c \in [1..m -> Attr] : Listed(e, m, c)
  OBVIOUS
<1> DEFINE c2 == [i \in 1..(m + 1) |-> IF i = m + 1 THEN a ELSE c[i]]
<1>2. a \in Cell /\ owner[a] = NULL /\ \A d \in Element : d # NULL /\ d # a
  BY DEF Add, Free, Cell, AttributesAssumption
<1>3. \A i \in 1..m : c[i] \in Cell /\ c[i] # a /\ owner[c[i]] = e /\ rank[c[i]] = i
  BY <1>1, <1>2 DEF Listed, Cell
<1>4. owner' = [owner EXCEPT ![a] = e] /\ rank' = [rank EXCEPT ![a] = m + 1]
      /\ name' = [name EXCEPT ![a] = n] /\ value' = [value EXCEPT ![a] = v]
  BY <1>1, LengthIsLastRank DEF Add
<1>5. \A b \in Attr : b \in Cell
  BY DEF Cell
<1>6. c2 \in [1..(m + 1) -> Attr] /\ Listed(e, m + 1, c2)'
  <2>1. c2 \in [1..(m + 1) -> Attr]
    OBVIOUS
  <2>2. \A i \in 1..(m + 1) : owner'[c2[i]] = e /\ rank'[c2[i]] = i
    BY <1>2, <1>3, <1>4 DEF IInv, TypeOK
  <2>3. \A b \in Attr : owner'[b] = e => rank'[b] <= m + 1
    BY <1>1, <1>2, <1>4, <1>5 DEF IInv, TypeOK, Listed
  <2>4. QED
    BY <2>1, <2>2, <2>3 DEF Listed
<1>7. \A d \in Element \ {e} : Untouched(d)
  BY <1>2, <1>4, <1>5 DEF Untouched, IInv, TypeOK
<1>8. List!Become(e, Spelled(m + 1, c2)')
  BY <1>6, <1>7, OneChanges
<1>9. attributes[e] = Spelled(m, c)
  BY <1>1, WalksSpell DEF Walks, AllSpell
<1>10. /\ DOMAIN Spelled(m, c) = 1..m
       /\ \A i \in 1..m : Spelled(m, c)[i] = <<name[c[i]], value[c[i]]>>
  BY DEF Spelled
<1>11. n \notin List!Names(e)
  BY NotNamed
<1>12. Spelled(m, c) \in Seq(Text \X Text) /\ Len(Spelled(m, c)) = m
  BY SpelledIsASeq DEF IInv
<1>13. Spelled(m + 1, c2)' = Append(attributes[e], <<n, v>>)
  <2> DEFINE s == Spelled(m, c)
  <2>1. /\ Append(s, <<n, v>>) = [i \in 1..(m + 1) |-> IF i = m + 1 THEN <<n, v>> ELSE s[i]]
    BY <1>12
  <2>2. \A i \in 1..(m + 1) : <<name'[c2[i]], value'[c2[i]]>>
          = IF i = m + 1 THEN <<n, v>> ELSE s[i]
    BY <1>2, <1>3, <1>4, <1>10 DEF IInv, TypeOK
  <2>3. Spelled(m + 1, c2)' = [i \in 1..(m + 1) |-> <<name'[c2[i]], value'[c2[i]]>>]
    BY DEF Spelled
  <2>4. attributes[e] = s
    BY <1>9
  <2> HIDE DEF s, c2
  <2>5. Append(s, <<n, v>>) = Spelled(m + 1, c2)'
    BY <2>1, <2>2, <2>3
  <2>6. QED
    BY <2>4, <2>5
<1>14. QED
  BY <1>8, <1>11, <1>13 DEF List!Extend

\* What is left of a sequence without one place
LEMMA RemovedAt ==
  ASSUME NEW S, NEW s \in Seq(S), NEW k \in 1..Len(s)
  PROVE  List!RemoveAt(s, k) = [i \in 1..(Len(s) - 1) |-> IF i < k THEN s[i] ELSE s[i + 1]]
<1> DEFINE m == Len(s)
<1>1. m \in Nat /\ k \in Nat /\ k <= m /\ \A i \in 1..m : s[i] \in S
  OBVIOUS
<1>2. PICK q : q = SubSeq(s, 1, k - 1)
  OBVIOUS
<1>3. PICK r : r = SubSeq(s, k + 1, m)
  OBVIOUS
<1>4. q \in Seq(S) /\ Len(q) = k - 1 /\ \A i \in 1..(k - 1) : q[i] = s[i]
  BY <1>1, <1>2
<1>5. r \in Seq(S) /\ Len(r) = m - k /\ \A i \in 1..(m - k) : r[i] = s[i + k]
  BY <1>1, <1>3
<1>6. /\ q \o r \in Seq(S) /\ Len(q \o r) = m - 1
      /\ \A i \in 1..(m - 1) : (q \o r)[i] = IF i < k THEN q[i] ELSE r[i - k + 1]
  BY <1>1, <1>4, <1>5, ConcatProperties
<1>7. \A i \in 1..(m - 1) : (q \o r)[i] = IF i < k THEN s[i] ELSE s[i + 1]
  BY <1>1, <1>4, <1>5, <1>6
<1>8. q \o r = [i \in 1..(m - 1) |-> (q \o r)[i]]
  <2>1. PICK t \in Seq(S) : t = q \o r
    BY <1>6
  <2>2. t = [i \in 1..Len(t) |-> t[i]]
    OBVIOUS
  <2>3. QED
    BY <1>6, <2>1, <2>2
<1>9. QED
  BY <1>2, <1>3, <1>7, <1>8 DEF List!RemoveAt

\* A removed attribute leaves its place, which the next one takes.
LEMMA RemoveDrops ==
  ASSUME AttributesAssumption, IInv, IInv', attributes = Walks, attributes' = Walks',
         NEW e \in Element, NEW n \in Text, RemoveAttribute(e, n)
  PROVE  List!Drop(e, n)
<1> PICK m \in Nat : \E c \in [1..m -> Attr] : Listed(e, m, c)
  BY ListedExists
<1>1. PICK c \in [1..m -> Attr] : Listed(e, m, c)
  OBVIOUS
<1>2. PICK a \in Find(e, n) :
        /\ name' = [name EXCEPT ![a] = Empty]
        /\ value' = [value EXCEPT ![a] = Empty]
        /\ owner' = [owner EXCEPT ![a] = NULL]
        /\ rank' = [d \in Cell |-> IF d = a THEN 0 ELSE
                                   IF owner[d] = e /\ rank[d] > rank[a]
                                   THEN rank[d] - 1 ELSE rank[d]]
  BY DEF RemoveAttribute
<1>3. a \in Owned(e) /\ a \in Attr /\ a \in Cell /\ owner[a] = e /\ name[a] = n /\ e # NULL
  BY MeetsOwned DEF Find, Owned, Cell, IInv, AttributesAssumption
<1>3a. PICK k \in 1..m : k = rank[a]
  BY <1>1, <1>3, CountIsLength
<1> DEFINE c2 == [i \in 1..(m - 1) |-> IF i < k THEN c[i] ELSE c[i + 1]]
<1>4. rank[a] = k /\ k \in 1..m /\ c[k] = a /\ m - 1 \in Nat
  BY <1>1, <1>3, <1>3a, CountIsLength
<1>5. \A b \in Attr : b \in Cell /\ (owner[b] = e => rank[b] \in 1..m /\ c[rank[b]] = b)
  BY <1>1, CountIsLength DEF Cell, Owned
<1>6. \A i \in 1..m : c[i] \in Attr /\ c[i] \in Cell /\ owner[c[i]] = e /\ rank[c[i]] = i
  BY <1>1 DEF Listed, Cell
<1>7. c2 \in [1..(m - 1) -> Attr] /\ Listed(e, m - 1, c2)'
  <2>1. \A i \in 1..(m - 1) : i \in 1..m /\ i + 1 \in 1..m
    BY <1>4
  <2>2. c2 \in [1..(m - 1) -> Attr]
    BY <1>4, <1>6, <2>1
  <2>3. ASSUME NEW i \in 1..(m - 1) PROVE owner'[c2[i]] = e /\ rank'[c2[i]] = i
    <3>1. CASE i < k
      BY <1>2, <1>3, <1>4, <1>6, <2>1, <3>1 DEF IInv, TypeOK
    <3>2. CASE ~ (i < k)
      BY <1>2, <1>3, <1>4, <1>6, <2>1, <3>2 DEF IInv, TypeOK
    <3>3. QED
      BY <3>1, <3>2
  <2>4. ASSUME NEW b \in Attr, owner'[b] = e PROVE rank'[b] <= m - 1
    <3>1. b # a /\ owner[b] = e /\ b \in Cell
      BY <1>2, <1>3, <1>5, <2>4 DEF IInv, TypeOK
    <3>2. rank[b] \in 1..m /\ rank[b] # k
      BY <1>4, <1>5, <3>1
    <3>3. rank'[b] = IF rank[b] > k THEN rank[b] - 1 ELSE rank[b]
      BY <1>2, <1>4, <3>1
    <3>4. QED
      BY <1>4, <3>2, <3>3
  <2>5. /\ \A i \in 1..(m - 1) : owner'[c2[i]] = e /\ rank'[c2[i]] = i
        /\ \A b \in Attr : owner'[b] = e => rank'[b] <= m - 1
    BY <2>3, <2>4
  <2> HIDE DEF c2
  <2>6. Listed(e, m - 1, c2)'
    BY <2>5 DEF Listed
  <2>7. QED
    BY <2>2, <2>6
<1>8. \A d \in Element \ {e} : Untouched(d)
  BY <1>2, <1>3, <1>5 DEF Untouched, IInv, TypeOK, AttributesAssumption
<1>9. List!Become(e, Spelled(m - 1, c2)')
  BY <1>4, <1>7, <1>8, OneChanges
<1> DEFINE s == Spelled(m, c)
<1>10. attributes[e] = s
  BY <1>1, WalksSpell DEF Walks, AllSpell
<1>11. /\ DOMAIN s = 1..m /\ s \in Seq(Text \X Text) /\ Len(s) = m
       /\ \A i \in 1..m : s[i] = <<name[c[i]], value[c[i]]>>
  BY SpelledIsASeq DEF Spelled, IInv
<1> HIDE DEF s
<1>12. Spelled(m - 1, c2)' = [i \in 1..(m - 1) |-> IF i < k THEN s[i] ELSE s[i + 1]]
  <2>1. \A i \in 1..(m - 1) : <<name'[c2[i]], value'[c2[i]]>>
          = IF i < k THEN s[i] ELSE s[i + 1]
    <3> TAKE i \in 1..(m - 1)
    <3>1. i \in 1..m /\ i + 1 \in 1..m
      BY <1>4
    <3>2. CASE i < k
      BY <1>2, <1>4, <1>6, <1>11, <3>1, <3>2 DEF IInv, TypeOK
    <3>3. CASE ~ (i < k)
      BY <1>2, <1>4, <1>6, <1>11, <3>1, <3>3 DEF IInv, TypeOK
    <3>4. QED
      BY <3>2, <3>3
  <2>2. Spelled(m - 1, c2)' = [i \in 1..(m - 1) |-> <<name'[c2[i]], value'[c2[i]]>>]
    BY DEF Spelled
  <2>3. QED
    BY <2>1, <2>2
<1>13. List!RemoveAt(s, k) = [i \in 1..(m - 1) |-> IF i < k THEN s[i] ELSE s[i + 1]]
  <2>1. m = Len(s) /\ k \in 1..Len(s) /\ s \in Seq(Text \X Text)
    BY <1>4, <1>11
  <2>2. List!RemoveAt(s, k) = [i \in 1..(Len(s) - 1) |-> IF i < k THEN s[i] ELSE s[i + 1]]
    BY <2>1, RemovedAt
  <2>3. QED
    BY <2>1, <2>2
<1>14. k \in DOMAIN attributes[e] /\ attributes[e][k][1] = n
  BY <1>3, <1>4, <1>10, <1>11
<1>15. Spelled(m - 1, c2)' = List!RemoveAt(attributes[e], k)
  BY <1>10, <1>12, <1>13
<1>16. List!Become(e, List!RemoveAt(attributes[e], k))
  BY <1>9, <1>15
<1>17. QED
  BY <1>14, <1>16 DEF List!Drop

\* ClearThis leaves nothing.
LEMMA ClearEmpties ==
  ASSUME AttributesAssumption, IInv, IInv', attributes = Walks, attributes' = Walks',
         NEW e \in Element, ClearThis(e)
  PROVE  List!Become(e, <<>>)
<1>1. Met(e) = Owned(e)
  BY MeetsOwned DEF IInv
<1>2. PICK c : c = [i \in 1..0 |-> Empty]
  OBVIOUS
<1>3. \A b \in Attr : b \in Cell
  BY DEF Cell
<1>4. c \in [1..0 -> Attr] /\ Listed(e, 0, c)'
  <2>1. \A b \in Attr : owner'[b] # e
    BY <1>1, <1>3 DEF ClearThis, Kept, Owned, AttributesAssumption
  <2>2. QED
    BY <1>2, <2>1 DEF Listed
<1>5. \A d \in Element \ {e} : Untouched(d)
  BY <1>1, <1>3 DEF Untouched, ClearThis, Kept, Owned, AttributesAssumption
<1>6. List!Become(e, Spelled(0, c)')
  BY <1>4, <1>5, OneChanges
<1>7. Spelled(0, c)' = <<>>
  BY DEF Spelled
<1>8. QED
  BY <1>6, <1>7

\* A copy of src puts each attribute that is seen of it into e, at its place.
LEMMA AssignPuts ==
  ASSUME AttributesAssumption, IInv, NEW e \in Element, NEW src \in Element,
         Assign(e, src)
  PROVE  \E f \in [Visible(src) -> Attr] :
           /\ \A a \in Visible(src) : /\ owner'[f[a]] = e /\ rank'[f[a]] = rank[a]
                                      /\ name'[f[a]] = name[a] /\ value'[f[a]] = value[a]
           /\ \A b \in Attr : owner'[b] = e => \E a \in Visible(src) : b = f[a]
           /\ \A d \in Element \ {e} : Untouched(d)
<1> DEFINE V == Visible(src)
<1>1. PICK f \in Injection(V, Free \cup Met(e)) :
        LET From == [b \in Range(f) |-> CHOOSE a \in DOMAIN f : f[a] = b]
            Carried(g, kept) ==
              [c \in Cell |-> IF c \in Range(f) THEN g[From[c]] ELSE kept[c]] IN
        /\ name' = Carried(name, Kept(name, e, Empty))
        /\ value' = Carried(value, Kept(value, e, Empty))
        /\ owner' = LET kept == Kept(owner, e, NULL)
                    IN  [c \in Cell |-> IF c \in Range(f) THEN e ELSE kept[c]]
        /\ rank' = Carried(rank, Kept(rank, e, 0))
  BY DEF Assign
<1>2. Met(e) = Owned(e) /\ \A d \in Element : d # NULL
  BY MeetsOwned DEF IInv, AttributesAssumption
<1> DEFINE R == Range(f)
           From == [b \in R |-> CHOOSE a \in V : f[a] = b]
<1>3. /\ DOMAIN f = V /\ \A a \in V : f[a] \in R
      /\ \A a, b \in V : f[a] = f[b] => a = b
      /\ R \subseteq Free \cup Owned(e) /\ \A b \in R : \E a \in V : f[a] = b
  BY <1>2 DEF Injection, IsInjective, Range
<1>4. /\ \A b \in R : From[b] \in V /\ f[From[b]] = b
      /\ \A a \in V : From[f[a]] = a
  BY <1>3
<1>5. /\ R \subseteq Attr /\ \A b \in Attr : b \in Cell
      /\ \A b \in R : owner[b] = NULL \/ owner[b] = e
  BY <1>3 DEF Free, Owned, Cell
<1>6. /\ name' = [c \in Cell |-> IF c \in R THEN name[From[c]] ELSE
                                 IF c \in Owned(e) THEN Empty ELSE name[c]]
      /\ value' = [c \in Cell |-> IF c \in R THEN value[From[c]] ELSE
                                  IF c \in Owned(e) THEN Empty ELSE value[c]]
      /\ owner' = [c \in Cell |-> IF c \in R THEN e ELSE
                                  IF c \in Owned(e) THEN NULL ELSE owner[c]]
      /\ rank' = [c \in Cell |-> IF c \in R THEN rank[From[c]] ELSE
                                 IF c \in Owned(e) THEN 0 ELSE rank[c]]
  BY <1>1, <1>2, <1>3 DEF Kept
<1> HIDE DEF V, R, From
<1>7. f \in [V -> Attr]
  BY <1>3, <1>5 DEF Injection, IsInjective
<1>8. \A a \in V : /\ owner'[f[a]] = e /\ rank'[f[a]] = rank[a]
                   /\ name'[f[a]] = name[a] /\ value'[f[a]] = value[a]
  BY <1>3, <1>4, <1>5, <1>6
<1>9. \A b \in Attr : owner'[b] = e => \E a \in V : b = f[a]
  BY <1>2, <1>3, <1>5, <1>6 DEF Owned
<1>10. \A d \in Element \ {e} : Untouched(d)
  BY <1>2, <1>5, <1>6 DEF Untouched, Owned
<1>11. QED
  BY <1>7, <1>8, <1>9, <1>10 DEF V

\* What is seen of a list is what the contract copies: all up to the first
\* place after the first that spells the sentinel.
LEMMA CopiedIsVisible ==
  ASSUME AttributesAssumption, IInv, NEW e \in Element, NEW n \in Nat,
         NEW c \in [1..n -> Attr], Listed(e, n, c)
  PROVE  \E k \in 0..n :
           /\ \A i \in 1..n : c[i] \in Visible(e) <=> i <= k
           /\ List!Copied(Spelled(n, c)) = [i \in 1..k |-> Spelled(n, c)[i]]
<1> DEFINE s == Spelled(n, c)
           ends == {i \in DOMAIN s : i > 1 /\ s[i] = <<Empty, Empty>>}
<1>1. /\ DOMAIN s = 1..n /\ s \in Seq(Text \X Text) /\ Len(s) = n
      /\ \A i \in 1..n : s[i] = <<name[c[i]], value[c[i]]>>
  BY SpelledIsASeq DEF Spelled, IInv
<1>2. \A i \in 1..n : c[i] \in Owned(e) /\ c[i] \in Cell /\ rank[c[i]] = i
  BY DEF Listed, Owned, Cell
<1>3. \A a \in Owned(e) : rank[a] \in 1..n /\ c[rank[a]] = a
  BY CountIsLength
<1>4. \A i \in 1..n : i \in ends <=> i > 1 /\ c[i] \in Blank
  BY <1>1, <1>2 DEF Blank
<1> HIDE DEF s, ends
<1>5. \A i \in 1..n : c[i] \in Visible(e) <=> \A j \in ends : j > i
  <2> TAKE i \in 1..n
  <2>1. c[i] \in Visible(e) <=> \A b \in Owned(e) \cap Blank : rank[b] = 1 \/ rank[b] > i
    BY <1>2, WalkForth DEF IInv
  <2>2. ASSUME \A b \in Owned(e) \cap Blank : rank[b] = 1 \/ rank[b] > i,
               NEW j \in ends
        PROVE  j > i
    <3>1. j \in 1..n /\ j > 1 /\ c[j] \in Owned(e) \cap Blank /\ rank[c[j]] = j
      BY <1>1, <1>2, <1>4 DEF ends
    <3>2. QED
      BY <2>2, <3>1
  <2>3. ASSUME \A j \in ends : j > i, NEW b \in Owned(e) \cap Blank
        PROVE  rank[b] = 1 \/ rank[b] > i
    <3>1. rank[b] \in 1..n /\ c[rank[b]] = b
      BY <1>3
    <3>2. QED
      BY <1>4, <2>3, <3>1
  <2>4. QED
    BY <2>1, <2>2, <2>3
<1>6. List!Copied(s) = IF ends = {} THEN s ELSE SubSeq(s, 1, List!Min(ends) - 1)
  BY DEF List!Copied, ends
<1>7. CASE ends = {}
  <2>1. n \in 0..n /\ \A i \in 1..n : c[i] \in Visible(e) <=> i <= n
    BY <1>5, <1>7
  <2>2. List!Copied(s) = [i \in 1..n |-> s[i]]
    BY <1>1, <1>6, <1>7
  <2>3. QED
    BY <2>1, <2>2 DEF s
<1>8. CASE ends # {}
  <2>1. ends \subseteq Nat /\ ends \subseteq 2..n
    BY <1>1 DEF ends
  <2>2. PICK m \in ends : \A j \in ends : m <= j
    BY <1>8, <2>1, LeastExists
  <2>3. List!Min(ends) = m
    <3>1. \A x \in ends : (\A y \in ends : x <= y) => x = m
      BY <2>1, <2>2
    <3>2. (CHOOSE x \in ends : \A y \in ends : x <= y) = m
      BY <2>2, <3>1, Zenon
    <3>3. QED
      BY <3>2 DEF List!Min
  <2>4. /\ m - 1 \in 0..n
        /\ \A i \in 1..n : c[i] \in Visible(e) <=> i <= m - 1
    BY <1>5, <2>1, <2>2
  <2>5. SubSeq(s, 1, m - 1) = [i \in 1..(m - 1) |-> s[i]]
    BY <1>1, <2>4
  <2>6. QED
    BY <1>6, <1>8, <2>3, <2>4, <2>5 DEF s
<1>9. QED
  BY <1>7, <1>8

LEMMA AssignCopies ==
  ASSUME AttributesAssumption, IInv, IInv', attributes = Walks, attributes' = Walks',
         NEW e \in Element, NEW src \in Element, Assign(e, src)
  PROVE  src # e /\ List!Copy(e, src)
<1>1. src # e
  BY DEF Assign
<1>2. PICK f \in [Visible(src) -> Attr] :
        /\ \A a \in Visible(src) : /\ owner'[f[a]] = e /\ rank'[f[a]] = rank[a]
                                   /\ name'[f[a]] = name[a] /\ value'[f[a]] = value[a]
        /\ \A b \in Attr : owner'[b] = e => \E a \in Visible(src) : b = f[a]
        /\ \A d \in Element \ {e} : Untouched(d)
  BY AssignPuts
<1> PICK n \in Nat : \E c \in [1..n -> Attr] : Listed(src, n, c)
  BY ListedExists
<1>3. PICK c \in [1..n -> Attr] : Listed(src, n, c)
  OBVIOUS
<1>4. PICK k \in 0..n : /\ \A i \in 1..n : c[i] \in Visible(src) <=> i <= k
                        /\ List!Copied(Spelled(n, c)) = [i \in 1..k |-> Spelled(n, c)[i]]
  BY <1>3, CopiedIsVisible
<1>5. PICK c2 : c2 = [i \in 1..k |-> f[c[i]]]
  OBVIOUS
<1>6. \A i \in 1..k : i \in 1..n /\ c[i] \in Visible(src) /\ rank[c[i]] = i /\ c2[i] = f[c[i]]
  BY <1>3, <1>4, <1>5 DEF Listed
<1>7. \A a \in Visible(src) : rank[a] \in 1..k
  <2> TAKE a \in Visible(src)
  <2>1. a \in Owned(src)
    BY VisibleIsPrefix DEF IInv
  <2>2. rank[a] \in 1..n /\ c[rank[a]] = a
    BY <1>3, <2>1, CountIsLength
  <2>3. QED
    BY <1>4, <2>2
<1>8. c2 \in [1..k -> Attr] /\ Listed(e, k, c2)'
  <2>1. c2 \in [1..k -> Attr]
    BY <1>5, <1>6
  <2>2. \A i \in 1..k : owner'[c2[i]] = e /\ rank'[c2[i]] = i
    BY <1>2, <1>6
  <2>3. \A b \in Attr : owner'[b] = e => rank'[b] <= k
    BY <1>2, <1>7
  <2>4. QED
    BY <2>1, <2>2, <2>3 DEF Listed
<1>9. List!Become(e, Spelled(k, c2)')
  BY <1>2, <1>4, <1>8, OneChanges
<1>10. Spelled(k, c2)' = [i \in 1..k |-> Spelled(n, c)[i]]
  <2>1. \A i \in 1..k : <<name'[c2[i]], value'[c2[i]]>> = Spelled(n, c)[i]
    BY <1>2, <1>6 DEF Spelled
  <2>2. Spelled(k, c2)' = [i \in 1..k |-> <<name'[c2[i]], value'[c2[i]]>>]
    BY DEF Spelled
  <2>3. QED
    BY <2>1, <2>2
<1>11. attributes[src] = Spelled(n, c)
  BY <1>3, WalksSpell DEF Walks, AllSpell
<1>12. ASSUME NEW i \in 1..k, i < k PROVE name[c[i]] # Empty
  <2>1. /\ i \in 1..n /\ i + 1 \in 1..k /\ i + 1 \in 1..n
        /\ c[i] \in Attr /\ c[i + 1] \in Attr
        /\ c[i + 1] \in Visible(src) /\ rank[c[i + 1]] = i + 1
    BY <1>3, <1>6, <1>12 DEF Listed
  <2>2. owner[c[i + 1]] = src /\ owner[c[i + 1]] # NULL /\ c[i + 1] \in Cell
    BY <1>3, <2>1, AttributesAssumption DEF Listed, Cell
  <2>3. PICK l : l = prev[c[i + 1]]
    OBVIOUS
  <2>4. next[l] = c[i + 1] /\ owner[l] = src /\ l \in Visible(src) \cup {src}
    BY <2>1, <2>2, <2>3, VisibleIsPrefix DEF IInv, Circular
  <2>5. l \in Cell /\ rank[l] \in Nat /\ rank[c[i + 1]] = rank[l] + 1 /\ rank[src] = 0
    <3>1. l \in Cell
      BY <2>4, VisibleIsPrefix DEF IInv, Owned, Cell
    <3>2. owner[l] # NULL
      BY <2>2, <2>4
    <3>3. rank[next[l]] = rank[l] + 1
      BY <2>1, <2>4, <3>1, <3>2 DEF IInv, Circular
    <3>4. rank[l] \in Nat /\ rank[src] = 0
      BY <3>1 DEF IInv, TypeOK, Circular
    <3>5. QED
      BY <2>4, <3>1, <3>3, <3>4
  <2>6. l \in Visible(src) /\ rank[l] = i
    BY <2>1, <2>4, <2>5
  <2>7. l \in Owned(src)
    BY <2>6, VisibleIsPrefix DEF IInv
  <2>8. l = c[i]
    BY <1>3, <2>6, <2>7, CountIsLength
  <2>9. QED
    BY <2>1, <2>4, <2>6, <2>8 DEF Assign
<1>13. \A i \in 1..k : [j \in 1..k |-> Spelled(n, c)[j]][i][1] = name[c[i]]
  BY <1>6 DEF Spelled
<1>14. List!Copied(attributes[src]) = [i \in 1..k |-> Spelled(n, c)[i]]
  BY <1>4, <1>11
<1>15. Len([i \in 1..k |-> Spelled(n, c)[i]]) = k
  OBVIOUS
<1>16. QED
  BY <1>1, <1>9, <1>10, <1>12, <1>13, <1>14, <1>15 DEF List!Copy

\* Every call is one of the contract's.
LEMMA NextImplements ==
  ASSUME AttributesAssumption, IInv, IInv', attributes = Walks, attributes' = Walks', Next
  PROVE  List!Next
<1>1. PICK e \in Element :
        \/ \E n, v \in Text : SetAttribute(e, n, v) \/ ParseAttribute(e, n, v)
        \/ \E n \in Text : RemoveAttribute(e, n)
        \/ \E a \in Attr, v \in Text : SetValue(e, a, v)
        \/ ClearThis(e)
        \/ \E src \in Element : Assign(e, src)
  BY DEF Next
<1>2. ASSUME NEW n \in Text, NEW v \in Text, SetAttribute(e, n, v)
      PROVE  List!Set(e, n, v)
  <2>1. CASE \E a \in Find(e, n) : /\ value' = [value EXCEPT ![a] = v]
                                   /\ UNCHANGED <<name, prev, next, owner, rank>>
    <3>1. PICK a \in Find(e, n) : /\ value' = [value EXCEPT ![a] = v]
                                  /\ UNCHANGED <<name, prev, next, owner, rank>>
      BY <2>1
    <3>2. a \in Attr /\ owner[a] = e /\ name[a] = n
      BY MeetsOwned DEF Find, Owned, IInv
    <3>3. List!Change(e, n, v)
      BY <3>1, <3>2, NewValueSets
    <3>4. QED
      BY <3>3 DEF List!Set
  <2>2. CASE Find(e, n) = {} /\ AddsUnnamed(e) /\ \E a \in Free : Add(e, a, n, v)
    <3>1. List!Extend(e, n, v)
      BY <2>2, AddAppends DEF Free
    <3>2. Empty \notin List!Names(e)
      BY <2>2, NotNamed DEF AddsUnnamed, AttributesAssumption
    <3>3. QED
      BY <3>1, <3>2 DEF List!Set
  <2>3. QED
    BY <1>2, <2>1, <2>2 DEF SetAttribute
<1>3. ASSUME NEW n \in Text, NEW v \in Text, ParseAttribute(e, n, v)
      PROVE  List!Read(e, n, v)
  BY <1>3, AddAppends DEF ParseAttribute, Free, List!Read
<1>4. ASSUME NEW n \in Text, RemoveAttribute(e, n) PROVE List!Drop(e, n)
  BY <1>4, RemoveDrops
<1>5. ASSUME NEW a \in Attr, NEW v \in Text, SetValue(e, a, v)
      PROVE  name[a] \in Text /\ List!Set(e, name[a], v)
  <2>1. name[a] \in Text
    BY DEF IInv, TypeOK, Cell
  <2>2. List!Change(e, name[a], v)
    BY <1>5, NewValueSets DEF SetValue
  <2>3. QED
    BY <2>1, <2>2 DEF List!Set
<1>6. ASSUME ClearThis(e) PROVE List!Become(e, <<>>)
  BY <1>6, ClearEmpties
<1>7. ASSUME NEW src \in Element, Assign(e, src)
      PROVE  src \in Element \ {e} /\ List!Copy(e, src)
  BY <1>7, AssignCopies
<1>8. QED
  BY <1>1, <1>2, <1>3, <1>4, <1>5, <1>6, <1>7 DEF List!Next

\* Attribute looks up what the sequence has under the name.
LEMMA AttributeLooksUp ==
  ASSUME AttributesAssumption, IInv, attributes = Walks, NEW e \in Element, NEW x \in Text
  PROVE  Attribute(e, x) = List!Lookup(e, x)
<1> PICK n \in Nat : \E c \in [1..n -> Attr] : Listed(e, n, c)
  BY ListedExists
<1>1. PICK c \in [1..n -> Attr] : Listed(e, n, c)
  OBVIOUS
<1> DEFINE S == List!ToSet(attributes[e])
<1>2. Find(e, x) = {a \in Owned(e) : name[a] = x}
  BY MeetsOwned DEF Find, IInv
<1>3. /\ \A p \in S : \E a \in Owned(e) : p = <<name[a], value[a]>>
      /\ \A a \in Owned(e) : <<name[a], value[a]>> \in S
  <2>1. attributes[e] = Spelled(n, c)
    BY <1>1, WalksSpell DEF Walks, AllSpell
  <2>2. S = {<<name[c[i]], value[c[i]]>> : i \in 1..n}
    BY <2>1 DEF Spelled, List!ToSet
  <2>3. \A i \in 1..n : c[i] \in Owned(e)
    BY <1>1 DEF Listed, Owned
  <2>4. \A a \in Owned(e) : rank[a] \in 1..n /\ c[rank[a]] = a
    BY <1>1, CountIsLength
  <2>5. \A p \in S : \E a \in Owned(e) : p = <<name[a], value[a]>>
    BY <2>2, <2>3
  <2>6. ASSUME NEW a \in Owned(e) PROVE <<name[a], value[a]>> \in S
    <3>1. rank[a] \in 1..n /\ <<name[a], value[a]>> = <<name[c[rank[a]]], value[c[rank[a]]]>>
      BY <2>4
    <3>2. QED
      BY <2>2, <3>1
  <2>7. QED
    BY <2>5, <2>6
<1> HIDE DEF S
<1>4. \A y : y \in List!Names(e) <=> \E a \in Owned(e) : name[a] = y
  <2>1. List!Names(e) = {p[1] : p \in S}
    BY DEF List!Names, S
  <2>2. ASSUME NEW p \in S PROVE \E a \in Owned(e) : name[a] = p[1]
    BY <1>3
  <2>3. ASSUME NEW a \in Owned(e) PROVE name[a] \in {p[1] : p \in S}
    <3>1. <<name[a], value[a]>> \in S /\ <<name[a], value[a]>>[1] = name[a]
      BY <1>3
    <3>2. QED
      BY <3>1
  <2>4. QED
    BY <2>1, <2>2, <2>3
<1>5. \A a, b \in Owned(e) : name[a] = name[b] => a = b
  BY DEF IInv, NamesUnique, Owned, AttributesAssumption
<1>6. List!Lookup(e, x) = IF x \in List!Names(e) THEN (CHOOSE p \in S : p[1] = x)[2] ELSE NULL
  BY DEF List!Lookup, S
<1>7. CASE \E a \in Owned(e) : name[a] = x
  <2>1. PICK a \in Owned(e) : name[a] = x
    BY <1>7
  <2>2. Find(e, x) = {a}
    BY <1>2, <1>5, <2>1
  <2>3. Attribute(e, x) = value[a]
    BY <2>2 DEF Attribute
  <2>4. \A p \in S : p[1] = x => p = <<x, value[a]>>
    BY <1>3, <1>5, <2>1
  <2>5. <<x, value[a]>> \in S
    BY <1>3, <2>1
  <2>6. (CHOOSE p \in S : p[1] = x) = <<x, value[a]>>
    BY <2>4, <2>5
  <2>7. x \in List!Names(e) /\ <<x, value[a]>>[2] = value[a]
    BY <1>4, <2>1
  <2>8. List!Lookup(e, x) = value[a]
    BY <1>6, <2>6, <2>7
  <2>9. QED
    BY <2>3, <2>8
<1>8. CASE \A a \in Owned(e) : name[a] # x
  BY <1>2, <1>4, <1>6, <1>8 DEF Attribute
<1>9. QED
  BY <1>7, <1>8

LEMMA WalkStepKeeps ==
  ASSUME AttributesAssumption, IInv, attributes = Walks, [WalkNext]_<<vars, attributes>>
  PROVE  IInv' /\ attributes' = Walks'
<1>1. CASE WalkNext
  BY <1>1, NextKeeps DEF WalkNext
<1>2. CASE UNCHANGED <<vars, attributes>>
  <2>1. IInv'
    BY <1>2, NextKeeps
  <2>2. \A e \in Element : Untouched(e)
    BY <1>2 DEF Untouched, vars
  <2>3. Walks' = Walks
    BY <2>1, <2>2, UntouchedSame DEF Walks
  <2>4. QED
    BY <1>2, <2>1, <2>3
<1>3. QED
  BY <1>1, <1>2

\* The pointers stay one ring for each element, so that the sequences in
\* attributes are those of the lists after every call.
LEMMA WalksStay == WalkSpec => [](IInv /\ attributes = Walks)
<1>1. WalkInit => IInv /\ attributes = Walks
  BY InitKeeps, AttributesAssumption DEF WalkInit
<1>2. IInv /\ attributes = Walks /\ [WalkNext]_<<vars, attributes>>
      => (IInv /\ attributes = Walks)'
  BY WalkStepKeeps, AttributesAssumption
<1>3. QED
  BY <1>1, <1>2, PTL DEF WalkSpec

\* Whatever calls are made on whatever elements, each changes the attributes of
\* one of them as if they were a sequence: in place when the name is there, at
\* the end when it is new, without leaving a hole when it is removed, up to the
\* first blank one when it is copied; and no call that returns has set or copied a
\* new name after the empty one, where Add's assertion ends the process.
\* (TiXmlAttributeSet::Add, Remove, FindOrCreate, TiXmlElement::CopyTo)
THEOREM ListsImplement == WalkSpec => ListsImplementContract
<1>1. WalkInit => List!Init
  BY InitEmpty, AttributesAssumption
<1>2. /\ IInv /\ attributes = Walks
      /\ (IInv /\ attributes = Walks)'
      /\ [WalkNext]_<<vars, attributes>>
      => [List!Next]_attributes
  BY NextImplements, AttributesAssumption DEF WalkNext
<1>3. QED
  BY <1>1, <1>2, WalksStay, PTL DEF WalkSpec, ListsImplementContract, List!Spec

\* A lookup through the pointers finds what the sequence has, and the walks by
\* Next and by Previous meet the attributes they should.
\* (TiXmlElement::Attribute, TiXmlAttribute::Next, Previous)
THEOREM LookupsAgreeHolds == WalkSpec => []LookupsAgree
<1>1. IInv /\ attributes = Walks => LookupsAgree
  <2> SUFFICES ASSUME IInv, attributes = Walks PROVE LookupsAgree
    OBVIOUS
  <2>1. \A e \in Element, n \in Text : Attribute(e, n) = List!Lookup(e, n)
    BY AttributeLooksUp, AttributesAssumption
  <2>2. WalksEndAtBlank
    BY WalkForth, WalkBack, AttributesAssumption DEF IInv, WalksEndAtBlank, Owned
  <2>3. QED
    BY <2>1, <2>2 DEF LookupsAgree
<1>2. QED
  BY <1>1, WalksStay, PTL
=============================================================================
