------------------------- MODULE XmlAttributesWalks -------------------------
(***************************************************************************)
(* What the attribute lists of XmlAttributes stand for: the names and      *)
(* values that are met on the way round each list, from the sentinel on.   *)
(* They are in a variable, so that TLC follows the pointers once a state.  *)
(***************************************************************************)
EXTENDS XmlAttributes, FiniteSets, Sequences

VARIABLE attributes  \* the names and values along each list

\* The attributes of e in the order of the list
Along(e) ==
  LET at[i \in 1..Cardinality(Met(e))] == IF i = 1 THEN next[e] ELSE next[at[i - 1]]
  IN  at

Walk(e) ==
  LET at == Along(e) IN [i \in DOMAIN at |-> <<name[at[i]], value[at[i]]>>]

Walks == [e \in Element |-> Walk(e)]

WalkInit == Init /\ attributes = Walks
WalkNext == Next /\ attributes' = Walks'
WalkSpec == WalkInit /\ [][WalkNext]_<<vars, attributes>>

-----------------------------------------------------------------------------
List == INSTANCE XmlAttributesContract

\* Each call that returns changes one element's attributes, as XmlAttributesContract
\* says: in place when the name is there, at the end when it is new.  A new name is
\* never set or copied after the empty one: the assertion in Add ends the process.
\* (TiXmlAttributeSet::Add, Remove, FindOrCreate, TiXmlElement::CopyTo)
ListsImplementContract == List!Spec

\* Attribute gives the value that was last set under the name, and the walks by
\* Next and by Previous meet the attributes they should.
\* (TiXmlElement::Attribute, TiXmlAttribute::Next, Previous)
LookupsAgree ==
  /\ \A e \in Element, n \in Text : Attribute(e, n) = List!Lookup(e, n)
  /\ WalksEndAtBlank
=============================================================================
