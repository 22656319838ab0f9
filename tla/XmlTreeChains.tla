---------------------------- MODULE XmlTreeChains ----------------------------
(***************************************************************************)
(* What the pointers of XmlTree stand for: the children of each node, in   *)
(* the order in which NextSibling meets them from FirstChild on, as many   *)
(* as LastChild has for its place.  They are in a variable, so that TLC    *)
(* follows the pointers once a state.                                      *)
(***************************************************************************)
EXTENDS XmlTree

VARIABLE children  \* the sequence of each node's children

Chain(p) ==
  LET last == dom.lastChild[p]
      at[i \in 1..IF last = NULL THEN 0 ELSE dom.rank[last]] ==
        IF i = 1 THEN dom.firstChild[p] ELSE
        IF at[i - 1] = NULL THEN NULL ELSE dom.next[at[i - 1]]
  IN  at

Chains == [p \in Node |-> Chain(p)]

ChainInit == Init /\ children = Chains
ChainNext == Next /\ children' = Chains'
ChainSpec == ChainInit /\ [][ChainNext]_<<vars, children>>

-----------------------------------------------------------------------------
Contract == INSTANCE XmlTreeContract WITH kind <- dom.type, kids <- children

\* The pointers implement the sequences, during the parse as well: each call
\* changes what XmlTreeContract says it changes, and leaves the rest of all
\* trees alone.
\* (LinkEndChild, Insert...Child, ReplaceChild, RemoveChild, Clear, Clone, CopyTo, Parse)
ImplementsContract == Contract!Spec
=============================================================================
