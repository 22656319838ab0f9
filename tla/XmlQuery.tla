------------------------------ MODULE XmlQuery ------------------------------
(***************************************************************************)
(* The ways to find a node in tinyxml's tree: TiXmlNode's lookups, which   *)
(* follow the pointers of XmlTree, and TiXmlHandle's, which are built from *)
(* them and pass a missing node on.                                        *)
(***************************************************************************)
EXTENDS XmlTree

\* The first node of the chain n, step[n], ... that is wanted
Until(step, n, wanted) ==
  LET go[m \in Node \cup {NULL}] ==
        IF m = NULL \/ m \in wanted THEN m ELSE go[step[m]]
  IN  go[n]

Named(v) == {n \in Node : dom.value[n] = v}
Type(n) == dom.type[n]
Elements == {n \in Node : Type(n) = "element"}

\* A slip: the search from the end goes forward.
LastChildNamed_Forward(p, v) == Until(dom.next, dom.lastChild[p], Named(v))

FirstChild(p)      == dom.firstChild[p]
LastChild(p)       == dom.lastChild[p]
NextSibling(n)     == dom.next[n]
PreviousSibling(n) == dom.prev[n]
FirstChildNamed(p, v)      == Until(dom.next, FirstChild(p), Named(v))
LastChildNamed(p, v)       == Until(dom.prev, LastChild(p), Named(v))
NextSiblingNamed(n, v)     == Until(dom.next, NextSibling(n), Named(v))
PreviousSiblingNamed(n, v) == Until(dom.prev, PreviousSibling(n), Named(v))

\* The lookups of elements repeat those of nodes.
ByName(v) == [n \in Node |-> NextSiblingNamed(n, v)]
FirstChildElement(p) == Until(dom.next, FirstChild(p), Elements)
NextSiblingElement(n) == Until(dom.next, NextSibling(n), Elements)
FirstChildElementNamed(p, v) == Until(ByName(v), FirstChildNamed(p, v), Elements)
NextSiblingElementNamed(n, v) ==
  Until(ByName(v), NextSiblingNamed(n, v), Elements)

NoChildren(p) == dom.firstChild[p] = NULL

\* A document's root element is its first.
RootElement(d) == FirstChildElement(d)

IterateChildren(p, previous) ==
  IF previous = NULL THEN FirstChild(p) ELSE NextSibling(previous)
IterateChildrenNamed(p, v, previous) ==
  IF previous = NULL THEN FirstChildNamed(p, v) ELSE NextSiblingNamed(previous, v)

\* TiXmlHandle's casts
Cast(h, type) == IF h # NULL /\ Type(h) = type THEN h ELSE NULL

\* TiXmlHandle counts steps from the first child, from 0.
Counted(first, step, count) ==
  LET at[i \in 0..count] == IF i = 0 THEN first ELSE
                            IF at[i - 1] = NULL THEN NULL ELSE step[at[i - 1]]
  IN  at[count]

Elementwise == [n \in Node |-> NextSiblingElement(n)]
ElementsByName(v) == [n \in Node |-> NextSiblingElementNamed(n, v)]

Child(h, count) ==
  IF h = NULL THEN NULL ELSE Counted(FirstChild(h), dom.next, count)
ChildNamed(h, v, count) ==
  IF h = NULL THEN NULL ELSE Counted(FirstChildNamed(h, v), ByName(v), count)
ChildElement(h, count) ==
  IF h = NULL THEN NULL ELSE Counted(FirstChildElement(h), Elementwise, count)
ChildElementNamed(h, v, count) ==
  IF h = NULL THEN NULL
  ELSE Counted(FirstChildElementNamed(h, v), ElementsByName(v), count)

-----------------------------------------------------------------------------
\* What the lookups promise, from the place of each child

Siblings(n) == {m \in Children(dom.parent[n]) \ loose : n \notin loose}
After(n)  == {m \in Siblings(n) : dom.rank[m] > dom.rank[n]}
Before(n) == {m \in Siblings(n) : dom.rank[m] < dom.rank[n]}
Foremost(S) == IF S = {} THEN NULL
               ELSE CHOOSE n \in S : \A m \in S : dom.rank[n] <= dom.rank[m]
Hindmost(S) == IF S = {} THEN NULL
               ELSE CHOOSE n \in S : \A m \in S : dom.rank[n] >= dom.rank[m]
\* The one of S that has count others before it
Nth(S, count) ==
  LET T == {n \in S : \E Q \in [1..count -> S] :
              /\ \A i, j \in 1..count : i # j => Q[i] # Q[j]
              /\ {Q[i] : i \in 1..count} =
                   {m \in S : dom.rank[m] < dom.rank[n]}}
  IN  Foremost(T)

\* Every lookup finds the node that the order of the children says, on both
\* ways through the list.
SearchesFollowTheOrder ==
  \A p \in Alive(dom), v \in Value :
    LET kids == Children(p) \ loose
        same == kids \cap Named(v) IN
    /\ FirstChildNamed(p, v) = Foremost(same)
    /\ LastChildNamed(p, v) = Hindmost(same)
    /\ NoChildren(p) <=> kids = {}
    /\ RootElement(p) = Foremost(kids \cap Elements)
    /\ FirstChildElementNamed(p, v) = Foremost(same \cap Elements)
    /\ \A n \in kids :
         /\ NextSiblingNamed(n, v) = Foremost(After(n) \cap Named(v))
         /\ PreviousSiblingNamed(n, v) = Hindmost(Before(n) \cap Named(v))
         /\ NextSiblingElement(n) = Foremost(After(n) \cap Elements)
         /\ NextSiblingElementNamed(n, v) =
              Foremost(After(n) \cap Named(v) \cap Elements)

\* The walks that a program writes with IterateChildren, or with the counts of
\* a TiXmlHandle, meet every child once, in order, and then nothing.
WalksMeetEveryChild ==
  \A p \in Alive(dom), v \in Value :
    LET kids == Children(p) \ loose
        same == kids \cap Named(v)
        walk == [n \in kids |-> IterateChildren(p, n)]
        namedWalk == [n \in Node |-> IterateChildrenNamed(p, v, n)] IN
    \A count \in 0..2 :
      /\ Counted(IterateChildren(p, NULL), walk, count) = Nth(kids, count)
      /\ Counted(IterateChildrenNamed(p, v, NULL), namedWalk, count)
           = Nth(same, count)
      /\ Child(p, count) = Nth(kids, count)
      /\ ChildNamed(p, v, count) = Nth(same, count)
      /\ \A type \in {"element", "leaf"} :
           Cast(Child(p, count), type) =
             Foremost({n \in kids : n = Nth(kids, count) /\ Type(n) = type})
      /\ ChildElement(p, count) = Nth(kids \cap Elements, count)
      /\ ChildElementNamed(p, v, count) = Nth(same \cap Elements, count)

\* Whichever way a program looks for a node, it finds the one that the order of
\* the children says, during the parse as well.  (TiXmlNode::FirstChild,
\* LastChild, NextSibling, PreviousSibling, IterateChildren; TiXmlHandle)
LookupsFollowTheOrder == SearchesFollowTheOrder /\ WalksMeetEveryChild
=============================================================================
