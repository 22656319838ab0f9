----------------------------- MODULE XmlTreeInv -----------------------------
(***************************************************************************)
(* What holds of tinyxml's tree between two calls, and between two steps   *)
(* of the parser.                                                          *)
(***************************************************************************)
EXTENDS XmlTree

\* A deleted node leaves nothing that points to it: an address that is free
\* has no pointers, and no pointer leads to it.
NothingDangles(t) ==
  /\ \A n \in Free(t) : /\ t.parent[n] = NULL /\ t.prev[n] = NULL
                        /\ t.next[n] = NULL /\ t.rank[n] = 0 /\ t.depth[n] = 0
                        /\ t.firstChild[n] = NULL /\ t.lastChild[n] = NULL
  /\ \A n \in Node :
       {t.parent[n], t.firstChild[n], t.lastChild[n], t.prev[n], t.next[n]}
         \subseteq Alive(t) \cup {NULL}

\* Two neighbours point to each other, and have the same parent.
DoublyLinked(t) == \A n, m \in Node :
  /\ t.next[n] = m => /\ t.prev[m] = n
                      /\ t.parent[m] = t.parent[n]
                      /\ t.rank[m] = t.rank[n] + 1
                      /\ t.rank[n] > 0
  /\ t.prev[m] = n => t.next[n] = m

\* firstChild and lastChild are the ends of one list, and nothing else is.
EndsHeld(t) == \A p, n \in Node :
  /\ t.firstChild[p] = n => t.parent[n] = p /\ t.prev[n] = NULL /\ t.rank[n] = 1
  /\ t.lastChild[p] = n => t.parent[n] = p /\ t.next[n] = NULL /\ t.rank[n] > 0
  /\ t.firstChild[p] = NULL <=> t.lastChild[p] = NULL
  /\ t.parent[n] = p /\ t.rank[n] > 0 =>
       /\ t.prev[n] = NULL => t.firstChild[p] = n
       /\ t.next[n] = NULL => t.lastChild[p] = n

\* The list is no ring and has no branch: a place has one node, and no node is
\* below itself.
Ordered(t) == \A n, m \in Node :
  /\ t.parent[n] # NULL /\ t.parent[n] = t.parent[m]
       /\ t.rank[n] = t.rank[m] /\ t.rank[n] > 0 => n = m
  /\ t.parent[n] = m => t.depth[n] = t.depth[m] + 1
  /\ t.parent[n] = NULL => /\ t.depth[n] = 0 /\ t.rank[n] = 0
                           /\ t.prev[n] = NULL /\ t.next[n] = NULL
  /\ t.rank[n] = 0 => t.prev[n] = NULL /\ t.next[n] = NULL
  /\ t.type[n] = "document" => t.parent[n] = NULL

\* All the structure that the calls keep
Shape == NothingDangles(dom) /\ DoublyLinked(dom) /\ EndsHeld(dom) /\ Ordered(dom)

\* The nodes that know a parent which does not know them are the ones whose
\* Parse has not returned, one below the other; none is left when it has,
\* whether it failed or not.
HalfLinkedOnlyInParse ==
  /\ loose = {n \in Node : dom.parent[n] # NULL /\ dom.rank[n] = 0}
  /\ parsing = NULL => loose = {}
  /\ parsing # NULL => /\ parsing \in Alive(dom)
                       /\ parsing \in loose \/ dom.type[parsing] = "document"
  /\ \A n \in loose : /\ dom.depth[n] <= dom.depth[parsing]
                      /\ dom.parent[n] \in loose
                           \/ dom.type[dom.parent[n]] = "document"
                      /\ \A m \in loose : dom.depth[n] = dom.depth[m] => n = m

\* An error that the parser meets, at whatever depth, has a document to be
\* reported to.
ErrorsReachTheDocument ==
  parsing # NULL => \E d \in Node : GetDocument(dom, parsing) = {d}

IInv == TypeOK /\ Shape /\ HalfLinkedOnlyInParse
=============================================================================
