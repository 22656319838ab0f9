------------------------------- MODULE XmlTree -------------------------------
(***************************************************************************)
(* The document object model of tinyxml, in which the library builds the   *)
(* bus configuration: TiXmlNode with its five pointers, and the operations *)
(* that create, link, insert, replace, remove, copy and delete nodes.  A   *)
(* program calls them one after the other, so an action is a whole call,   *)
(* save for the parser, whose calls nest: it hangs a new node under its    *)
(* parent before it parses it, and links it into the list of children only *)
(* afterwards.                                                             *)
(*                                                                         *)
(* Comments, texts, declarations and unknowns are "leaf": they differ in   *)
(* what they print and parse only, which is in XmlText.  An element's      *)
(* attributes are in XmlAttributes.                                        *)
(***************************************************************************)
EXTENDS Naturals, Functions

CONSTANTS
  Node,   \* the addresses at which a node can be allocated
  Value,  \* names and texts
  NULL

ASSUME TreeAssumption == NULL \notin Node

Kind == {"document", "element", "leaf"}
Pointer == [Node -> Node \cup {NULL}]

\* The nodes and their fields.  rank and depth are not in the code: a linked
\* node's place among its siblings, from 1, and how far it is from the top.
Tree == [type       : [Node -> Kind \cup {"free"}],
         value      : [Node -> Value \cup {NULL}],
         parent     : Pointer,
         firstChild : Pointer,
         lastChild  : Pointer,
         prev       : Pointer,
         next       : Pointer,
         rank       : [Node -> Nat],
         depth      : [Node -> Nat]]

VARIABLES
  dom,      \* the nodes, a Tree
  error,    \* the documents whose error is set
  parsing,  \* the node whose Parse runs innermost; NULL outside the parser
  loose     \* the nodes that Identify made and nobody has linked yet

vars == <<dom, error, parsing, loose>>

Alive(t) == {n \in Node : t.type[n] # "free"}
Free(t)  == {n \in Node : t.type[n] = "free"}

TypeOK ==
  /\ dom \in Tree
  /\ error \in SUBSET Node
  /\ parsing \in Node \cup {NULL}
  /\ loose \in SUBSET Node

Nowhere == [n \in Node |-> NULL]
Zero    == [n \in Node |-> 0]

Init ==
  /\ dom = [type |-> [n \in Node |-> "free"], value |-> Nowhere,
            parent |-> Nowhere, firstChild |-> Nowhere, lastChild |-> Nowhere,
            prev |-> Nowhere, next |-> Nowhere, rank |-> Zero, depth |-> Zero]
  /\ error = {}
  /\ parsing = NULL
  /\ loose = {}

-----------------------------------------------------------------------------
\* What a walk reaches

\* The destructor deletes the list of children, and each of them its own.
Closed(t, n, S) ==
  /\ n \in S
  /\ \A x \in S : t.firstChild[x] \in S \cup {NULL}
  /\ \A x \in S \ {n} : t.next[x] \in S \cup {NULL}

Family(t, n) == {x \in Node : \A S \in SUBSET Node : Closed(t, n, S) => x \in S}

\* Clone walks the same way, but copies no children of a leaf.
Copying(t, n, S) ==
  /\ n \in S
  /\ \A x \in S : t.type[x] # "leaf" => t.firstChild[x] \in S \cup {NULL}
  /\ \A x \in S \ {n} : t.next[x] \in S \cup {NULL}

Copied(t, n) == {x \in Node : \A S \in SUBSET Node : Copying(t, n, S) => x \in S}

\* GetDocument climbs the parent pointers to a document.
Climbing(t, n, S) == n \in S /\ \A x \in S : t.parent[x] \in S \cup {NULL}

GetDocument(t, n) ==
  {d \in Node : t.type[d] = "document" /\ \A S \in SUBSET Node :
                                             Climbing(t, n, S) => d \in S}

-----------------------------------------------------------------------------
\* What the operations do to the pointers

Put(f, n, v) == [m \in Node |-> IF m = n THEN v ELSE f[m]]
Wipe(f, gone, void) == [m \in Node |-> IF m \in gone THEN void ELSE f[m]]

\* x and what is below it come under p.
Lowered(t, p, x) ==
  LET family == Family(t, x) IN
  [n \in Node |-> IF n \in family THEN t.depth[n] - t.depth[x] + t.depth[p] + 1
                                  ELSE t.depth[n]]

\* A new node, whose parent is set but which is in no list of children.
Made(t, n, kind, v, p) ==
  [t EXCEPT !.type[n] = kind,
            !.value[n] = v,
            !.parent[n] = p,
            !.depth[n] = IF p = NULL THEN 0 ELSE t.depth[p] + 1]

\* x becomes the last child of p.
Linked(t, p, x) ==
  LET last == t.lastChild[p] IN
  [t EXCEPT
     !.parent = Put(t.parent, x, p),
     !.prev = Put(t.prev, x, last),
     !.next = [n \in Node |-> IF n = x THEN NULL ELSE
                              IF n = last THEN x ELSE t.next[n]],
     !.firstChild = IF last = NULL THEN Put(t.firstChild, p, x)
                                   ELSE t.firstChild,
     !.lastChild = Put(t.lastChild, p, x),
     !.rank = Put(t.rank, x, IF last = NULL THEN 1 ELSE t.rank[last] + 1),
     !.depth = Lowered(t, p, x)]

\* The siblings from a place on move up by one.
Moved(t, p, place) ==
  [n \in Node |-> IF t.parent[n] = p /\ t.rank[n] >= place
                  THEN t.rank[n] + 1 ELSE t.rank[n]]

\* A slip: the parent's first child stays the same.
InsertedBefore_FirstKept(t, p, b, x) ==
  LET left == t.prev[b] IN
  [t EXCEPT
     !.parent = Put(t.parent, x, p),
     !.next = [n \in Node |-> IF n = x THEN b ELSE
                              IF n = left THEN x ELSE t.next[n]],
     !.prev = [n \in Node |-> IF n = x THEN left ELSE
                              IF n = b THEN x ELSE t.prev[n]],
     !.rank = Put(Moved(t, p, t.rank[b]), x, t.rank[b]),
     !.depth = Lowered(t, p, x)]

\* x comes before p's child b.
InsertedBefore(t, p, b, x) ==
  LET left == t.prev[b] IN
  [t EXCEPT
     !.parent = Put(t.parent, x, p),
     !.next = [n \in Node |-> IF n = x THEN b ELSE
                              IF n = left THEN x ELSE t.next[n]],
     !.prev = [n \in Node |-> IF n = x THEN left ELSE
                              IF n = b THEN x ELSE t.prev[n]],
     !.firstChild = IF left = NULL THEN Put(t.firstChild, p, x)
                                   ELSE t.firstChild,
     !.rank = Put(Moved(t, p, t.rank[b]), x, t.rank[b]),
     !.depth = Lowered(t, p, x)]

\* x comes after p's child b.
InsertedAfter(t, p, b, x) ==
  LET right == t.next[b] IN
  [t EXCEPT
     !.parent = Put(t.parent, x, p),
     !.prev = [n \in Node |-> IF n = x THEN b ELSE
                              IF n = right THEN x ELSE t.prev[n]],
     !.next = [n \in Node |-> IF n = x THEN right ELSE
                              IF n = b THEN x ELSE t.next[n]],
     !.lastChild = IF right = NULL THEN Put(t.lastChild, p, x)
                                   ELSE t.lastChild,
     !.rank = Put(Moved(t, p, t.rank[b] + 1), x, t.rank[b] + 1),
     !.depth = Lowered(t, p, x)]

\* x takes the place of p's child r, whose own pointers stay.
Replaced(t, p, r, x) ==
  LET left == t.prev[r]
      right == t.next[r] IN
  [t EXCEPT
     !.parent = Put(t.parent, x, p),
     !.next = [n \in Node |-> IF n = x THEN right ELSE
                              IF n = left THEN x ELSE t.next[n]],
     !.prev = [n \in Node |-> IF n = x THEN left ELSE
                              IF n = right THEN x ELSE t.prev[n]],
     !.lastChild = IF right = NULL THEN Put(t.lastChild, p, x)
                                   ELSE t.lastChild,
     !.firstChild = IF left = NULL THEN Put(t.firstChild, p, x)
                                   ELSE t.firstChild,
     !.rank = Put(t.rank, x, t.rank[r]),
     !.depth = Lowered(t, p, x)]

\* A slip: the parent's last child is left as it was.
Bypassed_LastKept(t, p, r) ==
  LET left == t.prev[r]
      right == t.next[r] IN
  [t EXCEPT
     !.prev = IF right = NULL THEN t.prev ELSE Put(t.prev, right, left),
     !.next = IF left = NULL THEN t.next ELSE Put(t.next, left, right),
     !.firstChild = IF left = NULL THEN Put(t.firstChild, p, right)
                                   ELSE t.firstChild]

\* p's children pass over r, whose own pointers stay.
Bypassed(t, p, r) ==
  LET left == t.prev[r]
      right == t.next[r] IN
  [t EXCEPT
     !.prev = IF right = NULL THEN t.prev ELSE Put(t.prev, right, left),
     !.lastChild = IF right = NULL THEN Put(t.lastChild, p, left)
                                   ELSE t.lastChild,
     !.next = IF left = NULL THEN t.next ELSE Put(t.next, left, right),
     !.firstChild = IF left = NULL THEN Put(t.firstChild, p, right)
                                   ELSE t.firstChild,
     !.rank = [n \in Node |-> IF t.parent[n] = p /\ t.rank[n] > t.rank[r]
                              THEN t.rank[n] - 1 ELSE t.rank[n]]]

\* delete
Deleted(t, gone) ==
  [type       |-> Wipe(t.type, gone, "free"),
   value      |-> Wipe(t.value, gone, NULL),
   parent     |-> Wipe(t.parent, gone, NULL),
   firstChild |-> Wipe(t.firstChild, gone, NULL),
   lastChild  |-> Wipe(t.lastChild, gone, NULL),
   prev       |-> Wipe(t.prev, gone, NULL),
   next       |-> Wipe(t.next, gone, NULL),
   rank       |-> Wipe(t.rank, gone, 0),
   depth      |-> Wipe(t.depth, gone, 0)]

\* Clear deletes the children and their trees.
Cleared(t, p) ==
  LET u == Deleted(t, Family(t, p) \ {p}) IN
  [u EXCEPT !.firstChild[p] = NULL, !.lastChild[p] = NULL]

\* The ways to allocate a copy of each node that Clone visits.
Copies(t, a) == Injection(Copied(t, a), Free(t))

\* f[x] becomes a copy of x, linked as x is.  The copy of a, which is new or
\* an emptied node, keeps its own place.
Cloned(t, a, f) ==
  LET From == [m \in Range(f) |-> CHOOSE x \in DOMAIN f : f[x] = m]
      Below == Range(f) \ {f[a]}
      Filled == IF t.type[a] = "leaf" THEN {} ELSE Range(f)
      Carried(pointer, set) ==
        [m \in Node |-> IF m \notin set THEN pointer[m] ELSE
                        IF pointer[From[m]] \in DOMAIN f
                        THEN f[pointer[From[m]]] ELSE NULL] IN
  [type       |-> [m \in Node |-> IF m \in Range(f) THEN t.type[From[m]]
                                                  ELSE t.type[m]],
   value      |-> [m \in Node |-> IF m \in Range(f) THEN t.value[From[m]]
                                                  ELSE t.value[m]],
   firstChild |-> Carried(t.firstChild, Filled),
   lastChild  |-> Carried(t.lastChild, Filled),
   parent     |-> Carried(t.parent, Below),
   prev       |-> Carried(t.prev, Below),
   next       |-> Carried(t.next, Below),
   rank       |-> [m \in Node |-> IF m \in Below THEN t.rank[From[m]]
                                                ELSE t.rank[m]],
   depth      |-> [m \in Node |->
                     IF m \in Below
                     THEN t.depth[From[m]] - t.depth[a] + t.depth[f[a]]
                     ELSE t.depth[m]]]

-----------------------------------------------------------------------------
\* The calls of a program

Idle == parsing = NULL /\ UNCHANGED <<parsing, loose>>

Children(p) == {n \in Node : p # NULL /\ dom.parent[n] = p}
Tops == {n \in Alive(dom) : dom.parent[n] = NULL}

\* A document can never be a child.
DocumentTopOnly(p, a) ==
  /\ dom.type[a] = "document"
  /\ error' = error \cup GetDocument(dom, p)
  /\ UNCHANGED dom

New(n, kind, v) ==
  /\ Idle
  /\ n \in Free(dom)
  /\ dom' = Made(dom, n, kind, v, NULL)
  /\ UNCHANGED error

\* Its assertions leave out a child of another node and a document.
LinkEndChild(p, x) ==
  /\ Idle
  /\ x \in Tops
  /\ dom.type[x] # "document"
  /\ p \in Alive(dom) \ Family(dom, x)
  /\ dom' = Linked(dom, p, x)
  /\ UNCHANGED error

InsertEndChild(p, a) ==
  /\ Idle
  /\ \/ DocumentTopOnly(p, a)
     \/ /\ dom.type[a] # "document"
        /\ \E f \in Copies(dom, a) : dom' = Linked(Cloned(dom, a, f), p, f[a])
        /\ UNCHANGED error

InsertBeforeChild(p, b, a) ==
  /\ Idle
  /\ b \in Children(p)
  /\ \/ DocumentTopOnly(p, a)
     \/ /\ dom.type[a] # "document"
        /\ \E f \in Copies(dom, a) :
             dom' = InsertedBefore(Cloned(dom, a, f), p, b, f[a])
        /\ UNCHANGED error

InsertAfterChild(p, b, a) ==
  /\ Idle
  /\ b \in Children(p)
  /\ \/ DocumentTopOnly(p, a)
     \/ /\ dom.type[a] # "document"
        /\ \E f \in Copies(dom, a) :
             dom' = InsertedAfter(Cloned(dom, a, f), p, b, f[a])
        /\ UNCHANGED error

ReplaceChild(p, r, a) ==
  /\ Idle
  /\ r \in Children(p)
  /\ \/ DocumentTopOnly(p, a)
     \/ /\ dom.type[a] # "document"
        /\ \E f \in Copies(dom, a) :
             LET u == Replaced(Cloned(dom, a, f), p, r, f[a])
             IN  dom' = Deleted(u, Family(u, r))
        /\ UNCHANGED error

RemoveChild(p, r) ==
  /\ Idle
  /\ r \in Children(p)
  /\ dom' = LET u == Bypassed(dom, p, r) IN Deleted(u, Family(u, r))
  /\ UNCHANGED error

Clear(p) ==
  /\ Idle
  /\ dom' = Cleared(dom, p)
  /\ UNCHANGED error

\* delete, by the program, of a node that no other node holds
Delete(x) ==
  /\ Idle
  /\ x \in Tops
  /\ dom' = Deleted(dom, Family(dom, x))
  /\ error' = error \ {x}

Clone(a) ==
  /\ Idle
  /\ \E f \in Copies(dom, a) :
       /\ dom' = Cloned(dom, a, f)
       /\ error' = IF a \in error THEN error \cup {f[a]} ELSE error

\* x = a, of two nodes of one class, neither of them above the other.  Text
\* and unknown nodes keep their children.  x = x empties x.
Assign(x, a) ==
  LET Emptied == {Cleared(dom, x)} \cup IF dom.type[x] = "leaf" THEN {dom}
                                                              ELSE {} IN
  /\ Idle
  /\ dom.type[x] = dom.type[a]
  /\ \/ x = a /\ dom' \in Emptied
     \/ /\ x \notin Family(dom, a) /\ a \notin Family(dom, x)
        /\ \E u \in Emptied :
             \E f \in Injection(Copied(u, a), Free(u) \cup {x}) :
               f[a] = x /\ dom' = Cloned(u, a, f)
  /\ error' = IF a \in error THEN error \cup {x} ELSE error \ {x}

-----------------------------------------------------------------------------
\* The parser, which goes down and up the tree one call at a time

\* LoadFile empties the document first.  The file cannot be read or is empty,
\* or its text is parsed.
StartParse(d, t) ==
  /\ parsing = NULL
  /\ dom.type[d] = "document"
  /\ dom' = t
  /\ \/ error' = error \cup {d} /\ UNCHANGED parsing
     \/ error' = error \ {d} /\ parsing' = d
  /\ UNCHANGED loose

Parse(d) == StartParse(d, dom)
LoadFile(d) == StartParse(d, Cleared(dom, d))

\* No function sets an error and reads on.
Reading(p) ==
  /\ parsing = p
  /\ dom.type[p] # "leaf"
  /\ GetDocument(dom, p) \cap error = {}

\* A slip: a node gets its parent when it is linked.
ParentInParse_None(p) == NULL

\* The new node gets its parent at once, "so it can report errors".
ParentInParse(p) == p

Identify(p, n, kind, v) ==
  /\ Reading(p)
  /\ n \in Free(dom)
  /\ kind # "document"
  /\ dom' = Made(dom, n, kind, v, ParentInParse(p))
  /\ parsing' = n
  /\ loose' = loose \cup {n}
  /\ UNCHANGED error

ParseError(n) ==
  /\ parsing = n
  /\ dom.type[n] # "document"
  /\ error' = error \cup GetDocument(dom, n)
  /\ UNCHANGED <<dom, parsing, loose>>

\* Whether n's Parse failed or not, the caller links n.
ParseReturns(n) ==
  LET p == dom.parent[n] IN
  /\ parsing = n
  /\ n \in loose
  /\ dom' = Linked(dom, p, n)
  /\ parsing' = p
  /\ loose' = loose \ {n}
  /\ UNCHANGED error

\* A text that is not blank.
ReadText(p, n, v) ==
  /\ Reading(p)
  /\ dom.type[p] = "element"
  /\ n \in Free(dom)
  /\ dom' = Linked(Made(dom, n, "leaf", v, NULL), p, n)
  /\ UNCHANGED <<error, parsing, loose>>

DocumentParsed(d) ==
  /\ parsing = d
  /\ dom.type[d] = "document"
  /\ error' = IF dom.firstChild[d] = NULL THEN error \cup {d} ELSE error
  /\ parsing' = NULL
  /\ UNCHANGED <<dom, loose>>

Next ==
  \/ \E n \in Node, kind \in Kind, v \in Value : New(n, kind, v)
  \/ \E p, x \in Alive(dom) :
        \/ LinkEndChild(p, x)
        \/ InsertEndChild(p, x)
        \/ RemoveChild(p, x)
        \/ Assign(p, x)
  \/ \E p, b, a \in Alive(dom) :
        \/ InsertBeforeChild(p, b, a)
        \/ InsertAfterChild(p, b, a)
        \/ ReplaceChild(p, b, a)
  \/ \E n \in Alive(dom) :
        \/ Clear(n)
        \/ Delete(n)
        \/ Clone(n)
        \/ Parse(n)
        \/ LoadFile(n)
        \/ ParseError(n)
        \/ ParseReturns(n)
        \/ DocumentParsed(n)
  \/ \E p \in Alive(dom), n \in Node, kind \in Kind, v \in Value :
        \/ Identify(p, n, kind, v)
        \/ ReadText(p, n, v)

Spec == Init /\ [][Next]_vars
=============================================================================
