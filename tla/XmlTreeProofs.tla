--------------------------- MODULE XmlTreeProofs ---------------------------
(***************************************************************************)
(* Proofs about module XmlTree, for every set of addresses and of values:  *)
(* the structure of XmlTreeInv is inductive, and an error of the parser    *)
(* has a document to go to.  What a walk reaches is a least closed set, so *)
(* that what is true of it is shown by a set that is closed, and what it   *)
(* leaves out would have a least place or depth.                           *)
(***************************************************************************)
EXTENDS XmlTreeInv, NatLeast, TLAPS

\* The structure of a tree, and one in which no node waits to be linked
Whole(t) ==
  t \in Tree /\ NothingDangles(t) /\ DoublyLinked(t) /\ EndsHeld(t) /\ Ordered(t)
NoneLoose(t) == \A n \in Node : t.parent[n] # NULL => t.rank[n] > 0

-----------------------------------------------------------------------------
(***************************************************************************)
(* What a pointer says of the node it leads to                             *)
(***************************************************************************)

\* The fields of a tree are what they are declared to be.
LEMMA Fields ==
  ASSUME NEW t \in Tree, NEW n \in Node
  PROVE  /\ t.parent[n] \in Node \cup {NULL} /\ t.prev[n] \in Node \cup {NULL}
         /\ t.next[n] \in Node \cup {NULL} /\ t.firstChild[n] \in Node \cup {NULL}
         /\ t.lastChild[n] \in Node \cup {NULL}
         /\ t.rank[n] \in Nat /\ t.depth[n] \in Nat
BY DEF Tree, Pointer

\* A parent is one step nearer to the top; both are nodes.
LEMMA ParentOf ==
  ASSUME TreeAssumption, NEW t, Whole(t), NEW n \in Node, t.parent[n] # NULL
  PROVE  /\ t.parent[n] \in Alive(t) /\ n \in Alive(t)
         /\ t.depth[n] = t.depth[t.parent[n]] + 1
         /\ t.type[n] # "document"
<1>1. t.parent[n] \in Node /\ t.parent[n] \in Alive(t)
  BY Fields DEF Whole, NothingDangles, TreeAssumption, Alive
<1>2. n \notin Free(t)
  BY DEF Whole, NothingDangles
<1>3. QED
  BY <1>1, <1>2 DEF Whole, Ordered, Alive, Free

\* A first child is its parent's, and first.
LEMMA FirstOf ==
  ASSUME TreeAssumption, NEW t, Whole(t), NEW p \in Node, NEW c, c = t.firstChild[p], c # NULL
  PROVE  /\ c \in Node /\ t.parent[c] = p /\ t.prev[c] = NULL /\ t.rank[c] = 1
         /\ t.depth[c] = t.depth[p] + 1 /\ c \in Alive(t) /\ p \in Alive(t)
<1>1. c \in Node
  BY Fields DEF Whole
<1>2. t.parent[c] = p /\ t.prev[c] = NULL /\ t.rank[c] = 1
  BY <1>1 DEF Whole, EndsHeld
<1>3. QED
  BY <1>1, <1>2, ParentOf DEF TreeAssumption

\* A last child is its parent's, and last.
LEMMA LastOf ==
  ASSUME TreeAssumption, NEW t, Whole(t), NEW p \in Node, NEW c, c = t.lastChild[p], c # NULL
  PROVE  /\ c \in Node /\ t.parent[c] = p /\ t.next[c] = NULL /\ t.rank[c] > 0
         /\ t.depth[c] = t.depth[p] + 1 /\ c \in Alive(t) /\ p \in Alive(t)
<1>1. c \in Node
  BY Fields DEF Whole
<1>2. t.parent[c] = p /\ t.next[c] = NULL /\ t.rank[c] > 0
  BY <1>1 DEF Whole, EndsHeld
<1>3. QED
  BY <1>1, <1>2, ParentOf DEF TreeAssumption

\* The next sibling is a sibling, and one place further.
LEMMA NextOf ==
  ASSUME TreeAssumption, NEW t, Whole(t), NEW n \in Node, NEW m, m = t.next[n], m # NULL
  PROVE  /\ m \in Node /\ t.prev[m] = n /\ t.parent[m] = t.parent[n]
         /\ t.parent[n] # NULL /\ t.parent[n] \in Node
         /\ t.rank[n] > 0 /\ t.rank[m] = t.rank[n] + 1
         /\ t.depth[m] = t.depth[n] /\ m \in Alive(t) /\ n \in Alive(t)
<1>1. m \in Node
  BY Fields DEF Whole
<1>2. /\ t.prev[m] = n /\ t.parent[m] = t.parent[n]
      /\ t.rank[n] > 0 /\ t.rank[m] = t.rank[n] + 1
  BY <1>1 DEF Whole, DoublyLinked
<1>3. t.parent[n] # NULL
  BY DEF Whole, Ordered
<1>4. QED
  BY <1>1, <1>2, <1>3, ParentOf DEF Alive

\* The previous sibling has this one for its next.
LEMMA PrevOf ==
  ASSUME TreeAssumption, NEW t, Whole(t), NEW n \in Node, NEW m, m = t.prev[n], m # NULL
  PROVE  /\ m \in Node /\ t.next[m] = n /\ t.parent[m] = t.parent[n]
         /\ t.parent[n] # NULL /\ t.parent[n] \in Node
         /\ t.rank[m] > 0 /\ t.rank[n] = t.rank[m] + 1
         /\ t.depth[m] = t.depth[n] /\ m \in Alive(t) /\ n \in Alive(t)
<1>1. m \in Node
  BY Fields DEF Whole
<1>2. t.next[m] = n
  BY <1>1 DEF Whole, DoublyLinked
<1>3. n # NULL
  BY DEF TreeAssumption
<1>4. QED
  BY <1>1, <1>2, <1>3, NextOf

\* The place of a linked node tells where it stands in its parent's list.
LEMMA PlaceOf ==
  ASSUME TreeAssumption, NEW t, Whole(t), NEW n \in Node, t.rank[n] > 0
  PROVE  /\ t.parent[n] \in Node /\ t.parent[n] # NULL
         /\ t.prev[n] = NULL => t.firstChild[t.parent[n]] = n /\ t.rank[n] = 1
         /\ t.next[n] = NULL => t.lastChild[t.parent[n]] = n
         /\ t.rank[n] = 1 => t.prev[n] = NULL
<1>1. t.parent[n] # NULL
  BY DEF Whole, Ordered
<1>2. t.parent[n] \in Node
  BY <1>1, ParentOf DEF Alive
<1>3. /\ t.prev[n] = NULL => t.firstChild[t.parent[n]] = n
      /\ t.next[n] = NULL => t.lastChild[t.parent[n]] = n
  BY <1>2 DEF Whole, EndsHeld
<1>4. t.prev[n] = NULL => t.rank[n] = 1
  BY <1>2, <1>3, FirstOf DEF TreeAssumption
<1>5. t.rank[n] = 1 => t.prev[n] = NULL
  <2>1. SUFFICES ASSUME t.prev[n] # NULL PROVE t.rank[n] # 1
    OBVIOUS
  <2>2. /\ t.prev[n] \in Node /\ t.rank[t.prev[n]] > 0
        /\ t.rank[n] = t.rank[t.prev[n]] + 1
    BY <2>1, PrevOf
  <2>3. QED
    BY <2>2, Fields DEF Whole
<1>6. QED
  BY <1>1, <1>2, <1>3, <1>4, <1>5

\* Where a node is linked there is a first one.
LEMMA HasFirst ==
  ASSUME TreeAssumption, NEW t, Whole(t), NEW n \in Node, t.rank[n] > 0
  PROVE  t.firstChild[t.parent[n]] # NULL
<1> DEFINE p == t.parent[n]
           Places == {k \in Nat : \E y \in Node :
                        t.parent[y] = p /\ t.rank[y] > 0 /\ t.rank[y] = k}
<1>1. \A y \in Node : t.rank[y] \in Nat
  BY Fields DEF Whole
<1>2. t.rank[n] \in Places
  BY <1>1
<1>3. PICK k \in Places : \A j \in Places : k <= j
  <2>1. Places \subseteq Nat /\ Places # {}
    BY <1>2
  <2>2. QED
    BY <2>1, LeastExists
<1>4. PICK y \in Node : t.parent[y] = p /\ t.rank[y] > 0 /\ t.rank[y] = k
  BY <1>3
<1>5. t.prev[y] = NULL
  <2>1. SUFFICES ASSUME t.prev[y] # NULL PROVE FALSE
    OBVIOUS
  <2> DEFINE m == t.prev[y]
  <2>2. m \in Node /\ t.parent[m] = p /\ t.rank[m] > 0 /\ t.rank[y] = t.rank[m] + 1
    BY <2>1, <1>4, PrevOf
  <2>3. t.rank[m] \in Places
    BY <2>2, <1>1
  <2>4. QED
    BY <2>2, <2>3, <1>1, <1>3, <1>4
<1>6. t.firstChild[p] = y
  BY <1>4, <1>5, PlaceOf
<1>7. QED
  BY <1>6 DEF TreeAssumption

-----------------------------------------------------------------------------
(***************************************************************************)
(* What a walk down from a node reaches.  The destructor goes down by      *)
(* firstChild; Clone does so too, but not from a leaf.                     *)
(***************************************************************************)

\* A walk that goes down by g, where g is firstChild or stops
Walking(t, g, n, S) ==
  /\ n \in S
  /\ \A x \in S : g[x] \in S \cup {NULL}
  /\ \A x \in S \ {n} : t.next[x] \in S \cup {NULL}

Reach(t, g, n) == {x \in Node : \A S \in SUBSET Node : Walking(t, g, n, S) => x \in S}

Downward(t, g) ==
  /\ g \in Pointer
  /\ \A x \in Node : g[x] # NULL => g[x] = t.firstChild[x]

\* Where Clone goes down
Opened(t) == [x \in Node |-> IF t.type[x] = "leaf" THEN NULL ELSE t.firstChild[x]]

\* The family is what a walk by firstChild reaches.
LEMMA FamilyIsReach ==
  ASSUME NEW t \in Tree, NEW n
  PROVE  Family(t, n) = Reach(t, t.firstChild, n) /\ Downward(t, t.firstChild)
BY DEF Family, Closed, Reach, Walking, Downward, Tree

\* What is copied is what a walk that stops at leaves reaches.
LEMMA CopiedIsReach ==
  ASSUME NEW t \in Tree, NEW n
  PROVE  Copied(t, n) = Reach(t, Opened(t), n) /\ Downward(t, Opened(t))
<1>1. ASSUME NEW S \in SUBSET Node
      PROVE  Copying(t, n, S) <=> Walking(t, Opened(t), n, S)
  BY DEF Copying, Walking, Opened
<1>2. Downward(t, Opened(t))
  BY Fields DEF Downward, Opened, Pointer
<1>3. QED
  BY <1>1, <1>2 DEF Copied, Reach

\* What is closed has all that is reached.
LEMMA ReachWithin ==
  ASSUME NEW t, NEW g, NEW n, NEW S \in SUBSET Node, Walking(t, g, n, S)
  PROVE  Reach(t, g, n) \subseteq S
BY DEF Reach

\* What is reached is closed.
LEMMA ReachClosed ==
  ASSUME TreeAssumption, NEW t, NEW g, NEW n \in Node
  PROVE  /\ Reach(t, g, n) \subseteq Node
         /\ n \in Reach(t, g, n)
         /\ \A x \in Reach(t, g, n) : g[x] \in Node => g[x] \in Reach(t, g, n)
         /\ \A x \in Reach(t, g, n) \ {n} :
              t.next[x] \in Node => t.next[x] \in Reach(t, g, n)
<1> DEFINE R == Reach(t, g, n)
<1>1. R \subseteq Node /\ n \in R
  BY DEF Reach, Walking
<1>2. ASSUME NEW x \in R, g[x] \in Node PROVE g[x] \in R
  <2>1. ASSUME NEW S \in SUBSET Node, Walking(t, g, n, S)
        PROVE  g[x] \in S
    BY <2>1, <1>2 DEF Reach, Walking, TreeAssumption
  <2>2. QED
    BY <1>2, <2>1 DEF Reach
<1>3. ASSUME NEW x \in R \ {n}, t.next[x] \in Node PROVE t.next[x] \in R
  <2>1. ASSUME NEW S \in SUBSET Node, Walking(t, g, n, S)
        PROVE  t.next[x] \in S
    BY <2>1, <1>3 DEF Reach, Walking, TreeAssumption
  <2>2. QED
    BY <1>3, <2>1 DEF Reach
<1>4. QED
  BY <1>1, <1>2, <1>3

\* Whatever is reached but where the walk begins is a linked node, below where it
\* begins, and under a parent that is reached and from which the walk goes down.
LEMMA ReachBelow ==
  ASSUME TreeAssumption, NEW t, Whole(t), NEW g, Downward(t, g), NEW n \in Node,
         NEW x \in Reach(t, g, n), x # n
  PROVE  /\ x \in Alive(t) /\ t.rank[x] > 0 /\ t.depth[x] > t.depth[n]
         /\ t.parent[x] \in Reach(t, g, n) /\ g[t.parent[x]] # NULL
<1> DEFINE R == Reach(t, g, n)
           Good(y) == /\ y \in Alive(t) /\ t.rank[y] > 0 /\ t.depth[y] > t.depth[n]
                      /\ t.parent[y] \in R /\ g[t.parent[y]] # NULL
           S == {y \in R : y = n \/ Good(y)}
<1>1. n \in S /\ S \subseteq Node
  BY ReachClosed
<1>2. ASSUME NEW y \in S PROVE g[y] \in S \cup {NULL}
  <2>1. SUFFICES ASSUME g[y] # NULL PROVE g[y] \in S
    OBVIOUS
  <2>2. y \in Node /\ y \in R /\ g[y] = t.firstChild[y] /\ g[y] \in Node
    BY <1>1, <2>1 DEF Downward, Pointer
  <2>3. /\ t.parent[g[y]] = y /\ t.rank[g[y]] = 1 /\ g[y] \in Alive(t)
        /\ t.depth[g[y]] = t.depth[y] + 1
    BY <2>1, <2>2, FirstOf
  <2>4. g[y] \in R
    BY <2>2, ReachClosed
  <2>5. t.depth[y] \in Nat /\ t.depth[n] \in Nat /\ t.depth[y] >= t.depth[n]
    BY <2>2, Fields DEF Whole
  <2>6. QED
    BY <2>1, <2>2, <2>3, <2>4, <2>5
<1>3. ASSUME NEW y \in S \ {n} PROVE t.next[y] \in S \cup {NULL}
  <2>1. SUFFICES ASSUME t.next[y] # NULL PROVE t.next[y] \in S
    OBVIOUS
  <2>2. y \in Node /\ y \in R /\ Good(y)
    BY <1>1
  <2>3. /\ t.next[y] \in Node /\ t.next[y] \in Alive(t)
        /\ t.parent[t.next[y]] = t.parent[y] /\ t.rank[t.next[y]] = t.rank[y] + 1
        /\ t.depth[t.next[y]] = t.depth[y]
    BY <2>1, <2>2, NextOf
  <2>4. t.next[y] \in R
    BY <2>2, <2>3, ReachClosed
  <2>5. t.rank[y] \in Nat
    BY <2>2, Fields DEF Whole
  <2>6. QED
    BY <2>2, <2>3, <2>4, <2>5
<1>4. Walking(t, g, n, S)
  BY <1>1, <1>2, <1>3 DEF Walking
<1>5. R \subseteq S
  BY <1>1, <1>4, ReachWithin
<1>6. QED
  BY <1>5

\* A walk that goes down from a node reaches all children that are linked to it.
LEMMA ReachChildren ==
  ASSUME TreeAssumption, NEW t, Whole(t), NEW g, Downward(t, g), NEW n \in Node,
         NEW p \in Reach(t, g, n), g[p] # NULL,
         NEW x \in Node, t.parent[x] = p, t.rank[x] > 0
  PROVE  x \in Reach(t, g, n)
<1> DEFINE R == Reach(t, g, n)
           Missed(y) == t.parent[y] = p /\ t.rank[y] > 0 /\ y \notin R
           Places == {k \in Nat : \E y \in Node : Missed(y) /\ t.rank[y] = k}
<1>1. p \in Node /\ R \subseteq Node
  BY ReachClosed
<1>2. SUFFICES ASSUME x \notin R PROVE FALSE
  OBVIOUS
<1>3. \A y \in Node : t.rank[y] \in Nat
  BY Fields DEF Whole
<1>4. t.rank[x] \in Places
  BY <1>2, <1>3
<1>5. PICK k \in Places : \A j \in Places : k <= j
  <2>1. Places \subseteq Nat /\ Places # {}
    BY <1>4
  <2>2. QED
    BY <2>1, LeastExists
<1>6. PICK y \in Node : Missed(y) /\ t.rank[y] = k
  BY <1>5
<1>7. t.prev[y] # NULL
  <2>1. SUFFICES ASSUME t.prev[y] = NULL PROVE FALSE
    OBVIOUS
  <2>2. t.firstChild[p] = y
    BY <2>1, <1>6, PlaceOf
  <2>3. g[p] = y
    BY <1>1, <2>2 DEF Downward
  <2>4. y \in R
    BY <2>3, <1>6, ReachClosed
  <2>5. QED
    BY <2>4, <1>6
<1> DEFINE m == t.prev[y]
<1>8. /\ m \in Node /\ t.next[m] = y /\ t.parent[m] = p
      /\ t.rank[m] > 0 /\ t.rank[y] = t.rank[m] + 1
  BY <1>6, <1>7, PrevOf
<1>9. m \in R
  <2>1. SUFFICES ASSUME m \notin R PROVE FALSE
    OBVIOUS
  <2>2. t.rank[m] \in Places
    BY <1>8, <1>3, <2>1
  <2>3. QED
    BY <2>2, <1>5, <1>6, <1>8, <1>3
<1>10. m # n
  <2>1. SUFFICES ASSUME m = n PROVE FALSE
    OBVIOUS
  <2>2. t.depth[n] = t.depth[p] + 1 /\ t.depth[p] \in Nat
    BY <2>1, <1>1, <1>8, ParentOf, Fields DEF Whole, TreeAssumption
  <2>3. p # n => t.depth[p] > t.depth[n]
    BY ReachBelow
  <2>4. QED
    BY <2>2, <2>3
<1>11. y \in R
  BY <1>6, <1>8, <1>9, <1>10, ReachClosed
<1>12. QED
  BY <1>11, <1>6

\* A tree that differs elsewhere has the same reach.
LEMMA ReachSame ==
  ASSUME TreeAssumption, NEW t \in Tree, NEW u, NEW g \in Pointer, NEW h, NEW n \in Node,
         \A x \in Reach(t, g, n) : h[x] = g[x],
         \A x \in Reach(t, g, n) \ {n} : u.next[x] = t.next[x]
  PROVE  Reach(u, h, n) = Reach(t, g, n)
<1> DEFINE R == Reach(t, g, n)
<1>1. R \subseteq Node /\ n \in R
  BY ReachClosed
<1>2. Walking(u, h, n, R)
  <2>1. ASSUME NEW x \in R PROVE h[x] \in R \cup {NULL}
    BY <1>1, ReachClosed DEF Pointer
  <2>2. ASSUME NEW x \in R \ {n} PROVE u.next[x] \in R \cup {NULL}
    BY <1>1, ReachClosed, Fields
  <2>3. QED
    BY <1>1, <2>1, <2>2 DEF Walking
<1>3. Reach(u, h, n) \subseteq R
  BY <1>1, <1>2, ReachWithin
<1>4. ASSUME NEW S \in SUBSET Node, Walking(u, h, n, S)
      PROVE  R \subseteq S
  <2>1. Walking(t, g, n, S \cap R)
    <3>1. n \in S \cap R
      BY <1>1, <1>4 DEF Walking
    <3>2. ASSUME NEW x \in S \cap R PROVE g[x] \in (S \cap R) \cup {NULL}
      <4>1. g[x] \in S \cup {NULL}
        BY <1>4 DEF Walking
      <4>2. QED
        BY <4>1, <1>1, ReachClosed
    <3>3. ASSUME NEW x \in (S \cap R) \ {n} PROVE t.next[x] \in (S \cap R) \cup {NULL}
      <4>1. t.next[x] \in S \cup {NULL}
        BY <1>4 DEF Walking
      <4>2. QED
        BY <4>1, <1>1, ReachClosed
    <3>4. QED
      BY <3>1, <3>2, <3>3 DEF Walking
  <2>2. QED
    BY <2>1, ReachWithin
<1>5. R \subseteq Reach(u, h, n)
  BY <1>1, <1>4 DEF Reach
<1>6. QED
  BY <1>3, <1>5

-----------------------------------------------------------------------------
(***************************************************************************)
(* Depths                                                                  *)
(***************************************************************************)

\* depth is the number of steps to the top.
DepthsFit(parent, depth) ==
  /\ depth \in [Node -> Nat]
  /\ \A n \in Node : /\ parent[n] = NULL => depth[n] = 0
                     /\ parent[n] \in Node => depth[n] = depth[parent[n]] + 1

\* In a tree it is.
LEMMA DepthsOf ==
  ASSUME TreeAssumption, NEW t, Whole(t)
  PROVE  DepthsFit(t.parent, t.depth)
<1>1. t.depth \in [Node -> Nat]
  BY DEF Whole, Tree
<1>2. \A n \in Node : t.parent[n] = NULL => t.depth[n] = 0
  BY DEF Whole, Ordered
<1>3. \A n \in Node : t.parent[n] \in Node => t.depth[n] = t.depth[t.parent[n]] + 1
  BY ParentOf DEF TreeAssumption
<1>4. QED
  BY <1>1, <1>2, <1>3 DEF DepthsFit

\* All that is below x goes down with it.
LEMMA LoweredFits ==
  ASSUME TreeAssumption, NEW t, Whole(t), NEW x \in Node,
         NEW p \in Node, p \notin Family(t, x),
         \A m \in Node : t.parent[m] \in Family(t, x) => t.rank[m] > 0
  PROVE  DepthsFit(Put(t.parent, x, p), Lowered(t, p, x))
<1> DEFINE F == Family(t, x)
           D == Lowered(t, p, x)
           P == Put(t.parent, x, p)
<1>1. F = Reach(t, t.firstChild, x) /\ Downward(t, t.firstChild) /\ F \subseteq Node /\ x \in F
  BY FamilyIsReach, ReachClosed DEF Whole
<1>2. \A n \in Node : t.depth[n] \in Nat
  BY Fields DEF Whole
<1>3. \A n \in F : n # x => /\ t.depth[n] > t.depth[x]
                            /\ t.parent[n] \in F
  BY <1>1, ReachBelow
<1>4. \A n \in Node : t.parent[n] \in F => n \in F
  <2>1. SUFFICES ASSUME NEW n \in Node, t.parent[n] \in F PROVE n \in F
    OBVIOUS
  <2>2. t.rank[n] > 0 /\ t.parent[n] \in Node
    BY <2>1, <1>1
  <2>3. t.firstChild[t.parent[n]] # NULL
    BY <2>2, HasFirst
  <2>4. QED
    BY <2>1, <2>2, <2>3, <1>1, ReachChildren
<1>5. /\ \A n \in F : D[n] = t.depth[n] - t.depth[x] + t.depth[p] + 1
      /\ \A n \in Node \ F : D[n] = t.depth[n]
  BY <1>1 DEF Lowered
<1>6. D \in [Node -> Nat]
  <2>1. \A n \in Node : D[n] \in Nat
    BY <1>1, <1>2, <1>3, <1>5
  <2>2. QED
    BY <2>1 DEF Lowered
<1>7. P[x] = p /\ \A n \in Node \ {x} : P[n] = t.parent[n]
  BY DEF Put
<1>8. D[x] = D[p] + 1
  BY <1>1, <1>2, <1>5
<1>9. ASSUME NEW n \in Node, n # x, t.parent[n] = NULL PROVE D[n] = 0
  BY <1>9, <1>1, <1>3, <1>5, DepthsOf DEF DepthsFit, TreeAssumption
<1>10. ASSUME NEW n \in Node, n # x, t.parent[n] \in Node
       PROVE  D[n] = D[t.parent[n]] + 1
  <2>1. t.depth[n] = t.depth[t.parent[n]] + 1
    BY <1>10, DepthsOf DEF DepthsFit
  <2>2. n \in F <=> t.parent[n] \in F
    BY <1>10, <1>3, <1>4
  <2>3. QED
    BY <1>10, <1>2, <1>5, <2>1, <2>2
<1> HIDE DEF D, P
<1>11. QED
  BY <1>6, <1>7, <1>8, <1>9, <1>10 DEF DepthsFit, D, P, TreeAssumption

-----------------------------------------------------------------------------
(***************************************************************************)
(* A new node                                                              *)
(***************************************************************************)

\* The fields of the tree with the new node
LEMMA MadeFields ==
  ASSUME NEW t \in Tree, NEW n \in Node, NEW kind \in Kind, NEW v \in Value,
         NEW p \in Node \cup {NULL}, NEW u, u = Made(t, n, kind, v, p)
  PROVE  /\ u \in Tree
         /\ u.type = [t.type EXCEPT ![n] = kind]
         /\ u.parent = [t.parent EXCEPT ![n] = p]
         /\ u.depth = [t.depth EXCEPT ![n] = IF p = NULL THEN 0 ELSE t.depth[p] + 1]
         /\ u.prev = t.prev /\ u.next = t.next /\ u.rank = t.rank
         /\ u.firstChild = t.firstChild /\ u.lastChild = t.lastChild
<1>1. /\ u.type = [t.type EXCEPT ![n] = kind]
      /\ u.value = [t.value EXCEPT ![n] = v]
      /\ u.parent = [t.parent EXCEPT ![n] = p]
      /\ u.depth = [t.depth EXCEPT ![n] = IF p = NULL THEN 0 ELSE t.depth[p] + 1]
      /\ u.prev = t.prev /\ u.next = t.next /\ u.rank = t.rank
      /\ u.firstChild = t.firstChild /\ u.lastChild = t.lastChild
  BY DEF Made, Tree
<1>2. u = [type |-> u.type, value |-> u.value, parent |-> u.parent,
           firstChild |-> u.firstChild, lastChild |-> u.lastChild, prev |-> u.prev,
           next |-> u.next, rank |-> u.rank, depth |-> u.depth]
  BY DEF Made, Tree
<1>3. /\ u.type \in [Node -> Kind \cup {"free"}] /\ u.value \in [Node -> Value \cup {NULL}]
      /\ u.parent \in Pointer /\ u.firstChild \in Pointer /\ u.lastChild \in Pointer
      /\ u.prev \in Pointer /\ u.next \in Pointer
      /\ u.rank \in [Node -> Nat] /\ u.depth \in [Node -> Nat]
  BY <1>1 DEF Tree, Pointer
<1>4. u \in Tree
  BY <1>2, <1>3 DEF Tree
<1>5. QED
  BY <1>1, <1>4

\* A free address has no pointers, and none leads to it.
LEMMA FreeIsAlone ==
  ASSUME TreeAssumption, NEW t, Whole(t), NEW n \in Free(t)
  PROVE  /\ n \in Node /\ t.parent[n] = NULL /\ t.prev[n] = NULL /\ t.next[n] = NULL
         /\ t.firstChild[n] = NULL /\ t.lastChild[n] = NULL
         /\ t.rank[n] = 0 /\ t.depth[n] = 0
         /\ \A m \in Node : /\ t.parent[m] # n /\ t.prev[m] # n /\ t.next[m] # n
                            /\ t.firstChild[m] # n /\ t.lastChild[m] # n
<1>1. n \in Node /\ n # NULL /\ n \notin Alive(t)
  BY DEF Free, Alive, TreeAssumption
<1>2. QED
  BY <1>1 DEF Whole, NothingDangles

\* A tree stays one with a new node that no list has yet.
LEMMA MadeWhole ==
  ASSUME TreeAssumption, NEW t, Whole(t), NEW n \in Free(t), NEW kind \in Kind,
         NEW v \in Value, NEW p \in Alive(t) \cup {NULL}, kind = "document" => p = NULL,
         NEW u, u = Made(t, n, kind, v, p)
  PROVE  Whole(u) /\ Alive(u) = Alive(t) \cup {n}
<1>1. /\ n \in Node /\ n # NULL /\ p \in Node \cup {NULL} /\ p # n
      /\ t \in Tree /\ "free" \notin Kind
  BY DEF Free, Alive, TreeAssumption, Whole, Kind
<1>2. /\ u \in Tree
      /\ u.type = [t.type EXCEPT ![n] = kind]
      /\ u.parent = [t.parent EXCEPT ![n] = p]
      /\ u.depth = [t.depth EXCEPT ![n] = IF p = NULL THEN 0 ELSE t.depth[p] + 1]
      /\ u.prev = t.prev /\ u.next = t.next /\ u.rank = t.rank
      /\ u.firstChild = t.firstChild /\ u.lastChild = t.lastChild
  BY <1>1, MadeFields
<1>3. /\ u.type[n] = kind /\ u.parent[n] = p
      /\ u.depth[n] = IF p = NULL THEN 0 ELSE t.depth[p] + 1
      /\ \A m \in Node \ {n} : /\ u.type[m] = t.type[m] /\ u.parent[m] = t.parent[m]
                               /\ u.depth[m] = t.depth[m]
  BY <1>1, <1>2 DEF Tree, Pointer
<1>4. Alive(u) = Alive(t) \cup {n}
  BY <1>1, <1>3 DEF Alive
<1>5. Free(u) \subseteq Free(t)
  BY <1>1, <1>3 DEF Free
<1>6. NothingDangles(u)
  <2>1. \A m \in Free(u) : m # n /\ m \in Node
    BY <1>1, <1>3 DEF Free
  <2>2. \A m \in Node :
          {u.parent[m], u.firstChild[m], u.lastChild[m], u.prev[m], u.next[m]}
            \subseteq Alive(u) \cup {NULL}
    BY <1>1, <1>2, <1>3, <1>4 DEF Whole, NothingDangles
  <2>3. \A m \in Free(u) : /\ u.parent[m] = NULL /\ u.prev[m] = NULL
                           /\ u.next[m] = NULL /\ u.rank[m] = 0 /\ u.depth[m] = 0
                           /\ u.firstChild[m] = NULL /\ u.lastChild[m] = NULL
    BY <1>2, <1>3, <1>5, <2>1, FreeIsAlone
  <2>4. QED
    BY <2>2, <2>3 DEF NothingDangles
<1>7. DoublyLinked(u)
  <2>1. ASSUME NEW a \in Node, NEW b \in Node, t.next[a] = b
        PROVE  u.parent[b] = u.parent[a]
    BY <2>1, <1>3, FreeIsAlone DEF Whole, DoublyLinked, TreeAssumption
  <2>2. QED
    BY <1>2, <2>1 DEF Whole, DoublyLinked
<1>8. EndsHeld(u)
  BY <1>1, <1>2, <1>3, FreeIsAlone DEF Whole, EndsHeld
<1>9. Ordered(u)
  <2>1. ASSUME NEW a \in Node, NEW b \in Node, u.parent[a] = b
        PROVE  u.depth[a] = u.depth[b] + 1
    BY <2>1, <1>1, <1>3, FreeIsAlone DEF Whole, Ordered, TreeAssumption
  <2>2. ASSUME NEW a \in Node, NEW b \in Node, u.parent[a] # NULL, u.parent[a] = u.parent[b],
               u.rank[a] = u.rank[b], u.rank[a] > 0
        PROVE  a = b
    BY <2>2, <1>1, <1>2, <1>3, FreeIsAlone DEF Whole, Ordered
  <2>3. ASSUME NEW a \in Node, u.parent[a] = NULL
        PROVE  u.depth[a] = 0 /\ u.rank[a] = 0 /\ u.prev[a] = NULL /\ u.next[a] = NULL
    BY <2>3, <1>1, <1>2, <1>3, FreeIsAlone DEF Whole, Ordered
  <2>4. \A a \in Node : u.rank[a] = 0 => u.prev[a] = NULL /\ u.next[a] = NULL
    BY <1>2 DEF Whole, Ordered
  <2>5. \A a \in Node : u.type[a] = "document" => u.parent[a] = NULL
    BY <1>1, <1>3 DEF Whole, Ordered
  <2>6. QED
    BY <2>1, <2>2, <2>3, <2>4, <2>5 DEF Ordered
<1>10. QED
  BY <1>2, <1>4, <1>6, <1>7, <1>8, <1>9 DEF Whole

-----------------------------------------------------------------------------
(***************************************************************************)
(* A node is linked between two neighbours, of which either may be missing *)
(***************************************************************************)

\* A tree from its fields
LEMMA TreeFrom ==
  ASSUME NEW u,
         u = [type |-> u.type, value |-> u.value, parent |-> u.parent,
              firstChild |-> u.firstChild, lastChild |-> u.lastChild, prev |-> u.prev,
              next |-> u.next, rank |-> u.rank, depth |-> u.depth],
         u.type \in [Node -> Kind \cup {"free"}], u.value \in [Node -> Value \cup {NULL}],
         u.parent \in Pointer, u.firstChild \in Pointer, u.lastChild \in Pointer,
         u.prev \in Pointer, u.next \in Pointer,
         u.rank \in [Node -> Nat], u.depth \in [Node -> Nat]
  PROVE  u \in Tree
BY DEF Tree

\* There is a gap for place between left and right among the children of p.
Gap(t, p, left, right, place) ==
  /\ p \in Alive(t) /\ place \in Nat \ {0}
  /\ left \in Node \cup {NULL} /\ right \in Node \cup {NULL}
  /\ IF left = NULL THEN t.firstChild[p] = right /\ place = 1
     ELSE /\ t.parent[left] = p /\ t.rank[left] > 0 /\ t.next[left] = right
          /\ place = t.rank[left] + 1
  /\ IF right = NULL THEN t.lastChild[p] = left
     ELSE t.parent[right] = p /\ t.rank[right] = place /\ t.prev[right] = left

\* u is t with x in that gap.
Spliced(t, u, p, x, left, right, place) ==
  /\ u \in Tree /\ u.type = t.type
  /\ u.parent[x] = p /\ u.next[x] = right /\ u.prev[x] = left /\ u.rank[x] = place
  /\ \A n \in Node \ {x} :
       /\ u.parent[n] = t.parent[n]
       /\ u.next[n] = IF n = left THEN x ELSE t.next[n]
       /\ u.prev[n] = IF n = right THEN x ELSE t.prev[n]
       /\ u.rank[n] = IF t.parent[n] = p /\ t.rank[n] >= place
                      THEN t.rank[n] + 1 ELSE t.rank[n]
  /\ \A n \in Node :
       /\ u.firstChild[n] = IF left = NULL /\ n = p THEN x ELSE t.firstChild[n]
       /\ u.lastChild[n] = IF right = NULL /\ n = p THEN x ELSE t.lastChild[n]
  /\ DepthsFit(u.parent, u.depth)

\* A node without a place is no one's neighbour, and neither first nor last.
LEMMA Unplaced ==
  ASSUME TreeAssumption, NEW t, Whole(t), NEW x \in Node, t.rank[x] = 0
  PROVE  /\ t.next[x] = NULL /\ t.prev[x] = NULL
         /\ \A n \in Node : /\ t.next[n] # x /\ t.prev[n] # x
                            /\ t.firstChild[n] # x /\ t.lastChild[n] # x
<1>1. x # NULL
  BY DEF TreeAssumption
<1>2. t.next[x] = NULL /\ t.prev[x] = NULL
  BY DEF Whole, Ordered
<1>3. ASSUME NEW n \in Node PROVE t.next[n] # x
  BY <1>1, NextOf, Fields DEF Whole
<1>4. ASSUME NEW n \in Node PROVE t.prev[n] # x
  BY <1>1, PrevOf, Fields DEF Whole
<1>5. ASSUME NEW n \in Node PROVE t.firstChild[n] # x /\ t.lastChild[n] # x
  BY <1>1, FirstOf, LastOf
<1>6. QED
  BY <1>2, <1>3, <1>4, <1>5

\* The tree stays one.
LEMMA SplicedWhole ==
  ASSUME TreeAssumption, NEW t, Whole(t), NEW p, NEW left, NEW right, NEW place,
         Gap(t, p, left, right, place),
         NEW x \in Alive(t), x # p, t.rank[x] = 0, t.type[x] # "document",
         NEW u, Spliced(t, u, p, x, left, right, place)
  PROVE  Whole(u) /\ Alive(u) = Alive(t) /\ (NoneLoose(t) => NoneLoose(u))
<1>1. /\ p \in Node /\ x \in Node /\ p # NULL /\ x # NULL /\ place \in Nat /\ place > 0
      /\ left \in Node \cup {NULL} /\ right \in Node \cup {NULL} /\ t \in Tree
  BY DEF Gap, Alive, TreeAssumption, Whole
<1>2. /\ t.next[x] = NULL /\ t.prev[x] = NULL
      /\ \A n \in Node : /\ t.next[n] # x /\ t.prev[n] # x
                         /\ t.firstChild[n] # x /\ t.lastChild[n] # x
  BY <1>1, Unplaced
<1>3. left # x /\ right # x /\ (left # NULL => left # right)
  BY <1>1, <1>2, Fields DEF Gap
<1>4. \A n \in Node : t.rank[n] \in Nat
  BY Fields DEF Whole
<1>5. Alive(u) = Alive(t) /\ Free(u) = Free(t)
  BY DEF Spliced, Alive, Free
<1>6. /\ u.parent[x] = p /\ u.next[x] = right /\ u.prev[x] = left /\ u.rank[x] = place
      /\ \A n \in Node \ {x} :
           /\ u.parent[n] = t.parent[n]
           /\ u.next[n] = IF n = left THEN x ELSE t.next[n]
           /\ u.prev[n] = IF n = right THEN x ELSE t.prev[n]
           /\ u.rank[n] = IF t.parent[n] = p /\ t.rank[n] >= place
                          THEN t.rank[n] + 1 ELSE t.rank[n]
      /\ \A n \in Node :
           /\ u.firstChild[n] = IF left = NULL /\ n = p THEN x ELSE t.firstChild[n]
           /\ u.lastChild[n] = IF right = NULL /\ n = p THEN x ELSE t.lastChild[n]
  BY DEF Spliced
<1>7. /\ left # NULL => /\ t.parent[left] = p /\ t.rank[left] > 0 /\ t.next[left] = right
                        /\ place = t.rank[left] + 1
      /\ left = NULL => t.firstChild[p] = right /\ place = 1
      /\ right # NULL => t.parent[right] = p /\ t.rank[right] = place /\ t.prev[right] = left
      /\ right = NULL => t.lastChild[p] = left
  BY DEF Gap
<1>8. /\ left # NULL => left \in Alive(t)
      /\ right # NULL => right \in Alive(t)
  BY <1>1, <1>7, ParentOf
<1>9. NothingDangles(u)
  <2>1. \A n \in Node :
          {u.parent[n], u.firstChild[n], u.lastChild[n], u.prev[n], u.next[n]}
            \subseteq Alive(u) \cup {NULL}
    <3>1. \A n \in Node :
            {t.parent[n], t.firstChild[n], t.lastChild[n], t.prev[n], t.next[n]}
              \subseteq Alive(t) \cup {NULL}
      BY DEF Whole, NothingDangles
    <3>2. p \in Alive(t)
      BY DEF Gap
    <3>3. QED
      BY <1>5, <1>6, <1>8, <3>1, <3>2
  <2>2. ASSUME NEW n \in Free(u)
        PROVE  /\ u.parent[n] = NULL /\ u.prev[n] = NULL
               /\ u.next[n] = NULL /\ u.rank[n] = 0 /\ u.depth[n] = 0
               /\ u.firstChild[n] = NULL /\ u.lastChild[n] = NULL
    <3>1. n \in Free(t) /\ n \in Node /\ n # x /\ n # left /\ n # right /\ n # p
      BY <1>1, <1>5, <1>8 DEF Gap, Alive, Free, TreeAssumption
    <3>2. /\ t.parent[n] = NULL /\ t.prev[n] = NULL /\ t.next[n] = NULL
          /\ t.firstChild[n] = NULL /\ t.lastChild[n] = NULL /\ t.rank[n] = 0
      BY <3>1, FreeIsAlone
    <3>3. u.depth[n] = 0
      BY <1>6, <3>1, <3>2 DEF Spliced, DepthsFit
    <3>4. QED
      BY <1>1, <1>6, <3>1, <3>2, <3>3
  <2>3. QED
    BY <2>1, <2>2 DEF NothingDangles
<1>10. DoublyLinked(u)
  <2>1. ASSUME NEW a \in Node, NEW b \in Node, u.next[a] = b
        PROVE  /\ u.prev[b] = a /\ u.parent[b] = u.parent[a]
               /\ u.rank[b] = u.rank[a] + 1 /\ u.rank[a] > 0
    <3>1. CASE a = x
      BY <2>1, <3>1, <1>1, <1>3, <1>4, <1>6, <1>7 DEF TreeAssumption
    <3>2. CASE a = left
      BY <2>1, <3>2, <1>1, <1>3, <1>4, <1>6, <1>7 DEF TreeAssumption
    <3>3. CASE a # x /\ a # left
      <4>1. t.next[a] = b /\ b # x /\ b # NULL
        BY <2>1, <3>3, <1>2, <1>6 DEF TreeAssumption
      <4>2. /\ t.prev[b] = a /\ t.parent[b] = t.parent[a]
            /\ t.rank[a] > 0 /\ t.rank[b] = t.rank[a] + 1
        BY <4>1, NextOf
      <4>3. b # right
        BY <4>2, <3>3, <1>7, <4>1
      <4>4. ASSUME t.parent[a] = p, t.rank[a] < place, t.rank[b] >= place PROVE FALSE
        <5>1. t.rank[a] = place - 1 /\ left # NULL
          BY <4>2, <4>4, <1>1, <1>4, <1>7
        <5>2. left = a
          BY <5>1, <4>2, <4>4, <1>1, <1>4, <1>7 DEF Whole, Ordered
        <5>3. QED
          BY <5>2, <3>3
      <4>5. QED
        BY <3>3, <4>1, <4>2, <4>3, <4>4, <1>1, <1>4, <1>6
    <3>4. QED
      BY <3>1, <3>2, <3>3
  <2>2. ASSUME NEW a \in Node, NEW b \in Node, u.prev[b] = a
        PROVE  u.next[a] = b
    <3>1. CASE b = x \/ b = right
      BY <2>2, <3>1, <1>1, <1>3, <1>6, <1>7 DEF TreeAssumption
    <3>2. CASE b # x /\ b # right
      <4>1. t.prev[b] = a /\ a # x /\ a # NULL
        BY <2>2, <3>2, <1>2, <1>6 DEF TreeAssumption
      <4>2. t.next[a] = b
        BY <4>1, PrevOf
      <4>3. a # left
        BY <4>1, <4>2, <3>2, <1>7
      <4>4. QED
        BY <4>1, <4>2, <4>3, <1>6
    <3>3. QED
      BY <3>1, <3>2
  <2>3. QED
    BY <2>1, <2>2 DEF DoublyLinked
<1>11. EndsHeld(u)
  <2>1. ASSUME NEW q \in Node, NEW n \in Node, u.firstChild[q] = n
        PROVE  u.parent[n] = q /\ u.prev[n] = NULL /\ u.rank[n] = 1
    <3>1. CASE left = NULL /\ q = p
      BY <2>1, <3>1, <1>6, <1>7
    <3>2. CASE ~ (left = NULL /\ q = p)
      <4>1. t.firstChild[q] = n /\ n # x
        BY <2>1, <3>2, <1>2, <1>6
      <4>2. t.parent[n] = q /\ t.prev[n] = NULL /\ t.rank[n] = 1
        BY <4>1, FirstOf DEF TreeAssumption
      <4>3. n # right
        BY <4>2, <3>2, <1>1, <1>7 DEF TreeAssumption
      <4>4. ~ (q = p /\ 1 >= place)
        BY <3>2, <1>1, <1>4, <1>7
      <4>5. QED
        BY <4>1, <4>2, <4>3, <4>4, <1>6
    <3>3. QED
      BY <3>1, <3>2
  <2>2. ASSUME NEW q \in Node, NEW n \in Node, u.lastChild[q] = n
        PROVE  u.parent[n] = q /\ u.next[n] = NULL /\ u.rank[n] > 0
    <3>1. CASE right = NULL /\ q = p
      BY <2>2, <3>1, <1>1, <1>6, <1>7
    <3>2. CASE ~ (right = NULL /\ q = p)
      <4>1. t.lastChild[q] = n /\ n # x
        BY <2>2, <3>2, <1>2, <1>6
      <4>2. t.parent[n] = q /\ t.next[n] = NULL /\ t.rank[n] > 0
        BY <4>1, LastOf DEF TreeAssumption
      <4>3. n # left
        BY <4>2, <3>2, <1>1, <1>7 DEF TreeAssumption
      <4>4. QED
        BY <4>1, <4>2, <4>3, <1>1, <1>4, <1>6
    <3>3. QED
      BY <3>1, <3>2
  <2>3. ASSUME NEW q \in Node
        PROVE  u.firstChild[q] = NULL <=> u.lastChild[q] = NULL
    <3>1. t.firstChild[q] = NULL <=> t.lastChild[q] = NULL
      BY DEF Whole, EndsHeld
    <3>2. QED
      BY <3>1, <1>1, <1>6, <1>7
  <2>4. ASSUME NEW q \in Node, NEW n \in Node, u.parent[n] = q, u.rank[n] > 0
        PROVE  /\ u.prev[n] = NULL => u.firstChild[q] = n
               /\ u.next[n] = NULL => u.lastChild[q] = n
    <3>1. CASE n = x
      BY <2>4, <3>1, <1>6
    <3>2. CASE n # x
      <4>1. t.parent[n] = q /\ t.rank[n] > 0
        BY <2>4, <3>2, <1>1, <1>4, <1>6
      <4>2. /\ t.prev[n] = NULL => t.firstChild[q] = n
            /\ t.next[n] = NULL => t.lastChild[q] = n
        BY <4>1, PlaceOf
      <4>3. u.prev[n] = NULL => u.firstChild[q] = n
        BY <3>2, <4>2, <1>1, <1>6, <1>7
      <4>4. u.next[n] = NULL => u.lastChild[q] = n
        BY <3>2, <4>2, <1>1, <1>6, <1>7
      <4>5. QED
        BY <4>3, <4>4
    <3>3. QED
      BY <3>1, <3>2
  <2>5. QED
    BY <2>1, <2>2, <2>3, <2>4 DEF EndsHeld
<1>12. Ordered(u)
  <2>1. ASSUME NEW a \in Node, NEW b \in Node, u.parent[a] # NULL, u.parent[a] = u.parent[b],
               u.rank[a] = u.rank[b], u.rank[a] > 0
        PROVE  a = b
    <3>1. ASSUME NEW c \in Node, c # x, u.parent[c] = p PROVE u.rank[c] # place
      BY <3>1, <1>1, <1>4, <1>6
    <3>2. CASE a = x \/ b = x
      BY <2>1, <3>1, <3>2, <1>6
    <3>3. CASE a # x /\ b # x
      <4>1. /\ t.parent[a] # NULL /\ t.parent[a] = t.parent[b]
            /\ t.rank[a] = t.rank[b] /\ t.rank[a] > 0
        BY <2>1, <3>3, <1>1, <1>4, <1>6
      <4>2. QED
        BY <4>1 DEF Whole, Ordered
    <3>4. QED
      BY <3>2, <3>3
  <2>2. \A a, b \in Node : u.parent[a] = b => u.depth[a] = u.depth[b] + 1
    BY DEF Spliced, DepthsFit
  <2>3. ASSUME NEW a \in Node, u.parent[a] = NULL
        PROVE  /\ u.depth[a] = 0 /\ u.rank[a] = 0 /\ u.prev[a] = NULL /\ u.next[a] = NULL
    <3>1. a # x /\ t.parent[a] = NULL
      BY <2>3, <1>1, <1>6
    <3>2. /\ t.rank[a] = 0 /\ t.prev[a] = NULL /\ t.next[a] = NULL
          /\ a # left /\ a # right
      BY <3>1, <1>1, <1>7 DEF Whole, Ordered
    <3>3. u.depth[a] = 0
      BY <2>3 DEF Spliced, DepthsFit
    <3>4. QED
      BY <3>1, <3>2, <3>3, <1>1, <1>6
  <2>4. ASSUME NEW a \in Node, u.rank[a] = 0
        PROVE  u.prev[a] = NULL /\ u.next[a] = NULL
    <3>1. a # x /\ t.rank[a] = 0
      BY <2>4, <1>1, <1>4, <1>6
    <3>2. t.prev[a] = NULL /\ t.next[a] = NULL /\ a # left /\ a # right
      BY <3>1, <1>1, <1>7 DEF Whole, Ordered
    <3>3. QED
      BY <3>1, <3>2, <1>6
  <2>5. ASSUME NEW a \in Node, u.type[a] = "document" PROVE u.parent[a] = NULL
    <3>1. a # x /\ t.parent[a] = NULL
      BY <2>5 DEF Spliced, Whole, Ordered
    <3>2. QED
      BY <3>1, <1>6
  <2>6. QED
    BY <2>1, <2>2, <2>3, <2>4, <2>5 DEF Ordered
<1>13. ASSUME NoneLoose(t) PROVE NoneLoose(u)
  BY <1>13, <1>1, <1>4, <1>6 DEF NoneLoose
<1>14. QED
  BY <1>5, <1>9, <1>10, <1>11, <1>12, <1>13 DEF Whole, Spliced

-----------------------------------------------------------------------------
(***************************************************************************)
(* The ways to link a node                                                 *)
(***************************************************************************)

\* No child that is linked comes after the last one.
LEMMA LastIsGreatest ==
  ASSUME TreeAssumption, NEW t, Whole(t), NEW x \in Node, t.rank[x] > 0
  PROVE  /\ t.lastChild[t.parent[x]] \in Node
         /\ t.rank[x] <= t.rank[t.lastChild[t.parent[x]]]
<1> DEFINE p == t.parent[x]
           last == t.lastChild[p]
           After(y) == t.parent[y] = p /\ t.rank[y] > t.rank[last]
           Places == {k \in Nat : \E y \in Node : After(y) /\ t.rank[y] = k}
<1>1. p \in Node /\ p # NULL
  BY PlaceOf
<1>2. last \in Node /\ last # NULL
  BY <1>1, HasFirst, Fields DEF Whole, EndsHeld, TreeAssumption
<1>3. t.parent[last] = p /\ t.next[last] = NULL /\ t.rank[last] > 0
  BY <1>1, <1>2, LastOf
<1>4. \A y \in Node : t.rank[y] \in Nat
  BY Fields DEF Whole
<1>5. SUFFICES ASSUME t.rank[x] > t.rank[last] PROVE FALSE
  BY <1>2, <1>4
<1>6. PICK k \in Places : \A j \in Places : k <= j
  <2>1. t.rank[x] \in Places
    BY <1>4, <1>5
  <2>2. Places \subseteq Nat /\ Places # {}
    BY <2>1
  <2>3. QED
    BY <2>2, LeastExists
<1>7. PICK y \in Node : After(y) /\ t.rank[y] = k
  BY <1>6
<1>8. t.prev[y] # NULL
  BY <1>2, <1>3, <1>4, <1>7, PlaceOf
<1> HIDE DEF last, p
<1> DEFINE m == t.prev[y]
<1>9. /\ m \in Node /\ t.next[m] = y /\ t.parent[m] = p
      /\ t.rank[m] > 0 /\ t.rank[y] = t.rank[m] + 1
  <2>1. /\ m \in Node /\ t.next[m] = y /\ t.parent[m] = t.parent[y]
        /\ t.rank[m] > 0 /\ t.rank[y] = t.rank[m] + 1
    BY <1>8, PrevOf
  <2>2. t.parent[y] = p
    BY <1>7
  <2>3. QED
    BY <2>1, <2>2
<1>10. t.rank[m] = t.rank[last]
  <2>1. SUFFICES ASSUME t.rank[m] > t.rank[last] PROVE FALSE
    BY <1>2, <1>4, <1>7, <1>9
  <2>2. t.rank[m] \in Places
    BY <2>1, <1>4, <1>9
  <2>3. QED
    BY <2>2, <1>4, <1>6, <1>7, <1>9
<1>11. m = last
  BY <1>1, <1>2, <1>3, <1>9, <1>10 DEF Whole, Ordered
<1>12. QED
  BY <1>3, <1>9, <1>11 DEF TreeAssumption

\* The fields of Linked; x is spliced in after the last child.
LEMMA LinkedSplices ==
  ASSUME TreeAssumption, NEW t, Whole(t), NEW x \in Alive(t),
         NEW p \in Alive(t), p \notin Family(t, x),
         \A m \in Node : t.parent[m] \in Family(t, x) => t.rank[m] > 0,
         NEW u, u = Linked(t, p, x)
  PROVE  \E place \in Nat : /\ Gap(t, p, t.lastChild[p], NULL, place)
                            /\ Spliced(t, u, p, x, t.lastChild[p], NULL, place)
<1> DEFINE last == t.lastChild[p]
           place == IF last = NULL THEN 1 ELSE t.rank[last] + 1
<1>1. /\ p \in Node /\ x \in Node /\ p # NULL /\ t \in Tree
      /\ last \in Node \cup {NULL} /\ t.firstChild[p] \in Node \cup {NULL}
      /\ \A n \in Node : t.rank[n] \in Nat /\ n # NULL
  BY Fields DEF Alive, TreeAssumption, Whole
<1>2. place \in Nat \ {0}
  BY <1>1
<1>3. last = NULL => t.firstChild[p] = NULL
  BY <1>1 DEF Whole, EndsHeld
<1>4. last # NULL => t.parent[last] = p /\ t.rank[last] > 0 /\ t.next[last] = NULL
  BY <1>1, LastOf
<1>5. Gap(t, p, last, NULL, place)
  BY <1>1, <1>2, <1>3, <1>4 DEF Gap
<1>6. ASSUME NEW n \in Node, t.parent[n] = p PROVE ~ (t.rank[n] >= place)
  <2>1. CASE t.rank[n] > 0
    <3>1. last \in Node /\ t.rank[n] <= t.rank[last]
      BY <1>6, <2>1, LastIsGreatest
    <3>2. QED
      BY <1>1, <3>1
  <2>2. CASE ~ (t.rank[n] > 0)
    BY <1>1, <1>2, <2>2
  <2>3. QED
    BY <2>1, <2>2
<1>7. /\ u.type = t.type /\ u.value = t.value
      /\ u.parent = Put(t.parent, x, p)
      /\ u.prev = Put(t.prev, x, last)
      /\ u.next = [n \in Node |-> IF n = x THEN NULL ELSE
                                  IF n = last THEN x ELSE t.next[n]]
      /\ u.firstChild = IF last = NULL THEN Put(t.firstChild, p, x) ELSE t.firstChild
      /\ u.lastChild = Put(t.lastChild, p, x)
      /\ u.rank = Put(t.rank, x, place)
      /\ u.depth = Lowered(t, p, x)
  BY <1>1 DEF Linked, Tree
<1>8. u = [type |-> u.type, value |-> u.value, parent |-> u.parent,
           firstChild |-> u.firstChild, lastChild |-> u.lastChild, prev |-> u.prev,
           next |-> u.next, rank |-> u.rank, depth |-> u.depth]
  BY <1>1 DEF Linked, Tree
<1>9. DepthsFit(u.parent, u.depth)
  BY <1>1, <1>7, LoweredFits
<1>10. u \in Tree
  <2>1. /\ u.parent \in Pointer /\ u.prev \in Pointer /\ u.next \in Pointer
        /\ u.firstChild \in Pointer /\ u.lastChild \in Pointer
    BY <1>1, <1>7 DEF Put, Pointer, Tree
  <2>2. u.rank \in [Node -> Nat]
    BY <1>1, <1>2, <1>7 DEF Put
  <2>3. u.depth \in [Node -> Nat]
    BY <1>9 DEF DepthsFit
  <2>4. u.type \in [Node -> Kind \cup {"free"}] /\ u.value \in [Node -> Value \cup {NULL}]
    BY <1>1, <1>7 DEF Tree
  <2>5. QED
    BY <1>8, <2>1, <2>2, <2>3, <2>4, TreeFrom
<1> HIDE DEF place
<1>11. /\ u.parent[x] = p /\ u.next[x] = NULL /\ u.prev[x] = last /\ u.rank[x] = place
       /\ \A n \in Node \ {x} :
            /\ u.parent[n] = t.parent[n]
            /\ u.next[n] = IF n = last THEN x ELSE t.next[n]
            /\ u.prev[n] = t.prev[n] /\ u.rank[n] = t.rank[n]
       /\ \A n \in Node :
            /\ u.firstChild[n] = IF last = NULL /\ n = p THEN x ELSE t.firstChild[n]
            /\ u.lastChild[n] = IF n = p THEN x ELSE t.lastChild[n]
  BY <1>1, <1>7 DEF Put, Tree, Pointer
<1>12. Spliced(t, u, p, x, last, NULL, place)
  BY <1>1, <1>6, <1>7, <1>9, <1>10, <1>11 DEF Spliced
<1>13. QED
  BY <1>2, <1>5, <1>12

\* x is spliced in before b, and the siblings from b on move up.
LEMMA InsertedBeforeSplices ==
  ASSUME TreeAssumption, NEW t, Whole(t), NEW x \in Alive(t),
         NEW p \in Alive(t), p \notin Family(t, x), t.rank[x] = 0,
         \A m \in Node : t.parent[m] \in Family(t, x) => t.rank[m] > 0,
         NEW b \in Node, t.parent[b] = p, t.rank[b] > 0,
         NEW u, u = InsertedBefore(t, p, b, x)
  PROVE  /\ Gap(t, p, t.prev[b], b, t.rank[b])
         /\ Spliced(t, u, p, x, t.prev[b], b, t.rank[b])
<1> DEFINE left == t.prev[b]
           place == t.rank[b]
<1>1. /\ p \in Node /\ x \in Node /\ p # NULL /\ t \in Tree /\ b # x
      /\ left \in Node \cup {NULL}
      /\ \A n \in Node : t.rank[n] \in Nat /\ n # NULL
  BY Fields DEF Alive, TreeAssumption, Whole
<1>2. place \in Nat \ {0}
  BY <1>1
<1>3. left = NULL => t.firstChild[p] = b /\ place = 1
  BY <1>1, PlaceOf
<1>4. left # NULL => /\ t.parent[left] = p /\ t.rank[left] > 0 /\ t.next[left] = b
                     /\ place = t.rank[left] + 1
  BY <1>1, PrevOf
<1>5. Gap(t, p, left, b, place)
  BY <1>1, <1>2, <1>3, <1>4 DEF Gap
<1>7. /\ u.type = t.type /\ u.value = t.value
      /\ u.parent = Put(t.parent, x, p)
      /\ u.next = [n \in Node |-> IF n = x THEN b ELSE
                                  IF n = left THEN x ELSE t.next[n]]
      /\ u.prev = [n \in Node |-> IF n = x THEN left ELSE
                                  IF n = b THEN x ELSE t.prev[n]]
      /\ u.firstChild = IF left = NULL THEN Put(t.firstChild, p, x) ELSE t.firstChild
      /\ u.lastChild = t.lastChild
      /\ u.rank = Put(Moved(t, p, place), x, place)
      /\ u.depth = Lowered(t, p, x)
  BY <1>1 DEF InsertedBefore, Tree
<1>8. u = [type |-> u.type, value |-> u.value, parent |-> u.parent,
           firstChild |-> u.firstChild, lastChild |-> u.lastChild, prev |-> u.prev,
           next |-> u.next, rank |-> u.rank, depth |-> u.depth]
  BY <1>1 DEF InsertedBefore, Tree
<1>9. DepthsFit(u.parent, u.depth)
  BY <1>1, <1>7, LoweredFits
<1>10. u \in Tree
  <2>1. /\ u.parent \in Pointer /\ u.prev \in Pointer /\ u.next \in Pointer
        /\ u.firstChild \in Pointer /\ u.lastChild \in Pointer
    BY <1>1, <1>7 DEF Put, Pointer, Tree
  <2>2. u.rank \in [Node -> Nat]
    BY <1>1, <1>2, <1>7 DEF Put, Moved
  <2>3. u.depth \in [Node -> Nat]
    BY <1>9 DEF DepthsFit
  <2>4. u.type \in [Node -> Kind \cup {"free"}] /\ u.value \in [Node -> Value \cup {NULL}]
    BY <1>1, <1>7 DEF Tree
  <2>5. QED
    BY <1>8, <2>1, <2>2, <2>3, <2>4, TreeFrom
<1> HIDE DEF place
<1>11. /\ u.parent[x] = p /\ u.next[x] = b /\ u.prev[x] = left /\ u.rank[x] = place
       /\ \A n \in Node \ {x} :
            /\ u.parent[n] = t.parent[n]
            /\ u.next[n] = IF n = left THEN x ELSE t.next[n]
            /\ u.prev[n] = IF n = b THEN x ELSE t.prev[n]
            /\ u.rank[n] = IF t.parent[n] = p /\ t.rank[n] >= place
                           THEN t.rank[n] + 1 ELSE t.rank[n]
       /\ \A n \in Node :
            /\ u.firstChild[n] = IF left = NULL /\ n = p THEN x ELSE t.firstChild[n]
            /\ u.lastChild[n] = t.lastChild[n]
  BY <1>1, <1>7 DEF Put, Tree, Pointer, Moved
<1>12. Spliced(t, u, p, x, left, b, place)
  BY <1>1, <1>7, <1>9, <1>10, <1>11 DEF Spliced
<1>13. QED
  BY <1>5, <1>12 DEF place

\* x is spliced in after b, and the siblings behind b move up.
LEMMA InsertedAfterSplices ==
  ASSUME TreeAssumption, NEW t, Whole(t), NEW x \in Alive(t),
         NEW p \in Alive(t), p \notin Family(t, x), t.rank[x] = 0,
         \A m \in Node : t.parent[m] \in Family(t, x) => t.rank[m] > 0,
         NEW b \in Node, t.parent[b] = p, t.rank[b] > 0,
         NEW u, u = InsertedAfter(t, p, b, x)
  PROVE  /\ Gap(t, p, b, t.next[b], t.rank[b] + 1)
         /\ Spliced(t, u, p, x, b, t.next[b], t.rank[b] + 1)
<1> DEFINE right == t.next[b]
           place == t.rank[b] + 1
<1>1. /\ p \in Node /\ x \in Node /\ p # NULL /\ t \in Tree /\ b # x
      /\ right \in Node \cup {NULL}
      /\ \A n \in Node : t.rank[n] \in Nat /\ n # NULL
  BY Fields DEF Alive, TreeAssumption, Whole
<1>2. place \in Nat \ {0}
  BY <1>1
<1>3. right = NULL => t.lastChild[p] = b
  BY <1>1, PlaceOf
<1>4. right # NULL => t.parent[right] = p /\ t.prev[right] = b /\ t.rank[right] = place
  BY <1>1, NextOf
<1>5. Gap(t, p, b, right, place)
  BY <1>1, <1>2, <1>3, <1>4 DEF Gap
<1>7. /\ u.type = t.type /\ u.value = t.value
      /\ u.parent = Put(t.parent, x, p)
      /\ u.prev = [n \in Node |-> IF n = x THEN b ELSE
                                  IF n = right THEN x ELSE t.prev[n]]
      /\ u.next = [n \in Node |-> IF n = x THEN right ELSE
                                  IF n = b THEN x ELSE t.next[n]]
      /\ u.firstChild = t.firstChild
      /\ u.lastChild = IF right = NULL THEN Put(t.lastChild, p, x) ELSE t.lastChild
      /\ u.rank = Put(Moved(t, p, place), x, place)
      /\ u.depth = Lowered(t, p, x)
  BY <1>1 DEF InsertedAfter, Tree
<1>8. u = [type |-> u.type, value |-> u.value, parent |-> u.parent,
           firstChild |-> u.firstChild, lastChild |-> u.lastChild, prev |-> u.prev,
           next |-> u.next, rank |-> u.rank, depth |-> u.depth]
  BY <1>1 DEF InsertedAfter, Tree
<1>9. DepthsFit(u.parent, u.depth)
  BY <1>1, <1>7, LoweredFits
<1>10. u \in Tree
  <2>1. /\ u.parent \in Pointer /\ u.prev \in Pointer /\ u.next \in Pointer
        /\ u.firstChild \in Pointer /\ u.lastChild \in Pointer
    BY <1>1, <1>7 DEF Put, Pointer, Tree
  <2>2. u.rank \in [Node -> Nat]
    BY <1>1, <1>2, <1>7 DEF Put, Moved
  <2>3. u.depth \in [Node -> Nat]
    BY <1>9 DEF DepthsFit
  <2>4. u.type \in [Node -> Kind \cup {"free"}] /\ u.value \in [Node -> Value \cup {NULL}]
    BY <1>1, <1>7 DEF Tree
  <2>5. QED
    BY <1>8, <2>1, <2>2, <2>3, <2>4, TreeFrom
<1> HIDE DEF place
<1>11. /\ u.parent[x] = p /\ u.next[x] = right /\ u.prev[x] = b /\ u.rank[x] = place
       /\ \A n \in Node \ {x} :
            /\ u.parent[n] = t.parent[n]
            /\ u.next[n] = IF n = b THEN x ELSE t.next[n]
            /\ u.prev[n] = IF n = right THEN x ELSE t.prev[n]
            /\ u.rank[n] = IF t.parent[n] = p /\ t.rank[n] >= place
                           THEN t.rank[n] + 1 ELSE t.rank[n]
       /\ \A n \in Node :
            /\ u.firstChild[n] = t.firstChild[n]
            /\ u.lastChild[n] = IF right = NULL /\ n = p THEN x ELSE t.lastChild[n]
  BY <1>1, <1>7 DEF Put, Tree, Pointer, Moved
<1>12. Spliced(t, u, p, x, b, right, place)
  BY <1>1, <1>7, <1>9, <1>10, <1>11 DEF Spliced
<1>13. QED
  BY <1>5, <1>12 DEF place

-----------------------------------------------------------------------------
(***************************************************************************)
(* A node and all that is below it is taken out                            *)
(***************************************************************************)

\* A family is a part of the tree of its own: it is below its first node, and
\* has all that is below one of its nodes.
LEMMA FamilyApart ==
  ASSUME TreeAssumption, NEW t, Whole(t), NEW r \in Node,
         \A m \in Node : t.parent[m] \in Family(t, r) => t.rank[m] > 0
  PROVE  /\ Family(t, r) \subseteq Node /\ r \in Family(t, r)
         /\ t.parent[r] \notin Family(t, r)
         /\ \A n \in Family(t, r) \ {r} : /\ n \in Alive(t) /\ t.rank[n] > 0
                                          /\ t.parent[n] \in Family(t, r)
         /\ \A n \in Node : t.parent[n] \in Family(t, r) => n \in Family(t, r) \ {r}
<1> DEFINE F == Family(t, r)
<1>1. F = Reach(t, t.firstChild, r) /\ Downward(t, t.firstChild) /\ F \subseteq Node /\ r \in F
  BY FamilyIsReach, ReachClosed DEF Whole
<1>2. \A n \in F \ {r} : /\ n \in Alive(t) /\ t.rank[n] > 0 /\ t.parent[n] \in F
                         /\ t.depth[n] > t.depth[r]
  BY <1>1, ReachBelow
<1>3. t.parent[r] \notin F
  <2>1. SUFFICES ASSUME t.parent[r] \in F PROVE FALSE
    OBVIOUS
  <2>2. /\ t.parent[r] \in Node /\ t.depth[r] = t.depth[t.parent[r]] + 1
        /\ t.depth[r] \in Nat /\ t.depth[t.parent[r]] \in Nat
    BY <1>1, <2>1, ParentOf, Fields DEF Whole, TreeAssumption
  <2>3. t.parent[r] # r
    BY <2>2
  <2>4. QED
    BY <1>2, <2>1, <2>2, <2>3
<1>4. \A n \in Node : t.parent[n] \in F => n \in F
  <2>1. SUFFICES ASSUME NEW n \in Node, t.parent[n] \in F PROVE n \in F
    OBVIOUS
  <2>2. t.rank[n] > 0 /\ t.parent[n] \in Node
    BY <2>1, <1>1
  <2>3. t.firstChild[t.parent[n]] # NULL
    BY <2>2, HasFirst
  <2>4. QED
    BY <2>1, <2>2, <2>3, <1>1, ReachChildren
<1>5. QED
  BY <1>1, <1>2, <1>3, <1>4

\* No pointer leads from outside into a family, save those to its first node.
LEMMA FamilyEntry ==
  ASSUME TreeAssumption, NEW t, Whole(t), NEW r \in Node,
         \A m \in Node : t.parent[m] \in Family(t, r) => t.rank[m] > 0,
         NEW n \in Node, n \notin Family(t, r)
  PROVE  /\ t.parent[n] \notin Family(t, r)
         /\ t.next[n] \in Family(t, r) => t.next[n] = r
         /\ t.prev[n] \in Family(t, r) => t.prev[n] = r
         /\ t.firstChild[n] \in Family(t, r) => t.firstChild[n] = r
         /\ t.lastChild[n] \in Family(t, r) => t.lastChild[n] = r
<1> DEFINE F == Family(t, r)
<1>1. /\ F \subseteq Node /\ r \in F
      /\ \A m \in F \ {r} : t.parent[m] \in F
      /\ \A m \in Node : t.parent[m] \in F => m \in F
      /\ NULL \notin F
  BY FamilyApart DEF TreeAssumption
<1> HIDE DEF F
<1>2. t.parent[n] \notin F
  BY <1>1 DEF F
<1>3. t.next[n] \in F => t.next[n] = r
  BY <1>1, <1>2, NextOf
<1>4. t.prev[n] \in F => t.prev[n] = r
  BY <1>1, <1>2, PrevOf
<1>5. t.firstChild[n] \in F => t.firstChild[n] = r
  BY <1>1, FirstOf DEF F
<1>6. t.lastChild[n] \in F => t.lastChild[n] = r
  BY <1>1, LastOf DEF F
<1>7. QED
  BY <1>2, <1>3, <1>4, <1>5, <1>6 DEF F

\* The fields of a node that has been deleted
Void(v, n) ==
  /\ v.type[n] = "free" /\ v.parent[n] = NULL /\ v.prev[n] = NULL /\ v.next[n] = NULL
  /\ v.firstChild[n] = NULL /\ v.lastChild[n] = NULL /\ v.rank[n] = 0 /\ v.depth[n] = 0

\* v is t without r and what is below it, and its neighbours closed up.
CutOut(t, v, r) ==
  LET gone == Family(t, r)
      p == t.parent[r]
      left == t.prev[r]
      right == t.next[r] IN
  /\ v \in Tree
  /\ \A n \in gone : Void(v, n)
  /\ \A n \in Node \ gone :
       /\ v.type[n] = t.type[n] /\ v.parent[n] = t.parent[n] /\ v.depth[n] = t.depth[n]
       /\ v.next[n] = IF n = left THEN right ELSE t.next[n]
       /\ v.prev[n] = IF n = right THEN left ELSE t.prev[n]
       /\ v.firstChild[n] = IF left = NULL /\ n = p THEN right ELSE t.firstChild[n]
       /\ v.lastChild[n] = IF right = NULL /\ n = p THEN left ELSE t.lastChild[n]
       /\ v.rank[n] = IF p # NULL /\ t.parent[n] = p /\ t.rank[n] > t.rank[r]
                      THEN t.rank[n] - 1 ELSE t.rank[n]

\* The tree stays one.
LEMMA CutOutWhole ==
  ASSUME TreeAssumption, NEW t, Whole(t), NEW r \in Alive(t),
         t.parent[r] # NULL => t.rank[r] > 0,
         \A m \in Node : t.parent[m] \in Family(t, r) => t.rank[m] > 0,
         NEW v, CutOut(t, v, r)
  PROVE  Whole(v) /\ Alive(v) = Alive(t) \ Family(t, r) /\ (NoneLoose(t) => NoneLoose(v))
<1> DEFINE G == Family(t, r)
           p == t.parent[r]
           left == t.prev[r]
           right == t.next[r]
<1>1. /\ r \in Node /\ r # NULL /\ t \in Tree
      /\ p \in Node \cup {NULL} /\ left \in Node \cup {NULL} /\ right \in Node \cup {NULL}
      /\ \A n \in Node : t.rank[n] \in Nat /\ t.depth[n] \in Nat /\ n # NULL
  BY Fields DEF Alive, TreeAssumption, Whole
<1>2. /\ G \subseteq Node /\ r \in G /\ p \notin G
      /\ \A n \in G \ {r} : n \in Alive(t) /\ t.rank[n] > 0 /\ t.parent[n] \in G
      /\ \A n \in Node : t.parent[n] \in G => n \in G \ {r}
  BY <1>1, FamilyApart
<1>3. \A n \in Node \ G :
        /\ t.parent[n] \notin G
        /\ t.next[n] \in G => t.next[n] = r
        /\ t.prev[n] \in G => t.prev[n] = r
        /\ t.firstChild[n] \in G => t.firstChild[n] = r
        /\ t.lastChild[n] \in G => t.lastChild[n] = r
  BY <1>1, FamilyEntry
<1>4. /\ \A n \in G : Void(v, n)
      /\ \A n \in Node \ G :
           /\ v.type[n] = t.type[n] /\ v.parent[n] = t.parent[n] /\ v.depth[n] = t.depth[n]
           /\ v.next[n] = IF n = left THEN right ELSE t.next[n]
           /\ v.prev[n] = IF n = right THEN left ELSE t.prev[n]
           /\ v.firstChild[n] = IF left = NULL /\ n = p THEN right ELSE t.firstChild[n]
           /\ v.lastChild[n] = IF right = NULL /\ n = p THEN left ELSE t.lastChild[n]
           /\ v.rank[n] = IF p # NULL /\ t.parent[n] = p /\ t.rank[n] > t.rank[r]
                          THEN t.rank[n] - 1 ELSE t.rank[n]
  BY DEF CutOut
<1>5. left # NULL => /\ left \in Node /\ t.next[left] = r /\ t.parent[left] = p /\ p \in Node
                     /\ t.rank[left] > 0 /\ t.rank[r] = t.rank[left] + 1
                     /\ left \notin G /\ left \in Alive(t)
  <2>1. SUFFICES ASSUME left # NULL PROVE /\ left \in Node /\ t.next[left] = r /\ t.parent[left] = p
                     /\ p \in Node /\ t.rank[left] > 0 /\ t.rank[r] = t.rank[left] + 1
                     /\ left \notin G /\ left \in Alive(t)
    OBVIOUS
  <2>2. /\ left \in Node /\ t.next[left] = r /\ t.parent[left] = p /\ p \in Node
        /\ t.rank[left] > 0 /\ t.rank[r] = t.rank[left] + 1 /\ left \in Alive(t)
    BY <1>1, <2>1, PrevOf
  <2>3. left # r
    BY <1>1, <2>2
  <2>4. QED
    BY <1>2, <2>2, <2>3
<1>6. right # NULL => /\ right \in Node /\ t.prev[right] = r /\ t.parent[right] = p /\ p \in Node
                      /\ t.rank[r] > 0 /\ t.rank[right] = t.rank[r] + 1
                      /\ right \notin G /\ right \in Alive(t)
  <2>1. SUFFICES ASSUME right # NULL PROVE /\ right \in Node /\ t.prev[right] = r
                     /\ t.parent[right] = p /\ p \in Node
                     /\ t.rank[r] > 0 /\ t.rank[right] = t.rank[r] + 1
                     /\ right \notin G /\ right \in Alive(t)
    OBVIOUS
  <2>2. /\ right \in Node /\ t.prev[right] = r /\ t.parent[right] = p /\ p \in Node
        /\ t.rank[r] > 0 /\ t.rank[right] = t.rank[r] + 1 /\ right \in Alive(t)
    BY <1>1, <2>1, NextOf
  <2>3. right # r
    BY <1>1, <2>2
  <2>4. QED
    BY <1>2, <2>2, <2>3
<1>7. p # NULL => /\ p \in Node /\ t.rank[r] > 0
                  /\ left = NULL => t.firstChild[p] = r /\ t.rank[r] = 1
                  /\ right = NULL => t.lastChild[p] = r
  BY <1>1, PlaceOf
<1> HIDE DEF G, p, left, right
<1>8. Alive(v) = Alive(t) \ G
  BY <1>2, <1>4 DEF Alive, Void
<1>9. NothingDangles(v)
  <2>1. ASSUME NEW n \in Node
        PROVE {v.parent[n], v.firstChild[n], v.lastChild[n], v.prev[n], v.next[n]}
                \subseteq Alive(v) \cup {NULL}
    <3>1. CASE n \in G
      BY <3>1, <1>4 DEF Void
    <3>2. CASE n \notin G
      <4>1. {t.parent[n], t.firstChild[n], t.lastChild[n], t.prev[n], t.next[n]}
              \subseteq Alive(t) \cup {NULL}
        BY DEF Whole, NothingDangles
      <4>2. v.parent[n] \in Alive(v) \cup {NULL}
        BY <3>2, <4>1, <1>3, <1>4, <1>8
      <4>3. v.next[n] \in Alive(v) \cup {NULL}
        <5>1. t.next[n] = r => n = left
          BY <1>1, NextOf DEF left
        <5>2. QED
          BY <3>2, <4>1, <5>1, <1>3, <1>4, <1>6, <1>8
      <4>4. v.prev[n] \in Alive(v) \cup {NULL}
        <5>1. t.prev[n] = r => n = right
          BY <1>1, PrevOf DEF right
        <5>2. QED
          BY <3>2, <4>1, <5>1, <1>3, <1>4, <1>5, <1>8
      <4>5. v.firstChild[n] \in Alive(v) \cup {NULL}
        <5>1. t.firstChild[n] = r => n = p /\ left = NULL
          BY <1>1, FirstOf DEF left, p
        <5>2. QED
          BY <3>2, <4>1, <5>1, <1>3, <1>4, <1>6, <1>8
      <4>6. v.lastChild[n] \in Alive(v) \cup {NULL}
        <5>1. t.lastChild[n] = r => n = p /\ right = NULL
          BY <1>1, LastOf DEF right, p
        <5>2. QED
          BY <3>2, <4>1, <5>1, <1>3, <1>4, <1>5, <1>8
      <4>7. QED
        BY <4>2, <4>3, <4>4, <4>5, <4>6
    <3>3. QED
      BY <3>1, <3>2
  <2>2. ASSUME NEW n \in Free(v)
        PROVE  /\ v.parent[n] = NULL /\ v.prev[n] = NULL
               /\ v.next[n] = NULL /\ v.rank[n] = 0 /\ v.depth[n] = 0
               /\ v.firstChild[n] = NULL /\ v.lastChild[n] = NULL
    <3>1. CASE n \in G
      BY <3>1, <1>4 DEF Void
    <3>2. CASE n \notin G
      <4>1. n \in Node /\ n \in Free(t)
        BY <3>2, <1>4 DEF Free
      <4>2. /\ t.parent[n] = NULL /\ t.prev[n] = NULL /\ t.next[n] = NULL
            /\ t.firstChild[n] = NULL /\ t.lastChild[n] = NULL
            /\ t.rank[n] = 0 /\ t.depth[n] = 0
        BY <4>1, FreeIsAlone
      <4>3. n # left /\ n # right /\ n # p
        <5>1. n \notin Alive(t)
          BY <4>1 DEF Free, Alive
        <5>2. n # p
          BY <1>1, <4>1, <5>1, ParentOf DEF p
        <5>3. QED
          BY <1>1, <1>5, <1>6, <4>1, <5>1, <5>2
      <4>4. QED
        BY <3>2, <1>4, <4>1, <4>2, <4>3
    <3>3. QED
      BY <3>1, <3>2
  <2>3. QED
    BY <2>1, <2>2 DEF NothingDangles
<1>10. DoublyLinked(v)
  <2>1. ASSUME NEW a \in Node, NEW b \in Node, v.next[a] = b
        PROVE  /\ v.prev[b] = a /\ v.parent[b] = v.parent[a]
               /\ v.rank[b] = v.rank[a] + 1 /\ v.rank[a] > 0
    <3>1. a \notin G
      BY <2>1, <1>1, <1>4 DEF Void
    <3>2. CASE a = left
      <4>1. b = right /\ right # NULL
        BY <2>1, <3>1, <3>2, <1>1, <1>4
      <4>2. QED
        BY <3>1, <3>2, <4>1, <1>1, <1>4, <1>5, <1>6
    <3>3. CASE a # left
      <4>1. t.next[a] = b /\ b # NULL
        BY <2>1, <3>1, <3>3, <1>1, <1>4
      <4>2. /\ t.prev[b] = a /\ t.parent[b] = t.parent[a] /\ t.parent[a] # NULL
            /\ t.rank[a] > 0 /\ t.rank[b] = t.rank[a] + 1
        BY <4>1, NextOf
      <4>3. b # r /\ b # right
        BY <3>1, <3>3, <4>2, <1>1, <1>2, <1>6 DEF left
      <4>4. b \notin G
        BY <3>1, <4>1, <4>3, <1>3
      <4>5. t.parent[a] = p => t.rank[a] # t.rank[r]
        BY <3>1, <4>2, <1>1, <1>2 DEF p, Whole, Ordered
      <4>6. QED
        BY <3>1, <3>3, <4>1, <4>2, <4>3, <4>4, <4>5, <1>1, <1>4, <1>7
    <3>4. QED
      BY <3>2, <3>3
  <2>2. ASSUME NEW a \in Node, NEW b \in Node, v.prev[b] = a
        PROVE  v.next[a] = b
    <3>1. b \notin G
      BY <2>2, <1>1, <1>4 DEF Void
    <3>2. CASE b = right
      BY <2>2, <3>1, <3>2, <1>1, <1>4, <1>5
    <3>3. CASE b # right
      <4>1. t.prev[b] = a /\ a # NULL
        BY <2>2, <3>1, <3>3, <1>1, <1>4
      <4>2. t.next[a] = b
        BY <4>1, PrevOf
      <4>3. a # left /\ a # r
        BY <3>1, <3>3, <4>2, <1>1, <1>2, <1>5 DEF right
      <4>4. a \notin G
        BY <3>1, <4>1, <4>3, <1>3
      <4>5. QED
        BY <4>2, <4>3, <4>4, <1>4
    <3>4. QED
      BY <3>2, <3>3
  <2>3. QED
    BY <2>1, <2>2 DEF DoublyLinked
<1>11. EndsHeld(v)
  <2>1. ASSUME NEW q \in Node, NEW n \in Node, v.firstChild[q] = n
        PROVE  v.parent[n] = q /\ v.prev[n] = NULL /\ v.rank[n] = 1
    <3>1. q \notin G
      BY <2>1, <1>1, <1>4 DEF Void
    <3>2. CASE left = NULL /\ q = p
      <4>1. n = right /\ right # NULL
        BY <2>1, <3>1, <3>2, <1>1, <1>4
      <4>2. /\ n \in Node \ G /\ t.parent[n] = p /\ p \in Node /\ p # NULL
            /\ t.rank[r] = 1 /\ t.rank[n] = 2
        BY <3>2, <4>1, <1>1, <1>6, <1>7
      <4>3. v.parent[n] = q /\ v.prev[n] = NULL
        BY <3>2, <4>1, <4>2, <1>4
      <4>4. v.rank[n] = 1
        BY <4>2, <1>4
      <4>5. QED
        BY <4>3, <4>4
    <3>3. CASE ~ (left = NULL /\ q = p)
      <4>1. t.firstChild[q] = n /\ n # NULL
        BY <2>1, <3>1, <3>3, <1>1, <1>4
      <4>2. t.parent[n] = q /\ t.prev[n] = NULL /\ t.rank[n] = 1
        BY <4>1, FirstOf
      <4>3. n # right /\ n # r
        BY <4>2, <3>3, <1>1, <1>6 DEF p, left
      <4>4. n \notin G
        BY <3>1, <4>1, <4>3, <1>3
      <4>5. QED
        BY <4>2, <4>3, <4>4, <1>1, <1>4, <1>7
    <3>4. QED
      BY <3>2, <3>3
  <2>2. ASSUME NEW q \in Node, NEW n \in Node, v.lastChild[q] = n
        PROVE  v.parent[n] = q /\ v.next[n] = NULL /\ v.rank[n] > 0
    <3>1. q \notin G
      BY <2>2, <1>1, <1>4 DEF Void
    <3>2. CASE right = NULL /\ q = p
      <4>1. n = left /\ left # NULL
        BY <2>2, <3>1, <3>2, <1>1, <1>4
      <4>2. QED
        BY <3>2, <4>1, <1>1, <1>4, <1>5
    <3>3. CASE ~ (right = NULL /\ q = p)
      <4>1. t.lastChild[q] = n /\ n # NULL
        BY <2>2, <3>1, <3>3, <1>1, <1>4
      <4>2. t.parent[n] = q /\ t.next[n] = NULL /\ t.rank[n] > 0
        BY <4>1, LastOf
      <4>3. n # left /\ n # r
        BY <4>2, <3>3, <1>1, <1>5 DEF p, right
      <4>4. n \notin G
        BY <3>1, <4>1, <4>3, <1>3
      <4>5. QED
        BY <4>2, <4>3, <4>4, <1>1, <1>4, <1>7
    <3>4. QED
      BY <3>2, <3>3
  <2>3. ASSUME NEW q \in Node
        PROVE  v.firstChild[q] = NULL <=> v.lastChild[q] = NULL
    <3>1. t.firstChild[q] = NULL <=> t.lastChild[q] = NULL
      BY DEF Whole, EndsHeld
    <3>2. CASE q \in G
      BY <3>2, <1>4 DEF Void
    <3>3. CASE q \notin G
      BY <3>1, <3>3, <1>1, <1>4, <1>7
    <3>4. QED
      BY <3>2, <3>3
  <2>4. ASSUME NEW q \in Node, NEW n \in Node, v.parent[n] = q, v.rank[n] > 0
        PROVE  /\ v.prev[n] = NULL => v.firstChild[q] = n
               /\ v.next[n] = NULL => v.lastChild[q] = n
    <3>1. n \notin G
      BY <2>4, <1>4 DEF Void
    <3>2. t.parent[n] = q /\ t.rank[n] > 0 /\ q \notin G
      BY <2>4, <3>1, <1>1, <1>3, <1>4
    <3>3. /\ t.prev[n] = NULL => t.firstChild[q] = n
          /\ t.next[n] = NULL => t.lastChild[q] = n
      BY <3>2, PlaceOf
    <3>4. v.prev[n] = NULL => v.firstChild[q] = n
      BY <3>1, <3>2, <3>3, <1>1, <1>2, <1>4, <1>6, <1>7
    <3>5. v.next[n] = NULL => v.lastChild[q] = n
      BY <3>1, <3>2, <3>3, <1>1, <1>2, <1>4, <1>5, <1>7
    <3>6. QED
      BY <3>4, <3>5
  <2>5. QED
    BY <2>1, <2>2, <2>3, <2>4 DEF EndsHeld
<1>12. \A n \in Node \ G : t.rank[n] > 0 => v.rank[n] > 0
  BY <1>1, <1>4, <1>7
<1>13. Ordered(v)
  <2>1. ASSUME NEW a \in Node, NEW b \in Node, v.parent[a] # NULL, v.parent[a] = v.parent[b],
               v.rank[a] = v.rank[b], v.rank[a] > 0
        PROVE  a = b
    <3>1. a \notin G /\ b \notin G
      BY <2>1, <1>4 DEF Void
    <3>2. /\ t.parent[a] # NULL /\ t.parent[a] = t.parent[b]
          /\ t.rank[a] > 0 /\ t.rank[b] > 0
      BY <2>1, <3>1, <1>1, <1>4
    <3>3. \A c \in {a, b} : t.parent[c] = p => t.rank[c] # t.rank[r]
      BY <3>1, <3>2, <1>1, <1>2 DEF p, Whole, Ordered
    <3>4. t.rank[a] = t.rank[b]
      <4>1. t.rank[a] \in Nat /\ t.rank[b] \in Nat /\ t.rank[r] \in Nat
        BY <1>1
      <4>2. CASE p # NULL /\ t.parent[a] = p
        BY <2>1, <3>1, <3>2, <3>3, <4>1, <4>2, <1>4
      <4>3. CASE ~ (p # NULL /\ t.parent[a] = p)
        BY <2>1, <3>1, <3>2, <4>3, <1>4
      <4>4. QED
        BY <4>2, <4>3
    <3>5. QED
      BY <3>2, <3>4 DEF Whole, Ordered
  <2>2. ASSUME NEW a \in Node, NEW b \in Node, v.parent[a] = b
        PROVE  v.depth[a] = v.depth[b] + 1
    <3>1. a \notin G
      BY <2>2, <1>1, <1>4 DEF Void
    <3>2. t.parent[a] = b /\ b \notin G
      BY <2>2, <3>1, <1>3, <1>4
    <3>3. QED
      BY <3>1, <3>2, <1>4 DEF Whole, Ordered
  <2>3. ASSUME NEW a \in Node, v.parent[a] = NULL
        PROVE  /\ v.depth[a] = 0 /\ v.rank[a] = 0 /\ v.prev[a] = NULL /\ v.next[a] = NULL
    <3>1. CASE a \in G
      BY <3>1, <1>4 DEF Void
    <3>2. CASE a \notin G
      <4>1. /\ t.parent[a] = NULL /\ t.depth[a] = 0 /\ t.rank[a] = 0
            /\ t.prev[a] = NULL /\ t.next[a] = NULL
        BY <2>3, <3>2, <1>4 DEF Whole, Ordered
      <4>2. a # left /\ a # right
        BY <4>1, <1>1, <1>5, <1>6
      <4>3. QED
        BY <3>2, <4>1, <4>2, <1>1, <1>4
    <3>3. QED
      BY <3>1, <3>2
  <2>4. ASSUME NEW a \in Node, v.rank[a] = 0
        PROVE  v.prev[a] = NULL /\ v.next[a] = NULL
    <3>1. CASE a \in G
      BY <3>1, <1>4 DEF Void
    <3>2. CASE a \notin G
      <4>1. t.rank[a] = 0
        BY <2>4, <3>2, <1>1, <1>12
      <4>2. t.prev[a] = NULL /\ t.next[a] = NULL
        BY <4>1 DEF Whole, Ordered
      <4>3. a # left /\ a # right
        BY <4>1, <1>1, <1>5, <1>6
      <4>4. QED
        BY <3>2, <4>2, <4>3, <1>4
    <3>3. QED
      BY <3>1, <3>2
  <2>5. ASSUME NEW a \in Node, v.type[a] = "document" PROVE v.parent[a] = NULL
    <3>1. a \notin G
      BY <2>5, <1>4 DEF Void
    <3>2. t.type[a] = "document"
      BY <2>5, <3>1, <1>4
    <3>3. QED
      BY <3>1, <3>2, <1>4 DEF Whole, Ordered
  <2>6. QED
    BY <2>1, <2>2, <2>3, <2>4, <2>5 DEF Ordered
<1>14. ASSUME NoneLoose(t) PROVE NoneLoose(v)
  <2>1. ASSUME NEW n \in Node, v.parent[n] # NULL PROVE v.rank[n] > 0
    <3>1. n \notin G
      BY <2>1, <1>4 DEF Void
    <3>2. QED
      BY <2>1, <3>1, <1>4, <1>12, <1>14 DEF NoneLoose
  <2>2. QED
    BY <2>1 DEF NoneLoose
<1>15. QED
  BY <1>8, <1>9, <1>10, <1>11, <1>13, <1>14 DEF Whole, CutOut, G

-----------------------------------------------------------------------------
(***************************************************************************)
(* The ways to delete                                                      *)
(***************************************************************************)

\* What delete leaves of the fields
LEMMA DeletedFields ==
  ASSUME NEW t \in Tree, NEW gone \in SUBSET Node
  PROVE  /\ Deleted(t, gone) \in Tree
         /\ \A n \in gone : Void(Deleted(t, gone), n)
         /\ \A n \in Node \ gone :
              /\ Deleted(t, gone).type[n] = t.type[n]
              /\ Deleted(t, gone).parent[n] = t.parent[n]
              /\ Deleted(t, gone).firstChild[n] = t.firstChild[n]
              /\ Deleted(t, gone).lastChild[n] = t.lastChild[n]
              /\ Deleted(t, gone).prev[n] = t.prev[n]
              /\ Deleted(t, gone).next[n] = t.next[n]
              /\ Deleted(t, gone).rank[n] = t.rank[n]
              /\ Deleted(t, gone).depth[n] = t.depth[n]
<1> DEFINE v == Deleted(t, gone)
<1>1. /\ v.type = Wipe(t.type, gone, "free") /\ v.value = Wipe(t.value, gone, NULL)
      /\ v.parent = Wipe(t.parent, gone, NULL)
      /\ v.firstChild = Wipe(t.firstChild, gone, NULL)
      /\ v.lastChild = Wipe(t.lastChild, gone, NULL)
      /\ v.prev = Wipe(t.prev, gone, NULL) /\ v.next = Wipe(t.next, gone, NULL)
      /\ v.rank = Wipe(t.rank, gone, 0) /\ v.depth = Wipe(t.depth, gone, 0)
  BY DEF Deleted
<1>2. v = [type |-> v.type, value |-> v.value, parent |-> v.parent,
           firstChild |-> v.firstChild, lastChild |-> v.lastChild, prev |-> v.prev,
           next |-> v.next, rank |-> v.rank, depth |-> v.depth]
  BY DEF Deleted
<1> HIDE DEF v
<1>3. /\ v.type \in [Node -> Kind \cup {"free"}] /\ v.value \in [Node -> Value \cup {NULL}]
      /\ v.parent \in Pointer /\ v.firstChild \in Pointer /\ v.lastChild \in Pointer
      /\ v.prev \in Pointer /\ v.next \in Pointer
      /\ v.rank \in [Node -> Nat] /\ v.depth \in [Node -> Nat]
  BY <1>1 DEF Wipe, Tree, Pointer
<1>4. v \in Tree
  BY <1>2, <1>3, TreeFrom
<1>5. \A n \in gone : Void(v, n)
  BY <1>1 DEF Void, Wipe
<1>6. \A n \in Node \ gone :
        /\ v.type[n] = t.type[n] /\ v.parent[n] = t.parent[n]
        /\ v.firstChild[n] = t.firstChild[n] /\ v.lastChild[n] = t.lastChild[n]
        /\ v.prev[n] = t.prev[n] /\ v.next[n] = t.next[n]
        /\ v.rank[n] = t.rank[n] /\ v.depth[n] = t.depth[n]
  BY <1>1 DEF Wipe
<1>7. QED
  BY <1>4, <1>5, <1>6 DEF v

\* A node at the top goes with its family.
LEMMA DeletedCutsOut ==
  ASSUME TreeAssumption, NEW t, Whole(t), NEW r \in Alive(t), t.parent[r] = NULL
  PROVE  CutOut(t, Deleted(t, Family(t, r)), r)
<1> DEFINE G == Family(t, r)
           v == Deleted(t, G)
<1>1. r \in Node /\ t \in Tree /\ \A n \in Node : n # NULL
  BY DEF Alive, TreeAssumption, Whole
<1>2. G \subseteq Node
  BY DEF Family
<1>3. t.prev[r] = NULL /\ t.next[r] = NULL
  BY <1>1 DEF Whole, Ordered
<1>4. /\ v \in Tree /\ \A n \in G : Void(v, n)
      /\ \A n \in Node \ G :
           /\ v.type[n] = t.type[n] /\ v.parent[n] = t.parent[n]
           /\ v.firstChild[n] = t.firstChild[n] /\ v.lastChild[n] = t.lastChild[n]
           /\ v.prev[n] = t.prev[n] /\ v.next[n] = t.next[n]
           /\ v.rank[n] = t.rank[n] /\ v.depth[n] = t.depth[n]
  BY <1>1, <1>2, DeletedFields
<1> HIDE DEF v, G
<1>5. QED
  BY <1>1, <1>3, <1>4 DEF CutOut, v, G

\* A node is taken from its siblings, and then deleted with its family, which is
\* what it was: passing over a node changes nothing below it.
LEMMA BypassedCutsOut ==
  ASSUME TreeAssumption, NEW t, Whole(t), NEW r \in Node,
         NEW p \in Node, t.parent[r] = p, t.rank[r] > 0,
         \A m \in Node : t.parent[m] \in Family(t, r) => t.rank[m] > 0,
         NEW u, u = Bypassed(t, p, r)
  PROVE  CutOut(t, Deleted(u, Family(u, r)), r)
<1> DEFINE G == Family(t, r)
           left == t.prev[r]
           right == t.next[r]
           v == Deleted(u, G)
<1>1. /\ t \in Tree /\ p # NULL
      /\ left \in Node \cup {NULL} /\ right \in Node \cup {NULL}
      /\ \A n \in Node : t.rank[n] \in Nat /\ t.depth[n] \in Nat /\ n # NULL
  BY Fields DEF TreeAssumption, Whole
<1>2. /\ G \subseteq Node /\ r \in G /\ p \notin G
      /\ \A n \in G \ {r} : n \in Alive(t) /\ t.rank[n] > 0 /\ t.parent[n] \in G
  BY FamilyApart
<1>3. left # NULL => left # r /\ t.parent[left] = p
  BY <1>1, PrevOf
<1>4. right # NULL => right # r /\ t.parent[right] = p
  BY <1>1, NextOf
<1>5. left \notin G /\ right \notin G
  BY <1>1, <1>2, <1>3, <1>4
<1>6. /\ u.type = t.type /\ u.value = t.value /\ u.parent = t.parent /\ u.depth = t.depth
      /\ u.prev = IF right = NULL THEN t.prev ELSE Put(t.prev, right, left)
      /\ u.lastChild = IF right = NULL THEN Put(t.lastChild, p, left) ELSE t.lastChild
      /\ u.next = IF left = NULL THEN t.next ELSE Put(t.next, left, right)
      /\ u.firstChild = IF left = NULL THEN Put(t.firstChild, p, right) ELSE t.firstChild
      /\ u.rank = [n \in Node |-> IF t.parent[n] = p /\ t.rank[n] > t.rank[r]
                                  THEN t.rank[n] - 1 ELSE t.rank[n]]
  BY <1>1 DEF Bypassed, Tree
<1>7. u = [type |-> u.type, value |-> u.value, parent |-> u.parent,
           firstChild |-> u.firstChild, lastChild |-> u.lastChild, prev |-> u.prev,
           next |-> u.next, rank |-> u.rank, depth |-> u.depth]
  BY <1>1 DEF Bypassed, Tree
<1>8. u \in Tree
  <2>1. /\ u.parent \in Pointer /\ u.prev \in Pointer /\ u.next \in Pointer
        /\ u.firstChild \in Pointer /\ u.lastChild \in Pointer
    BY <1>1, <1>6 DEF Put, Pointer, Tree
  <2>2. u.rank \in [Node -> Nat]
    BY <1>1, <1>6
  <2>3. /\ u.type \in [Node -> Kind \cup {"free"}] /\ u.value \in [Node -> Value \cup {NULL}]
        /\ u.depth \in [Node -> Nat]
    BY <1>1, <1>6 DEF Tree
  <2>4. QED
    BY <1>7, <2>1, <2>2, <2>3, TreeFrom
<1>9. \A n \in Node :
        /\ u.next[n] = IF n = left THEN right ELSE t.next[n]
        /\ u.prev[n] = IF n = right THEN left ELSE t.prev[n]
        /\ u.firstChild[n] = IF left = NULL /\ n = p THEN right ELSE t.firstChild[n]
        /\ u.lastChild[n] = IF right = NULL /\ n = p THEN left ELSE t.lastChild[n]
        /\ u.rank[n] = IF t.parent[n] = p /\ t.rank[n] > t.rank[r]
                       THEN t.rank[n] - 1 ELSE t.rank[n]
  BY <1>1, <1>6 DEF Put
<1>10. Family(u, r) = G
  <2>1. t.firstChild \in Pointer
    BY <1>1 DEF Tree
  <2>2. G = Reach(t, t.firstChild, r) /\ Family(u, r) = Reach(u, u.firstChild, r)
    BY <1>1, <1>8, FamilyIsReach
  <2>3. \A x \in G : u.firstChild[x] = t.firstChild[x] /\ u.next[x] = t.next[x]
    BY <1>2, <1>5, <1>9
  <2> HIDE DEF G
  <2>4. QED
    BY <1>1, <2>1, <2>2, <2>3, ReachSame
<1>11. /\ v \in Tree /\ \A n \in G : Void(v, n)
       /\ \A n \in Node \ G :
            /\ v.type[n] = u.type[n] /\ v.parent[n] = u.parent[n]
            /\ v.firstChild[n] = u.firstChild[n] /\ v.lastChild[n] = u.lastChild[n]
            /\ v.prev[n] = u.prev[n] /\ v.next[n] = u.next[n]
            /\ v.rank[n] = u.rank[n] /\ v.depth[n] = u.depth[n]
  BY <1>2, <1>8, DeletedFields
<1> HIDE DEF v, G
<1>12. CutOut(t, v, r)
  BY <1>1, <1>6, <1>9, <1>11 DEF CutOut, G
<1>13. QED
  BY <1>10, <1>12 DEF v

\* Clear takes what is below p, and p keeps its place.
LEMMA ClearedWhole ==
  ASSUME TreeAssumption, NEW t, Whole(t), NEW p \in Alive(t),
         \A m \in Node : t.parent[m] \in Family(t, p) => t.rank[m] > 0,
         NEW v, v = Cleared(t, p)
  PROVE  /\ Whole(v) /\ (NoneLoose(t) => NoneLoose(v))
         /\ Alive(v) = Alive(t) \ (Family(t, p) \ {p})
         /\ v.firstChild[p] = NULL /\ \A n \in Node : v.parent[n] # p
         /\ \A n \in Node \ (Family(t, p) \ {p}) :
              /\ v.type[n] = t.type[n] /\ v.parent[n] = t.parent[n]
              /\ v.depth[n] = t.depth[n] /\ v.rank[n] = t.rank[n]
              /\ v.prev[n] = t.prev[n] /\ v.next[n] = t.next[n]
              /\ n # p => /\ v.firstChild[n] = t.firstChild[n]
                          /\ v.lastChild[n] = t.lastChild[n]
<1> DEFINE F == Family(t, p)
           G == F \ {p}
           d == Deleted(t, G)
<1>1. /\ p \in Node /\ p # NULL /\ t \in Tree
      /\ \A n \in Node : t.rank[n] \in Nat /\ t.depth[n] \in Nat /\ n # NULL
  BY Fields DEF Alive, TreeAssumption, Whole
<1>2. /\ F \subseteq Node /\ p \in F /\ t.parent[p] \notin F
      /\ \A n \in G : n \in Alive(t) /\ t.rank[n] > 0 /\ t.parent[n] \in F
      /\ \A n \in Node : t.parent[n] \in F => n \in G
  BY <1>1, FamilyApart
<1>3. \A n \in Node \ F :
        /\ t.next[n] \in F => t.next[n] = p
        /\ t.prev[n] \in F => t.prev[n] = p
        /\ t.firstChild[n] \in F => t.firstChild[n] = p
        /\ t.lastChild[n] \in F => t.lastChild[n] = p
  BY <1>1, FamilyEntry
<1>4. t.next[p] \notin G /\ t.prev[p] \notin G
  BY <1>1, <1>2, NextOf, PrevOf
<1>5. /\ d \in Tree /\ \A n \in G : Void(d, n)
      /\ \A n \in Node \ G :
           /\ d.type[n] = t.type[n] /\ d.parent[n] = t.parent[n]
           /\ d.firstChild[n] = t.firstChild[n] /\ d.lastChild[n] = t.lastChild[n]
           /\ d.prev[n] = t.prev[n] /\ d.next[n] = t.next[n]
           /\ d.rank[n] = t.rank[n] /\ d.depth[n] = t.depth[n]
  BY <1>1, <1>2, DeletedFields
<1>6. v = [d EXCEPT !.firstChild[p] = NULL, !.lastChild[p] = NULL]
  BY DEF Cleared
<1> HIDE DEF d, F
<1>7. /\ v.type = d.type /\ v.value = d.value /\ v.parent = d.parent
      /\ v.prev = d.prev /\ v.next = d.next /\ v.rank = d.rank /\ v.depth = d.depth
      /\ v.firstChild = [d.firstChild EXCEPT ![p] = NULL]
      /\ v.lastChild = [d.lastChild EXCEPT ![p] = NULL]
  BY <1>5, <1>6 DEF Tree
<1>8. v = [type |-> v.type, value |-> v.value, parent |-> v.parent,
           firstChild |-> v.firstChild, lastChild |-> v.lastChild, prev |-> v.prev,
           next |-> v.next, rank |-> v.rank, depth |-> v.depth]
  BY <1>5, <1>6 DEF Tree
<1>9. v \in Tree
  <2>1. /\ v.parent \in Pointer /\ v.prev \in Pointer /\ v.next \in Pointer
        /\ v.firstChild \in Pointer /\ v.lastChild \in Pointer
    BY <1>1, <1>5, <1>7 DEF Pointer, Tree
  <2>2. /\ v.type \in [Node -> Kind \cup {"free"}] /\ v.value \in [Node -> Value \cup {NULL}]
        /\ v.depth \in [Node -> Nat] /\ v.rank \in [Node -> Nat]
    BY <1>5, <1>7 DEF Tree
  <2>3. QED
    BY <1>8, <2>1, <2>2, TreeFrom
<1>10. /\ \A n \in G : Void(v, n)
       /\ v.firstChild[p] = NULL /\ v.lastChild[p] = NULL
       /\ \A n \in Node \ G :
            /\ v.type[n] = t.type[n] /\ v.parent[n] = t.parent[n]
            /\ v.prev[n] = t.prev[n] /\ v.next[n] = t.next[n]
            /\ v.rank[n] = t.rank[n] /\ v.depth[n] = t.depth[n]
            /\ n # p => /\ v.firstChild[n] = t.firstChild[n]
                        /\ v.lastChild[n] = t.lastChild[n]
  BY <1>1, <1>2, <1>5, <1>7 DEF Void, Tree, Pointer
<1>11. Alive(v) = Alive(t) \ G
  BY <1>2, <1>10 DEF Alive, Void
<1>12. \A n \in Node : v.parent[n] # p
  BY <1>1, <1>2, <1>10 DEF Void
<1>13. NothingDangles(v)
  <2>1. ASSUME NEW n \in Node
        PROVE {v.parent[n], v.firstChild[n], v.lastChild[n], v.prev[n], v.next[n]}
                \subseteq Alive(v) \cup {NULL}
    <3>1. {t.parent[n], t.firstChild[n], t.lastChild[n], t.prev[n], t.next[n]}
            \subseteq Alive(t) \cup {NULL}
      BY DEF Whole, NothingDangles
    <3>2. CASE n \in G
      BY <3>2, <1>10 DEF Void
    <3>3. CASE n = p
      BY <3>1, <3>3, <1>2, <1>4, <1>10, <1>11
    <3>4. CASE n \notin F
      BY <3>1, <3>4, <1>2, <1>3, <1>10, <1>11
    <3>5. QED
      BY <3>2, <3>3, <3>4
  <2>2. ASSUME NEW n \in Free(v)
        PROVE  /\ v.parent[n] = NULL /\ v.prev[n] = NULL
               /\ v.next[n] = NULL /\ v.rank[n] = 0 /\ v.depth[n] = 0
               /\ v.firstChild[n] = NULL /\ v.lastChild[n] = NULL
    <3>1. CASE n \in G
      BY <3>1, <1>10 DEF Void
    <3>2. CASE n \notin G
      <4>1. n \in Node /\ n \in Free(t)
        BY <3>2, <1>10 DEF Free
      <4>2. QED
        BY <3>2, <4>1, <1>10, FreeIsAlone
    <3>3. QED
      BY <3>1, <3>2
  <2>3. QED
    BY <2>1, <2>2 DEF NothingDangles
<1>14. DoublyLinked(v)
  <2>1. ASSUME NEW a \in Node, NEW b \in Node, v.next[a] = b
        PROVE  /\ v.prev[b] = a /\ v.parent[b] = v.parent[a]
               /\ v.rank[b] = v.rank[a] + 1 /\ v.rank[a] > 0
    <3>1. a \notin G /\ t.next[a] = b
      BY <2>1, <1>1, <1>10 DEF Void
    <3>2. b \notin G
      BY <3>1, <1>3, <1>4
    <3>3. QED
      BY <3>1, <3>2, <1>1, <1>10, NextOf
  <2>2. ASSUME NEW a \in Node, NEW b \in Node, v.prev[b] = a
        PROVE  v.next[a] = b
    <3>1. b \notin G /\ t.prev[b] = a
      BY <2>2, <1>1, <1>10 DEF Void
    <3>2. a \notin G
      BY <3>1, <1>3, <1>4
    <3>3. QED
      BY <3>1, <3>2, <1>1, <1>10, PrevOf
  <2>3. QED
    BY <2>1, <2>2 DEF DoublyLinked
<1>15. EndsHeld(v)
  <2>1. ASSUME NEW q \in Node, NEW n \in Node, v.firstChild[q] = n
        PROVE  v.parent[n] = q /\ v.prev[n] = NULL /\ v.rank[n] = 1
    <3>1. q \notin F /\ t.firstChild[q] = n
      BY <2>1, <1>1, <1>10 DEF Void
    <3>2. n \notin G
      BY <3>1, <1>3
    <3>3. QED
      BY <3>1, <3>2, <1>1, <1>10, FirstOf
  <2>2. ASSUME NEW q \in Node, NEW n \in Node, v.lastChild[q] = n
        PROVE  v.parent[n] = q /\ v.next[n] = NULL /\ v.rank[n] > 0
    <3>1. q \notin F /\ t.lastChild[q] = n
      BY <2>2, <1>1, <1>10 DEF Void
    <3>2. n \notin G
      BY <3>1, <1>3
    <3>3. QED
      BY <3>1, <3>2, <1>1, <1>10, LastOf
  <2>3. ASSUME NEW q \in Node
        PROVE  v.firstChild[q] = NULL <=> v.lastChild[q] = NULL
    <3>1. t.firstChild[q] = NULL <=> t.lastChild[q] = NULL
      BY DEF Whole, EndsHeld
    <3>2. QED
      BY <3>1, <1>10 DEF Void
  <2>4. ASSUME NEW q \in Node, NEW n \in Node, v.parent[n] = q, v.rank[n] > 0
        PROVE  /\ v.prev[n] = NULL => v.firstChild[q] = n
               /\ v.next[n] = NULL => v.lastChild[q] = n
    <3>1. n \notin G /\ t.parent[n] = q /\ t.rank[n] > 0
      BY <2>4, <1>10 DEF Void
    <3>2. q \notin F
      BY <3>1, <1>2
    <3>3. q \notin G /\ q # p
      BY <3>2, <1>2
    <3>4. QED
      BY <3>1, <3>3, <1>10, PlaceOf
  <2>5. QED
    BY <2>1, <2>2, <2>3, <2>4 DEF EndsHeld
<1>16. Ordered(v)
  <2>1. ASSUME NEW a \in Node, NEW b \in Node, v.parent[a] # NULL, v.parent[a] = v.parent[b],
               v.rank[a] = v.rank[b], v.rank[a] > 0
        PROVE  a = b
    BY <2>1, <1>10 DEF Void, Whole, Ordered
  <2>2. ASSUME NEW a \in Node, NEW b \in Node, v.parent[a] = b
        PROVE  v.depth[a] = v.depth[b] + 1
    <3>1. a \notin G /\ t.parent[a] = b
      BY <2>2, <1>1, <1>10 DEF Void
    <3>2. b \notin G
      BY <3>1, <1>2
    <3>3. QED
      BY <3>1, <3>2, <1>10 DEF Whole, Ordered
  <2>3. ASSUME NEW a \in Node, v.parent[a] = NULL
        PROVE  /\ v.depth[a] = 0 /\ v.rank[a] = 0 /\ v.prev[a] = NULL /\ v.next[a] = NULL
    BY <2>3, <1>10 DEF Void, Whole, Ordered
  <2>4. ASSUME NEW a \in Node, v.rank[a] = 0
        PROVE  v.prev[a] = NULL /\ v.next[a] = NULL
    BY <2>4, <1>10 DEF Void, Whole, Ordered
  <2>5. ASSUME NEW a \in Node, v.type[a] = "document" PROVE v.parent[a] = NULL
    BY <2>5, <1>10 DEF Void, Whole, Ordered
  <2>6. QED
    BY <2>1, <2>2, <2>3, <2>4, <2>5 DEF Ordered
<1>17. NoneLoose(t) => NoneLoose(v)
  BY <1>10 DEF NoneLoose, Void
<1>18. QED
  BY <1>9, <1>10, <1>11, <1>12, <1>13, <1>14, <1>15, <1>16, <1>17 DEF Whole, F

-----------------------------------------------------------------------------
(***************************************************************************)
(* Copies                                                                  *)
(***************************************************************************)

\* What Clone visits is closed: the siblings and the parent of a node that it
\* visits below a are visited too, and the children of a leaf are not.
LEMMA CopiedClosed ==
  ASSUME TreeAssumption, NEW t, Whole(t), NEW a \in Alive(t)
  PROVE  /\ Copied(t, a) \subseteq Alive(t) /\ a \in Copied(t, a)
         /\ t.parent[a] \notin Copied(t, a)
         /\ \A y \in Copied(t, a) \ {a} :
              /\ t.rank[y] > 0 /\ t.depth[y] > t.depth[a] /\ t.parent[y] \in Copied(t, a)
              /\ t.type[t.parent[y]] # "leaf" /\ t.type[a] # "leaf"
              /\ t.prev[y] \in (Copied(t, a) \ {a}) \cup {NULL}
              /\ t.next[y] \in (Copied(t, a) \ {a}) \cup {NULL}
         /\ \A y \in Copied(t, a) :
              IF t.type[y] = "leaf"
              THEN t.firstChild[y] \notin Copied(t, a) /\ t.lastChild[y] \notin Copied(t, a)
              ELSE /\ t.firstChild[y] \in (Copied(t, a) \ {a}) \cup {NULL}
                   /\ t.lastChild[y] \in (Copied(t, a) \ {a}) \cup {NULL}
<1> DEFINE C == Copied(t, a)
           g == Opened(t)
<1>1. /\ C = Reach(t, g, a) /\ Downward(t, g) /\ a \in Node /\ t \in Tree
      /\ C \subseteq Node /\ a \in C
      /\ \A n \in Node : t.rank[n] \in Nat /\ t.depth[n] \in Nat /\ n # NULL
  BY CopiedIsReach, ReachClosed, Fields DEF Whole, Alive, TreeAssumption
<1>2. \A y \in C \ {a} : /\ y \in Alive(t) /\ t.rank[y] > 0 /\ t.depth[y] > t.depth[a]
                         /\ t.parent[y] \in C /\ g[t.parent[y]] # NULL
  BY <1>1, ReachBelow
<1>3. \A y \in Node : g[y] = IF t.type[y] = "leaf" THEN NULL ELSE t.firstChild[y]
  BY DEF Opened
<1>4. \A x \in Node : t.parent[x] \in C /\ g[t.parent[x]] # NULL /\ t.rank[x] > 0 => x \in C
  BY <1>1, ReachChildren
<1> HIDE DEF C, g
<1>5. t.parent[a] \notin C
  <2>1. SUFFICES ASSUME t.parent[a] \in C PROVE FALSE
    OBVIOUS
  <2>2. t.parent[a] \in Node /\ t.depth[a] = t.depth[t.parent[a]] + 1
    BY <1>1, <2>1, ParentOf
  <2>3. t.parent[a] # a
    BY <1>1, <2>2
  <2>4. QED
    BY <1>1, <1>2, <2>1, <2>2, <2>3
<1>6. ASSUME NEW y \in C \ {a}
      PROVE  /\ t.type[t.parent[y]] # "leaf" /\ t.type[a] # "leaf"
             /\ t.prev[y] \in (C \ {a}) \cup {NULL}
             /\ t.next[y] \in (C \ {a}) \cup {NULL}
  <2>1. t.parent[y] \in Node /\ t.type[t.parent[y]] # "leaf"
    BY <1>1, <1>2, <1>3
  <2>2. t.type[a] # "leaf"
    <3>1. SUFFICES ASSUME t.type[a] = "leaf" PROVE FALSE
      OBVIOUS
    <3>2. Walking(t, g, a, {a})
      BY <1>1, <1>3, <3>1 DEF Walking
    <3>3. C \subseteq {a}
      BY <1>1, <3>2, ReachWithin
    <3>4. QED
      BY <3>3
  <2>3. t.prev[y] \in (C \ {a}) \cup {NULL}
    <3>1. SUFFICES ASSUME t.prev[y] # NULL PROVE t.prev[y] \in C \ {a}
      OBVIOUS
    <3>2. /\ t.prev[y] \in Node /\ t.parent[t.prev[y]] = t.parent[y] /\ t.rank[t.prev[y]] > 0
      BY <1>1, <3>1, PrevOf
    <3>3. QED
      BY <1>2, <1>4, <1>5, <3>2
  <2>4. t.next[y] \in (C \ {a}) \cup {NULL}
    <3>1. SUFFICES ASSUME t.next[y] # NULL PROVE t.next[y] \in C \ {a}
      OBVIOUS
    <3>2. /\ t.next[y] \in Node /\ t.parent[t.next[y]] = t.parent[y]
          /\ t.rank[t.next[y]] = t.rank[y] + 1
      BY <1>1, <3>1, NextOf
    <3>3. t.rank[t.next[y]] > 0
      BY <1>1, <1>2, <3>2
    <3>4. QED
      BY <1>2, <1>4, <1>5, <3>2, <3>3
  <2>5. QED
    BY <2>1, <2>2, <2>3, <2>4
<1>7. ASSUME NEW y \in C, NEW c \in {t.firstChild[y], t.lastChild[y]}
      PROVE  IF t.type[y] = "leaf" THEN c \notin C ELSE c \in (C \ {a}) \cup {NULL}
  <2>1. c # NULL => c \in Node /\ t.parent[c] = y /\ t.rank[c] > 0
    BY <1>1, FirstOf, LastOf
  <2>2. c = NULL \/ c # a
    BY <2>1, <1>5
  <2>3. CASE t.type[y] = "leaf"
    <3>1. c \in C => c # NULL
      BY <1>1
    <3>2. c \in C => t.type[t.parent[c]] # "leaf"
      BY <2>2, <3>1, <1>6
    <3>3. QED
      BY <2>1, <2>3, <3>1, <3>2
  <2>4. CASE t.type[y] # "leaf"
    <3>1. t.firstChild[y] = NULL <=> t.lastChild[y] = NULL
      BY <1>1 DEF Whole, EndsHeld
    <3>2. c # NULL => g[y] # NULL
      BY <1>1, <1>3, <2>4, <3>1
    <3>3. QED
      BY <2>1, <2>2, <2>4, <3>2, <1>4
  <2>5. QED
    BY <2>3, <2>4
<1>8. C \subseteq Alive(t)
  BY <1>2
<1>9. QED
  BY <1>1, <1>2, <1>5, <1>6, <1>7, <1>8 DEF C

\* Where the copy of a pointer leads
Image(f, x) == IF x = NULL THEN NULL ELSE f[x]

\* v is t with f[y] a copy of y for all y that are copied.
CopyMade(t, v, a, f) ==
  LET C == DOMAIN f
      below == {f[y] : y \in C \ {a}} IN
  /\ v \in Tree
  /\ \A y \in C : v.type[f[y]] = t.type[y]
  /\ \A y \in C \ {a} :
       /\ v.parent[f[y]] = f[t.parent[y]] /\ v.rank[f[y]] = t.rank[y]
       /\ v.prev[f[y]] = Image(f, t.prev[y]) /\ v.next[f[y]] = Image(f, t.next[y])
       /\ v.depth[f[y]] = t.depth[y] - t.depth[a] + t.depth[f[a]]
  /\ t.type[a] # "leaf" => \A y \in C :
       /\ v.firstChild[f[y]] = IF t.type[y] = "leaf" THEN NULL ELSE Image(f, t.firstChild[y])
       /\ v.lastChild[f[y]] = IF t.type[y] = "leaf" THEN NULL ELSE Image(f, t.lastChild[y])
  /\ \A n \in Node \ below :
       /\ v.parent[n] = t.parent[n] /\ v.prev[n] = t.prev[n] /\ v.next[n] = t.next[n]
       /\ v.rank[n] = t.rank[n] /\ v.depth[n] = t.depth[n]
  /\ \A n \in Node \ Range(f) : v.type[n] = t.type[n]
  /\ \A n \in Node : n \notin Range(f) \/ t.type[a] = "leaf" =>
       v.firstChild[n] = t.firstChild[n] /\ v.lastChild[n] = t.lastChild[n]

\* Cloned copies.
LEMMA ClonedCopies ==
  ASSUME TreeAssumption, NEW t, Whole(t), NEW a \in Alive(t),
         NEW f \in Injection(Copied(t, a), Node)
  PROVE  CopyMade(t, Cloned(t, a, f), a, f)
<1> DEFINE C == Copied(t, a)
           R == Range(f)
           From == [m \in R |-> CHOOSE x \in DOMAIN f : f[x] = m]
           Below == R \ {f[a]}
           Filled == IF t.type[a] = "leaf" THEN {} ELSE R
           Carried(pointer, set) ==
             [m \in Node |-> IF m \notin set THEN pointer[m] ELSE
                             IF pointer[From[m]] \in DOMAIN f
                             THEN f[pointer[From[m]]] ELSE NULL]
           v == Cloned(t, a, f)
<1>1. /\ f \in [C -> Node] /\ DOMAIN f = C /\ \A x, y \in C : f[x] = f[y] => x = y
  BY DEF Injection, IsInjective
<1>2. R = {f[y] : y \in C} /\ R \subseteq Node
  BY <1>1 DEF Range
<1>3. ASSUME NEW y \in C PROVE f[y] \in R /\ From[f[y]] = y
  <2>1. f[y] \in R
    BY <1>2
  <2>2. From[f[y]] = CHOOSE x \in C : f[x] = f[y]
    BY <1>1, <2>1
  <2>3. QED
    BY <1>1, <2>1, <2>2
<1>4. /\ v.type = [m \in Node |-> IF m \in R THEN t.type[From[m]] ELSE t.type[m]]
      /\ v.value = [m \in Node |-> IF m \in R THEN t.value[From[m]] ELSE t.value[m]]
      /\ v.firstChild = Carried(t.firstChild, Filled)
      /\ v.lastChild = Carried(t.lastChild, Filled)
      /\ v.parent = Carried(t.parent, Below)
      /\ v.prev = Carried(t.prev, Below)
      /\ v.next = Carried(t.next, Below)
      /\ v.rank = [m \in Node |-> IF m \in Below THEN t.rank[From[m]] ELSE t.rank[m]]
      /\ v.depth = [m \in Node |-> IF m \in Below
                                   THEN t.depth[From[m]] - t.depth[a] + t.depth[f[a]]
                                   ELSE t.depth[m]]
  BY DEF Cloned
<1>5. v = [type |-> v.type, value |-> v.value, parent |-> v.parent,
           firstChild |-> v.firstChild, lastChild |-> v.lastChild, prev |-> v.prev,
           next |-> v.next, rank |-> v.rank, depth |-> v.depth]
  BY DEF Cloned
<1>6. /\ C \subseteq Node /\ a \in C /\ t \in Tree /\ NULL \notin C
      /\ \A y \in C \ {a} :
           /\ t.depth[y] > t.depth[a] /\ t.parent[y] \in C
           /\ t.prev[y] \in C \cup {NULL} /\ t.next[y] \in C \cup {NULL}
      /\ \A y \in C :
           IF t.type[y] = "leaf"
           THEN t.firstChild[y] \notin C /\ t.lastChild[y] \notin C
           ELSE t.firstChild[y] \in C \cup {NULL} /\ t.lastChild[y] \in C \cup {NULL}
  BY CopiedClosed DEF Alive, Whole, TreeAssumption
<1>7. \A n \in Node : t.depth[n] \in Nat /\ t.rank[n] \in Nat
  BY <1>6, Fields
<1> HIDE DEF v, From, R, C
<1>8. \A m \in R : From[m] \in C /\ f[From[m]] = m
  BY <1>2, <1>3
<1>9. ASSUME NEW pointer \in Pointer, NEW set \in SUBSET R
      PROVE  Carried(pointer, set) \in Pointer
  BY <1>1, <1>2, <1>6 DEF Pointer
<1>10. \A m \in Below : From[m] \in C \ {a}
  BY <1>8
<1>11. v \in Tree
  <2>1. /\ t.parent \in Pointer /\ t.firstChild \in Pointer /\ t.lastChild \in Pointer
        /\ t.prev \in Pointer /\ t.next \in Pointer
    BY <1>6 DEF Tree
  <2>2. Below \subseteq R /\ Filled \subseteq R
    OBVIOUS
  <2>3. /\ v.parent \in Pointer /\ v.firstChild \in Pointer /\ v.lastChild \in Pointer
        /\ v.prev \in Pointer /\ v.next \in Pointer
    <3> HIDE DEF Carried, Below, Filled
    <3>1. /\ Carried(t.parent, Below) \in Pointer
          /\ Carried(t.prev, Below) \in Pointer /\ Carried(t.next, Below) \in Pointer
      BY <1>9, <2>1, <2>2
    <3>2. /\ Carried(t.firstChild, Filled) \in Pointer
          /\ Carried(t.lastChild, Filled) \in Pointer
      BY <1>9, <2>1, <2>2
    <3>3. QED
      BY <1>4, <3>1, <3>2
  <2>4. v.type \in [Node -> Kind \cup {"free"}] /\ v.value \in [Node -> Value \cup {NULL}]
    BY <1>4, <1>6, <1>8 DEF Tree
  <2>5. v.rank \in [Node -> Nat]
    BY <1>4, <1>6, <1>7, <1>10
  <2>6. v.depth \in [Node -> Nat]
    <3>1. ASSUME NEW m \in Below
          PROVE  t.depth[From[m]] - t.depth[a] + t.depth[f[a]] \in Nat
      <4>1. /\ t.depth[From[m]] \in Nat /\ t.depth[a] \in Nat /\ t.depth[f[a]] \in Nat
            /\ t.depth[From[m]] > t.depth[a]
        BY <1>1, <1>6, <1>7, <1>10
      <4>2. QED
        BY <4>1
    <3>2. QED
      BY <1>4, <1>7, <3>1
  <2>7. QED
    BY <1>5, <2>3, <2>4, <2>5, <2>6, TreeFrom
<1>12. ASSUME NEW y \in C PROVE v.type[f[y]] = t.type[y]
  BY <1>2, <1>3, <1>4
<1>13. ASSUME NEW y \in C \ {a}
       PROVE  /\ v.parent[f[y]] = f[t.parent[y]] /\ v.rank[f[y]] = t.rank[y]
              /\ v.prev[f[y]] = Image(f, t.prev[y]) /\ v.next[f[y]] = Image(f, t.next[y])
              /\ v.depth[f[y]] = t.depth[y] - t.depth[a] + t.depth[f[a]]
  <2>1. f[y] \in Below /\ f[y] \in Node /\ From[f[y]] = y
    <3>1. f[y] \in R /\ From[f[y]] = y
      BY <1>3
    <3>2. f[y] # f[a]
      BY <1>1, <1>6
    <3>3. QED
      BY <1>2, <3>1, <3>2
  <2>2. v.parent[f[y]] = f[t.parent[y]]
    <3>1. t.parent[y] \in DOMAIN f
      BY <1>1, <1>6
    <3>2. QED
      BY <2>1, <3>1, <1>4
  <2>3. v.rank[f[y]] = t.rank[y] /\ v.depth[f[y]] = t.depth[y] - t.depth[a] + t.depth[f[a]]
    BY <2>1, <1>4
  <2>4. v.prev[f[y]] = Image(f, t.prev[y]) /\ v.next[f[y]] = Image(f, t.next[y])
    <3>1. /\ t.prev[y] \in (DOMAIN f) \cup {NULL} /\ t.next[y] \in (DOMAIN f) \cup {NULL}
          /\ NULL \notin DOMAIN f
      BY <1>1, <1>6
    <3>2. /\ v.prev[f[y]] = Carried(t.prev, Below)[f[y]]
          /\ v.next[f[y]] = Carried(t.next, Below)[f[y]]
      BY <1>4
    <3> HIDE DEF Below
    <3>3. ASSUME NEW pointer, pointer[y] \in (DOMAIN f) \cup {NULL}
          PROVE  Carried(pointer, Below)[f[y]] = Image(f, pointer[y])
      <4>1. Carried(pointer, Below)[f[y]] = IF pointer[From[f[y]]] \in DOMAIN f
                                            THEN f[pointer[From[f[y]]]] ELSE NULL
        BY <2>1
      <4> HIDE DEF Carried
      <4>2. QED
        BY <2>1, <3>1, <3>3, <4>1 DEF Image
    <3> HIDE DEF Carried
    <3>4. QED
      BY <3>1, <3>2, <3>3
  <2>5. QED
    BY <2>2, <2>3, <2>4
<1>14. ASSUME t.type[a] # "leaf", NEW y \in C
       PROVE  /\ v.firstChild[f[y]] = IF t.type[y] = "leaf" THEN NULL
                                      ELSE Image(f, t.firstChild[y])
              /\ v.lastChild[f[y]] = IF t.type[y] = "leaf" THEN NULL
                                     ELSE Image(f, t.lastChild[y])
  <2>1. f[y] \in Filled /\ f[y] \in Node /\ From[f[y]] = y
    BY <1>1, <1>2, <1>3, <1>14
  <2>2. QED
    BY <2>1, <1>1, <1>4, <1>6 DEF Image
<1>15. {f[y] : y \in C \ {a}} = Below
  BY <1>1, <1>2, <1>6
<1>16. \A n \in Node \ Below :
         /\ v.parent[n] = t.parent[n] /\ v.prev[n] = t.prev[n] /\ v.next[n] = t.next[n]
         /\ v.rank[n] = t.rank[n] /\ v.depth[n] = t.depth[n]
  BY <1>4
<1>17. \A n \in Node \ R : v.type[n] = t.type[n]
  BY <1>4
<1>18. \A n \in Node : n \notin R \/ t.type[a] = "leaf" =>
         v.firstChild[n] = t.firstChild[n] /\ v.lastChild[n] = t.lastChild[n]
  BY <1>4
<1> HIDE DEF Below
<1>19. QED
  BY <1>1, <1>11, <1>12, <1>13, <1>14, <1>15, <1>16, <1>17, <1>18 DEF CopyMade, v, R

\* The tree stays one, when the copies are new and the copy of a is either new or
\* a node of its kind that has no children, or may keep them.
LEMMA CopyWhole ==
  ASSUME TreeAssumption, NEW t, Whole(t), NEW a \in Alive(t),
         NEW f \in Injection(Copied(t, a), Node),
         \A y \in Copied(t, a) \ {a} : f[y] \in Free(t),
         \/ f[a] \in Free(t)
         \/ /\ t.type[f[a]] = t.type[a]
            /\ t.type[a] = "leaf" \/ t.firstChild[f[a]] = NULL,
         NEW v, CopyMade(t, v, a, f)
  PROVE  /\ Whole(v) /\ Alive(v) = Alive(t) \cup Range(f)
         /\ (NoneLoose(t) => NoneLoose(v))
<1> DEFINE C == Copied(t, a)
           R == Range(f)
           z == f[a]
           B == {f[y] : y \in C \ {a}}
<1>1. /\ f \in [C -> Node] /\ DOMAIN f = C /\ \A x, y \in C : f[x] = f[y] => x = y
  BY DEF Injection, IsInjective
<1>2. R = {f[y] : y \in C}
  BY <1>1 DEF Range
<1>3. /\ C \subseteq Alive(t) /\ C \subseteq Node /\ a \in C /\ t \in Tree
      /\ \A n \in Node : t.rank[n] \in Nat /\ t.depth[n] \in Nat /\ n # NULL
      /\ t.parent[a] \notin C
  BY CopiedClosed, Fields DEF Alive, Whole, TreeAssumption
<1>4. \A y \in C \ {a} :
        /\ t.rank[y] > 0 /\ t.depth[y] > t.depth[a] /\ t.parent[y] \in C
        /\ t.type[t.parent[y]] # "leaf" /\ t.type[a] # "leaf"
        /\ t.prev[y] \in (C \ {a}) \cup {NULL}
        /\ t.next[y] \in (C \ {a}) \cup {NULL}
  BY CopiedClosed
<1>5. \A y \in C : t.type[y] # "leaf" =>
        /\ t.firstChild[y] \in (C \ {a}) \cup {NULL}
        /\ t.lastChild[y] \in (C \ {a}) \cup {NULL}
  BY CopiedClosed
<1>6. /\ v \in Tree
      /\ \A y \in C : v.type[f[y]] = t.type[y]
      /\ \A y \in C \ {a} :
           /\ v.parent[f[y]] = f[t.parent[y]] /\ v.rank[f[y]] = t.rank[y]
           /\ v.prev[f[y]] = Image(f, t.prev[y]) /\ v.next[f[y]] = Image(f, t.next[y])
           /\ v.depth[f[y]] = t.depth[y] - t.depth[a] + t.depth[z]
      /\ t.type[a] # "leaf" => \A y \in C :
           /\ v.firstChild[f[y]] = IF t.type[y] = "leaf" THEN NULL ELSE Image(f, t.firstChild[y])
           /\ v.lastChild[f[y]] = IF t.type[y] = "leaf" THEN NULL ELSE Image(f, t.lastChild[y])
      /\ \A n \in Node \ B :
           /\ v.parent[n] = t.parent[n] /\ v.prev[n] = t.prev[n] /\ v.next[n] = t.next[n]
           /\ v.rank[n] = t.rank[n] /\ v.depth[n] = t.depth[n]
      /\ \A n \in Node \ R : v.type[n] = t.type[n]
      /\ \A n \in Node : n \notin R \/ t.type[a] = "leaf" =>
           v.firstChild[n] = t.firstChild[n] /\ v.lastChild[n] = t.lastChild[n]
  BY <1>1 DEF CopyMade
<1>7. B \subseteq Free(t) /\ z \in Node /\ z \notin B /\ R = B \cup {z} /\ R \subseteq Node
  BY <1>1, <1>2, <1>3
<1>8. /\ z \in Free(t) \/ t.type[z] = t.type[a]
      /\ t.type[a] = "leaf" \/ t.firstChild[z] = NULL
  BY FreeIsAlone
<1>9. \A n \in Node : /\ t.parent[n] \notin B /\ t.prev[n] \notin B /\ t.next[n] \notin B
                      /\ t.firstChild[n] \notin B /\ t.lastChild[n] \notin B
  BY <1>7, FreeIsAlone
<1>10. \A n \in B : \E y \in C \ {a} : n = f[y]
  OBVIOUS
<1>11. \A y \in C \ {a} : f[y] \in B /\ f[y] # NULL
  BY <1>1, <1>3
<1>12. \A y \in C : f[y] \in Node /\ f[y] # NULL
  BY <1>1, <1>3
<1> HIDE DEF C, R, z, B
<1>13. Alive(v) = Alive(t) \cup R
  <2>1. \A y \in C : t.type[y] # "free"
    BY <1>3 DEF Alive
  <2>2. \A n \in R : v.type[n] # "free"
    BY <1>2, <1>6, <2>1
  <2>3. QED
    BY <1>6, <1>7, <2>2 DEF Alive
<1>14. \A y \in C \ {a} : /\ v.parent[f[y]] \in R
                          /\ v.prev[f[y]] \in B \cup {NULL}
                          /\ v.next[f[y]] \in B \cup {NULL}
  BY <1>2, <1>4, <1>6, <1>11 DEF Image
<1>15. t.type[a] # "leaf" => \A y \in C : /\ v.firstChild[f[y]] \in B \cup {NULL}
                                          /\ v.lastChild[f[y]] \in B \cup {NULL}
  BY <1>5, <1>6, <1>11 DEF Image
<1>16. B # {} => t.type[a] # "leaf"
  BY <1>4, <1>10
<1>17. NothingDangles(v)
  <2>1. \A n \in Node :
          {t.parent[n], t.firstChild[n], t.lastChild[n], t.prev[n], t.next[n]}
            \subseteq Alive(t) \cup {NULL}
    BY DEF Whole, NothingDangles
  <2>2. ASSUME NEW n \in Node
        PROVE  {v.parent[n], v.prev[n], v.next[n]} \subseteq Alive(v) \cup {NULL}
    <3>1. CASE n \in B
      BY <3>1, <1>7, <1>10, <1>13, <1>14
    <3>2. CASE n \notin B
      BY <3>2, <2>1, <1>6, <1>13
    <3>3. QED
      BY <3>1, <3>2
  <2>3. ASSUME NEW n \in Node
        PROVE  {v.firstChild[n], v.lastChild[n]} \subseteq Alive(v) \cup {NULL}
    <3>1. CASE n \in R /\ t.type[a] # "leaf"
      BY <3>1, <1>2, <1>7, <1>13, <1>15
    <3>2. CASE ~ (n \in R /\ t.type[a] # "leaf")
      BY <3>2, <2>1, <1>6, <1>13
    <3>3. QED
      BY <3>1, <3>2
  <2>4. ASSUME NEW n \in Free(v)
        PROVE  /\ v.parent[n] = NULL /\ v.prev[n] = NULL
               /\ v.next[n] = NULL /\ v.rank[n] = 0 /\ v.depth[n] = 0
               /\ v.firstChild[n] = NULL /\ v.lastChild[n] = NULL
    <3>1. n \in Node /\ n \notin R /\ n \in Free(t)
      BY <1>13 DEF Free, Alive
    <3>2. QED
      BY <3>1, <1>6, <1>7, FreeIsAlone
  <2>5. QED
    BY <2>2, <2>3, <2>4 DEF NothingDangles
<1>18. DoublyLinked(v)
  <2>1. ASSUME NEW p \in Node, NEW q \in Node, v.next[p] = q
        PROVE  /\ v.prev[q] = p /\ v.parent[q] = v.parent[p]
               /\ v.rank[q] = v.rank[p] + 1 /\ v.rank[p] > 0
    <3>1. CASE p \in B
      <4>1. PICK y \in C \ {a} : p = f[y]
        BY <3>1, <1>10
      <4>2. t.next[y] \in C \ {a} /\ t.next[y] # NULL /\ q = f[t.next[y]]
        BY <2>1, <4>1, <1>3, <1>4, <1>6 DEF Image
      <4>3. /\ t.prev[t.next[y]] = y /\ t.parent[t.next[y]] = t.parent[y]
            /\ t.rank[y] > 0 /\ t.rank[t.next[y]] = t.rank[y] + 1 /\ y # NULL
        BY <4>1, <4>2, <1>3, NextOf
      <4>4. QED
        BY <4>1, <4>2, <4>3, <1>6 DEF Image
    <3>2. CASE p \notin B
      <4>1. t.next[p] = q /\ q \notin B
        BY <2>1, <3>2, <1>6, <1>9
      <4>2. QED
        BY <3>2, <4>1, <1>3, <1>6, NextOf
    <3>3. QED
      BY <3>1, <3>2
  <2>2. ASSUME NEW p \in Node, NEW q \in Node, v.prev[q] = p
        PROVE  v.next[p] = q
    <3>1. CASE q \in B
      <4>1. PICK y \in C \ {a} : q = f[y]
        BY <3>1, <1>10
      <4>2. t.prev[y] \in C \ {a} /\ t.prev[y] # NULL /\ p = f[t.prev[y]]
        BY <2>2, <4>1, <1>3, <1>4, <1>6 DEF Image
      <4>3. t.next[t.prev[y]] = y /\ y # NULL
        BY <4>1, <4>2, <1>3, PrevOf
      <4>4. QED
        BY <4>1, <4>2, <4>3, <1>6 DEF Image
    <3>2. CASE q \notin B
      <4>1. t.prev[q] = p /\ p \notin B
        BY <2>2, <3>2, <1>6, <1>9
      <4>2. QED
        BY <3>2, <4>1, <1>3, <1>6, PrevOf
    <3>3. QED
      BY <3>1, <3>2
  <2>3. QED
    BY <2>1, <2>2 DEF DoublyLinked
<1>19. EndsHeld(v)
  <2>1. ASSUME NEW p \in Node, NEW n \in Node, v.firstChild[p] = n
        PROVE  v.parent[n] = p /\ v.prev[n] = NULL /\ v.rank[n] = 1
    <3>1. CASE p \in R /\ t.type[a] # "leaf"
      <4>1. PICK y \in C : p = f[y]
        BY <3>1, <1>2
      <4>2. t.firstChild[y] \in C \ {a} /\ t.firstChild[y] # NULL /\ n = f[t.firstChild[y]]
        BY <2>1, <3>1, <4>1, <1>3, <1>5, <1>6 DEF Image
      <4>3. /\ t.parent[t.firstChild[y]] = y /\ t.prev[t.firstChild[y]] = NULL
            /\ t.rank[t.firstChild[y]] = 1
        BY <4>1, <4>2, <1>3, FirstOf
      <4>4. QED
        BY <4>1, <4>2, <4>3, <1>6 DEF Image
    <3>2. CASE ~ (p \in R /\ t.type[a] # "leaf")
      <4>1. t.firstChild[p] = n /\ n \notin B
        BY <2>1, <3>2, <1>6, <1>9
      <4>2. QED
        BY <4>1, <1>3, <1>6, FirstOf
    <3>3. QED
      BY <3>1, <3>2
  <2>2. ASSUME NEW p \in Node, NEW n \in Node, v.lastChild[p] = n
        PROVE  v.parent[n] = p /\ v.next[n] = NULL /\ v.rank[n] > 0
    <3>1. CASE p \in R /\ t.type[a] # "leaf"
      <4>1. PICK y \in C : p = f[y]
        BY <3>1, <1>2
      <4>2. t.lastChild[y] \in C \ {a} /\ t.lastChild[y] # NULL /\ n = f[t.lastChild[y]]
        BY <2>2, <3>1, <4>1, <1>3, <1>5, <1>6 DEF Image
      <4>3. /\ t.parent[t.lastChild[y]] = y /\ t.next[t.lastChild[y]] = NULL
            /\ t.rank[t.lastChild[y]] > 0
        BY <4>1, <4>2, <1>3, LastOf
      <4>4. QED
        BY <4>1, <4>2, <4>3, <1>6 DEF Image
    <3>2. CASE ~ (p \in R /\ t.type[a] # "leaf")
      <4>1. t.lastChild[p] = n /\ n \notin B
        BY <2>2, <3>2, <1>6, <1>9
      <4>2. QED
        BY <4>1, <1>3, <1>6, LastOf
    <3>3. QED
      BY <3>1, <3>2
  <2>3. ASSUME NEW p \in Node
        PROVE  v.firstChild[p] = NULL <=> v.lastChild[p] = NULL
    <3>1. \A q \in Node : t.firstChild[q] = NULL <=> t.lastChild[q] = NULL
      BY DEF Whole, EndsHeld
    <3>2. CASE p \in R /\ t.type[a] # "leaf"
      <4>1. PICK y \in C : p = f[y]
        BY <3>2, <1>2
      <4>2. /\ v.firstChild[p] = IF t.type[y] = "leaf" THEN NULL ELSE Image(f, t.firstChild[y])
            /\ v.lastChild[p] = IF t.type[y] = "leaf" THEN NULL ELSE Image(f, t.lastChild[y])
        BY <3>2, <4>1, <1>6
      <4>3. t.type[y] # "leaf" => /\ Image(f, t.firstChild[y]) = NULL <=> t.firstChild[y] = NULL
                                  /\ Image(f, t.lastChild[y]) = NULL <=> t.lastChild[y] = NULL
        BY <4>1, <1>5, <1>12 DEF Image
      <4>4. t.firstChild[y] = NULL <=> t.lastChild[y] = NULL
        BY <3>1, <4>1, <1>3
      <4>5. QED
        BY <4>2, <4>3, <4>4
    <3>3. CASE ~ (p \in R /\ t.type[a] # "leaf")
      BY <3>1, <3>3, <1>6
    <3>4. QED
      BY <3>2, <3>3
  <2>4. ASSUME NEW p \in Node, NEW n \in Node, v.parent[n] = p, v.rank[n] > 0
        PROVE  /\ v.prev[n] = NULL => v.firstChild[p] = n
               /\ v.next[n] = NULL => v.lastChild[p] = n
    <3>1. CASE n \in B
      <4>1. PICK y \in C \ {a} : n = f[y]
        BY <3>1, <1>10
      <4>2. /\ p = f[t.parent[y]] /\ t.parent[y] \in C /\ t.type[t.parent[y]] # "leaf"
            /\ t.type[a] # "leaf" /\ t.rank[y] > 0
            /\ v.prev[n] = Image(f, t.prev[y]) /\ v.next[n] = Image(f, t.next[y])
        BY <2>4, <4>1, <1>4, <1>6
      <4>3. /\ v.firstChild[p] = Image(f, t.firstChild[t.parent[y]])
            /\ v.lastChild[p] = Image(f, t.lastChild[t.parent[y]])
        BY <4>2, <1>6
      <4>4. /\ t.prev[y] = NULL => t.firstChild[t.parent[y]] = y
            /\ t.next[y] = NULL => t.lastChild[t.parent[y]] = y
        BY <4>1, <4>2, <1>3, PlaceOf
      <4>5. /\ v.prev[n] = NULL => t.prev[y] = NULL
            /\ v.next[n] = NULL => t.next[y] = NULL
        BY <4>1, <4>2, <1>4, <1>11 DEF Image
      <4>6. y # NULL
        BY <4>1, <1>3
      <4>7. QED
        BY <4>1, <4>3, <4>4, <4>5, <4>6 DEF Image
    <3>2. CASE n \notin B
      <4>1. /\ t.parent[n] = p /\ t.rank[n] > 0 /\ v.prev[n] = t.prev[n]
            /\ v.next[n] = t.next[n] /\ p \notin B
        BY <2>4, <3>2, <1>6, <1>9
      <4>2. /\ t.prev[n] = NULL => t.firstChild[p] = n
            /\ t.next[n] = NULL => t.lastChild[p] = n
        BY <4>1, PlaceOf
      <4>3. p = z => t.type[a] = "leaf"
        BY <4>1, <1>8, HasFirst
      <4>4. v.firstChild[p] = t.firstChild[p] /\ v.lastChild[p] = t.lastChild[p]
        BY <4>1, <4>3, <1>6, <1>7
      <4>5. QED
        BY <4>1, <4>2, <4>4
    <3>3. QED
      BY <3>1, <3>2
  <2>5. QED
    BY <2>1, <2>2, <2>3, <2>4 DEF EndsHeld
<1>20. Ordered(v)
  <2>1. ASSUME NEW n \in Node, NEW m \in Node, v.parent[n] # NULL, v.parent[n] = v.parent[m],
               v.rank[n] = v.rank[m], v.rank[n] > 0
        PROVE  n = m
    <3>1. ASSUME NEW i \in B, NEW j \in Node \ B, v.parent[i] = v.parent[j], v.rank[j] > 0
          PROVE  FALSE
      <4>1. v.parent[i] \in R
        BY <1>10, <1>14
      <4>2. t.parent[j] = z /\ t.rank[j] > 0
        BY <3>1, <4>1, <1>6, <1>7, <1>9
      <4>3. t.firstChild[z] # NULL
        BY <4>2, HasFirst
      <4>4. QED
        BY <4>3, <1>8, <1>16
    <3>2. CASE n \in B /\ m \in B
      <4>1. PICK y \in C \ {a} : n = f[y]
        BY <3>2, <1>10
      <4>2. PICK w \in C \ {a} : m = f[w]
        BY <3>2, <1>10
      <4>3. t.parent[y] = t.parent[w] /\ t.rank[y] = t.rank[w]
        BY <2>1, <4>1, <4>2, <1>1, <1>4, <1>6
      <4>4. t.parent[y] # NULL /\ t.rank[y] > 0 /\ y \in Node /\ w \in Node
        BY <4>1, <4>2, <1>3, <1>4
      <4>5. y = w
        BY <4>3, <4>4 DEF Whole, Ordered
      <4>6. QED
        BY <4>1, <4>2, <4>5
    <3>3. CASE n \notin B /\ m \notin B
      BY <2>1, <3>3, <1>6 DEF Whole, Ordered
    <3>4. QED
      BY <2>1, <3>1, <3>2, <3>3
  <2>2. ASSUME NEW n \in Node, NEW m \in Node, v.parent[n] = m
        PROVE  v.depth[n] = v.depth[m] + 1
    <3>1. CASE n \in B
      <4>1. PICK y \in C \ {a} : n = f[y]
        BY <3>1, <1>10
      <4>2. m = f[t.parent[y]] /\ t.parent[y] \in C /\ y \in Node /\ t.parent[y] \in Node
        BY <2>2, <4>1, <1>3, <1>4, <1>6
      <4>3. t.depth[y] = t.depth[t.parent[y]] + 1
        BY <4>2, <1>3, ParentOf
      <4>4. v.depth[n] = t.depth[y] - t.depth[a] + t.depth[z]
        BY <4>1, <1>6
      <4>5. v.depth[m] = t.depth[t.parent[y]] - t.depth[a] + t.depth[z]
        <5>1. CASE t.parent[y] = a
          <6>1. m = z /\ v.depth[m] = t.depth[z]
            BY <4>2, <5>1, <1>6, <1>7 DEF z
          <6>2. t.depth[a] \in Nat /\ t.depth[z] \in Nat
            BY <1>3, <1>7
          <6>3. QED
            BY <5>1, <6>1, <6>2
        <5>2. CASE t.parent[y] # a
          BY <4>2, <5>2, <1>6
        <5>3. QED
          BY <5>1, <5>2
      <4>6. /\ t.depth[y] \in Nat /\ t.depth[a] \in Nat /\ t.depth[z] \in Nat
            /\ t.depth[t.parent[y]] \in Nat
        BY <4>2, <1>3, <1>7
      <4>7. QED
        BY <4>3, <4>4, <4>5, <4>6
    <3>2. CASE n \notin B
      <4>1. t.parent[n] = m /\ m \notin B
        BY <2>2, <3>2, <1>6, <1>9
      <4>2. QED
        BY <3>2, <4>1, <1>6 DEF Whole, Ordered
    <3>3. QED
      BY <3>1, <3>2
  <2>3. ASSUME NEW n \in Node, v.parent[n] = NULL
        PROVE  /\ v.depth[n] = 0 /\ v.rank[n] = 0 /\ v.prev[n] = NULL /\ v.next[n] = NULL
    <3>1. n \notin B
      BY <2>3, <1>2, <1>10, <1>12, <1>14
    <3>2. QED
      BY <2>3, <3>1, <1>6 DEF Whole, Ordered
  <2>4. ASSUME NEW n \in Node, v.rank[n] = 0
        PROVE  v.prev[n] = NULL /\ v.next[n] = NULL
    <3>1. n \notin B
      BY <2>4, <1>3, <1>4, <1>6, <1>10
    <3>2. QED
      BY <2>4, <3>1, <1>6 DEF Whole, Ordered
  <2>5. ASSUME NEW n \in Node, v.type[n] = "document" PROVE v.parent[n] = NULL
    <3>1. \A y \in Node : t.type[y] = "document" => t.parent[y] = NULL
      BY DEF Whole, Ordered
    <3>2. CASE n \in B
      <4>1. PICK y \in C \ {a} : n = f[y]
        BY <3>2, <1>10
      <4>2. t.type[y] = "document" /\ y \in Node /\ t.parent[y] # NULL
        BY <2>5, <4>1, <1>3, <1>4, <1>6
      <4>3. QED
        BY <3>1, <4>2
    <3>3. CASE n = z
      <4>1. t.type[a] = "document"
        BY <2>5, <3>3, <1>3, <1>6 DEF z
      <4>2. t.parent[z] = NULL
        BY <3>1, <4>1, <1>7, <1>8, FreeIsAlone
      <4>3. QED
        BY <3>3, <4>2, <1>6, <1>7
    <3>4. CASE n \notin R
      BY <2>5, <3>1, <3>4, <1>6, <1>7
    <3>5. QED
      BY <3>2, <3>3, <3>4, <1>7
  <2>6. QED
    BY <2>1, <2>2, <2>3, <2>4, <2>5 DEF Ordered
<1>21. ASSUME NoneLoose(t) PROVE NoneLoose(v)
  <2>1. ASSUME NEW n \in Node, v.parent[n] # NULL PROVE v.rank[n] > 0
    <3>1. CASE n \in B
      BY <3>1, <1>4, <1>6, <1>10
    <3>2. CASE n \notin B
      BY <2>1, <3>2, <1>6, <1>21 DEF NoneLoose
    <3>3. QED
      BY <3>1, <3>2
  <2>2. QED
    BY <2>1 DEF NoneLoose
<1>22. QED
  BY <1>6, <1>13, <1>17, <1>18, <1>19, <1>20, <1>21 DEF Whole, R

\* A new copy is a tree of its own.
LEMMA CopyApart ==
  ASSUME TreeAssumption, NEW t, Whole(t), NEW a \in Alive(t),
         NEW f \in Copies(t, a), NEW v, v = Cloned(t, a, f)
  PROVE  /\ Whole(v) /\ (NoneLoose(t) => NoneLoose(v))
         /\ Alive(t) \subseteq Alive(v) /\ f[a] \in Alive(v) \ Alive(t)
         /\ v.rank[f[a]] = 0 /\ v.parent[f[a]] = NULL /\ v.type[f[a]] = t.type[a]
         /\ Family(v, f[a]) \cap Alive(t) = {}
         /\ \A n \in Alive(t) :
              /\ v.type[n] = t.type[n] /\ v.parent[n] = t.parent[n] /\ v.rank[n] = t.rank[n]
              /\ v.prev[n] = t.prev[n] /\ v.next[n] = t.next[n] /\ v.depth[n] = t.depth[n]
              /\ v.firstChild[n] = t.firstChild[n] /\ v.lastChild[n] = t.lastChild[n]
<1> DEFINE C == Copied(t, a)
           R == Range(f)
           z == f[a]
           B == {f[y] : y \in C \ {a}}
<1>1. /\ f \in [C -> Free(t)] /\ DOMAIN f = C /\ f \in Injection(C, Node)
      /\ \A x, y \in C : f[x] = f[y] => x = y
  BY DEF Copies, Injection, IsInjective, Free
<1>2. /\ R = {f[y] : y \in C} /\ R \subseteq Free(t) /\ a \in C /\ C \subseteq Node
  BY <1>1, CopiedClosed DEF Range, Alive
<1>3. CopyMade(t, v, a, f)
  BY <1>1, ClonedCopies
<1>4. /\ Whole(v) /\ Alive(v) = Alive(t) \cup R /\ (NoneLoose(t) => NoneLoose(v))
  BY <1>1, <1>2, <1>3, CopyWhole
<1>5. R \cap Alive(t) = {} /\ B \subseteq R /\ z \in R /\ z \notin B /\ R = B \cup {z}
  BY <1>1, <1>2 DEF Free, Alive
<1>6. /\ \A y \in C : v.type[f[y]] = t.type[y]
      /\ \A y \in C \ {a} : v.next[f[y]] = Image(f, t.next[y])
      /\ t.type[a] # "leaf" => \A y \in C :
           v.firstChild[f[y]] = IF t.type[y] = "leaf" THEN NULL ELSE Image(f, t.firstChild[y])
      /\ \A n \in Node \ B :
           /\ v.parent[n] = t.parent[n] /\ v.prev[n] = t.prev[n] /\ v.next[n] = t.next[n]
           /\ v.rank[n] = t.rank[n] /\ v.depth[n] = t.depth[n]
      /\ \A n \in Node \ R : v.type[n] = t.type[n]
      /\ \A n \in Node : n \notin R \/ t.type[a] = "leaf" =>
           v.firstChild[n] = t.firstChild[n] /\ v.lastChild[n] = t.lastChild[n]
  BY <1>1, <1>3 DEF CopyMade
<1>7. \A y \in C \ {a} : t.next[y] \in (C \ {a}) \cup {NULL} /\ t.type[a] # "leaf"
  BY CopiedClosed
<1>8. \A y \in C : t.type[y] # "leaf" => t.firstChild[y] \in (C \ {a}) \cup {NULL}
  BY CopiedClosed
<1> HIDE DEF C, R, z, B
<1>9. \A n \in R : v.firstChild[n] \in R \cup {NULL}
  <2>1. SUFFICES ASSUME NEW n \in R PROVE v.firstChild[n] \in R \cup {NULL}
    OBVIOUS
  <2>2. PICK y \in C : n = f[y]
    BY <1>2
  <2>3. CASE t.type[a] = "leaf"
    BY <2>3, <1>2, <1>6, FreeIsAlone DEF Free
  <2>4. CASE t.type[a] # "leaf"
    BY <2>2, <2>4, <1>2, <1>6, <1>8 DEF Image
  <2>5. QED
    BY <2>3, <2>4
<1>10. \A n \in R \ {z} : v.next[n] \in R \cup {NULL}
  <2>1. SUFFICES ASSUME NEW n \in R, n # z PROVE v.next[n] \in R \cup {NULL}
    OBVIOUS
  <2>2. PICK y \in C \ {a} : n = f[y]
    BY <2>1, <1>5 DEF B
  <2>3. v.next[n] = Image(f, t.next[y])
    BY <2>2, <1>6
  <2>4. t.next[y] \in C \cup {NULL}
    BY <1>7
  <2>5. \A c \in C : f[c] \in R
    BY <1>2
  <2>6. QED
    BY <2>3, <2>4, <2>5 DEF Image
<1>11. Family(v, z) \subseteq R
  <2>1. Closed(v, z, R)
    BY <1>5, <1>9, <1>10 DEF Closed
  <2>2. R \subseteq Node
    BY <1>2 DEF Free
  <2>3. QED
    BY <2>1, <2>2 DEF Family
<1>12. z \in Free(t) /\ z \in Node \ B
  BY <1>2, <1>5 DEF Free
<1>13. v.rank[z] = 0 /\ v.parent[z] = NULL
  BY <1>6, <1>12, FreeIsAlone
<1>14. v.type[z] = t.type[a]
  BY <1>2, <1>6 DEF z
<1>15. \A n \in Alive(t) :
         /\ v.type[n] = t.type[n] /\ v.parent[n] = t.parent[n] /\ v.rank[n] = t.rank[n]
         /\ v.prev[n] = t.prev[n] /\ v.next[n] = t.next[n] /\ v.depth[n] = t.depth[n]
         /\ v.firstChild[n] = t.firstChild[n] /\ v.lastChild[n] = t.lastChild[n]
  BY <1>5, <1>6 DEF Alive
<1>16. QED
  BY <1>4, <1>5, <1>11, <1>13, <1>14, <1>15 DEF z

-----------------------------------------------------------------------------
(***************************************************************************)
(* The calls of a program, on a tree in which no node waits to be linked   *)
(***************************************************************************)

\* Where no node waits, none waits under a given one.
LEMMA NoneWaits ==
  ASSUME TreeAssumption, NEW t, NoneLoose(t), NEW x
  PROVE  \A m \in Node : t.parent[m] \in Family(t, x) => t.rank[m] > 0
BY DEF NoneLoose, Family, TreeAssumption

\* A copy can be linked anywhere in the tree it was copied from.
LEMMA CopyLinks ==
  ASSUME TreeAssumption, NEW t, Whole(t), NoneLoose(t),
         NEW p \in Alive(t), NEW a \in Alive(t), t.type[a] # "document",
         NEW f \in Copies(t, a), NEW c, c = Cloned(t, a, f)
  PROVE  /\ Whole(c) /\ NoneLoose(c)
         /\ p \in Alive(c) /\ f[a] \in Alive(c) /\ p \notin Family(c, f[a]) /\ f[a] # p
         /\ c.rank[f[a]] = 0 /\ c.type[f[a]] # "document"
         /\ \A m \in Node : c.parent[m] \in Family(c, f[a]) => c.rank[m] > 0
         /\ \A b \in Node : t.parent[b] = p =>
              c.parent[b] = p /\ c.rank[b] > 0 /\ b # f[a] /\ b \in Alive(c)
<1>1. /\ Whole(c) /\ NoneLoose(c)
      /\ Alive(t) \subseteq Alive(c) /\ f[a] \in Alive(c) \ Alive(t)
      /\ c.rank[f[a]] = 0 /\ c.type[f[a]] = t.type[a]
      /\ Family(c, f[a]) \cap Alive(t) = {}
      /\ \A n \in Alive(t) : c.parent[n] = t.parent[n] /\ c.rank[n] = t.rank[n]
  BY CopyApart
<1>2. \A m \in Node : c.parent[m] \in Family(c, f[a]) => c.rank[m] > 0
  BY <1>1, NoneWaits
<1>3. ASSUME NEW b \in Node, t.parent[b] = p
      PROVE  c.parent[b] = p /\ c.rank[b] > 0 /\ b # f[a] /\ b \in Alive(c)
  <2>1. p # NULL
    BY DEF Alive, TreeAssumption
  <2>2. b \in Alive(t) /\ t.rank[b] > 0
    BY <1>3, <2>1, ParentOf DEF NoneLoose
  <2>3. QED
    BY <1>1, <1>3, <2>2
<1>4. QED
  BY <1>1, <1>2, <1>3

\* new
LEMMA NewWhole ==
  ASSUME TreeAssumption, NEW t, Whole(t), NoneLoose(t),
         NEW n \in Free(t), NEW kind \in Kind, NEW v \in Value,
         NEW u, u = Made(t, n, kind, v, NULL)
  PROVE  Whole(u) /\ NoneLoose(u)
<1>1. t \in Tree /\ n \in Node
  BY DEF Whole, Free
<1>2. Whole(u)
  BY MadeWhole
<1>3. u.parent = [t.parent EXCEPT ![n] = NULL] /\ u.rank = t.rank
  BY <1>1 DEF Made, Tree
<1>4. QED
  BY <1>1, <1>2, <1>3 DEF NoneLoose, Tree, Pointer

\* LinkEndChild
LEMMA LinkEndWhole ==
  ASSUME TreeAssumption, NEW t, Whole(t), NoneLoose(t),
         NEW x \in Alive(t), t.parent[x] = NULL, t.type[x] # "document",
         NEW p \in Alive(t) \ Family(t, x)
  PROVE  Whole(Linked(t, p, x)) /\ NoneLoose(Linked(t, p, x))
<1>1. t.rank[x] = 0 /\ x \in Node /\ t \in Tree
  BY DEF Whole, Ordered, Alive
<1>2. x \in Family(t, x)
  BY <1>1 DEF Family, Closed
<1>3. \A m \in Node : t.parent[m] \in Family(t, x) => t.rank[m] > 0
  BY NoneWaits
<1>4. PICK place \in Nat : /\ Gap(t, p, t.lastChild[p], NULL, place)
                           /\ Spliced(t, Linked(t, p, x), p, x, t.lastChild[p], NULL, place)
  BY <1>3, LinkedSplices
<1>5. QED
  BY <1>1, <1>2, <1>4, SplicedWhole

\* InsertEndChild
LEMMA InsertEndWhole ==
  ASSUME TreeAssumption, NEW t, Whole(t), NoneLoose(t),
         NEW p \in Alive(t), NEW a \in Alive(t), t.type[a] # "document",
         NEW f \in Copies(t, a), NEW u, u = Linked(Cloned(t, a, f), p, f[a])
  PROVE  Whole(u) /\ NoneLoose(u)
<1> DEFINE c == Cloned(t, a, f)
           x == f[a]
<1>1. /\ Whole(c) /\ NoneLoose(c) /\ p \in Alive(c) /\ x \in Alive(c)
      /\ p \notin Family(c, x) /\ x # p /\ c.rank[x] = 0 /\ c.type[x] # "document"
      /\ \A m \in Node : c.parent[m] \in Family(c, x) => c.rank[m] > 0
  BY CopyLinks
<1>2. u = Linked(c, p, x)
  OBVIOUS
<1> HIDE DEF c, x
<1>3. PICK place \in Nat : /\ Gap(c, p, c.lastChild[p], NULL, place)
                           /\ Spliced(c, u, p, x, c.lastChild[p], NULL, place)
  BY <1>1, <1>2, LinkedSplices
<1>4. QED
  BY <1>1, <1>3, SplicedWhole

\* InsertBeforeChild
LEMMA InsertBeforeWhole ==
  ASSUME TreeAssumption, NEW t, Whole(t), NoneLoose(t),
         NEW p \in Alive(t), NEW a \in Alive(t), t.type[a] # "document",
         NEW b \in Node, t.parent[b] = p,
         NEW f \in Copies(t, a), NEW u, u = InsertedBefore(Cloned(t, a, f), p, b, f[a])
  PROVE  Whole(u) /\ NoneLoose(u)
<1> DEFINE c == Cloned(t, a, f)
           x == f[a]
<1>1. /\ Whole(c) /\ NoneLoose(c) /\ p \in Alive(c) /\ x \in Alive(c)
      /\ p \notin Family(c, x) /\ x # p /\ c.rank[x] = 0 /\ c.type[x] # "document"
      /\ c.parent[b] = p /\ c.rank[b] > 0
      /\ \A m \in Node : c.parent[m] \in Family(c, x) => c.rank[m] > 0
  BY CopyLinks
<1>2. u = InsertedBefore(c, p, b, x)
  OBVIOUS
<1> HIDE DEF c, x
<1>3. /\ Gap(c, p, c.prev[b], b, c.rank[b])
      /\ Spliced(c, u, p, x, c.prev[b], b, c.rank[b])
  BY <1>1, <1>2, InsertedBeforeSplices
<1>4. QED
  BY <1>1, <1>3, SplicedWhole

\* InsertAfterChild
LEMMA InsertAfterWhole ==
  ASSUME TreeAssumption, NEW t, Whole(t), NoneLoose(t),
         NEW p \in Alive(t), NEW a \in Alive(t), t.type[a] # "document",
         NEW b \in Node, t.parent[b] = p,
         NEW f \in Copies(t, a), NEW u, u = InsertedAfter(Cloned(t, a, f), p, b, f[a])
  PROVE  Whole(u) /\ NoneLoose(u)
<1> DEFINE c == Cloned(t, a, f)
           x == f[a]
<1>1. /\ Whole(c) /\ NoneLoose(c) /\ p \in Alive(c) /\ x \in Alive(c)
      /\ p \notin Family(c, x) /\ x # p /\ c.rank[x] = 0 /\ c.type[x] # "document"
      /\ c.parent[b] = p /\ c.rank[b] > 0
      /\ \A m \in Node : c.parent[m] \in Family(c, x) => c.rank[m] > 0
  BY CopyLinks
<1>2. u = InsertedAfter(c, p, b, x)
  OBVIOUS
<1> HIDE DEF c, x
<1>3. /\ Gap(c, p, b, c.next[b], c.rank[b] + 1)
      /\ Spliced(c, u, p, x, b, c.next[b], c.rank[b] + 1)
  BY <1>1, <1>2, InsertedAfterSplices
<1>4. QED
  BY <1>1, <1>3, SplicedWhole

\* A node in the place of another one: as if that one had been taken out, and this
\* one spliced in where it was.
LEMMA ReplacedWhole ==
  ASSUME TreeAssumption, NEW t, Whole(t), NoneLoose(t),
         NEW p \in Alive(t), NEW r \in Alive(t), t.parent[r] = p, t.rank[r] > 0,
         NEW x \in Alive(t), x # r, x # p, t.parent[x] = NULL, t.type[x] # "document",
         p \notin Family(t, x),
         NEW u, u = Replaced(t, p, r, x),
         NEW w, w = Deleted(u, Family(u, r))
  PROVE  /\ Whole(w) /\ NoneLoose(w)
         /\ x \notin Family(t, r)
         /\ \A n \in Family(t, r) : Void(w, n)
         /\ \A n \in Node \ Family(t, r) :
              /\ w.type[n] = t.type[n]
              /\ w.parent[n] = IF n = x THEN p ELSE t.parent[n]
              /\ w.rank[n] = IF n = x THEN t.rank[r] ELSE t.rank[n]
<1> DEFINE G == Family(t, r)
           left == t.prev[r]
           right == t.next[r]
           place == t.rank[r]
           v == Deleted(Bypassed(t, p, r), Family(Bypassed(t, p, r), r))
<1>1. /\ p \in Node /\ r \in Node /\ x \in Node /\ t \in Tree /\ p # NULL
      /\ left \in Node \cup {NULL} /\ right \in Node \cup {NULL}
      /\ place \in Nat \ {0}
      /\ \A n \in Node : t.rank[n] \in Nat /\ n # NULL
  BY Fields DEF Alive, TreeAssumption, Whole
<1>2. /\ \A m \in Node : t.parent[m] \in G => t.rank[m] > 0
      /\ \A m \in Node : t.parent[m] \in Family(t, x) => t.rank[m] > 0
  BY NoneWaits
<1>3. /\ G \subseteq Node /\ r \in G /\ p \notin G
      /\ \A n \in G \ {r} : t.parent[n] \in G
      /\ \A n \in Node : t.parent[n] \in G => n \in G
  BY <1>1, <1>2, FamilyApart
<1>4. CutOut(t, v, r)
  BY <1>1, <1>2, BypassedCutsOut
<1>5. Whole(v) /\ Alive(v) = Alive(t) \ G /\ NoneLoose(v)
  BY <1>2, <1>4, CutOutWhole
<1>6. left # NULL => /\ t.parent[left] = p /\ t.rank[left] > 0 /\ t.next[left] = r
                     /\ place = t.rank[left] + 1 /\ left # r /\ left \notin G
  <2>1. SUFFICES ASSUME left # NULL PROVE /\ t.parent[left] = p /\ t.rank[left] > 0
                        /\ t.next[left] = r /\ place = t.rank[left] + 1
                        /\ left # r /\ left \notin G
    OBVIOUS
  <2>2. /\ left \in Node /\ t.parent[left] = p /\ t.rank[left] > 0 /\ t.next[left] = r
        /\ place = t.rank[left] + 1
    BY <1>1, <2>1, PrevOf
  <2>3. left # r
    BY <1>1, <2>2
  <2>4. QED
    BY <1>3, <2>2, <2>3
<1>7. right # NULL => /\ t.parent[right] = p /\ t.prev[right] = r
                      /\ t.rank[right] = place + 1 /\ right # r /\ right \notin G
  <2>1. SUFFICES ASSUME right # NULL PROVE /\ t.parent[right] = p /\ t.prev[right] = r
                        /\ t.rank[right] = place + 1 /\ right # r /\ right \notin G
    OBVIOUS
  <2>2. /\ right \in Node /\ t.parent[right] = p /\ t.prev[right] = r
        /\ t.rank[right] = place + 1
    BY <1>1, <2>1, NextOf
  <2>3. right # r
    BY <1>1, <2>2
  <2>4. QED
    BY <1>3, <2>2, <2>3
<1>8. left = NULL => place = 1
  BY <1>1, PlaceOf
<1>9. t.rank[x] = 0 /\ x \notin G /\ x # left /\ x # right
  BY <1>1, <1>3, <1>6, <1>7 DEF Whole, Ordered
<1>10. /\ u.type = t.type /\ u.value = t.value
       /\ u.parent = Put(t.parent, x, p)
       /\ u.next = [n \in Node |-> IF n = x THEN right ELSE
                                   IF n = left THEN x ELSE t.next[n]]
       /\ u.prev = [n \in Node |-> IF n = x THEN left ELSE
                                   IF n = right THEN x ELSE t.prev[n]]
       /\ u.lastChild = IF right = NULL THEN Put(t.lastChild, p, x) ELSE t.lastChild
       /\ u.firstChild = IF left = NULL THEN Put(t.firstChild, p, x) ELSE t.firstChild
       /\ u.rank = Put(t.rank, x, place)
       /\ u.depth = Lowered(t, p, x)
  BY <1>1 DEF Replaced, Tree
<1>11. u = [type |-> u.type, value |-> u.value, parent |-> u.parent,
            firstChild |-> u.firstChild, lastChild |-> u.lastChild, prev |-> u.prev,
            next |-> u.next, rank |-> u.rank, depth |-> u.depth]
  BY <1>1 DEF Replaced, Tree
<1> HIDE DEF G, left, right, place, v
<1>12. DepthsFit(u.parent, u.depth)
  BY <1>1, <1>2, <1>10, LoweredFits
<1>13. u \in Tree
  <2>1. /\ u.parent \in Pointer /\ u.prev \in Pointer /\ u.next \in Pointer
        /\ u.firstChild \in Pointer /\ u.lastChild \in Pointer
    BY <1>1, <1>10 DEF Put, Pointer, Tree
  <2>2. u.rank \in [Node -> Nat]
    BY <1>1, <1>10 DEF Put
  <2>3. u.depth \in [Node -> Nat]
    BY <1>12 DEF DepthsFit
  <2>4. u.type \in [Node -> Kind \cup {"free"}] /\ u.value \in [Node -> Value \cup {NULL}]
    BY <1>1, <1>10 DEF Tree
  <2>5. QED
    BY <1>11, <2>1, <2>2, <2>3, <2>4, TreeFrom
<1>14. /\ u.parent[x] = p /\ u.next[x] = right /\ u.prev[x] = left /\ u.rank[x] = place
       /\ \A n \in Node \ {x} :
            /\ u.parent[n] = t.parent[n]
            /\ u.next[n] = IF n = left THEN x ELSE t.next[n]
            /\ u.prev[n] = IF n = right THEN x ELSE t.prev[n]
            /\ u.rank[n] = t.rank[n]
       /\ \A n \in Node :
            /\ u.firstChild[n] = IF left = NULL /\ n = p THEN x ELSE t.firstChild[n]
            /\ u.lastChild[n] = IF right = NULL /\ n = p THEN x ELSE t.lastChild[n]
  BY <1>1, <1>10 DEF Put, Tree, Pointer
<1>15. Family(u, r) = G
  <2>1. t.firstChild \in Pointer
    BY <1>1 DEF Tree
  <2>2. G = Reach(t, t.firstChild, r) /\ Family(u, r) = Reach(u, u.firstChild, r)
    BY <1>1, <1>13, FamilyIsReach DEF G
  <2>3. \A n \in G : n # x /\ n # left /\ n # p /\ n \in Node
    BY <1>1, <1>3, <1>6, <1>9
  <2>4. \A n \in G : u.firstChild[n] = t.firstChild[n] /\ u.next[n] = t.next[n]
    BY <1>14, <2>3
  <2>5. QED
    BY <1>1, <2>1, <2>2, <2>4, ReachSame
<1>16. /\ w \in Tree /\ \A n \in G : Void(w, n)
       /\ \A n \in Node \ G :
            /\ w.type[n] = u.type[n] /\ w.parent[n] = u.parent[n]
            /\ w.firstChild[n] = u.firstChild[n] /\ w.lastChild[n] = u.lastChild[n]
            /\ w.prev[n] = u.prev[n] /\ w.next[n] = u.next[n]
            /\ w.rank[n] = u.rank[n] /\ w.depth[n] = u.depth[n]
  BY <1>3, <1>13, <1>15, DeletedFields
<1>17. /\ v \in Tree /\ \A n \in G : Void(v, n)
       /\ \A n \in Node \ G :
            /\ v.type[n] = t.type[n] /\ v.parent[n] = t.parent[n] /\ v.depth[n] = t.depth[n]
            /\ v.next[n] = IF n = left THEN right ELSE t.next[n]
            /\ v.prev[n] = IF n = right THEN left ELSE t.prev[n]
            /\ v.firstChild[n] = IF left = NULL /\ n = p THEN right ELSE t.firstChild[n]
            /\ v.lastChild[n] = IF right = NULL /\ n = p THEN left ELSE t.lastChild[n]
            /\ v.rank[n] = IF t.parent[n] = p /\ t.rank[n] > place
                           THEN t.rank[n] - 1 ELSE t.rank[n]
  BY <1>1, <1>4 DEF CutOut, G, left, right, place
<1>18. Gap(v, p, left, right, place)
  <2>1. p \in Alive(v)
    BY <1>3, <1>5
  <2>2. left = NULL => v.firstChild[p] = right /\ place = 1
    BY <1>1, <1>3, <1>8, <1>17
  <2>3. left # NULL => /\ v.parent[left] = p /\ v.rank[left] > 0 /\ v.next[left] = right
                       /\ place = v.rank[left] + 1
    BY <1>1, <1>6, <1>17
  <2>4. right = NULL => v.lastChild[p] = left
    BY <1>1, <1>3, <1>17
  <2>5. right # NULL => v.parent[right] = p /\ v.rank[right] = place /\ v.prev[right] = left
    BY <1>1, <1>7, <1>17
  <2>6. QED
    BY <1>1, <2>1, <2>2, <2>3, <2>4, <2>5 DEF Gap
<1>19. w.type = v.type
  <2>1. \A n \in Node : w.type[n] = v.type[n]
    BY <1>10, <1>16, <1>17 DEF Void
  <2>2. w.type \in [Node -> Kind \cup {"free"}] /\ v.type \in [Node -> Kind \cup {"free"}]
    BY <1>16, <1>17 DEF Tree
  <2>3. QED
    BY <2>1, <2>2
<1>20. DepthsFit(w.parent, w.depth)
  <2>1. w.depth \in [Node -> Nat]
    BY <1>16 DEF Tree
  <2>2. ASSUME NEW n \in Node
        PROVE  /\ w.parent[n] = NULL => w.depth[n] = 0
               /\ w.parent[n] \in Node => w.depth[n] = w.depth[w.parent[n]] + 1
    <3>1. CASE n \in G
      BY <3>1, <1>1, <1>16 DEF Void
    <3>2. CASE n \notin G
      <4>1. u.parent[n] \notin G
        BY <3>2, <1>3, <1>14
      <4>2. QED
        BY <3>2, <4>1, <1>12, <1>16 DEF DepthsFit
    <3>3. QED
      BY <3>1, <3>2
  <2>3. QED
    BY <2>1, <2>2 DEF DepthsFit
<1>21. ASSUME NEW n \in Node \ {x}
       PROVE  /\ w.parent[n] = v.parent[n]
              /\ w.next[n] = IF n = left THEN x ELSE v.next[n]
              /\ w.prev[n] = IF n = right THEN x ELSE v.prev[n]
              /\ w.rank[n] = IF v.parent[n] = p /\ v.rank[n] >= place
                             THEN v.rank[n] + 1 ELSE v.rank[n]
  <2>1. CASE n \in G
    <3>1. n # left /\ n # right
      BY <2>1, <1>1, <1>6, <1>7
    <3>2. QED
      BY <2>1, <3>1, <1>1, <1>16, <1>17 DEF Void
  <2>2. CASE n \notin G
    <3>1. /\ w.parent[n] = v.parent[n]
          /\ w.next[n] = IF n = left THEN x ELSE v.next[n]
          /\ w.prev[n] = IF n = right THEN x ELSE v.prev[n]
      BY <2>2, <1>14, <1>16, <1>17
    <3>2. w.rank[n] = t.rank[n] /\ t.rank[n] \in Nat
      BY <2>2, <1>1, <1>14, <1>16
    <3>3. CASE t.parent[n] = p
      <4>1. t.rank[n] # place
        BY <2>2, <3>3, <1>1, <1>3 DEF Whole, Ordered, place
      <4>2. QED
        BY <2>2, <3>1, <3>2, <3>3, <4>1, <1>1, <1>17
    <3>4. CASE t.parent[n] # p
      BY <2>2, <3>1, <3>2, <3>4, <1>17
    <3>5. QED
      BY <3>3, <3>4
  <2>3. QED
    BY <2>1, <2>2
<1>22. ASSUME NEW n \in Node
       PROVE  /\ w.firstChild[n] = IF left = NULL /\ n = p THEN x ELSE v.firstChild[n]
              /\ w.lastChild[n] = IF right = NULL /\ n = p THEN x ELSE v.lastChild[n]
  <2>1. CASE n \in G
    BY <2>1, <1>3, <1>16, <1>17 DEF Void
  <2>2. CASE n \notin G
    BY <2>2, <1>14, <1>16, <1>17
  <2>3. QED
    BY <2>1, <2>2
<1>23. w.parent[x] = p /\ w.next[x] = right /\ w.prev[x] = left /\ w.rank[x] = place
  BY <1>1, <1>9, <1>14, <1>16
<1>24. Spliced(v, w, p, x, left, right, place)
  BY <1>16, <1>19, <1>20, <1>21, <1>22, <1>23 DEF Spliced
<1>25. x \in Alive(v) /\ v.rank[x] = 0 /\ v.type[x] # "document"
  BY <1>1, <1>5, <1>9, <1>17
<1>26. Whole(w) /\ NoneLoose(w)
  BY <1>5, <1>18, <1>24, <1>25, SplicedWhole
<1>27. \A n \in Node \ G :
         /\ w.type[n] = t.type[n]
         /\ w.parent[n] = IF n = x THEN p ELSE t.parent[n]
         /\ w.rank[n] = IF n = x THEN place ELSE t.rank[n]
  <2> TAKE n \in Node \ G
  <2>1. w.type[n] = t.type[n] /\ w.parent[n] = u.parent[n] /\ w.rank[n] = u.rank[n]
    BY <1>10, <1>16
  <2>2. CASE n = x
    BY <1>14, <2>1, <2>2
  <2>3. CASE n # x
    BY <1>14, <2>1, <2>3
  <2>4. QED
    BY <2>1, <2>2, <2>3
<1>28. x \notin G /\ \A n \in G : Void(w, n)
  BY <1>9, <1>16
<1>29. QED
  BY <1>26, <1>27, <1>28 DEF G, place

\* ReplaceChild
LEMMA ReplaceWhole ==
  ASSUME TreeAssumption, NEW t, Whole(t), NoneLoose(t),
         NEW p \in Alive(t), NEW a \in Alive(t), t.type[a] # "document",
         NEW r \in Node, t.parent[r] = p,
         NEW f \in Copies(t, a), NEW u, u = Replaced(Cloned(t, a, f), p, r, f[a]),
         NEW w, w = Deleted(u, Family(u, r))
  PROVE  Whole(w) /\ NoneLoose(w)
<1> DEFINE c == Cloned(t, a, f)
           x == f[a]
<1>1. /\ Whole(c) /\ NoneLoose(c) /\ p \in Alive(c) /\ x \in Alive(c)
      /\ p \notin Family(c, x) /\ x # p /\ c.rank[x] = 0 /\ c.type[x] # "document"
      /\ c.parent[r] = p /\ c.rank[r] > 0 /\ r # x /\ r \in Alive(c)
  BY CopyLinks
<1>2. c.parent[x] = NULL
  BY CopyApart
<1>3. u = Replaced(c, p, r, x)
  OBVIOUS
<1> HIDE DEF c, x
<1>4. QED
  BY <1>1, <1>2, <1>3, ReplacedWhole

\* RemoveChild
LEMMA RemoveWhole ==
  ASSUME TreeAssumption, NEW t, Whole(t), NoneLoose(t),
         NEW p \in Alive(t), NEW r \in Node, t.parent[r] = p,
         NEW u, u = Bypassed(t, p, r), NEW w, w = Deleted(u, Family(u, r))
  PROVE  Whole(w) /\ NoneLoose(w)
<1>1. p \in Node /\ p # NULL
  BY DEF Alive, TreeAssumption
<1>2. r \in Alive(t) /\ t.rank[r] > 0
  BY <1>1, ParentOf DEF NoneLoose
<1>3. \A m \in Node : t.parent[m] \in Family(t, r) => t.rank[m] > 0
  BY NoneWaits
<1>4. CutOut(t, w, r)
  BY <1>1, <1>2, <1>3, BypassedCutsOut
<1>5. QED
  BY <1>2, <1>3, <1>4, CutOutWhole

\* Delete
LEMMA DeleteWhole ==
  ASSUME TreeAssumption, NEW t, Whole(t), NoneLoose(t),
         NEW x \in Alive(t), t.parent[x] = NULL,
         NEW w, w = Deleted(t, Family(t, x))
  PROVE  Whole(w) /\ NoneLoose(w)
<1>1. \A m \in Node : t.parent[m] \in Family(t, x) => t.rank[m] > 0
  BY NoneWaits
<1>2. CutOut(t, w, x)
  BY DeletedCutsOut
<1>3. QED
  BY <1>1, <1>2, CutOutWhole

\* Clone
LEMMA CloneWhole ==
  ASSUME TreeAssumption, NEW t, Whole(t), NoneLoose(t),
         NEW a \in Alive(t), NEW f \in Copies(t, a)
  PROVE  Whole(Cloned(t, a, f)) /\ NoneLoose(Cloned(t, a, f))
BY CopyApart

\* Assignment: x is emptied or a leaf, and gets a's content at its own place.
LEMMA AssignWhole ==
  ASSUME TreeAssumption, NEW t, Whole(t), NoneLoose(t),
         NEW x \in Alive(t), NEW a \in Alive(t), t.type[x] = t.type[a], a \notin Family(t, x),
         NEW u, u = Cleared(t, x) \/ (t.type[x] = "leaf" /\ u = t),
         NEW f \in Injection(Copied(u, a), Free(u) \cup {x}), f[a] = x
  PROVE  Whole(Cloned(u, a, f)) /\ NoneLoose(Cloned(u, a, f))
<1>1. x \in Node /\ a \in Node
  BY DEF Alive
<1>2. x \in Family(t, x)
  BY <1>1 DEF Family, Closed
<1>3. /\ Whole(u) /\ NoneLoose(u) /\ a \in Alive(u) /\ u.type[x] = u.type[a]
      /\ u.type[a] = "leaf" \/ u.firstChild[x] = NULL
  <2>1. CASE u = Cleared(t, x)
    <3>1. \A m \in Node : t.parent[m] \in Family(t, x) => t.rank[m] > 0
      BY NoneWaits
    <3>2. /\ Whole(u) /\ (NoneLoose(t) => NoneLoose(u))
          /\ Alive(u) = Alive(t) \ (Family(t, x) \ {x})
          /\ u.firstChild[x] = NULL
          /\ \A n \in Node \ (Family(t, x) \ {x}) : u.type[n] = t.type[n]
      BY <2>1, <3>1, ClearedWhole
    <3>3. QED
      BY <1>1, <1>2, <3>2
  <2>2. CASE t.type[x] = "leaf" /\ u = t
    BY <2>2
  <2>3. QED
    BY <2>1, <2>2
<1>4. /\ f \in [Copied(u, a) -> Free(u) \cup {x}]
      /\ \A y, z \in Copied(u, a) : f[y] = f[z] => y = z
      /\ a \in Copied(u, a)
  BY <1>3, CopiedClosed DEF Injection, IsInjective
<1>5. f \in Injection(Copied(u, a), Node)
  BY <1>1, <1>4 DEF Injection, IsInjective, Free
<1>6. \A y \in Copied(u, a) \ {a} : f[y] \in Free(u)
  BY <1>4
<1>7. CopyMade(u, Cloned(u, a, f), a, f)
  BY <1>3, <1>5, ClonedCopies
<1>8. QED
  BY <1>3, <1>5, <1>6, <1>7, CopyWhole

\* Clear
LEMMA ClearWhole ==
  ASSUME TreeAssumption, NEW t, Whole(t), NoneLoose(t), NEW p \in Alive(t)
  PROVE  Whole(Cleared(t, p)) /\ NoneLoose(Cleared(t, p))
<1>1. \A m \in Node : t.parent[m] \in Family(t, p) => t.rank[m] > 0
  BY NoneWaits
<1>2. QED
  BY <1>1, ClearedWhole

-----------------------------------------------------------------------------
(***************************************************************************)
(* The steps of the parser                                                 *)
(***************************************************************************)

\* HalfLinkedOnlyInParse, of a tree t, the node s whose Parse runs and the nodes l
\* that nobody has linked
Waiting(t, s, l) ==
  /\ l = {n \in Node : t.parent[n] # NULL /\ t.rank[n] = 0}
  /\ s = NULL => l = {}
  /\ s # NULL => /\ s \in Alive(t)
                 /\ s \in l \/ t.type[s] = "document"
  /\ \A n \in l : /\ t.depth[n] <= t.depth[s]
                  /\ t.parent[n] \in l \/ t.type[t.parent[n]] = "document"
                  /\ \A m \in l : t.depth[n] = t.depth[m] => n = m

\* Outside the parser no node waits.
LEMMA NoneWaiting ==
  ASSUME TreeAssumption, NEW t \in Tree
  PROVE  /\ \A l : Waiting(t, NULL, l) => l = {} /\ NoneLoose(t)
         /\ NoneLoose(t) => /\ Waiting(t, NULL, {})
                            /\ \A d \in Alive(t) : t.type[d] = "document" => Waiting(t, d, {})
<1>1. \A n \in Node : t.rank[n] \in Nat
  BY Fields
<1>2. ASSUME NEW l, Waiting(t, NULL, l) PROVE l = {} /\ NoneLoose(t)
  <2>1. l = {} /\ l = {n \in Node : t.parent[n] # NULL /\ t.rank[n] = 0}
    BY <1>2 DEF Waiting
  <2>2. QED
    BY <1>1, <2>1 DEF NoneLoose
<1>3. NoneLoose(t) => {} = {n \in Node : t.parent[n] # NULL /\ t.rank[n] = 0}
  BY <1>1 DEF NoneLoose
<1>4. QED
  BY <1>2, <1>3 DEF Waiting, Alive, TreeAssumption

\* Identify: the new node waits, below all that wait.
LEMMA IdentifyWaits ==
  ASSUME TreeAssumption, NEW t, Whole(t), NEW p \in Alive(t), NEW l, Waiting(t, p, l),
         NEW n \in Free(t), NEW kind \in Kind, kind # "document", NEW v \in Value,
         NEW u, u = Made(t, n, kind, v, p)
  PROVE  Whole(u) /\ Waiting(u, n, l \cup {n})
<1>1. /\ p \in Node /\ n \in Node /\ p # n /\ p # NULL /\ n # NULL /\ t \in Tree
      /\ \A m \in Node : t.rank[m] \in Nat /\ t.depth[m] \in Nat
  BY Fields DEF Alive, Free, TreeAssumption, Whole
<1>2. Whole(u) /\ Alive(u) = Alive(t) \cup {n}
  BY MadeWhole
<1>3. /\ u.type = [t.type EXCEPT ![n] = kind]
      /\ u.parent = [t.parent EXCEPT ![n] = p]
      /\ u.depth = [t.depth EXCEPT ![n] = t.depth[p] + 1]
      /\ u.rank = t.rank
  BY <1>1, MadeFields
<1>4. /\ u.parent[n] = p /\ u.depth[n] = t.depth[p] + 1
      /\ \A m \in Node \ {n} : /\ u.type[m] = t.type[m] /\ u.parent[m] = t.parent[m]
                               /\ u.depth[m] = t.depth[m]
  BY <1>1, <1>3 DEF Tree, Pointer
<1>5. t.rank[n] = 0 /\ t.parent[n] = NULL /\ \A m \in Node : t.parent[m] # n
  BY FreeIsAlone
<1>6. /\ l = {m \in Node : t.parent[m] # NULL /\ t.rank[m] = 0}
      /\ p \in l \/ t.type[p] = "document"
      /\ \A m \in l : /\ t.depth[m] <= t.depth[p]
                      /\ t.parent[m] \in l \/ t.type[t.parent[m]] = "document"
                      /\ \A k \in l : t.depth[m] = t.depth[k] => m = k
  BY <1>1 DEF Waiting
<1>7. n \notin l /\ l \subseteq Node
  BY <1>5, <1>6
<1>8. l \cup {n} = {m \in Node : u.parent[m] # NULL /\ u.rank[m] = 0}
  <2>1. \A m \in Node : m \in l \cup {n} <=> u.parent[m] # NULL /\ u.rank[m] = 0
    BY <1>1, <1>3, <1>4, <1>5, <1>6
  <2>2. QED
    BY <1>1, <1>7, <2>1
<1>9. ASSUME NEW m \in l \cup {n}
      PROVE  /\ u.depth[m] <= u.depth[n]
             /\ u.parent[m] \in l \cup {n} \/ u.type[u.parent[m]] = "document"
             /\ \A k \in l \cup {n} : u.depth[m] = u.depth[k] => m = k
  <2>1. CASE m = n
    <3>1. \A k \in l : u.depth[k] < u.depth[n]
      BY <1>1, <1>4, <1>6, <1>7
    <3>2. QED
      BY <2>1, <3>1, <1>1, <1>4, <1>6, <1>7
  <2>2. CASE m # n
    <3>1. m \in l /\ m \in Node /\ t.parent[m] # NULL
      BY <2>2, <1>6
    <3>2. u.depth[m] <= u.depth[n] /\ u.depth[m] < u.depth[n]
      BY <3>1, <2>2, <1>1, <1>4, <1>6
    <3>3. t.parent[m] \in Node /\ t.parent[m] # n
      BY <3>1, <1>5, ParentOf DEF Alive
    <3>4. u.parent[m] \in l \cup {n} \/ u.type[u.parent[m]] = "document"
      BY <2>2, <3>1, <3>3, <1>4, <1>6
    <3>5. \A k \in l : u.depth[m] = u.depth[k] => m = k
      BY <2>2, <3>1, <1>4, <1>6, <1>7
    <3>6. QED
      BY <3>2, <3>4, <3>5, <1>1, <1>4
  <2>3. QED
    BY <2>1, <2>2
<1>10. QED
  BY <1>1, <1>2, <1>8, <1>9 DEF Waiting

\* What waits is not below the node whose Parse returns, so that its depth is
\* what it was.
LEMMA ReturnFits ==
  ASSUME TreeAssumption, NEW t, Whole(t), NEW l, NEW n \in Alive(t), Waiting(t, n, l), n \in l
  PROVE  /\ t.parent[n] \in Alive(t) \ Family(t, n) /\ t.parent[n] # n
         /\ \A m \in Node : t.parent[m] \in Family(t, n) => t.rank[m] > 0
<1> DEFINE F == Family(t, n)
           p == t.parent[n]
<1>1. /\ n \in Node /\ n # NULL /\ t \in Tree
      /\ \A m \in Node : t.rank[m] \in Nat /\ t.depth[m] \in Nat
      /\ l = {m \in Node : t.parent[m] # NULL /\ t.rank[m] = 0}
      /\ \A m \in l : t.depth[m] <= t.depth[n]
  BY Fields DEF Alive, TreeAssumption, Whole, Waiting
<1>2. /\ p \in Alive(t) /\ p \in Node /\ t.depth[n] = t.depth[p] + 1
      /\ t.depth[n] \in Nat /\ \A m \in Node : t.depth[m] \in Nat
  BY <1>1, ParentOf DEF Alive
<1>3. F \subseteq Node /\ \A m \in F : m = n \/ t.depth[m] > t.depth[n]
  <2>1. /\ F = Reach(t, t.firstChild, n) /\ Downward(t, t.firstChild)
        /\ Reach(t, t.firstChild, n) \subseteq Node
    BY <1>1, FamilyIsReach, ReachClosed
  <2>2. QED
    BY <1>1, <2>1, ReachBelow
<1> HIDE DEF F
<1>4. p # n /\ p \notin F
  BY <1>1, <1>2, <1>3
<1>5. ASSUME NEW m \in Node, t.parent[m] \in F PROVE t.rank[m] > 0
  <2>1. SUFFICES ASSUME t.rank[m] = 0 PROVE FALSE
    BY <1>1
  <2>2. t.parent[m] \in Node /\ t.parent[m] # NULL
    BY <1>3, <1>5 DEF TreeAssumption
  <2>3. m \in l /\ t.depth[m] = t.depth[t.parent[m]] + 1
    BY <1>1, <2>1, <2>2, ParentOf
  <2>4. t.depth[t.parent[m]] >= t.depth[n]
    <3>1. t.parent[m] = n \/ t.depth[t.parent[m]] > t.depth[n]
      BY <1>3, <1>5
    <3>2. t.depth[t.parent[m]] \in Nat /\ t.depth[n] \in Nat
      BY <1>2, <2>2
    <3>3. QED
      BY <3>1, <3>2
  <2>5. QED
    BY <1>1, <2>2, <2>3, <2>4
<1>6. QED
  BY <1>2, <1>4, <1>5 DEF F

\* ParseReturns: the node is linked, and its parent is the last one that waits, or
\* the document.
LEMMA ReturnWaits ==
  ASSUME TreeAssumption, NEW t, Whole(t), NEW l, NEW n \in Alive(t), Waiting(t, n, l), n \in l,
         NEW u, u = Linked(t, t.parent[n], n)
  PROVE  Whole(u) /\ Waiting(u, t.parent[n], l \ {n})
<1> DEFINE p == t.parent[n]
<1>1. /\ n \in Node /\ n # NULL /\ t \in Tree
      /\ \A m \in Node : t.rank[m] \in Nat /\ t.depth[m] \in Nat
      /\ l = {m \in Node : t.parent[m] # NULL /\ t.rank[m] = 0}
      /\ \A m \in l : /\ t.depth[m] <= t.depth[n]
                      /\ t.parent[m] \in l \/ t.type[t.parent[m]] = "document"
                      /\ \A k \in l : t.depth[m] = t.depth[k] => m = k
  BY Fields DEF Alive, TreeAssumption, Whole, Waiting
<1>2. /\ p \in Alive(t) /\ p \in Node /\ p \notin Family(t, n) /\ p # n
      /\ \A m \in Node : t.parent[m] \in Family(t, n) => t.rank[m] > 0
  BY ReturnFits DEF Alive
<1>3. t.depth[n] = t.depth[p] + 1 /\ t.type[n] # "document" /\ t.rank[n] = 0
  BY <1>1, <1>2, ParentOf DEF TreeAssumption
<1>4. PICK place \in Nat : /\ Gap(t, p, t.lastChild[p], NULL, place)
                           /\ Spliced(t, u, p, n, t.lastChild[p], NULL, place)
  BY <1>2, LinkedSplices
<1>5. Whole(u) /\ Alive(u) = Alive(t)
  BY <1>2, <1>3, <1>4, SplicedWhole
<1>6. /\ u.type = t.type /\ u.parent[n] = p /\ u.rank[n] > 0 /\ place > 0
      /\ \A m \in Node \ {n} :
           /\ u.parent[m] = t.parent[m]
           /\ u.rank[m] = IF t.parent[m] = p /\ t.rank[m] >= place
                          THEN t.rank[m] + 1 ELSE t.rank[m]
  BY <1>4 DEF Spliced, Gap
<1>7. \A m \in Node : u.depth[m] = t.depth[m]
  <2>1. u.depth = Lowered(t, p, n)
    BY <1>1 DEF Linked, Tree
  <2>2. ASSUME NEW m \in Node
        PROVE  Lowered(t, p, n)[m] = t.depth[m]
    <3>1. Lowered(t, p, n)[m] = IF m \in Family(t, n)
                                THEN t.depth[m] - t.depth[n] + t.depth[p] + 1
                                ELSE t.depth[m]
      BY DEF Lowered
    <3>2. QED
      BY <3>1, <1>1, <1>2, <1>3
  <2>3. QED
    BY <2>1, <2>2
<1> HIDE DEF p
<1>8. l \ {n} = {m \in Node : u.parent[m] # NULL /\ u.rank[m] = 0}
  <2>1. ASSUME NEW m \in Node
        PROVE  m \in l \ {n} <=> u.parent[m] # NULL /\ u.rank[m] = 0
    <3>1. CASE m = n
      BY <3>1, <1>6
    <3>2. CASE m # n
      BY <3>2, <1>1, <1>6
    <3>3. QED
      BY <3>1, <3>2
  <2>2. l \ {n} \subseteq Node
    BY <1>1
  <2>3. QED
    BY <2>1, <2>2
<1>9. \A m \in l : /\ m \in Node /\ t.parent[m] # NULL /\ t.parent[m] \in Node
                   /\ t.depth[m] = t.depth[t.parent[m]] + 1
  BY <1>1, ParentOf DEF Alive
<1>10. ASSUME NEW m \in l \ {n}
       PROVE  /\ u.depth[m] <= u.depth[p]
              /\ u.parent[m] \in l \ {n} \/ u.type[u.parent[m]] = "document"
              /\ \A k \in l \ {n} : u.depth[m] = u.depth[k] => m = k
  <2>1. t.depth[m] <= t.depth[n] /\ t.depth[m] # t.depth[n]
    BY <1>1
  <2>2. u.depth[m] <= u.depth[p]
    BY <2>1, <1>1, <1>2, <1>3, <1>7, <1>9
  <2>3. t.parent[m] # n
    BY <2>1, <1>1, <1>9
  <2>4. u.parent[m] \in l \ {n} \/ u.type[u.parent[m]] = "document"
    BY <2>3, <1>1, <1>6, <1>9
  <2>5. \A k \in l \ {n} : u.depth[m] = u.depth[k] => m = k
    BY <1>1, <1>7, <1>9
  <2>6. QED
    BY <2>2, <2>4, <2>5
<1>11. p \in l \ {n} \/ u.type[p] = "document"
  BY <1>1, <1>2, <1>6 DEF p
<1>12. p # NULL
  BY <1>2 DEF TreeAssumption
<1>13. QED
  BY <1>2, <1>5, <1>8, <1>10, <1>11, <1>12 DEF Waiting, p

\* ReadText: a text is linked at once, and what waits goes on waiting.
LEMMA ReadTextWaits ==
  ASSUME TreeAssumption, NEW t, Whole(t), NEW l, NEW p \in Alive(t), Waiting(t, p, l),
         NEW n \in Free(t), NEW v \in Value,
         NEW u, u = Linked(Made(t, n, "leaf", v, NULL), p, n)
  PROVE  Whole(u) /\ Waiting(u, p, l)
<1> DEFINE s == Made(t, n, "leaf", v, NULL)
<1>1. /\ p \in Node /\ n \in Node /\ p # n /\ p # NULL /\ n # NULL /\ t \in Tree
      /\ \A m \in Node : t.rank[m] \in Nat /\ t.depth[m] \in Nat
  BY Fields DEF Alive, Free, TreeAssumption, Whole
<1>2. Whole(s) /\ Alive(s) = Alive(t) \cup {n}
  BY MadeWhole DEF Kind
<1>3. /\ s.type = [t.type EXCEPT ![n] = "leaf"]
      /\ s.parent = [t.parent EXCEPT ![n] = NULL]
      /\ s.depth = [t.depth EXCEPT ![n] = 0]
      /\ s.rank = t.rank /\ s.firstChild = t.firstChild
  <2>1. s = Made(t, n, "leaf", v, NULL) /\ "leaf" \in Kind /\ NULL \in Node \cup {NULL}
    BY DEF Kind
  <2> HIDE DEF s
  <2>2. QED
    BY <1>1, <2>1, MadeFields
<1>4. /\ s.parent[n] = NULL /\ s.type[n] = "leaf" /\ s.rank[n] = 0
      /\ \A m \in Node \ {n} : /\ s.type[m] = t.type[m] /\ s.parent[m] = t.parent[m]
                               /\ s.depth[m] = t.depth[m]
      /\ s.firstChild[n] = NULL /\ \A m \in Node : t.parent[m] # n
  BY <1>1, <1>3, FreeIsAlone DEF Tree, Pointer
<1>5. u = Linked(s, p, n)
  OBVIOUS
<1> HIDE DEF s
<1>6. Family(s, n) = {n}
  <2>1. Closed(s, n, {n})
    BY <1>4 DEF Closed
  <2>2. n \in Family(s, n) /\ Family(s, n) \subseteq {n}
    BY <1>1, <2>1 DEF Family, Closed
  <2>3. QED
    BY <2>2
<1>7. p \notin Family(s, n) /\ \A m \in Node : s.parent[m] \in Family(s, n) => s.rank[m] > 0
  BY <1>1, <1>4, <1>6
<1>8. PICK place \in Nat : /\ Gap(s, p, s.lastChild[p], NULL, place)
                           /\ Spliced(s, u, p, n, s.lastChild[p], NULL, place)
  BY <1>2, <1>5, <1>7, LinkedSplices
<1>9. Whole(u) /\ Alive(u) = Alive(s)
  BY <1>1, <1>2, <1>4, <1>8, SplicedWhole
<1>10. /\ u.type = s.type /\ u.parent[n] = p /\ u.rank[n] > 0 /\ place > 0
       /\ \A m \in Node \ {n} :
            /\ u.parent[m] = s.parent[m]
            /\ u.rank[m] = IF s.parent[m] = p /\ s.rank[m] >= place
                           THEN s.rank[m] + 1 ELSE s.rank[m]
  BY <1>8 DEF Spliced, Gap
<1>11. \A m \in Node \ {n} : u.depth[m] = t.depth[m]
  <2>1. u.depth = Lowered(s, p, n)
    BY <1>2, <1>5 DEF Linked, Tree, Whole
  <2>2. \A m \in Node \ {n} : Lowered(s, p, n)[m] = s.depth[m]
    BY <1>6 DEF Lowered
  <2>3. QED
    BY <2>1, <2>2, <1>4
<1>12. /\ l = {m \in Node : t.parent[m] # NULL /\ t.rank[m] = 0}
       /\ p \in l \/ t.type[p] = "document"
       /\ \A m \in l : /\ t.depth[m] <= t.depth[p]
                       /\ t.parent[m] \in l \/ t.type[t.parent[m]] = "document"
                       /\ \A k \in l : t.depth[m] = t.depth[k] => m = k
  BY <1>1 DEF Waiting
<1>13. l \subseteq Node \ {n}
  BY <1>12, FreeIsAlone
<1>14. l = {m \in Node : u.parent[m] # NULL /\ u.rank[m] = 0}
  <2>1. ASSUME NEW m \in Node
        PROVE  m \in l <=> u.parent[m] # NULL /\ u.rank[m] = 0
    <3>1. CASE m = n
      BY <3>1, <1>10, <1>13
    <3>2. CASE m # n
      BY <3>2, <1>1, <1>3, <1>4, <1>10, <1>12
    <3>3. QED
      BY <3>1, <3>2
  <2>2. QED
    BY <1>13, <2>1
<1>15. \A m \in l : t.parent[m] \in Node \ {n}
  BY <1>4, <1>12, ParentOf DEF Alive
<1>16. \A m \in l : u.parent[m] = t.parent[m] /\ u.type[t.parent[m]] = t.type[t.parent[m]]
  BY <1>4, <1>10, <1>13, <1>15
<1>17. QED
  BY <1>1, <1>2, <1>4, <1>9, <1>10, <1>11, <1>12, <1>13, <1>14, <1>16 DEF Waiting

\* DocumentParsed: nothing waits below a document.
LEMMA DocumentWaits ==
  ASSUME TreeAssumption, NEW t, Whole(t), NEW l, NEW d \in Alive(t), Waiting(t, d, l),
         t.type[d] = "document"
  PROVE  l = {} /\ Waiting(t, NULL, {})
<1>1. d \in Node /\ t.depth[d] = 0
  BY DEF Whole, Ordered, Alive
<1>2. ASSUME NEW n \in l PROVE FALSE
  <2>1. n \in Node /\ t.parent[n] # NULL /\ t.depth[n] <= t.depth[d]
    BY DEF Waiting
  <2>2. t.parent[n] \in Node /\ t.depth[n] = t.depth[t.parent[n]] + 1
    BY <2>1, ParentOf DEF Alive
  <2>3. t.depth[t.parent[n]] \in Nat
    BY <2>2, Fields DEF Whole
  <2>4. QED
    BY <1>1, <2>1, <2>2, <2>3
<1>3. QED
  BY <1>2 DEF Waiting

-----------------------------------------------------------------------------
(***************************************************************************)
(* The structure is inductive                                              *)
(***************************************************************************)

\* The invariant of XmlTreeInv, in the terms of the lemmas
Holds(t, e, s, l) ==
  /\ Whole(t) /\ e \in SUBSET Node /\ s \in Node \cup {NULL} /\ Waiting(t, s, l)

LEMMA AsHolds ==
  /\ IInv <=> Holds(dom, error, parsing, loose)
  /\ IInv' <=> Holds(dom', error', parsing', loose')
<1>1. \A t, s, l : Waiting(t, s, l) => l \in SUBSET Node
  BY DEF Waiting
<1>2. HalfLinkedOnlyInParse <=> Waiting(dom, parsing, loose)
  BY DEF HalfLinkedOnlyInParse, Waiting
<1>3. HalfLinkedOnlyInParse' <=> Waiting(dom', parsing', loose')
  BY DEF HalfLinkedOnlyInParse, Waiting
<1>4. IInv <=> Holds(dom, error, parsing, loose)
  BY <1>1, <1>2 DEF IInv, Shape, TypeOK, Holds, Whole
<1>5. Shape' <=> /\ NothingDangles(dom') /\ DoublyLinked(dom')
                 /\ EndsHeld(dom') /\ Ordered(dom')
  BY DEF Shape
<1>6. IInv' <=> Holds(dom', error', parsing', loose')
  BY <1>1, <1>3, <1>5 DEF IInv, TypeOK, Holds, Whole
<1>7. QED
  BY <1>4, <1>6

\* The memory is free when the program starts.
LEMMA InitHolds ==
  ASSUME TreeAssumption, Init
  PROVE  IInv
<1>1. /\ dom.type = [n \in Node |-> "free"] /\ dom.value = Nowhere
      /\ dom.parent = Nowhere /\ dom.firstChild = Nowhere /\ dom.lastChild = Nowhere
      /\ dom.prev = Nowhere /\ dom.next = Nowhere /\ dom.rank = Zero /\ dom.depth = Zero
  BY DEF Init
<1>2. dom = [type |-> dom.type, value |-> dom.value, parent |-> dom.parent,
             firstChild |-> dom.firstChild, lastChild |-> dom.lastChild,
             prev |-> dom.prev, next |-> dom.next, rank |-> dom.rank, depth |-> dom.depth]
  BY DEF Init
<1>3. dom \in Tree
  BY <1>1, <1>2, TreeFrom DEF Nowhere, Zero, Pointer
<1>4. \A n \in Node : /\ dom.type[n] = "free" /\ dom.parent[n] = NULL
                      /\ dom.firstChild[n] = NULL /\ dom.lastChild[n] = NULL
                      /\ dom.prev[n] = NULL /\ dom.next[n] = NULL
                      /\ dom.rank[n] = 0 /\ dom.depth[n] = 0 /\ n # NULL
  BY <1>1 DEF Nowhere, Zero, TreeAssumption
<1>5. NothingDangles(dom)
  <2>1. \A n \in Node :
          {dom.parent[n], dom.firstChild[n], dom.lastChild[n], dom.prev[n], dom.next[n]}
            \subseteq Alive(dom) \cup {NULL}
    BY <1>4
  <2>2. \A n \in Free(dom) : n \in Node
    BY DEF Free
  <2>3. QED
    BY <1>4, <2>1, <2>2 DEF NothingDangles
<1>6. DoublyLinked(dom)
  BY <1>4 DEF DoublyLinked
<1>7. EndsHeld(dom)
  BY <1>4 DEF EndsHeld
<1>8. Ordered(dom)
  BY <1>4 DEF Ordered
<1>9. NoneLoose(dom)
  BY <1>4 DEF NoneLoose
<1>10. Whole(dom) /\ error = {} /\ parsing = NULL /\ loose = {} /\ Waiting(dom, NULL, {})
  BY <1>3, <1>5, <1>6, <1>7, <1>8, <1>9, NoneWaiting DEF Whole, Init
<1>11. QED
  BY <1>10, AsHolds DEF Holds

\* What a call of the program leaves is a tree in which no node waits.
LEMMA IdleHolds ==
  ASSUME TreeAssumption, IInv, Idle, Whole(dom'), NoneLoose(dom'), error' \in SUBSET Node
  PROVE  IInv'
<1>1. Holds(dom, error, parsing, loose) /\ dom' \in Tree
  BY AsHolds DEF Whole
<1>2. parsing = NULL /\ parsing' = NULL /\ loose' = loose /\ dom \in Tree
  BY <1>1 DEF Idle, Holds, Whole
<1>3. loose = {} /\ Waiting(dom', NULL, {})
  BY <1>1, <1>2, NoneWaiting DEF Holds
<1>4. Holds(dom', error', parsing', loose')
  BY <1>2, <1>3 DEF Holds
<1>5. QED
  BY <1>4, AsHolds

\* A step of a program or of the parser keeps the invariant.
LEMMA NextHolds ==
  ASSUME TreeAssumption, IInv, [Next]_vars
  PROVE  IInv'
<1>1. Holds(dom, error, parsing, loose)
  BY AsHolds
<1>2. /\ Whole(dom) /\ dom \in Tree /\ error \in SUBSET Node /\ Waiting(dom, parsing, loose)
      /\ parsing = NULL => NoneLoose(dom) /\ loose = {}
      /\ Alive(dom) \subseteq Node
  BY <1>1, NoneWaiting DEF Holds, Whole, Alive
<1>3. \A n : GetDocument(dom, n) \in SUBSET Node
  BY DEF GetDocument
<1>4. ASSUME Holds(dom', error', parsing', loose') PROVE IInv'
  BY <1>4, AsHolds
<1>5. CASE UNCHANGED vars
  <2>1. Holds(dom', error', parsing', loose')
    BY <1>1, <1>5 DEF vars
  <2>2. QED
    BY <2>1, <1>4
<1>6. ASSUME NEW n \in Node, NEW kind \in Kind, NEW v \in Value, New(n, kind, v)
      PROVE  IInv'
  <2>1. /\ Idle /\ n \in Free(dom) /\ dom' = Made(dom, n, kind, v, NULL) /\ error' = error
    BY <1>6 DEF New
  <2>2. Whole(dom') /\ NoneLoose(dom')
    BY <1>2, <2>1, NewWhole DEF Idle
  <2>3. QED
    BY <1>2, <2>1, <2>2, IdleHolds
<1>7. ASSUME NEW p \in Alive(dom), NEW x \in Alive(dom), LinkEndChild(p, x)
      PROVE  IInv'
  <2>1. /\ Idle /\ dom.parent[x] = NULL /\ dom.type[x] # "document" /\ error' = error
        /\ p \in Alive(dom) \ Family(dom, x) /\ dom' = Linked(dom, p, x) /\ NoneLoose(dom)
    BY <1>2, <1>7 DEF LinkEndChild, Tops, Idle
  <2>2. Whole(dom') /\ NoneLoose(dom')
    BY <1>2, <2>1, LinkEndWhole
  <2>3. QED
    BY <1>2, <2>1, <2>2, IdleHolds
<1>8. ASSUME NEW p \in Alive(dom), NEW a \in Alive(dom), Idle, DocumentTopOnly(p, a)
      PROVE  IInv'
  <2>1. dom' = dom /\ error' \in SUBSET Node /\ NoneLoose(dom)
    BY <1>2, <1>3, <1>8 DEF DocumentTopOnly, Idle
  <2>2. QED
    BY <1>2, <1>8, <2>1, IdleHolds
<1>9. ASSUME NEW p \in Alive(dom), NEW a \in Alive(dom), InsertEndChild(p, a)
      PROVE  IInv'
  <2>1. CASE DocumentTopOnly(p, a)
    BY <1>8, <1>9, <2>1 DEF InsertEndChild
  <2>2. CASE ~ DocumentTopOnly(p, a)
    <3>1. /\ Idle /\ dom.type[a] # "document" /\ error' = error /\ NoneLoose(dom)
          /\ \E f \in Copies(dom, a) : dom' = Linked(Cloned(dom, a, f), p, f[a])
      BY <1>2, <1>9, <2>2 DEF InsertEndChild, Idle
    <3>2. Whole(dom') /\ NoneLoose(dom')
      BY <1>2, <3>1, InsertEndWhole
    <3>3. QED
      BY <1>2, <3>1, <3>2, IdleHolds
  <2>3. QED
    BY <2>1, <2>2
<1>10. ASSUME NEW p \in Alive(dom), NEW b \in Alive(dom), NEW a \in Alive(dom),
              InsertBeforeChild(p, b, a)
       PROVE  IInv'
  <2>1. CASE DocumentTopOnly(p, a)
    BY <1>8, <1>10, <2>1 DEF InsertBeforeChild
  <2>2. CASE ~ DocumentTopOnly(p, a)
    <3>1. /\ Idle /\ dom.type[a] # "document" /\ error' = error /\ NoneLoose(dom)
          /\ b \in Node /\ dom.parent[b] = p
          /\ \E f \in Copies(dom, a) : dom' = InsertedBefore(Cloned(dom, a, f), p, b, f[a])
      BY <1>2, <1>10, <2>2 DEF InsertBeforeChild, Idle, Children
    <3>2. Whole(dom') /\ NoneLoose(dom')
      BY <1>2, <3>1, InsertBeforeWhole
    <3>3. QED
      BY <1>2, <3>1, <3>2, IdleHolds
  <2>3. QED
    BY <2>1, <2>2
<1>11. ASSUME NEW p \in Alive(dom), NEW b \in Alive(dom), NEW a \in Alive(dom),
              InsertAfterChild(p, b, a)
       PROVE  IInv'
  <2>1. CASE DocumentTopOnly(p, a)
    BY <1>8, <1>11, <2>1 DEF InsertAfterChild
  <2>2. CASE ~ DocumentTopOnly(p, a)
    <3>1. /\ Idle /\ dom.type[a] # "document" /\ error' = error /\ NoneLoose(dom)
          /\ b \in Node /\ dom.parent[b] = p
          /\ \E f \in Copies(dom, a) : dom' = InsertedAfter(Cloned(dom, a, f), p, b, f[a])
      BY <1>2, <1>11, <2>2 DEF InsertAfterChild, Idle, Children
    <3>2. Whole(dom') /\ NoneLoose(dom')
      BY <1>2, <3>1, InsertAfterWhole
    <3>3. QED
      BY <1>2, <3>1, <3>2, IdleHolds
  <2>3. QED
    BY <2>1, <2>2
<1>12. ASSUME NEW p \in Alive(dom), NEW r \in Alive(dom), NEW a \in Alive(dom),
              ReplaceChild(p, r, a)
       PROVE  IInv'
  <2>1. CASE DocumentTopOnly(p, a)
    BY <1>8, <1>12, <2>1 DEF ReplaceChild
  <2>2. CASE ~ DocumentTopOnly(p, a)
    <3>1. /\ Idle /\ dom.type[a] # "document" /\ error' = error /\ NoneLoose(dom)
          /\ r \in Node /\ dom.parent[r] = p
      BY <1>2, <1>12, <2>2 DEF ReplaceChild, Idle, Children
    <3>2. PICK f \in Copies(dom, a) :
            LET u == Replaced(Cloned(dom, a, f), p, r, f[a])
            IN  dom' = Deleted(u, Family(u, r))
      BY <1>12, <2>2 DEF ReplaceChild
    <3>3. Whole(dom') /\ NoneLoose(dom')
      BY <1>2, <3>1, <3>2, ReplaceWhole
    <3>4. QED
      BY <1>2, <3>1, <3>3, IdleHolds
  <2>3. QED
    BY <2>1, <2>2
<1>13. ASSUME NEW p \in Alive(dom), NEW r \in Alive(dom), RemoveChild(p, r)
       PROVE  IInv'
  <2>1. /\ Idle /\ error' = error /\ NoneLoose(dom) /\ r \in Node /\ dom.parent[r] = p
        /\ dom' = LET u == Bypassed(dom, p, r) IN Deleted(u, Family(u, r))
    BY <1>2, <1>13 DEF RemoveChild, Idle, Children
  <2>2. Whole(dom') /\ NoneLoose(dom')
    BY <1>2, <2>1, RemoveWhole
  <2>3. QED
    BY <1>2, <2>1, <2>2, IdleHolds
<1>14. ASSUME NEW p \in Alive(dom), Clear(p)
       PROVE  IInv'
  <2>1. Idle /\ error' = error /\ NoneLoose(dom) /\ dom' = Cleared(dom, p)
    BY <1>2, <1>14 DEF Clear, Idle
  <2>2. Whole(dom') /\ NoneLoose(dom')
    BY <1>2, <2>1, ClearWhole
  <2>3. QED
    BY <1>2, <2>1, <2>2, IdleHolds
<1>15. ASSUME NEW x \in Alive(dom), Delete(x)
       PROVE  IInv'
  <2>1. /\ Idle /\ dom.parent[x] = NULL /\ NoneLoose(dom) /\ error' \in SUBSET Node
        /\ dom' = Deleted(dom, Family(dom, x))
    BY <1>2, <1>15 DEF Delete, Idle, Tops
  <2>2. Whole(dom') /\ NoneLoose(dom')
    BY <1>2, <2>1, DeleteWhole
  <2>3. QED
    BY <2>1, <2>2, IdleHolds
<1>16. ASSUME NEW a \in Alive(dom), Clone(a)
       PROVE  IInv'
  <2>1. PICK f \in Copies(dom, a) :
          /\ dom' = Cloned(dom, a, f)
          /\ error' = IF a \in error THEN error \cup {f[a]} ELSE error
    BY <1>16 DEF Clone
  <2>2. Idle /\ NoneLoose(dom)
    BY <1>2, <1>16 DEF Clone, Idle
  <2>3. f[a] \in Node
    BY <1>2, CopiedClosed DEF Copies, Injection, Free
  <2>4. error' \in SUBSET Node
    BY <1>2, <2>1, <2>3
  <2>5. Whole(dom') /\ NoneLoose(dom')
    BY <1>2, <2>1, <2>2, CloneWhole
  <2>6. QED
    BY <2>2, <2>4, <2>5, IdleHolds
<1>17. ASSUME NEW x \in Alive(dom), NEW a \in Alive(dom), Assign(x, a)
       PROVE  IInv'
  <2>1. /\ Idle /\ NoneLoose(dom) /\ dom.type[x] = dom.type[a] /\ x \in Node
        /\ error' \in SUBSET Node
    BY <1>2, <1>17 DEF Assign, Idle
  <2>2. Whole(Cleared(dom, x)) /\ NoneLoose(Cleared(dom, x))
    BY <1>2, <2>1, ClearWhole
  <2>3. CASE dom' = Cleared(dom, x) \/ dom' = dom
    BY <1>2, <2>1, <2>2, <2>3, IdleHolds
  <2>4. CASE ~ (dom' = Cleared(dom, x) \/ dom' = dom)
    <3>1. PICK u : /\ u = Cleared(dom, x) \/ (dom.type[x] = "leaf" /\ u = dom)
                   /\ a \notin Family(dom, x)
                   /\ \E f \in Injection(Copied(u, a), Free(u) \cup {x}) :
                        f[a] = x /\ dom' = Cloned(u, a, f)
      BY <1>17, <2>4 DEF Assign
    <3>2. Whole(dom') /\ NoneLoose(dom')
      BY <1>2, <2>1, <3>1, AssignWhole
    <3>3. QED
      BY <2>1, <3>2, IdleHolds
  <2>5. QED
    BY <2>3, <2>4
<1>18. ASSUME NEW d \in Alive(dom), Parse(d) \/ LoadFile(d)
       PROVE  IInv'
  <2>1. PICK t : (t = dom \/ t = Cleared(dom, d)) /\ StartParse(d, t)
    BY <1>18 DEF Parse, LoadFile
  <2>2. /\ parsing = NULL /\ NoneLoose(dom) /\ loose = {} /\ loose' = loose
        /\ dom' = t /\ d \in Node /\ error' \in SUBSET Node
        /\ (parsing' = NULL) \/ (parsing' = d /\ dom.type[d] = "document")
    BY <1>2, <2>1 DEF StartParse
  <2>3. Whole(t) /\ NoneLoose(t) /\ d \in Alive(t) /\ t.type[d] = dom.type[d]
    <3>1. CASE t = dom
      BY <1>2, <2>2, <3>1
    <3>2. CASE t = Cleared(dom, d)
      <4>1. \A m \in Node : dom.parent[m] \in Family(dom, d) => dom.rank[m] > 0
        BY <2>2, NoneWaits
      <4>2. QED
        BY <1>2, <2>2, <3>2, <4>1, ClearedWhole
    <3>3. QED
      BY <2>1, <3>1, <3>2
  <2>4. Waiting(t, parsing', {})
    BY <2>2, <2>3, NoneWaiting DEF Whole
  <2>5. Holds(dom', error', parsing', loose')
    BY <2>2, <2>3, <2>4 DEF Holds
  <2>6. QED
    BY <2>5, <1>4
<1>19. ASSUME NEW n \in Alive(dom), ParseError(n)
       PROVE  IInv'
  <2>1. Holds(dom', error', parsing', loose')
    BY <1>1, <1>2, <1>3, <1>19 DEF ParseError, Holds
  <2>2. QED
    BY <2>1, <1>4
<1>20. ASSUME NEW n \in Alive(dom), ParseReturns(n)
       PROVE  IInv'
  <2>1. /\ parsing = n /\ n \in loose /\ dom' = Linked(dom, dom.parent[n], n)
        /\ parsing' = dom.parent[n] /\ loose' = loose \ {n} /\ error' = error
    BY <1>20 DEF ParseReturns
  <2>2. Whole(dom') /\ Waiting(dom', dom.parent[n], loose \ {n})
    BY <1>2, <2>1, ReturnWaits
  <2>3. dom.parent[n] \in Node \cup {NULL}
    BY <1>2, Fields
  <2>4. Holds(dom', error', parsing', loose')
    BY <1>2, <2>1, <2>2, <2>3 DEF Holds
  <2>5. QED
    BY <2>4, <1>4
<1>21. ASSUME NEW d \in Alive(dom), DocumentParsed(d)
       PROVE  IInv'
  <2>1. /\ parsing = d /\ dom.type[d] = "document" /\ dom' = dom /\ loose' = loose
        /\ parsing' = NULL /\ error' \in SUBSET Node
    BY <1>2, <1>21 DEF DocumentParsed
  <2>2. loose = {} /\ Waiting(dom, NULL, {})
    BY <1>2, <2>1, DocumentWaits
  <2>3. Holds(dom', error', parsing', loose')
    BY <1>2, <2>1, <2>2 DEF Holds
  <2>4. QED
    BY <2>3, <1>4
<1>22. ASSUME NEW p \in Alive(dom), NEW n \in Node, NEW kind \in Kind, NEW v \in Value,
              Identify(p, n, kind, v)
       PROVE  IInv'
  <2>1. /\ parsing = p /\ n \in Free(dom) /\ kind # "document"
        /\ dom' = Made(dom, n, kind, v, p)
        /\ parsing' = n /\ loose' = loose \cup {n} /\ error' = error
    BY <1>22 DEF Identify, Reading, ParentInParse
  <2>2. Whole(dom') /\ Waiting(dom', n, loose \cup {n})
    BY <1>2, <2>1, IdentifyWaits
  <2>3. Holds(dom', error', parsing', loose')
    BY <1>2, <2>1, <2>2 DEF Holds
  <2>4. QED
    BY <2>3, <1>4
<1>23. ASSUME NEW p \in Alive(dom), NEW n \in Node, NEW v \in Value, ReadText(p, n, v)
       PROVE  IInv'
  <2>1. /\ parsing = p /\ n \in Free(dom)
        /\ dom' = Linked(Made(dom, n, "leaf", v, NULL), p, n)
        /\ parsing' = parsing /\ loose' = loose /\ error' = error
    BY <1>23 DEF ReadText, Reading
  <2>2. Whole(dom') /\ Waiting(dom', p, loose)
    BY <1>2, <2>1, ReadTextWaits
  <2>3. Holds(dom', error', parsing', loose')
    BY <1>1, <1>2, <2>1, <2>2 DEF Holds
  <2>4. QED
    BY <2>3, <1>4
<1>24. QED
  BY <1>5, <1>6, <1>7, <1>9, <1>10, <1>11, <1>12, <1>13, <1>14, <1>15, <1>16, <1>17,
     <1>18, <1>19, <1>20, <1>21, <1>22, <1>23 DEF Next

\* Whatever calls a program makes, and wherever the parser is: no pointer leads to
\* a node that is gone, the lists are doubly linked with their ends held and no
\* ring or branch in them, and the nodes that wait to be linked are those whose
\* Parse has not returned.
THEOREM TreeHolds == Spec => []IInv
<1>1. Init => IInv
  BY TreeAssumption, InitHolds
<1>2. IInv /\ [Next]_vars => IInv'
  BY TreeAssumption, NextHolds
<1>3. QED
  BY <1>1, <1>2, PTL DEF Spec

-----------------------------------------------------------------------------
(***************************************************************************)
(* Where an error goes                                                     *)
(***************************************************************************)

\* What a climb reaches
Climbed(t, n) == {x \in Node : \A S \in SUBSET Node : Climbing(t, n, S) => x \in S}

LEMMA ClimbedClosed ==
  ASSUME TreeAssumption, NEW t \in Tree, NEW n \in Node
  PROVE  /\ Climbed(t, n) \subseteq Node /\ n \in Climbed(t, n)
         /\ \A x \in Climbed(t, n) : t.parent[x] # NULL => t.parent[x] \in Climbed(t, n)
         /\ \A S \in SUBSET Node : Climbing(t, n, S) => Climbed(t, n) \subseteq S
<1> DEFINE C == Climbed(t, n)
<1>1. C \subseteq Node /\ n \in C
  BY DEF Climbed, Climbing
<1>2. ASSUME NEW x \in C, t.parent[x] # NULL PROVE t.parent[x] \in C
  <2>1. t.parent[x] \in Node
    BY <1>1, <1>2, Fields
  <2>2. ASSUME NEW S \in SUBSET Node, Climbing(t, n, S) PROVE t.parent[x] \in S
    BY <2>2, <1>2 DEF Climbed, Climbing
  <2>3. QED
    BY <2>1, <2>2 DEF Climbed
<1>3. \A S \in SUBSET Node : Climbing(t, n, S) => C \subseteq S
  BY DEF Climbed
<1>4. QED
  BY <1>1, <1>2, <1>3

\* The nodes that wait are one below the other, so that a climb from the lowest one
\* passes no other node, and ends at the only document it can reach.
LEMMA OneDocument ==
  ASSUME TreeAssumption, NEW t, Whole(t), NEW l, NEW s \in Node, Waiting(t, s, l)
  PROVE  \E d \in Node : GetDocument(t, s) = {d}
<1> DEFINE C == Climbed(t, s)
<1>1. /\ t \in Tree /\ s # NULL /\ NULL \notin Node
      /\ \A n \in Node : t.depth[n] \in Nat
  BY Fields DEF Whole, TreeAssumption
<1>2. /\ C \subseteq Node /\ s \in C
      /\ \A x \in C : t.parent[x] # NULL => t.parent[x] \in C
      /\ \A S \in SUBSET Node : Climbing(t, s, S) => C \subseteq S
  BY <1>1, ClimbedClosed
<1>3. /\ \A n \in l : n \in Node /\ t.parent[n] # NULL
      /\ s \in l \/ t.type[s] = "document"
      /\ \A n \in l : /\ t.parent[n] \in l \/ t.type[t.parent[n]] = "document"
                      /\ \A m \in l : t.depth[n] = t.depth[m] => n = m
  BY <1>1 DEF Waiting
<1>4. \A n \in Node : t.type[n] = "document" => t.parent[n] = NULL
  BY DEF Whole, Ordered
<1>5. \A n \in Node : t.parent[n] = NULL => t.depth[n] = 0
  BY DEF Whole, Ordered
<1>6. \A n \in Node : t.parent[n] # NULL =>
        t.parent[n] \in Node /\ t.depth[n] = t.depth[t.parent[n]] + 1
  BY ParentOf DEF Alive
<1>7. GetDocument(t, s) = {d \in C : t.type[d] = "document"}
  BY DEF GetDocument, Climbed
<1> HIDE DEF C
<1>8. CASE t.type[s] = "document"
  <2>1. Climbing(t, s, {s})
    BY <1>4, <1>8 DEF Climbing
  <2>2. C \subseteq {s}
    BY <1>2, <2>1
  <2>3. QED
    BY <1>2, <1>7, <1>8, <2>2
<1>9. CASE t.type[s] # "document"
  <2> DEFINE L == {n \in C : n \in l}
             Depths == {k \in Nat : \E y \in L : t.depth[y] = k}
  <2>1. s \in L
    BY <1>2, <1>3, <1>9
  <2>2. PICK k \in Depths : \A j \in Depths : k <= j
    <3>1. t.depth[s] \in Depths
      BY <1>1, <2>1
    <3>2. Depths \subseteq Nat /\ Depths # {}
      BY <3>1
    <3>3. QED
      BY <3>2, LeastExists
  <2>3. PICK e \in L : t.depth[e] = k
    BY <2>2
  <2> DEFINE d == t.parent[e]
  <2>4. d \in Node /\ d \in C /\ t.depth[e] = t.depth[d] + 1
    BY <1>2, <1>3, <1>6, <2>3
  <2>5. d \notin l
    <3>1. SUFFICES ASSUME d \in l PROVE FALSE
      OBVIOUS
    <3>2. t.depth[d] \in Depths
      BY <1>1, <2>4, <3>1
    <3>3. k <= t.depth[d]
      BY <2>2, <3>2
    <3>4. QED
      BY <1>1, <2>3, <2>4, <3>3
  <2>6. t.type[d] = "document" /\ t.parent[d] = NULL /\ t.depth[e] = 1
    BY <1>3, <1>4, <1>5, <2>3, <2>4, <2>5
  <2>7. ASSUME NEW n \in L PROVE t.parent[n] \in L \cup {d}
    <3>1. t.parent[n] \in C /\ n \in Node /\ n \in l /\ e \in l
      BY <1>2, <1>3, <2>3
    <3>2. CASE t.parent[n] \in l
      BY <3>1, <3>2
    <3>3. CASE t.parent[n] \notin l
      <4>1. t.type[t.parent[n]] = "document" /\ t.parent[n] \in Node
        BY <1>2, <1>3, <3>1, <3>3
      <4>2. t.depth[n] = 1
        BY <1>3, <1>4, <1>5, <1>6, <3>1, <4>1
      <4>3. n = e
        BY <1>3, <2>6, <3>1, <4>2
      <4>4. QED
        BY <4>3
    <3>4. QED
      BY <3>2, <3>3
  <2>8. Climbing(t, s, L \cup {d})
    BY <2>1, <2>6, <2>7 DEF Climbing
  <2>9. C \subseteq L \cup {d}
    BY <1>2, <2>4, <2>8
  <2>10. \A n \in L : t.type[n] # "document"
    BY <1>3, <1>4
  <2> HIDE DEF L, d
  <2>11. QED
    BY <1>7, <2>4, <2>6, <2>9, <2>10
<1>10. QED
  BY <1>8, <1>9

\* Wherever the parser is, its error has one document to be reported to.
THEOREM ErrorsReach == Spec => []ErrorsReachTheDocument
<1>1. ASSUME IInv PROVE ErrorsReachTheDocument
  BY <1>1, TreeAssumption, AsHolds, OneDocument DEF Holds, ErrorsReachTheDocument
<1>2. QED
  BY <1>1, TreeHolds, PTL
=============================================================================
