--------------------------- MODULE XmlTreeContract ---------------------------
(***************************************************************************)
(* What a program may rely on of tinyxml's tree: every node has a sequence *)
(* of children, and each call changes one place of one sequence, makes or  *)
(* deletes whole trees, and touches nothing else.                          *)
(***************************************************************************)
EXTENDS Naturals, SequencesExt

CONSTANTS Node, Kind

VARIABLES
  kind,  \* of each node; "free" when there is none at this address
  kids   \* the children of each node, in their order

vars == <<kind, kids>>

Alive == {n \in Node : kind[n] # "free"}
Held(x) == \E p \in Node : x \in ToSet(kids[p])

\* What n reaches, when a node of tops leads to all its children
Reached(n, tops) ==
  LET list == kids IN
  {m \in Node : \A S \in SUBSET Node :
     n \in S /\ (\A x \in S \cap tops : ToSet(list[x]) \subseteq S) => m \in S}

\* n and all that is below it; the part of it that a copy has
Family(n) == Reached(n, Node)
Duplicated(n) == Reached(n, {x \in Node : kind[x] # "leaf"})

\* What a delete of the nodes in gone leaves
KindWithout(gone, was) == [n \in Node |-> IF n \in gone THEN "free" ELSE was[n]]
KidsWithout(gone, list) == [n \in Node |-> IF n \in gone THEN <<>> ELSE list[n]]

\* The copies f of the nodes in its domain
Copied(f, rest) ==
  LET From == AntiFunction(f)
      list == kids IN
  [n \in Node |->
     IF n \notin Range(f) THEN rest[n] ELSE
     IF kind[From[n]] = "leaf" THEN <<>> ELSE
     [i \in DOMAIN list[From[n]] |-> f[list[From[n]][i]]]]
CopiedKind(f, was) ==
  LET From == AntiFunction(f) IN
  [n \in Node |-> IF n \in Range(f) THEN kind[From[n]] ELSE was[n]]
Copies(a, S) == Injection(Duplicated(a), S)

Init == kind = [n \in Node |-> "free"] /\ kids = [n \in Node |-> <<>>]

New(n, k) ==
  /\ n \notin Alive
  /\ kind' = [kind EXCEPT ![n] = k]
  /\ UNCHANGED kids

Link(p, x) ==
  /\ p \in Alive /\ ~ Held(x) /\ p \notin Family(x)
  /\ kids' = [kids EXCEPT ![p] = Append(@, x)]
  /\ UNCHANGED kind

NewLast(p, n, k) ==
  /\ n \notin Alive
  /\ kind' = [kind EXCEPT ![n] = k]
  /\ kids' = [kids EXCEPT ![p] = Append(@, n)]

InsertCopy(p, i, a) == \E n \in Node \ Alive :
  /\ kids'[p] = InsertAt(kids[p], i, n)
  /\ \E f \in Copies(a, Node \ Alive) :
       /\ f[a] = n
       /\ kind' = CopiedKind(f, kind)
       /\ kids' = [Copied(f, kids) EXCEPT ![p] = InsertAt(@, i, n)]

\* The copy is made before the replaced tree goes.
ReplaceWithCopy(p, i, a) == \E n \in Node \ Alive :
  /\ kids'[p] = [kids[p] EXCEPT ![i] = n]
  /\ \E f \in Copies(a, Node \ Alive) :
       LET gone == Family(kids[p][i]) IN
       /\ f[a] = n
       /\ kind' = KindWithout(gone, CopiedKind(f, kind))
       /\ kids' = KidsWithout(gone, [Copied(f, kids) EXCEPT ![p][i] = n])

Copy(a) == \E f \in Copies(a, Node \ Alive) :
  kind' = CopiedKind(f, kind) /\ kids' = Copied(f, kids)

\* A node goes with all that is below it: from its place, or from the top.
RemoveChild(p, i) ==
  LET gone == Family(kids[p][i]) IN
  /\ kind' = KindWithout(gone, kind)
  /\ kids' = KidsWithout(gone, [kids EXCEPT ![p] = RemoveAt(@, i)])

Delete(x) ==
  /\ ~ Held(x)
  /\ kind' = KindWithout(Family(x), kind)
  /\ kids' = KidsWithout(Family(x), kids)

Clear(p) ==
  /\ kind' = KindWithout(Family(p) \ {p}, kind)
  /\ kids' = KidsWithout(Family(p), kids)

\* x becomes as a is; its old children go, or stay with a leaf.
Become(x, a) == \E gone \in {Family(x), {}} :
  /\ kind[x] = kind[a] /\ x \notin Family(a) /\ a \notin Family(x)
  /\ gone = {} => kind[x] = "leaf"
  /\ \E f \in Copies(a, (Node \ Alive) \cup gone \cup {x}) :
       /\ f[a] = x
       /\ kind' = CopiedKind(f, KindWithout(gone, kind))
       /\ kids' = IF gone = {} THEN kids ELSE Copied(f, KidsWithout(gone, kids))

Next ==
  \/ \E n \in Node, k \in Kind : New(n, k) \/ \E p \in Alive : NewLast(p, n, k)
  \/ \E p, x \in Alive : Link(p, x)
  \/ \E n \in Alive : Delete(n) \/ Clear(n)
  \/ \E p, a \in Alive :
       \/ \E i \in 1..Len(kids[p]) + 1 : InsertCopy(p, i, a)
       \/ \E i \in DOMAIN kids[p] : RemoveChild(p, i) \/ ReplaceWithCopy(p, i, a)
  \/ \E a \in Alive : Copy(a) \/ \E x \in Alive : Become(x, a)

Spec == Init /\ [][Next]_vars
=============================================================================
