-------------------------- MODULE XmlChildrenProofs --------------------------
(***************************************************************************)
(* Proofs about the children of a node as a program sees them, for every   *)
(* set of addresses and of values: the pointers of XmlTree implement the   *)
(* sequences of XmlTreeContract, and the searches and counted walks of     *)
(* XmlQuery find the node that the order of the children says.             *)
(*                                                                         *)
(* Both rest on the places of the nodes.  The sequences that a list of     *)
(* children stands for have each linked node at its place (Rows), and      *)
(* there is one such way to give sequences; what each call does to places  *)
(* then says what it does to the sequences.  A search is a function that   *)
(* follows pointers until it meets what it looks for; that it has a value  *)
(* at all is shown by the value that it should have, which satisfies its   *)
(* equation, and that this is the only one by the node nearest to the end  *)
(* where another would be.                                                 *)
(***************************************************************************)
EXTENDS XmlQuery, XmlTreeChains, XmlTreeProofs, FiniteSetTheorems, SequenceTheorems
-----------------------------------------------------------------------------
(***************************************************************************)
(* The sequences that the pointers stand for                               *)
(***************************************************************************)

\* k has the linked children of every node of t, in the order of their places.
Rows(t, k) ==
  /\ k \in [Node -> Seq(Node)]
  /\ \A p \in Node : \A i \in 1..Len(k[p]) :
       t.parent[k[p][i]] = p /\ t.rank[k[p][i]] = i
  /\ \A n \in Node : t.rank[n] > 0 =>
       /\ t.parent[n] \in Node
       /\ t.rank[n] \in 1..Len(k[t.parent[n]])
       /\ k[t.parent[n]][t.rank[n]] = n

\* There is one such k.
LEMMA RowsUnique ==
  ASSUME NEW t, NEW k, NEW l, Rows(t, k), Rows(t, l)
  PROVE  k = l
<1>1. k \in [Node -> Seq(Node)] /\ l \in [Node -> Seq(Node)]
  BY DEF Rows
<1>2. ASSUME NEW p \in Node PROVE k[p] = l[p]
  <2>1. PICK r \in Seq(Node) : r = k[p]
    BY <1>1
  <2>2. PICK s \in Seq(Node) : s = l[p]
    BY <1>1
  <2>3. /\ \A i \in 1..Len(r) : r[i] \in Node /\ t.parent[r[i]] = p /\ t.rank[r[i]] = i
        /\ \A i \in 1..Len(s) : s[i] \in Node /\ t.parent[s[i]] = p /\ t.rank[s[i]] = i
    BY <2>1, <2>2 DEF Rows
  <2>4. \A x \in Node : t.parent[x] = p /\ t.rank[x] > 0 =>
          /\ t.rank[x] \in 1..Len(r) /\ r[t.rank[x]] = x
          /\ t.rank[x] \in 1..Len(s) /\ s[t.rank[x]] = x
    BY <2>1, <2>2 DEF Rows
  <2>5. /\ \A i \in 1..Len(r) : i \in 1..Len(s) /\ s[i] = r[i]
        /\ \A i \in 1..Len(s) : i \in 1..Len(r)
    <3>1. \A i \in 1..Len(r) : i > 0
      OBVIOUS
    <3>2. \A i \in 1..Len(s) : i > 0
      OBVIOUS
    <3>3. QED
      BY <2>3, <2>4, <3>1, <3>2
  <2>6. Len(r) \in Nat /\ Len(s) \in Nat
    OBVIOUS
  <2>7. Len(r) = Len(s)
    <3>1. Len(r) > 0 => Len(r) \in 1..Len(r) /\ Len(r) \in 1..Len(s)
      BY <2>5, <2>6
    <3>2. Len(s) > 0 => Len(s) \in 1..Len(s) /\ Len(s) \in 1..Len(r)
      BY <2>5, <2>6
    <3>3. QED
      BY <2>6, <3>1, <3>2
  <2>8. r = [i \in 1..Len(r) |-> r[i]] /\ s = [i \in 1..Len(s) |-> s[i]]
    OBVIOUS
  <2>9. QED
    BY <2>1, <2>2, <2>5, <2>7, <2>8
<1>3. QED
  BY <1>1, <1>2

\* The number of places among the children of p
PlacesOf(t, p) == IF t.lastChild[p] = NULL THEN 0 ELSE t.rank[t.lastChild[p]]

\* Every place up to the last has a child.
LEMMA PlacesTaken ==
  ASSUME TreeAssumption, NEW t, Whole(t), NEW p \in Node
  PROVE  /\ PlacesOf(t, p) \in Nat
         /\ \A i \in 1..PlacesOf(t, p) :
              \E x \in Node : t.parent[x] = p /\ t.rank[x] = i
         /\ \A x \in Node : t.parent[x] = p /\ t.rank[x] > 0 => t.rank[x] \in 1..PlacesOf(t, p)
<1> DEFINE n == PlacesOf(t, p)
           Taken(i) == \E x \in Node : t.parent[x] = p /\ t.rank[x] = i
           Bad == {k \in Nat : k < n /\ ~ Taken(n - k)}
<1>1. n \in Nat
  BY LastOf, Fields DEF PlacesOf, Whole
<1>2. ASSUME Bad # {} PROVE FALSE
  <2>1. PICK k \in Bad : \A j \in Bad : k <= j
    BY <1>2, LeastExists
  <2>2. k \in Nat /\ k < n /\ ~ Taken(n - k)
    BY <2>1
  <2>3. t.lastChild[p] # NULL /\ n = t.rank[t.lastChild[p]] /\ t.lastChild[p] \in Node
        /\ t.parent[t.lastChild[p]] = p
    BY <1>1, <2>2, LastOf DEF PlacesOf
  <2>4. k # 0
    BY <1>1, <2>2, <2>3
  <2>5. k - 1 \in Nat /\ k - 1 < n /\ k - 1 \notin Bad /\ n - (k - 1) = n - k + 1
    BY <1>1, <2>1, <2>2, <2>4
  <2>6. PICK x \in Node : t.parent[x] = p /\ t.rank[x] = n - k + 1
    BY <2>5
  <2>7. t.prev[x] # NULL
    BY <1>1, <2>2, <2>6, PlaceOf
  <2>8. t.prev[x] \in Node /\ t.parent[t.prev[x]] = p /\ t.rank[x] = t.rank[t.prev[x]] + 1
        /\ t.rank[t.prev[x]] \in Nat
    BY <2>6, <2>7, PrevOf, Fields DEF Whole
  <2>9. t.rank[t.prev[x]] = n - k
    BY <1>1, <2>2, <2>6, <2>8
  <2>10. QED
    BY <2>2, <2>8, <2>9
<1>3. \A i \in 1..n : Taken(i)
  <2>1. \A i \in 1..n : n - i \in Nat /\ n - i < n /\ n - (n - i) = i
    BY <1>1
  <2>2. QED
    BY <1>2, <2>1
<1>4. ASSUME NEW x \in Node, t.parent[x] = p, t.rank[x] > 0
      PROVE  t.rank[x] \in 1..n
  BY <1>1, <1>4, LastIsGreatest, Fields DEF PlacesOf, Whole, TreeAssumption
<1>5. QED
  BY <1>1, <1>3, <1>4

\* c has the children of p at their places.
Placed(t, p, c) ==
  /\ c \in [1..PlacesOf(t, p) -> Node]
  /\ \A i \in 1..PlacesOf(t, p) : t.parent[c[i]] = p /\ t.rank[c[i]] = i

\* The children are met from each place to the next.
LEMMA ChainIs ==
  ASSUME TreeAssumption, Whole(dom), NEW p \in Node, NEW c, Placed(dom, p, c)
  PROVE  Chain(p) = c
<1>1. PICK n \in Nat : n = PlacesOf(dom, p)
  BY PlacesTaken
<1>2. \A x, y \in Node : dom.parent[x] = p /\ dom.parent[y] = p /\ dom.rank[x] > 0
        /\ dom.rank[x] = dom.rank[y] => x = y
  BY DEF Whole, Ordered, TreeAssumption
<1>3. /\ c = [i \in 1..n |-> c[i]]
      /\ \A i \in 1..n : c[i] \in Node /\ dom.parent[c[i]] = p /\ dom.rank[c[i]] = i
  BY <1>1 DEF Placed
<1>4. ASSUME NEW i \in 1..n
      PROVE  c[i] = IF i = 1 THEN dom.firstChild[p] ELSE
                    IF c[i - 1] = NULL THEN NULL ELSE dom.next[c[i - 1]]
  <2>1. PICK y \in Node : y = c[i] /\ dom.parent[y] = p /\ dom.rank[y] = i
    BY <1>3
  <2>2. CASE i = 1
    <3>1. dom.rank[y] = 1 /\ dom.rank[y] > 0
      BY <2>1, <2>2
    <3>2. dom.firstChild[p] = y
      BY <2>1, <3>1, PlaceOf
    <3>3. QED
      BY <2>1, <2>2, <3>2
  <2>3. CASE i # 1
    <3>1. i - 1 \in 1..n
      BY <2>3
    <3>2. PICK z \in Node : z = c[i - 1] /\ dom.parent[z] = p /\ dom.rank[z] = i - 1
      BY <1>3, <3>1
    <3>3. dom.prev[y] # NULL
      <4>1. dom.rank[y] # 1 /\ dom.rank[y] > 0
        BY <2>1, <2>3
      <4>2. QED
        BY <2>1, <4>1, PlaceOf
    <3>4. PICK m \in Node : /\ dom.next[m] = y /\ dom.parent[m] = p /\ dom.rank[m] > 0
                            /\ dom.rank[y] = dom.rank[m] + 1 /\ dom.rank[m] \in Nat
      BY <2>1, <3>3, PrevOf, Fields DEF Whole
    <3>5. dom.rank[m] = dom.rank[z]
      BY <2>1, <3>2, <3>4
    <3>6. m = z /\ z # NULL
      BY <1>2, <3>2, <3>4, <3>5 DEF TreeAssumption
    <3>7. QED
      BY <2>1, <2>3, <3>2, <3>4, <3>6
  <2>4. QED
    BY <2>2, <2>3
<1>5. c = [i \in 1..n |-> IF i = 1 THEN dom.firstChild[p] ELSE
                          IF c[i - 1] = NULL THEN NULL ELSE dom.next[c[i - 1]]]
  BY <1>3, <1>4, Zenon
<1> DEFINE at[i \in 1..n] == IF i = 1 THEN dom.firstChild[p] ELSE
                             IF at[i - 1] = NULL THEN NULL ELSE dom.next[at[i - 1]]
<1>6. at = [i \in 1..n |-> IF i = 1 THEN dom.firstChild[p] ELSE
                           IF at[i - 1] = NULL THEN NULL ELSE dom.next[at[i - 1]]]
  BY <1>5, Zenon
<1>7. Chain(p) = at
  BY <1>1 DEF Chain, PlacesOf
<1> HIDE DEF at
<1> DEFINE Bad == {i \in Nat : i \in 1..n /\ at[i] # c[i]}
<1>8. ASSUME Bad # {} PROVE FALSE
  <2>1. PICK i \in Bad : \A j \in Bad : i <= j
    BY <1>8, LeastExists
  <2>2. i \in 1..n /\ at[i] # c[i]
    BY <2>1
  <2>3. i = 1 \/ (i - 1 \in 1..n /\ at[i - 1] = c[i - 1])
    <3>1. SUFFICES ASSUME i # 1 PROVE i - 1 \in 1..n /\ at[i - 1] = c[i - 1]
      OBVIOUS
    <3>2. i - 1 \in 1..n /\ i - 1 \in Nat /\ ~ (i <= i - 1)
      BY <1>1, <2>2, <3>1
    <3>3. QED
      BY <2>1, <3>2
  <2>4. at[i] = IF i = 1 THEN dom.firstChild[p] ELSE
                IF at[i - 1] = NULL THEN NULL ELSE dom.next[at[i - 1]]
    BY <1>6, <2>2
  <2>5. QED
    BY <1>4, <2>2, <2>3, <2>4
<1>9. \A i \in 1..n : at[i] = c[i]
  BY <1>8
<1>10. at = [i \in 1..n |-> at[i]]
  BY <1>6, Zenon
<1>11. QED
  BY <1>3, <1>7, <1>9, <1>10

\* So the chains have the linked children, in their order.
LEMMA ChainsAreRows == TreeAssumption /\ Whole(dom) => Rows(dom, Chains)
<1> SUFFICES ASSUME TreeAssumption, Whole(dom) PROVE Rows(dom, Chains)
  OBVIOUS
<1>1. ASSUME NEW p \in Node
      PROVE  /\ Chains[p] \in Seq(Node)
             /\ \A i \in 1..Len(Chains[p]) :
                  dom.parent[Chains[p][i]] = p /\ dom.rank[Chains[p][i]] = i
             /\ \A x \in Node : dom.parent[x] = p /\ dom.rank[x] > 0 =>
                  dom.rank[x] \in 1..Len(Chains[p]) /\ Chains[p][dom.rank[x]] = x
  <2> DEFINE n == PlacesOf(dom, p)
  <2>1. PICK c : c = [i \in 1..n |-> CHOOSE x \in Node : dom.parent[x] = p /\ dom.rank[x] = i]
    OBVIOUS
  <2>2. n \in Nat
    BY PlacesTaken
  <2>3. /\ c \in [1..n -> Node]
        /\ \A i \in 1..n : c[i] \in Node /\ dom.parent[c[i]] = p /\ dom.rank[c[i]] = i
    <3>1. \A i \in 1..n : \E x \in Node : dom.parent[x] = p /\ dom.rank[x] = i
      BY PlacesTaken
    <3> HIDE DEF n
    <3>2. QED
      BY <2>1, <3>1
  <2>4. Chains[p] = c
    <3>1. Placed(dom, p, c)
      BY <2>3 DEF Placed
    <3>2. QED
      BY <3>1, ChainIs DEF Chains
  <2>5. c \in Seq(Node) /\ Len(c) = n
    BY <2>2, <2>3
  <2>6. ASSUME NEW x \in Node, dom.parent[x] = p, dom.rank[x] > 0
        PROVE  dom.rank[x] \in 1..n /\ c[dom.rank[x]] = x
    <3>1. dom.rank[x] \in 1..n
      BY <2>6, PlacesTaken
    <3>2. c[dom.rank[x]] \in Node /\ dom.parent[c[dom.rank[x]]] = p
          /\ dom.rank[c[dom.rank[x]]] = dom.rank[x]
      BY <2>3, <3>1
    <3>3. QED
      BY <2>6, <3>1, <3>2 DEF Whole, Ordered, TreeAssumption
  <2> HIDE DEF n
  <2>7. QED
    BY <2>3, <2>4, <2>5, <2>6
<1>2. Chains \in [Node -> Seq(Node)]
  <2>1. Chains = [p \in Node |-> Chains[p]]
    BY DEF Chains
  <2>2. QED
    BY <1>1, <2>1
<1>3. \A n \in Node : dom.rank[n] > 0 => dom.parent[n] \in Node
  BY PlaceOf
<1> HIDE DEF Chains
<1>4. QED
  BY <1>1, <1>2, <1>3 DEF Rows

-----------------------------------------------------------------------------
(***************************************************************************)
(* Putting into a sequence and taking out of it                            *)
(***************************************************************************)

\* q is s with x at place i; q is s without its place i.
With(s, q, i, x) ==
  /\ q \in Seq(Node) /\ Len(q) = Len(s) + 1
  /\ \A j \in 1..Len(s) + 1 : q[j] = IF j < i THEN s[j] ELSE IF j = i THEN x ELSE s[j - 1]
Without(s, q, i) ==
  /\ q \in Seq(Node) /\ Len(q) = Len(s) - 1
  /\ \A j \in 1..Len(s) - 1 : q[j] = IF j < i THEN s[j] ELSE s[j + 1]

\* The operators on sequences do so.
LEMMA InsertedIsWith ==
  ASSUME NEW s \in Seq(Node), NEW i \in 1..Len(s) + 1, NEW x \in Node
  PROVE  With(s, Contract!InsertAt(s, i, x), i, x)
<1> DEFINE m == Len(s)
<1>1. m \in Nat /\ i \in Nat /\ i <= m + 1 /\ i > 0 /\ \A j \in 1..m : s[j] \in Node
  OBVIOUS
<1>2. PICK q : q = SubSeq(s, 1, i - 1)
  OBVIOUS
<1>3. PICK r : r = SubSeq(s, i, m)
  OBVIOUS
<1>4. q \in Seq(Node) /\ Len(q) = i - 1 /\ \A j \in 1..(i - 1) : q[j] = s[j]
  BY <1>1, <1>2
<1>5. r \in Seq(Node) /\ Len(r) = m - i + 1 /\ \A j \in 1..(m - i + 1) : r[j] = s[j + i - 1]
  BY <1>1, <1>3
<1>6. PICK e : e = <<x>>
  OBVIOUS
<1>7. e \in Seq(Node) /\ Len(e) = 1 /\ e[1] = x
  BY <1>6
<1>8. /\ q \o e \in Seq(Node) /\ Len(q \o e) = i
      /\ \A j \in 1..i : (q \o e)[j] = IF j <= i - 1 THEN q[j] ELSE e[j - (i - 1)]
  <2>1. /\ q \o e \in Seq(Node) /\ Len(q \o e) = Len(q) + Len(e)
        /\ \A j \in 1..Len(q) + Len(e) :
             (q \o e)[j] = IF j <= Len(q) THEN q[j] ELSE e[j - Len(q)]
    BY <1>4, <1>7, ConcatProperties
  <2>2. QED
    BY <1>1, <1>4, <1>7, <2>1
<1>9. PICK a \in Seq(Node) : a = q \o e
  BY <1>8
<1>10. /\ Len(a) = i /\ \A j \in 1..i : a[j] = IF j < i THEN s[j] ELSE x
  BY <1>1, <1>4, <1>7, <1>8, <1>9
<1>11. /\ a \o r \in Seq(Node) /\ Len(a \o r) = m + 1
       /\ \A j \in 1..(m + 1) : (a \o r)[j] = IF j <= i THEN a[j] ELSE r[j - i]
  <2>1. /\ a \o r \in Seq(Node) /\ Len(a \o r) = Len(a) + Len(r)
        /\ \A j \in 1..Len(a) + Len(r) :
             (a \o r)[j] = IF j <= Len(a) THEN a[j] ELSE r[j - Len(a)]
    BY <1>5, <1>10, ConcatProperties
  <2>2. QED
    BY <1>1, <1>5, <1>10, <2>1
<1>12. \A j \in 1..(m + 1) : (a \o r)[j] = IF j < i THEN s[j] ELSE IF j = i THEN x ELSE s[j - 1]
  BY <1>1, <1>5, <1>10, <1>11
<1>13. a \o r = Contract!InsertAt(s, i, x)
  BY <1>2, <1>3, <1>6, <1>9 DEF Contract!InsertAt
<1>14. QED
  BY <1>11, <1>12, <1>13 DEF With

LEMMA AppendedIsWith ==
  ASSUME NEW s \in Seq(Node), NEW x \in Node
  PROVE  With(s, Append(s, x), Len(s) + 1, x)
<1> DEFINE q == Append(s, x)
<1>1. q \in Seq(Node)
  OBVIOUS
<1>2. PICK m \in Nat : m = Len(s)
  OBVIOUS
<1>3. /\ Len(q) = m + 1 /\ q[m + 1] = x
      /\ \A j \in 1..m : q[j] = s[j]
  BY <1>1, <1>2
<1>4. \A j \in 1..m + 1 : q[j] = IF j < m + 1 THEN s[j] ELSE IF j = m + 1 THEN x ELSE s[j - 1]
  BY <1>3
<1> HIDE DEF q
<1>5. With(s, q, m + 1, x)
  BY <1>1, <1>2, <1>3, <1>4 DEF With
<1>6. QED
  BY <1>2, <1>5 DEF q

LEMMA RemovedIsWithout ==
  ASSUME NEW s \in Seq(Node), NEW i \in 1..Len(s)
  PROVE  Without(s, Contract!RemoveAt(s, i), i)
<1> DEFINE m == Len(s)
<1>1. m \in Nat /\ i \in Nat /\ i <= m /\ \A j \in 1..m : s[j] \in Node
  OBVIOUS
<1>2. PICK q : q = SubSeq(s, 1, i - 1)
  OBVIOUS
<1>3. PICK r : r = SubSeq(s, i + 1, m)
  OBVIOUS
<1>4. q \in Seq(Node) /\ Len(q) = i - 1 /\ \A j \in 1..(i - 1) : q[j] = s[j]
  BY <1>1, <1>2
<1>5. r \in Seq(Node) /\ Len(r) = m - i /\ \A j \in 1..(m - i) : r[j] = s[j + i]
  BY <1>1, <1>3
<1>6. /\ q \o r \in Seq(Node) /\ Len(q \o r) = m - 1
      /\ \A j \in 1..(m - 1) : (q \o r)[j] = IF j <= i - 1 THEN q[j] ELSE r[j - (i - 1)]
  <2>1. /\ q \o r \in Seq(Node) /\ Len(q \o r) = Len(q) + Len(r)
        /\ \A j \in 1..Len(q) + Len(r) :
             (q \o r)[j] = IF j <= Len(q) THEN q[j] ELSE r[j - Len(q)]
    BY <1>4, <1>5, ConcatProperties
  <2>2. QED
    BY <1>1, <1>4, <1>5, <2>1
<1>7. \A j \in 1..(m - 1) : (q \o r)[j] = IF j < i THEN s[j] ELSE s[j + 1]
  <2>1. \A j \in 1..(m - 1) : IF j < i THEN j \in 1..(i - 1) ELSE
          j - (i - 1) \in 1..(m - i) /\ j - (i - 1) + i = j + 1
    BY <1>1
  <2>2. \A j \in 1..(m - 1) : j < i <=> j <= i - 1
    BY <1>1
  <2>3. QED
    BY <1>4, <1>5, <1>6, <2>1, <2>2
<1>8. q \o r = Contract!RemoveAt(s, i)
  BY <1>2, <1>3 DEF Contract!RemoveAt
<1>9. QED
  BY <1>6, <1>7, <1>8 DEF Without

-----------------------------------------------------------------------------
(***************************************************************************)
(* What a node holds, by the sequences                                     *)
(***************************************************************************)

\* The children of p are the nodes linked to it.
LEMMA ChildrenOf ==
  ASSUME NEW t \in Tree, NEW k, Rows(t, k), NEW p \in Node
  PROVE  Contract!ToSet(k[p]) = {x \in Node : t.parent[x] = p /\ t.rank[x] > 0}
<1>1. PICK s \in Seq(Node) : s = k[p]
  BY DEF Rows
<1>2. \A i \in 1..Len(s) : i > 0 /\ s[i] \in Node /\ t.parent[s[i]] = p /\ t.rank[s[i]] = i
  BY <1>1 DEF Rows
<1>3. \A x \in Node : t.parent[x] = p /\ t.rank[x] > 0 =>
        t.rank[x] \in 1..Len(s) /\ s[t.rank[x]] = x
  BY <1>1 DEF Rows
<1>4. Contract!ToSet(s) = {s[i] : i \in 1..Len(s)}
  BY DEF Contract!ToSet
<1>5. QED
  BY <1>1, <1>2, <1>3, <1>4

\* A node is held when it is linked.
LEMMA HeldIs ==
  ASSUME NEW t \in Tree, NEW k, Rows(t, k), NEW x \in Node
  PROVE  (\E p \in Node : x \in Contract!ToSet(k[p])) <=> t.rank[x] > 0
<1>1. t.rank[x] > 0 => t.parent[x] \in Node
  BY DEF Rows
<1>2. QED
  BY <1>1, ChildrenOf

\* What n reaches by the sequences, when a node of tops leads to its children
Below(k, n, tops) ==
  {m \in Node : \A S \in SUBSET Node :
     n \in S /\ (\A x \in S \cap tops : Contract!ToSet(k[x]) \subseteq S) => m \in S}

\* It is what it reaches by the pointers.
LEMMA BelowIsReach ==
  ASSUME TreeAssumption, NEW t, Whole(t), NEW k, Rows(t, k), NEW n \in Node,
         NEW g, Downward(t, g), NEW tops \in SUBSET Node,
         \A x \in Node : g[x] = IF x \in tops THEN t.firstChild[x] ELSE NULL
  PROVE  Below(k, n, tops) = Reach(t, g, n)
<1> DEFINE R == Reach(t, g, n)
           Under(x) == {y \in Node : t.parent[y] = x /\ t.rank[y] > 0}
<1>1. t \in Tree /\ NULL \notin Node
  BY DEF Whole, TreeAssumption
<1>2. \A x \in Node : Contract!ToSet(k[x]) = Under(x)
  BY <1>1, ChildrenOf
<1>3. R \subseteq Node /\ n \in R
  BY ReachClosed
<1>4. \A x \in R \cap tops : Under(x) \subseteq R
  <2>1. SUFFICES ASSUME NEW x \in R \cap tops, NEW y \in Under(x) PROVE y \in R
    OBVIOUS
  <2>2. t.firstChild[x] # NULL
    BY <2>1, HasFirst
  <2>3. g[x] # NULL /\ x \in R /\ y \in Node /\ t.parent[y] = x /\ t.rank[y] > 0
    BY <1>3, <2>1, <2>2
  <2>4. QED
    BY <2>3, ReachChildren
<1>5. Below(k, n, tops) \subseteq R
  BY <1>2, <1>3, <1>4 DEF Below
<1>6. ASSUME NEW S \in SUBSET Node, n \in S, \A x \in S \cap tops : Under(x) \subseteq S
      PROVE  R \subseteq S
  <2> DEFINE T == {x \in R : x = n \/ (x \in S /\ t.parent[x] \in S \cap tops)}
  <2>1. n \in T /\ T \subseteq R /\ T \subseteq S
    BY <1>3, <1>6
  <2>2. ASSUME NEW x \in T, g[x] # NULL PROVE g[x] \in T
    <3>1. x \in R /\ x \in S /\ x \in Node
      BY <1>3, <2>1
    <3>2. x \in tops /\ g[x] = t.firstChild[x] /\ g[x] \in Node
      BY <2>2, <3>1 DEF Downward, Pointer
    <3>3. t.parent[g[x]] = x /\ t.rank[g[x]] > 0
      BY <2>2, <3>1, <3>2, FirstOf
    <3>4. g[x] \in R
      BY <3>1, <3>2, ReachClosed
    <3>5. QED
      BY <1>6, <3>1, <3>2, <3>3, <3>4
  <2>3. ASSUME NEW x \in T \ {n}, t.next[x] # NULL PROVE t.next[x] \in T
    <3>1. x \in R /\ x \in S /\ x \in Node /\ x # n /\ t.parent[x] \in S \cap tops
      BY <1>3, <2>1, <2>3
    <3>2. /\ t.next[x] \in Node /\ t.parent[t.next[x]] = t.parent[x]
          /\ t.rank[t.next[x]] > 0
      <4>1. /\ t.next[x] \in Node /\ t.parent[t.next[x]] = t.parent[x]
            /\ t.rank[x] > 0 /\ t.rank[t.next[x]] = t.rank[x] + 1
        BY <2>3, <3>1, NextOf
      <4>2. t.rank[x] \in Nat
        BY <1>1, <3>1, Fields
      <4>3. QED
        BY <4>1, <4>2
    <3>3. t.next[x] \in R
      BY <3>1, <3>2, ReachClosed
    <3>4. QED
      BY <1>6, <3>1, <3>2, <3>3
  <2>4. Walking(t, g, n, T)
    BY <2>1, <2>2, <2>3 DEF Walking
  <2>5. R \subseteq T
    BY <1>3, <2>1, <2>4, ReachWithin
  <2>6. QED
    BY <2>1, <2>5
<1>7. R \subseteq Below(k, n, tops)
  BY <1>2, <1>3, <1>6 DEF Below
<1>8. QED
  BY <1>5, <1>7

\* So a family, and what is copied of it, are the same.
LEMMA FamilyIsBelow ==
  ASSUME TreeAssumption, NEW t, Whole(t), NEW k, Rows(t, k), NEW n \in Node
  PROVE  /\ Below(k, n, Node) = Family(t, n)
         /\ Below(k, n, {x \in Node : t.type[x] # "leaf"}) = Copied(t, n)
<1>1. t \in Tree
  BY DEF Whole
<1>2. Downward(t, t.firstChild) /\ Family(t, n) = Reach(t, t.firstChild, n)
  BY <1>1, FamilyIsReach
<1>3. Below(k, n, Node) = Family(t, n)
  BY <1>2, BelowIsReach
<1>4. Downward(t, Opened(t)) /\ Copied(t, n) = Reach(t, Opened(t), n)
  BY <1>1, CopiedIsReach
<1>5. \A x \in Node : Opened(t)[x] = IF x \in {y \in Node : t.type[y] # "leaf"}
                                     THEN t.firstChild[x] ELSE NULL
  BY DEF Opened
<1>6. Below(k, n, {x \in Node : t.type[x] # "leaf"}) = Copied(t, n)
  <2> DEFINE tops == {x \in Node : t.type[x] # "leaf"}
  <2>1. tops \in SUBSET Node /\ \A x \in Node : Opened(t)[x] = IF x \in tops
                                     THEN t.firstChild[x] ELSE NULL
    BY <1>5
  <2> HIDE DEF tops
  <2>2. Below(k, n, tops) = Copied(t, n)
    BY <1>4, <2>1, BelowIsReach
  <2>3. QED
    BY <2>2 DEF tops
<1>7. QED
  BY <1>3, <1>6

-----------------------------------------------------------------------------
(***************************************************************************)
(* Places that are taken, and given up                                     *)
(***************************************************************************)

\* A gap is at a place, and the last gap after all places.
LEMMA GapPlace ==
  ASSUME TreeAssumption, NEW t, Whole(t), NEW k, Rows(t, k),
         NEW p, NEW left, NEW right, NEW place, Gap(t, p, left, right, place)
  PROVE  /\ place \in 1..Len(k[p]) + 1 /\ k[p] \in Seq(Node)
         /\ right = NULL => place = Len(k[p]) + 1
<1>1. /\ p \in Node /\ place \in Nat /\ place > 0
      /\ left \in Node \cup {NULL} /\ t \in Tree
      /\ IF left = NULL THEN place = 1
         ELSE t.parent[left] = p /\ t.rank[left] > 0 /\ place = t.rank[left] + 1
      /\ right = NULL => t.lastChild[p] = left
  BY DEF Gap, Alive, Whole
<1>2. PICK s \in Seq(Node) : s = k[p]
  BY <1>1 DEF Rows
<1>3. PICK m \in Nat : m = Len(s)
  OBVIOUS
<1>4. \A i \in 1..m : s[i] \in Node /\ t.parent[s[i]] = p /\ t.rank[s[i]] = i
  <2>1. \A i \in 1..Len(k[p]) : t.parent[k[p][i]] = p /\ t.rank[k[p][i]] = i
    BY <1>1 DEF Rows
  <2>2. QED
    BY <1>2, <1>3, <2>1
<1>5. \A y \in Node : t.parent[y] = p /\ t.rank[y] > 0 => t.rank[y] \in 1..m
  BY <1>1, <1>2, <1>3 DEF Rows
<1>6. left # NULL => t.rank[left] \in 1..m
  BY <1>1, <1>5
<1>7. place \in 1..m + 1
  BY <1>1, <1>6
<1>8. ASSUME right = NULL PROVE place = m + 1
  <2>1. PlacesOf(t, p) = place - 1
    BY <1>1, <1>8, <1>6 DEF PlacesOf
  <2>2. SUFFICES ASSUME place # m + 1 PROVE FALSE
    OBVIOUS
  <2>3. m \in 1..m /\ m > place - 1
    BY <1>7, <2>2
  <2>4. s[m] \in Node /\ t.parent[s[m]] = p /\ t.rank[s[m]] = m
    BY <1>4, <2>3
  <2>5. t.rank[s[m]] \in 1..PlacesOf(t, p)
    BY <1>1, <2>3, <2>4, PlacesTaken
  <2>6. QED
    BY <1>1, <2>1, <2>3, <2>4, <2>5
<1>9. QED
  BY <1>2, <1>3, <1>7, <1>8

\* What a node is spliced into has it at its place.
LEMMA SplicedRows ==
  ASSUME TreeAssumption, NEW t, Whole(t), NEW k, Rows(t, k),
         NEW p, NEW left, NEW right, NEW place, Gap(t, p, left, right, place),
         NEW x \in Node, t.rank[x] = 0,
         NEW u, Spliced(t, u, p, x, left, right, place),
         NEW q, With(k[p], q, place, x)
  PROVE  Rows(u, [k EXCEPT ![p] = q])
<1>1. p \in Node /\ place \in Nat /\ place > 0 /\ t \in Tree
  BY DEF Gap, Alive, Whole
<1>2. PICK s \in Seq(Node) : s = k[p]
  BY <1>1 DEF Rows
<1>3. PICK m \in Nat : m = Len(s)
  OBVIOUS
<1>4. place \in 1..m + 1
  BY <1>2, <1>3, GapPlace
<1>5. /\ q \in Seq(Node) /\ Len(q) = m + 1
      /\ \A j \in 1..m + 1 : q[j] = IF j < place THEN s[j] ELSE IF j = place THEN x ELSE s[j - 1]
  BY <1>2, <1>3 DEF With
<1>6. /\ u.parent[x] = p /\ u.rank[x] = place
      /\ \A n \in Node \ {x} :
           /\ u.parent[n] = t.parent[n]
           /\ u.rank[n] = IF t.parent[n] = p /\ t.rank[n] >= place
                          THEN t.rank[n] + 1 ELSE t.rank[n]
  BY DEF Spliced
<1>7. \A j \in 1..m : s[j] \in Node /\ s[j] # x /\ t.parent[s[j]] = p /\ t.rank[s[j]] = j
  <2>1. \A j \in 1..Len(k[p]) : t.parent[k[p][j]] = p /\ t.rank[k[p][j]] = j
    BY <1>1 DEF Rows
  <2>2. \A j \in 1..m : s[j] \in Node /\ t.parent[s[j]] = p /\ t.rank[s[j]] = j /\ j # 0
    BY <1>2, <1>3, <2>1
  <2>3. QED
    BY <2>2
<1>8. \A n \in Node : t.rank[n] \in Nat
  BY <1>1, Fields
<1>9. k \in [Node -> Seq(Node)]
  BY DEF Rows
<1> DEFINE l == [k EXCEPT ![p] = q]
<1>10. l \in [Node -> Seq(Node)] /\ l[p] = q /\ \A n \in Node : n # p => l[n] = k[n]
  BY <1>1, <1>5, <1>9
<1> HIDE DEF l
<1>11. ASSUME NEW j \in 1..Len(q) PROVE u.parent[q[j]] = p /\ u.rank[q[j]] = j
  <2>1. CASE j < place
    <3>1. j \in 1..m /\ q[j] = s[j]
      BY <1>1, <1>4, <1>5, <2>1
    <3>2. QED
      BY <1>1, <1>6, <1>7, <2>1, <3>1
  <2>2. CASE j = place
    BY <1>4, <1>5, <1>6, <2>2
  <2>3. CASE j > place
    <3>1. j - 1 \in 1..m /\ q[j] = s[j - 1] /\ j - 1 >= place /\ j - 1 + 1 = j
      BY <1>1, <1>4, <1>5, <2>3
    <3>2. QED
      BY <1>6, <1>7, <3>1
  <2>4. QED
    BY <1>1, <2>1, <2>2, <2>3
<1>12. ASSUME NEW n \in Node, NEW j \in 1..Len(l[n])
       PROVE  u.parent[l[n][j]] = n /\ u.rank[l[n][j]] = j
  <2>1. CASE n = p
    BY <1>10, <1>11, <2>1
  <2>2. CASE n # p
    <3>1. l[n] = k[n] /\ k[n] \in Seq(Node)
      BY <1>9, <1>10, <2>2
    <3>2. PICK y \in Node : y = k[n][j]
      BY <3>1
    <3>3. t.parent[y] = n /\ t.rank[y] = j /\ j > 0
      BY <3>1, <3>2 DEF Rows
    <3>4. QED
      BY <1>6, <2>2, <3>1, <3>2, <3>3
  <2>3. QED
    BY <2>1, <2>2
<1>13. ASSUME NEW n \in Node, u.rank[n] > 0
       PROVE  /\ u.parent[n] \in Node /\ u.rank[n] \in 1..Len(l[u.parent[n]])
              /\ l[u.parent[n]][u.rank[n]] = n
  <2>1. CASE n = x
    BY <1>1, <1>4, <1>5, <1>6, <1>10, <2>1
  <2>2. CASE n # x
    <3>1. t.rank[n] > 0 /\ u.parent[n] = t.parent[n]
      BY <1>1, <1>6, <1>8, <1>13, <2>2
    <3>2. /\ t.parent[n] \in Node /\ t.rank[n] \in 1..Len(k[t.parent[n]])
          /\ k[t.parent[n]][t.rank[n]] = n
      BY <3>1 DEF Rows
    <3>3. CASE t.parent[n] # p
      <4>1. u.rank[n] = t.rank[n]
        BY <1>6, <2>2, <3>3
      <4>2. l[t.parent[n]] = k[t.parent[n]]
        BY <1>10, <3>2, <3>3
      <4>3. QED
        BY <3>1, <3>2, <4>1, <4>2
    <3>4. CASE t.parent[n] = p
      <4>1. PICK r \in Nat : r = t.rank[n] /\ r \in 1..m /\ s[r] = n
        BY <1>2, <1>3, <1>8, <3>2, <3>4
      <4>2. CASE r < place
        <5>1. u.rank[n] = r
          BY <1>1, <1>6, <2>2, <3>4, <4>1, <4>2
        <5>2. r \in 1..m + 1 /\ q[r] = s[r]
          BY <1>1, <1>5, <4>1, <4>2
        <5>3. QED
          BY <1>1, <1>5, <1>10, <3>1, <3>4, <4>1, <5>1, <5>2
      <4>3. CASE r >= place
        <5>1. u.rank[n] = r + 1
          BY <1>6, <2>2, <3>4, <4>1, <4>3
        <5>2. r + 1 \in 1..m + 1 /\ q[r + 1] = s[r]
          <6>1. r + 1 \in 1..m + 1 /\ ~ (r + 1 < place) /\ r + 1 # place /\ r + 1 - 1 = r
            BY <1>1, <4>1, <4>3
          <6>2. q[r + 1] = s[r + 1 - 1]
            BY <1>5, <6>1
          <6>3. QED
            BY <6>1, <6>2
        <5>3. QED
          BY <1>1, <1>5, <1>10, <3>1, <3>4, <4>1, <5>1, <5>2
      <4>4. QED
        BY <1>1, <4>2, <4>3
    <3>5. QED
      BY <3>3, <3>4
  <2>3. QED
    BY <2>1, <2>2
<1>14. Rows(u, l)
  BY <1>10, <1>12, <1>13 DEF Rows
<1>15. QED
  BY <1>14 DEF l

\* A new node has no children and is no one's.
LEMMA MadeRows ==
  ASSUME TreeAssumption, NEW t, Whole(t), NEW k, Rows(t, k), NEW n \in Free(t),
         NEW kind \in Kind, NEW v \in Value, NEW p \in Node \cup {NULL},
         NEW u, u = Made(t, n, kind, v, p)
  PROVE  Rows(u, k) /\ u.type = [t.type EXCEPT ![n] = kind]
<1>1. t \in Tree /\ n \in Node /\ t.rank[n] = 0
  BY FreeIsAlone DEF Whole
<1>2. /\ u.type = [t.type EXCEPT ![n] = kind]
      /\ u.parent = [t.parent EXCEPT ![n] = p] /\ u.rank = t.rank
  BY <1>1 DEF Made, Tree
<1>3. \A m \in Node : m # n => u.parent[m] = t.parent[m]
  BY <1>1, <1>2 DEF Tree, Pointer
<1>4. ASSUME NEW m \in Node, NEW i \in 1..Len(k[m])
      PROVE  u.parent[k[m][i]] = m /\ u.rank[k[m][i]] = i
  <2>1. k[m] \in Seq(Node)
    BY DEF Rows
  <2>2. PICK y \in Node : y = k[m][i]
    BY <2>1
  <2>3. t.parent[y] = m /\ t.rank[y] = i /\ i > 0
    BY <2>1, <2>2 DEF Rows
  <2>4. QED
    BY <1>1, <1>2, <1>3, <2>2, <2>3
<1>5. ASSUME NEW m \in Node, u.rank[m] > 0
      PROVE  /\ u.parent[m] \in Node /\ u.rank[m] \in 1..Len(k[u.parent[m]])
             /\ k[u.parent[m]][u.rank[m]] = m
  <2>1. u.rank[m] = t.rank[m] /\ m # n
    BY <1>1, <1>2, <1>5
  <2>2. u.parent[m] = t.parent[m] /\ t.rank[m] > 0
    BY <1>3, <1>5, <2>1
  <2>3. /\ t.parent[m] \in Node /\ t.rank[m] \in 1..Len(k[t.parent[m]])
        /\ k[t.parent[m]][t.rank[m]] = m
    BY <2>2 DEF Rows
  <2>4. QED
    BY <2>1, <2>2, <2>3
<1>6. QED
  BY <1>2, <1>4, <1>5 DEF Rows

\* k without the children of the nodes in F, when these children lose their places.
Pruned(t, v, F) ==
  /\ \A n \in Node : t.parent[n] \in F => v.rank[n] = 0
  /\ \A n \in Node : t.parent[n] \notin F =>
       v.parent[n] = t.parent[n] /\ v.rank[n] = t.rank[n]

LEMMA PrunedRows ==
  ASSUME NEW t, NEW k, Rows(t, k), NEW F, F \subseteq Node, NEW v,
         Pruned(t, v, F)
  PROVE  Rows(v, Contract!KidsWithout(F, k))
<1> USE DEF Pruned
<1> DEFINE l == Contract!KidsWithout(F, k)
<1>1. k \in [Node -> Seq(Node)]
  BY DEF Rows
<1>2. \A n \in Node : l[n] = IF n \in F THEN <<>> ELSE k[n]
  BY DEF Contract!KidsWithout
<1>3. l \in [Node -> Seq(Node)]
  BY <1>1 DEF Contract!KidsWithout
<1> HIDE DEF l
<1>4. ASSUME NEW n \in Node, NEW j \in 1..Len(l[n])
      PROVE  v.parent[l[n][j]] = n /\ v.rank[l[n][j]] = j
  <2>1. n \notin F /\ l[n] = k[n]
    BY <1>2, <1>4
  <2>2. t.parent[k[n][j]] = n /\ t.rank[k[n][j]] = j /\ k[n][j] \in Node
    BY <1>1, <2>1 DEF Rows
  <2>3. QED
    BY <2>1, <2>2
<1>5. ASSUME NEW n \in Node, v.rank[n] > 0
      PROVE  /\ v.parent[n] \in Node /\ v.rank[n] \in 1..Len(l[v.parent[n]])
             /\ l[v.parent[n]][v.rank[n]] = n
  <2>1. t.parent[n] \notin F
    BY <1>5
  <2>2. v.parent[n] = t.parent[n] /\ v.rank[n] = t.rank[n] /\ t.rank[n] > 0
    BY <1>5, <2>1
  <2>3. /\ t.parent[n] \in Node /\ t.rank[n] \in 1..Len(k[t.parent[n]])
        /\ k[t.parent[n]][t.rank[n]] = n
    BY <2>2 DEF Rows
  <2>4. l[t.parent[n]] = k[t.parent[n]]
    BY <1>2, <2>1, <2>3
  <2>5. QED
    BY <2>2, <2>3, <2>4
<1>6. Rows(v, l)
  BY <1>3, <1>4, <1>5 DEF Rows
<1>7. QED
  BY <1>6 DEF l

\* The same, when one more node loses its place, and the later ones move up.
Cut(t, v, F, p, r, i) ==
  /\ \A n \in Node : n = r \/ t.parent[n] \in F => v.rank[n] = 0
  /\ \A n \in Node : n # r /\ t.parent[n] \notin F =>
       /\ v.parent[n] = t.parent[n]
       /\ v.rank[n] = IF t.parent[n] = p /\ t.rank[n] > i
                      THEN t.rank[n] - 1 ELSE t.rank[n]

LEMMA CutRows ==
  ASSUME NEW t \in Tree, NEW k, Rows(t, k), NEW F, F \subseteq Node, NEW v,
         NEW p \in Node, p \notin F, NEW r \in Node, t.parent[r] = p, t.rank[r] > 0,
         NEW i \in Nat, i = t.rank[r],
         Cut(t, v, F, p, r, i),
         NEW q, Without(k[p], q, i)
  PROVE  Rows(v, Contract!KidsWithout(F, [k EXCEPT ![p] = q]))
<1> USE DEF Cut
<1> DEFINE l == Contract!KidsWithout(F, [k EXCEPT ![p] = q])
<1>1. k \in [Node -> Seq(Node)]
  BY DEF Rows
<1>2. PICK s \in Seq(Node) : s = k[p]
  BY <1>1
<1>3. PICK m \in Nat : m = Len(s)
  OBVIOUS
<1>4. i \in 1..m /\ s[i] = r
  BY <1>2, <1>3 DEF Rows
<1>5. /\ q \in Seq(Node) /\ Len(q) = m - 1
      /\ \A j \in 1..m - 1 : q[j] = IF j < i THEN s[j] ELSE s[j + 1]
  BY <1>2, <1>3 DEF Without
<1>6. /\ l \in [Node -> Seq(Node)] /\ l[p] = q
      /\ \A n \in F : l[n] = <<>>
      /\ \A n \in Node : n \notin F /\ n # p => l[n] = k[n]
  BY <1>1, <1>5 DEF Contract!KidsWithout
<1> HIDE DEF l
<1>7. \A j \in 1..m : s[j] \in Node /\ t.parent[s[j]] = p /\ t.rank[s[j]] = j
  <2>1. \A j \in 1..Len(k[p]) : t.parent[k[p][j]] = p /\ t.rank[k[p][j]] = j
    BY DEF Rows
  <2>2. QED
    BY <1>2, <1>3, <2>1
<1>8. \A n \in Node : t.rank[n] \in Nat
  BY Fields
<1>9. ASSUME NEW j \in 1..Len(q) PROVE v.parent[q[j]] = p /\ v.rank[q[j]] = j
  <2>1. j \in 1..m - 1
    BY <1>5
  <2>2. CASE j < i
    <3>1. j \in 1..m /\ q[j] = s[j] /\ j # i /\ ~ (j > i)
      BY <1>3, <1>4, <1>5, <2>1, <2>2
    <3>2. s[j] \in Node /\ t.parent[s[j]] = p /\ t.rank[s[j]] = j
      BY <1>7, <3>1
    <3>3. QED
      BY <3>1, <3>2
  <2>3. CASE ~ (j < i)
    <3>1. j + 1 \in 1..m /\ q[j] = s[j + 1] /\ j + 1 # i /\ j + 1 > i /\ j + 1 - 1 = j
      BY <1>3, <1>4, <1>5, <2>1, <2>3
    <3>2. s[j + 1] \in Node /\ t.parent[s[j + 1]] = p /\ t.rank[s[j + 1]] = j + 1
      BY <1>7, <3>1
    <3>3. QED
      BY <3>1, <3>2
  <2>4. QED
    BY <2>2, <2>3
<1>10. ASSUME NEW n \in Node, NEW j \in 1..Len(l[n])
       PROVE  v.parent[l[n][j]] = n /\ v.rank[l[n][j]] = j
  <2>1. CASE n = p
    BY <1>6, <1>9, <2>1
  <2>2. CASE n # p
    <3>1. n \notin F /\ l[n] = k[n]
      BY <1>6, <1>10, <2>2
    <3>2. PICK y \in Node : y = k[n][j]
      BY <1>1, <3>1
    <3>3. t.parent[y] = n /\ t.rank[y] = j
      BY <3>1, <3>2 DEF Rows
    <3>4. QED
      BY <2>2, <3>1, <3>2, <3>3
  <2>3. QED
    BY <2>1, <2>2
<1>11. ASSUME NEW n \in Node, v.rank[n] > 0
       PROVE  /\ v.parent[n] \in Node /\ v.rank[n] \in 1..Len(l[v.parent[n]])
              /\ l[v.parent[n]][v.rank[n]] = n
  <2>1. n # r /\ t.parent[n] \notin F
    BY <1>11
  <2>2. PICK j \in Nat : j = t.rank[n]
    BY <1>8
  <2>3. /\ v.parent[n] = t.parent[n]
        /\ v.rank[n] = IF t.parent[n] = p /\ j > i THEN j - 1 ELSE j
    BY <2>1, <2>2
  <2>4. j > 0
    BY <1>11, <2>2, <2>3
  <2>5. t.parent[n] \in Node /\ j \in 1..Len(k[t.parent[n]]) /\ k[t.parent[n]][j] = n
    BY <2>2, <2>4 DEF Rows
  <2>6. CASE t.parent[n] # p
    <3>1. l[t.parent[n]] = k[t.parent[n]]
      BY <1>6, <2>1, <2>5, <2>6
    <3>2. QED
      BY <2>3, <2>5, <2>6, <3>1
  <2>7. CASE t.parent[n] = p
    <3>1. j \in 1..m /\ s[j] = n /\ j # i
      BY <1>2, <1>3, <1>4, <2>1, <2>5, <2>7
    <3>2. CASE j < i
      <4>1. v.rank[n] = j /\ j \in 1..m - 1 /\ q[j] = s[j]
        <5>1. ~ (j > i) /\ j \in 1..m - 1
          BY <1>4, <3>1, <3>2
        <5>2. QED
          BY <1>5, <2>3, <3>2, <5>1
      <4>2. QED
        BY <1>5, <1>6, <2>3, <2>7, <3>1, <4>1
    <3>3. CASE j > i
      <4>1. v.rank[n] = j - 1 /\ j - 1 \in 1..m - 1 /\ ~ (j - 1 < i) /\ j - 1 + 1 = j
        BY <1>4, <2>3, <2>7, <3>1, <3>3
      <4>2. q[j - 1] = s[j - 1 + 1]
        BY <1>5, <4>1
      <4>3. QED
        BY <1>5, <1>6, <2>3, <2>7, <3>1, <4>1, <4>2
    <3>4. QED
      BY <3>1, <3>2, <3>3
  <2>8. QED
    BY <2>6, <2>7
<1>12. Rows(v, l)
  BY <1>6, <1>10, <1>11 DEF Rows
<1>13. QED
  BY <1>12 DEF l

\* The same, when another node takes the place.
Swapped(t, v, F, p, r, i, x) ==
  /\ v.parent[x] = p /\ v.rank[x] = i
  /\ \A n \in Node : n = r \/ t.parent[n] \in F => v.rank[n] = 0
  /\ \A n \in Node : n # r /\ n # x /\ t.parent[n] \notin F =>
       v.parent[n] = t.parent[n] /\ v.rank[n] = t.rank[n]

LEMMA SwappedRows ==
  ASSUME NEW t \in Tree, NEW k, Rows(t, k), NEW F, F \subseteq Node, NEW v,
         NEW p \in Node, p \notin F, NEW r \in Node, t.parent[r] = p, t.rank[r] > 0,
         NEW i \in Nat, i = t.rank[r],
         NEW x \in Node, x # r, t.rank[x] = 0, Swapped(t, v, F, p, r, i, x)
  PROVE  Rows(v, Contract!KidsWithout(F, [k EXCEPT ![p][i] = x]))
<1> USE DEF Swapped
<1> DEFINE q == [k[p] EXCEPT ![i] = x]
           l == Contract!KidsWithout(F, [k EXCEPT ![p][i] = x])
<1>1. k \in [Node -> Seq(Node)]
  BY DEF Rows
<1>2. PICK s \in Seq(Node) : s = k[p]
  BY <1>1
<1>3. PICK m \in Nat : m = Len(s)
  OBVIOUS
<1>4. i \in 1..m /\ s[i] = r
  BY <1>2, <1>3 DEF Rows
<1>5. /\ q \in Seq(Node) /\ Len(q) = m
      /\ \A j \in 1..m : q[j] = IF j = i THEN x ELSE s[j]
  BY <1>2, <1>3, <1>4
<1>6. l = Contract!KidsWithout(F, [k EXCEPT ![p] = q])
  BY <1>1
<1> HIDE DEF q, l
<1>7. /\ l \in [Node -> Seq(Node)] /\ l[p] = q
      /\ \A n \in F : l[n] = <<>>
      /\ \A n \in Node : n \notin F /\ n # p => l[n] = k[n]
  BY <1>1, <1>5, <1>6 DEF Contract!KidsWithout
<1>8. \A j \in 1..m : s[j] \in Node /\ t.parent[s[j]] = p /\ t.rank[s[j]] = j
  <2>1. \A j \in 1..Len(k[p]) : t.parent[k[p][j]] = p /\ t.rank[k[p][j]] = j
    BY DEF Rows
  <2>2. QED
    BY <1>2, <1>3, <2>1
<1>9. \A n \in Node : t.rank[n] \in Nat
  BY Fields
<1>10. ASSUME NEW j \in 1..Len(q) PROVE v.parent[q[j]] = p /\ v.rank[q[j]] = j
  <2>1. CASE j = i
    BY <1>4, <1>5, <2>1
  <2>2. CASE j # i
    <3>1. j \in 1..m /\ q[j] = s[j] /\ j > 0
      BY <1>5, <2>2
    <3>2. s[j] \in Node /\ t.parent[s[j]] = p /\ t.rank[s[j]] = j
      BY <1>8, <3>1
    <3>3. QED
      BY <2>2, <3>1, <3>2
  <2>3. QED
    BY <2>1, <2>2
<1>11. ASSUME NEW n \in Node, NEW j \in 1..Len(l[n])
       PROVE  v.parent[l[n][j]] = n /\ v.rank[l[n][j]] = j
  <2>1. CASE n = p
    BY <1>7, <1>10, <2>1
  <2>2. CASE n # p
    <3>1. n \notin F /\ l[n] = k[n]
      BY <1>7, <1>11, <2>2
    <3>2. PICK y \in Node : y = k[n][j]
      BY <1>1, <3>1
    <3>3. t.parent[y] = n /\ t.rank[y] = j /\ j > 0
      BY <3>1, <3>2 DEF Rows
    <3>4. QED
      BY <2>2, <3>1, <3>2, <3>3
  <2>3. QED
    BY <2>1, <2>2
<1>12. ASSUME NEW n \in Node, v.rank[n] > 0
       PROVE  /\ v.parent[n] \in Node /\ v.rank[n] \in 1..Len(l[v.parent[n]])
              /\ l[v.parent[n]][v.rank[n]] = n
  <2>1. CASE n = x
    BY <1>4, <1>5, <1>7, <2>1
  <2>2. CASE n # x
    <3>1. n # r /\ t.parent[n] \notin F
      BY <1>12
    <3>2. v.parent[n] = t.parent[n] /\ v.rank[n] = t.rank[n] /\ t.rank[n] > 0
      BY <1>12, <2>2, <3>1
    <3>3. /\ t.parent[n] \in Node /\ t.rank[n] \in 1..Len(k[t.parent[n]])
          /\ k[t.parent[n]][t.rank[n]] = n
      BY <3>2 DEF Rows
    <3>4. CASE t.parent[n] # p
      <4>1. l[t.parent[n]] = k[t.parent[n]]
        BY <1>7, <3>1, <3>3, <3>4
      <4>2. QED
        BY <3>2, <3>3, <4>1
    <3>5. CASE t.parent[n] = p
      <4>1. t.rank[n] \in 1..m /\ s[t.rank[n]] = n
        BY <1>2, <1>3, <3>3, <3>5
      <4>2. q[t.rank[n]] = n
        BY <1>4, <1>5, <3>1, <4>1
      <4>3. QED
        BY <1>5, <1>7, <3>2, <3>5, <4>1, <4>2
    <3>6. QED
      BY <3>4, <3>5
  <2>3. QED
    BY <2>1, <2>2
<1>13. Rows(v, l)
  BY <1>7, <1>11, <1>12 DEF Rows
<1>14. QED
  BY <1>13 DEF l

-----------------------------------------------------------------------------
(***************************************************************************)
(* Copies of sequences                                                     *)
(***************************************************************************)

\* Without children the sequence is empty.
LEMMA NoRow ==
  ASSUME NEW t, NEW k, Rows(t, k), NEW n \in Node,
         \A x \in Node : t.parent[x] = n => t.rank[x] = 0
  PROVE  k[n] = <<>>
<1>1. PICK s \in Seq(Node) : s = k[n]
  BY DEF Rows
<1>2. \A i \in 1..Len(s) : s[i] \in Node /\ t.parent[s[i]] = n /\ t.rank[s[i]] = i /\ i # 0
  <2>1. \A i \in 1..Len(k[n]) : t.parent[k[n][i]] = n /\ t.rank[k[n][i]] = i
    BY DEF Rows
  <2>2. QED
    BY <1>1, <2>1
<1>3. Len(s) = 0
  <2>1. Len(s) \in Nat
    OBVIOUS
  <2>2. Len(s) # 0 => 1 \in 1..Len(s)
    BY <2>1
  <2>3. QED
    BY <1>2, <2>2
<1>4. QED
  BY <1>1, <1>3

\* What the contract copies: a list of kinds, and the sequences.
Duplicate(type, k, f, rest) ==
  LET From == Contract!AntiFunction(f) IN
  [n \in Node |->
     IF n \notin Contract!Range(f) THEN rest[n] ELSE
     IF type[From[n]] = "leaf" THEN <<>> ELSE
     [i \in DOMAIN k[From[n]] |-> f[k[From[n]][i]]]]
DuplicateKind(type, f, was) ==
  LET From == Contract!AntiFunction(f) IN
  [n \in Node |-> IF n \in Contract!Range(f) THEN type[From[n]] ELSE was[n]]

\* Where the inverse of f leads
LEMMA FromIs ==
  ASSUME NEW C \in SUBSET Node, NEW f \in Injection(C, Node)
  PROVE  /\ f \in [C -> Node] /\ DOMAIN f = C /\ Contract!Range(f) = Range(f)
         /\ \A y \in C : f[y] \in Range(f) /\ Contract!AntiFunction(f)[f[y]] = y
<1>1. /\ f \in [C -> Node] /\ DOMAIN f = C /\ \A x, y \in C : f[x] = f[y] => x = y
  BY DEF Injection, IsInjective
<1>2. Contract!Range(f) = Range(f) /\ \A y \in C : f[y] \in Range(f) /\ f[y] \in Node
  BY <1>1 DEF Contract!Range, Range
<1>3. ASSUME NEW y \in C PROVE Contract!AntiFunction(f)[f[y]] = y
  <2>1. Contract!AntiFunction(f)[f[y]]
          = CHOOSE s \in C : f[y] \in Contract!Range(f) => f[s] = f[y]
    BY <1>1, <1>2 DEF Contract!AntiFunction, Contract!Inverse
  <2>2. QED
    BY <1>1, <1>2, <2>1
<1>4. QED
  BY <1>1, <1>2, <1>3

\* At the copy of y they have y's kind, and the copies of y's children.
LEMMA DuplicateIs ==
  ASSUME NEW C \in SUBSET Node, NEW f \in Injection(C, Node), NEW type, NEW k, NEW rest
  PROVE  /\ \A n \in Node : n \notin Range(f) => Duplicate(type, k, f, rest)[n] = rest[n]
         /\ \A y \in C : Duplicate(type, k, f, rest)[f[y]] =
              IF type[y] = "leaf" THEN <<>> ELSE [i \in DOMAIN k[y] |-> f[k[y][i]]]
         /\ Duplicate(type, k, f, rest) =
              [n \in Node |-> Duplicate(type, k, f, rest)[n]]
<1> DEFINE From == Contract!AntiFunction(f)
           D == Duplicate(type, k, f, rest)
<1>1. /\ f \in [C -> Node] /\ Contract!Range(f) = Range(f)
      /\ \A y \in C : f[y] \in Range(f) /\ From[f[y]] = y
  BY FromIs
<1>2. D = [n \in Node |->
             IF n \notin Contract!Range(f) THEN rest[n] ELSE
             IF type[From[n]] = "leaf" THEN <<>> ELSE
             [i \in DOMAIN k[From[n]] |-> f[k[From[n]][i]]]]
  BY DEF Duplicate
<1> HIDE DEF From, D
<1>3. \A n \in Node : n \notin Range(f) => D[n] = rest[n]
  BY <1>1, <1>2
<1>4. \A y \in C : D[f[y]] = IF type[y] = "leaf" THEN <<>>
                             ELSE [i \in DOMAIN k[y] |-> f[k[y][i]]]
  BY <1>1, <1>2
<1>5. D = [n \in Node |-> D[n]]
  BY <1>2, Zenon
<1>6. QED
  BY <1>3, <1>4, <1>5 DEF D

LEMMA DuplicateKindIs ==
  ASSUME NEW C \in SUBSET Node, NEW f \in Injection(C, Node), NEW type, NEW was
  PROVE  /\ \A n \in Node : n \notin Range(f) => DuplicateKind(type, f, was)[n] = was[n]
         /\ \A y \in C : DuplicateKind(type, f, was)[f[y]] = type[y]
         /\ DuplicateKind(type, f, was) = [n \in Node |-> DuplicateKind(type, f, was)[n]]
<1> DEFINE From == Contract!AntiFunction(f)
           W == DuplicateKind(type, f, was)
<1>1. /\ f \in [C -> Node] /\ Contract!Range(f) = Range(f)
      /\ \A y \in C : f[y] \in Range(f) /\ From[f[y]] = y
  BY FromIs
<1>2. W = [n \in Node |-> IF n \in Contract!Range(f) THEN type[From[n]] ELSE was[n]]
  BY DEF DuplicateKind
<1> HIDE DEF From, W
<1>3. /\ \A n \in Node : n \notin Range(f) => W[n] = was[n]
      /\ \A y \in C : W[f[y]] = type[y]
  BY <1>1, <1>2
<1>4. W = [n \in Node |-> W[n]]
  BY <1>2, Zenon
<1>5. QED
  BY <1>3, <1>4 DEF W

\* The contract's copies are these.
LEMMA ContractCopies ==
  ASSUME NEW f, NEW rest, NEW was
  PROVE  /\ Contract!Copied(f, rest) = Duplicate(dom.type, children, f, rest)
         /\ Contract!CopiedKind(f, was) = DuplicateKind(dom.type, f, was)
BY DEF Contract!Copied, Contract!CopiedKind, Duplicate, DuplicateKind

\* A copy has the copies of the children in their places.
LEMMA CopyRows ==
  ASSUME TreeAssumption, NEW t, Whole(t), NEW k, Rows(t, k), NEW a \in Alive(t),
         NEW f \in Injection(Copied(t, a), Node),
         \A y \in Copied(t, a) \ {a} : f[y] \in Free(t), k[f[a]] = <<>>,
         NEW v, CopyMade(t, v, a, f)
  PROVE  Rows(v, Duplicate(t.type, k, f, k))
<1> DEFINE C == Copied(t, a)
           R == Range(f)
           B == {f[y] : y \in C \ {a}}
           D == Duplicate(t.type, k, f, k)
<1>1. /\ f \in [C -> Node] /\ DOMAIN f = C /\ \A x, y \in C : f[x] = f[y] => x = y
  BY DEF Injection, IsInjective
<1>2. R = {f[y] : y \in C}
  BY <1>1 DEF Range
<1>3. /\ C \subseteq Node /\ a \in C /\ t \in Tree /\ t.parent[a] \notin C
      /\ \A n \in Node : t.rank[n] \in Nat
      /\ \A y \in C \ {a} : /\ t.rank[y] > 0 /\ t.parent[y] \in C
                            /\ t.type[t.parent[y]] # "leaf"
  BY CopiedClosed, Fields DEF Alive, Whole
<1>4. k \in [Node -> Seq(Node)]
  BY DEF Rows
<1>5. /\ B \subseteq Free(t) /\ B \subseteq R /\ R = B \cup {f[a]} /\ R \subseteq Node
  BY <1>1, <1>2, <1>3
<1>6. /\ \A y \in C \ {a} : v.parent[f[y]] = f[t.parent[y]] /\ v.rank[f[y]] = t.rank[y]
      /\ \A n \in Node \ B : v.parent[n] = t.parent[n] /\ v.rank[n] = t.rank[n]
  BY <1>1 DEF CopyMade
<1>7. /\ \A n \in Node : n \notin R => D[n] = k[n]
      /\ \A y \in C : D[f[y]] = IF t.type[y] = "leaf" THEN <<>>
                                ELSE [i \in DOMAIN k[y] |-> f[k[y][i]]]
      /\ D = [n \in Node |-> D[n]]
  <2> HIDE DEF C
  <2>1. C \in SUBSET Node /\ f \in Injection(C, Node)
    BY <1>3 DEF C
  <2>2. \A n \in Node : n \notin R => D[n] = k[n]
    BY <2>1, DuplicateIs
  <2>3. \A y \in C : D[f[y]] = IF t.type[y] = "leaf" THEN <<>>
                                ELSE [i \in DOMAIN k[y] |-> f[k[y][i]]]
    BY <2>1, DuplicateIs
  <2>4. D = [n \in Node |-> D[n]]
    BY <2>1, DuplicateIs
  <2>5. QED
    BY <2>2, <2>3, <2>4
<1>8. \A n \in B : t.rank[n] = 0 /\ \A m \in Node : t.parent[m] # n
  BY <1>5, FreeIsAlone
<1>9. ASSUME NEW y \in C, t.type[y] # "leaf", NEW i \in 1..Len(k[y])
      PROVE  k[y][i] \in C \ {a} /\ t.parent[k[y][i]] = y /\ t.rank[k[y][i]] = i
  <2>1. PICK c \in Node : c = k[y][i]
    BY <1>3, <1>4
  <2>2. t.parent[c] = y /\ t.rank[c] = i /\ i > 0
    BY <1>3, <1>4, <2>1 DEF Rows
  <2>3. t.firstChild[y] # NULL
    BY <2>2, HasFirst
  <2>4. Downward(t, Opened(t)) /\ C = Reach(t, Opened(t), a) /\ a \in Node
    BY <1>3, CopiedIsReach
  <2>5. Opened(t)[y] # NULL
    BY <1>3, <1>9, <2>3 DEF Opened
  <2> HIDE DEF C
  <2>6. c \in C
    BY <2>2, <2>4, <2>5, ReachChildren
  <2>7. c # a
    BY <1>3, <2>2
  <2>8. QED
    BY <2>1, <2>2, <2>6, <2>7
<1> HIDE DEF C, R, D
<1>10. D \in [Node -> Seq(Node)]
  <2>1. ASSUME NEW n \in Node PROVE D[n] \in Seq(Node)
    <3>1. CASE n \notin R
      BY <1>4, <1>7, <3>1
    <3>2. CASE n \in R
      <4>1. PICK y \in C : n = f[y]
        BY <1>2, <3>2
      <4>2. CASE t.type[y] = "leaf"
        <5>1. D[n] = <<>>
          BY <1>7, <4>1, <4>2
        <5>2. QED
          BY <5>1
      <4>3. CASE t.type[y] # "leaf"
        <5>1. D[n] = [i \in DOMAIN k[y] |-> f[k[y][i]]]
          BY <1>7, <4>1, <4>3
        <5>2. k[y] \in Seq(Node)
          BY <1>3, <1>4
        <5>3. \A i \in 1..Len(k[y]) : f[k[y][i]] \in Node
          BY <1>1, <1>9, <4>3
        <5>4. QED
          BY <5>1, <5>2, <5>3
      <4>4. QED
        BY <4>2, <4>3
    <3>3. QED
      BY <3>1, <3>2
  <2>2. QED
    BY <1>7, <2>1
<1>11. ASSUME NEW n \in Node, NEW j \in 1..Len(D[n])
       PROVE  v.parent[D[n][j]] = n /\ v.rank[D[n][j]] = j
  <2>1. CASE n \notin R
    <3>1. PICK c \in Node : c = k[n][j]
      BY <1>4, <1>7, <2>1
    <3>2. D[n] = k[n]
      BY <1>7, <2>1
    <3>3. t.parent[c] = n /\ t.rank[c] = j /\ j > 0
      BY <3>1, <3>2 DEF Rows
    <3>4. c \notin B
      BY <1>8, <3>3
    <3>5. QED
      BY <1>6, <3>1, <3>2, <3>3, <3>4
  <2>2. CASE n \in R
    <3>1. PICK y \in C : n = f[y]
      BY <1>2, <2>2
    <3>2. D[n] = IF t.type[y] = "leaf" THEN <<>> ELSE [i \in DOMAIN k[y] |-> f[k[y][i]]]
      BY <1>7, <3>1
    <3>3. t.type[y] # "leaf"
      BY <1>11, <3>2
    <3>4. k[y] \in Seq(Node)
      BY <1>3, <1>4
    <3>5. j \in 1..Len(k[y]) /\ D[n][j] = f[k[y][j]]
      <4>1. D[n] = [i \in 1..Len(k[y]) |-> f[k[y][i]]]
        BY <3>2, <3>3, <3>4
      <4>2. Len(D[n]) = Len(k[y])
        BY <3>4, <4>1
      <4>3. QED
        BY <4>1, <4>2
    <3>6. k[y][j] \in C \ {a} /\ t.parent[k[y][j]] = y /\ t.rank[k[y][j]] = j
      BY <1>9, <3>3, <3>5
    <3>7. QED
      BY <1>6, <3>1, <3>5, <3>6
  <2>3. QED
    BY <2>1, <2>2
<1>12. ASSUME NEW n \in Node, v.rank[n] > 0
       PROVE  /\ v.parent[n] \in Node /\ v.rank[n] \in 1..Len(D[v.parent[n]])
              /\ D[v.parent[n]][v.rank[n]] = n
  <2>1. CASE n \in B
    <3>1. PICK y \in C \ {a} : n = f[y]
      BY <2>1
    <3>2. PICK z \in C : z = t.parent[y]
      BY <1>3
    <3>3. v.parent[n] = f[z] /\ v.rank[n] = t.rank[y] /\ t.rank[y] > 0 /\ t.type[z] # "leaf"
      BY <1>3, <1>6, <3>1, <3>2
    <3>4. t.rank[y] \in 1..Len(k[z]) /\ k[z][t.rank[y]] = y /\ k[z] \in Seq(Node)
      BY <1>3, <1>4, <3>2, <3>3 DEF Rows
    <3>5. D[f[z]] = [i \in 1..Len(k[z]) |-> f[k[z][i]]]
      <4>1. D[f[z]] = [i \in DOMAIN k[z] |-> f[k[z][i]]]
        BY <1>7, <3>3
      <4>2. DOMAIN k[z] = 1..Len(k[z])
        BY <3>4
      <4>3. QED
        BY <4>1, <4>2
    <3>6. Len(D[f[z]]) = Len(k[z]) /\ D[f[z]][t.rank[y]] = f[y]
      BY <3>4, <3>5
    <3>7. QED
      BY <1>1, <3>1, <3>3, <3>4, <3>6
  <2>2. CASE n \notin B
    <3>1. v.parent[n] = t.parent[n] /\ v.rank[n] = t.rank[n] /\ t.rank[n] > 0
      BY <1>6, <1>12, <2>2
    <3>2. /\ t.parent[n] \in Node /\ t.rank[n] \in 1..Len(k[t.parent[n]])
          /\ k[t.parent[n]][t.rank[n]] = n
      BY <3>1 DEF Rows
    <3>3. t.parent[n] \notin R
      <4>1. t.parent[n] \notin B
        BY <1>8
      <4>2. t.parent[n] # f[a]
        BY <3>2
      <4>3. QED
        BY <1>5, <4>1, <4>2
    <3>4. D[t.parent[n]] = k[t.parent[n]]
      BY <1>7, <3>2, <3>3
    <3>5. QED
      BY <3>1, <3>2, <3>4
  <2>3. QED
    BY <2>1, <2>2
<1>13. Rows(v, D)
  BY <1>10, <1>11, <1>12 DEF Rows
<1>14. QED
  BY <1>13 DEF D

\* The copy of a leaf has no children, whatever becomes of those of the node that
\* it is copied to.
LEMMA LeafCopyRows ==
  ASSUME TreeAssumption, NEW t, Whole(t), NEW k, Rows(t, k), NEW a \in Alive(t),
         t.type[a] = "leaf", NEW f \in Injection(Copied(t, a), Node),
         NEW v, CopyMade(t, v, a, f)
  PROVE  Rows(v, k)
<1>1. DOMAIN f = Copied(t, a) /\ \A y \in Copied(t, a) : y = a
  BY CopiedClosed DEF Injection
<1>2. \A n \in Node : v.parent[n] = t.parent[n] /\ v.rank[n] = t.rank[n]
  BY <1>1 DEF CopyMade
<1>3. ASSUME NEW m \in Node, NEW i \in 1..Len(k[m])
      PROVE  v.parent[k[m][i]] = m /\ v.rank[k[m][i]] = i
  <2>1. k[m][i] \in Node /\ t.parent[k[m][i]] = m /\ t.rank[k[m][i]] = i
    BY DEF Rows
  <2>2. QED
    BY <1>2, <2>1
<1>4. ASSUME NEW m \in Node, v.rank[m] > 0
      PROVE  /\ v.parent[m] \in Node /\ v.rank[m] \in 1..Len(k[v.parent[m]])
             /\ k[v.parent[m]][v.rank[m]] = m
  <2>1. t.rank[m] > 0
    BY <1>2, <1>4
  <2>2. /\ t.parent[m] \in Node /\ t.rank[m] \in 1..Len(k[t.parent[m]])
        /\ k[t.parent[m]][t.rank[m]] = m
    BY <2>1 DEF Rows
  <2>3. QED
    BY <1>2, <2>2
<1>5. k \in [Node -> Seq(Node)]
  BY DEF Rows
<1>6. QED
  BY <1>3, <1>4, <1>5 DEF Rows

\* The kinds that a copy leaves
LEMMA CopyKinds ==
  ASSUME NEW t, NEW v, NEW a, NEW C \in SUBSET Node, NEW f \in Injection(C, Node),
         CopyMade(t, v, a, f), NEW type, NEW was,
         \A y \in C : t.type[y] = type[y],
         \A n \in Node \ Range(f) : t.type[n] = was[n]
  PROVE  v.type = DuplicateKind(type, f, was)
<1>1. PICK d : d = DuplicateKind(type, f, was)
  OBVIOUS
<1>2. /\ \A n \in Node : n \notin Range(f) => d[n] = was[n]
      /\ \A y \in C : d[f[y]] = type[y]
  BY <1>1, DuplicateKindIs
<1>3. d = [n \in Node |-> d[n]]
  BY <1>1, DuplicateKindIs
<1>4. DOMAIN f = C /\ \A n \in Range(f) : \E y \in C : n = f[y]
  BY DEF Injection, Range
<1>5. /\ \A n \in Node \ Range(f) : v.type[n] = t.type[n]
      /\ \A y \in C : v.type[f[y]] = t.type[y]
      /\ v \in Tree
  BY <1>4 DEF CopyMade
<1>6. \A n \in Node : v.type[n] = d[n]
  BY <1>2, <1>4, <1>5
<1>7. v.type = [n \in Node |-> v.type[n]]
  BY <1>5 DEF Tree
<1>8. QED
  BY <1>1, <1>3, <1>6, <1>7

-----------------------------------------------------------------------------
(***************************************************************************)
(* The calls that make, link and copy                                      *)
(***************************************************************************)

\* The contract's terms, of the pointers
LEMMA ContractTerms ==
  ASSUME TreeAssumption, Whole(dom), Rows(dom, children)
  PROVE  /\ Contract!Alive = Alive(dom)
         /\ \A n \in Node : /\ Contract!Family(n) = Family(dom, n)
                            /\ Contract!Duplicated(n) = Copied(dom, n)
                            /\ Contract!Held(n) <=> dom.rank[n] > 0
         /\ \A S, T : Contract!Injection(S, T) = Injection(S, T)
<1>1. Contract!Alive = Alive(dom)
  BY DEF Contract!Alive, Alive
<1>2. ASSUME NEW n \in Node
      PROVE  Contract!Family(n) = Family(dom, n) /\ Contract!Duplicated(n) = Copied(dom, n)
  <2>1. /\ Contract!Family(n) = Below(children, n, Node)
        /\ Contract!Duplicated(n) = Below(children, n, {x \in Node : dom.type[x] # "leaf"})
    BY DEF Contract!Family, Contract!Duplicated, Contract!Reached, Below
  <2>2. QED
    BY <2>1, FamilyIsBelow
<1>3. ASSUME NEW n \in Node PROVE Contract!Held(n) <=> dom.rank[n] > 0
  BY HeldIs DEF Contract!Held, Whole
<1>4. \A S, T : Contract!Injection(S, T) = Injection(S, T)
  BY DEF Contract!Injection, Injection, Contract!IsInjective, IsInjective
<1>5. QED
  BY <1>1, <1>2, <1>3, <1>4

\* A new node
LEMMA MakesNew ==
  ASSUME TreeAssumption, Whole(dom), Rows(dom, children), Rows(dom', children'),
         NEW n \in Free(dom), NEW kind \in Kind, NEW v \in Value, NEW p \in Node \cup {NULL},
         dom' = Made(dom, n, kind, v, p)
  PROVE  Contract!New(n, kind)
<1>1. PICK u : u = dom'
  OBVIOUS
<1>2. Rows(u, children) /\ u.type = [dom.type EXCEPT ![n] = kind]
  BY <1>1, MadeRows
<1>3. children' = children
  BY <1>1, <1>2, RowsUnique
<1>4. n \notin Contract!Alive
  BY ContractTerms DEF Free, Alive
<1>5. QED
  BY <1>1, <1>2, <1>3, <1>4 DEF Contract!New

\* A node that comes last
LEMMA LinkingAppends ==
  ASSUME TreeAssumption, NEW t, Whole(t), NEW k, Rows(t, k), NEW x \in Node, t.rank[x] = 0,
         NEW p, NEW left, NEW place, Gap(t, p, left, NULL, place),
         NEW u, Spliced(t, u, p, x, left, NULL, place), NEW l, Rows(u, l)
  PROVE  l = [k EXCEPT ![p] = Append(@, x)]
<1>1. k[p] \in Seq(Node) /\ place = Len(k[p]) + 1
  BY GapPlace
<1>2. With(k[p], Append(k[p], x), place, x)
  BY <1>1, AppendedIsWith
<1>3. Rows(u, [k EXCEPT ![p] = Append(k[p], x)])
  BY <1>2, SplicedRows
<1>4. QED
  BY <1>3, RowsUnique

LEMMA LinksLast ==
  ASSUME TreeAssumption, Whole(dom), Rows(dom, children), Rows(dom', children'),
         NEW p \in Alive(dom), NEW x \in Alive(dom), dom.rank[x] = 0,
         p \notin Family(dom, x),
         \A m \in Node : dom.parent[m] \in Family(dom, x) => dom.rank[m] > 0,
         dom' = Linked(dom, p, x)
  PROVE  Contract!Link(p, x)
<1>1. PICK u : u = dom'
  OBVIOUS
<1>2. PICK place \in Nat : /\ Gap(dom, p, dom.lastChild[p], NULL, place)
                           /\ Spliced(dom, u, p, x, dom.lastChild[p], NULL, place)
  BY <1>1, LinkedSplices
<1>3. x \in Node /\ p \in Node
  BY DEF Alive
<1>4. children' = [children EXCEPT ![p] = Append(@, x)]
  BY <1>1, <1>2, <1>3, LinkingAppends
<1>5. dom.type' = dom.type
  BY <1>1, <1>2 DEF Spliced
<1>6. p \in Contract!Alive /\ ~ Contract!Held(x) /\ p \notin Contract!Family(x)
  <2>1. dom.rank[x] = 0 => ~ (dom.rank[x] > 0)
    OBVIOUS
  <2>2. QED
    BY <1>3, <2>1, ContractTerms
<1>7. QED
  BY <1>4, <1>5, <1>6 DEF Contract!Link

\* A new node that comes last
LEMMA MakesLast ==
  ASSUME TreeAssumption, Whole(dom), Rows(dom, children), Rows(dom', children'),
         NEW p \in Alive(dom), NEW n \in Free(dom), NEW v \in Value,
         dom' = Linked(Made(dom, n, "leaf", v, NULL), p, n)
  PROVE  Contract!NewLast(p, n, "leaf")
<1>1. PICK s : s = Made(dom, n, "leaf", v, NULL)
  OBVIOUS
<1>2. PICK u : u = dom' /\ u = Linked(s, p, n)
  BY <1>1
<1>3. p \in Node /\ n \in Node /\ p # n /\ dom \in Tree /\ "leaf" \in Kind
  BY DEF Alive, Free, Whole, Kind
<1>4. Whole(s) /\ Alive(s) = Alive(dom) \cup {n}
  BY <1>1, <1>3, MadeWhole
<1>5. Rows(s, children) /\ s.type = [dom.type EXCEPT ![n] = "leaf"]
  BY <1>1, <1>3, MadeRows
<1>6. /\ s.parent = [dom.parent EXCEPT ![n] = NULL]
      /\ s.rank = dom.rank /\ s.firstChild = dom.firstChild
  BY <1>1, <1>3 DEF Made, Tree
<1>7. /\ s.rank[n] = 0 /\ s.firstChild[n] = NULL
      /\ \A m \in Node : s.parent[m] # n
  BY <1>3, <1>6, FreeIsAlone DEF Tree, Pointer, TreeAssumption
<1>8. Family(s, n) = {n}
  <2>1. Closed(s, n, {n})
    BY <1>7 DEF Closed
  <2>2. n \in Family(s, n) /\ Family(s, n) \subseteq {n}
    BY <1>3, <2>1 DEF Family, Closed
  <2>3. QED
    BY <2>2
<1>9. p \notin Family(s, n) /\ \A m \in Node : s.parent[m] \in Family(s, n) => s.rank[m] > 0
  BY <1>3, <1>7, <1>8
<1>10. PICK place \in Nat : /\ Gap(s, p, s.lastChild[p], NULL, place)
                            /\ Spliced(s, u, p, n, s.lastChild[p], NULL, place)
  BY <1>2, <1>4, <1>9, LinkedSplices
<1>11. children' = [children EXCEPT ![p] = Append(@, n)]
  BY <1>2, <1>3, <1>4, <1>5, <1>7, <1>10, LinkingAppends
<1>12. dom.type' = [dom.type EXCEPT ![n] = "leaf"]
  BY <1>2, <1>5, <1>10 DEF Spliced
<1>13. n \notin Contract!Alive
  BY ContractTerms DEF Free, Alive
<1>14. QED
  BY <1>11, <1>12, <1>13 DEF Contract!NewLast

\* A copy beside the tree
LEMMA CopyIs ==
  ASSUME TreeAssumption, NEW t, Whole(t), NEW k, Rows(t, k), NEW a \in Alive(t),
         NEW f \in Copies(t, a), NEW c, c = Cloned(t, a, f)
  PROVE  /\ Rows(c, Duplicate(t.type, k, f, k))
         /\ c.type = DuplicateKind(t.type, f, t.type)
         /\ \A n \in Alive(t) : Duplicate(t.type, k, f, k)[n] = k[n]
         /\ f \in Injection(Copied(t, a), Node) /\ f[a] \in Free(t)
         /\ \A n \in Range(f) : n \in Free(t)
<1>1. /\ f \in [Copied(t, a) -> Free(t)] /\ f \in Injection(Copied(t, a), Node)
      /\ a \in Copied(t, a) /\ Copied(t, a) \in SUBSET Node
      /\ DOMAIN f = Copied(t, a)
  BY CopiedClosed DEF Copies, Injection, IsInjective, Free, Alive
<1>2. /\ \A y \in Copied(t, a) : f[y] \in Free(t)
      /\ \A n \in Range(f) : n \in Free(t)
  BY <1>1 DEF Range
<1>3. CopyMade(t, c, a, f)
  BY <1>1, ClonedCopies
<1>4. k[f[a]] = <<>>
  <2>1. f[a] \in Node /\ \A x \in Node : t.parent[x] # f[a]
    BY <1>1, <1>2, FreeIsAlone
  <2>2. QED
    BY <2>1, NoRow
<1>5. Rows(c, Duplicate(t.type, k, f, k))
  BY <1>1, <1>2, <1>3, <1>4, CopyRows
<1>6. c.type = DuplicateKind(t.type, f, t.type)
  BY <1>1, <1>3, CopyKinds
<1>7. \A n \in Alive(t) : n \in Node /\ n \notin Range(f)
  BY <1>2 DEF Alive, Free
<1>8. \A n \in Alive(t) : Duplicate(t.type, k, f, k)[n] = k[n]
  <2>1. \A n \in Node : n \notin Range(f) => Duplicate(t.type, k, f, k)[n] = k[n]
    BY <1>1, DuplicateIs
  <2>2. QED
    BY <1>7, <2>1
<1>9. QED
  BY <1>1, <1>2, <1>5, <1>6, <1>8

\* The contract's copies, of the pointers
LEMMA CopiesOf ==
  ASSUME TreeAssumption, Whole(dom), Rows(dom, children), NEW a \in Alive(dom), NEW f \in Copies(dom, a)
  PROVE  f \in Contract!Copies(a, Node \ Contract!Alive)
<1>1. a \in Node /\ Node \ Alive(dom) = Free(dom)
  BY DEF Alive, Free
<1>2. QED
  BY <1>1, ContractTerms DEF Copies, Contract!Copies

\* Clone
LEMMA ClonesCopy ==
  ASSUME TreeAssumption, Whole(dom), Rows(dom, children), Rows(dom', children'),
         NEW a \in Alive(dom), NEW f \in Copies(dom, a), dom' = Cloned(dom, a, f)
  PROVE  Contract!Copy(a)
<1>1. PICK u : u = dom'
  OBVIOUS
<1>2. /\ Rows(u, Duplicate(dom.type, children, f, children))
      /\ u.type = DuplicateKind(dom.type, f, dom.type)
  BY <1>1, CopyIs
<1>3. children' = Duplicate(dom.type, children, f, children)
  BY <1>1, <1>2, RowsUnique
<1>4. dom.type' = Contract!CopiedKind(f, dom.type) /\ children' = Contract!Copied(f, children)
  BY <1>1, <1>2, <1>3, ContractCopies
<1>5. QED
  BY <1>4, CopiesOf DEF Contract!Copy

\* A copy at a place
LEMMA InsertsCopy ==
  ASSUME TreeAssumption, Whole(dom), Rows(dom, children), Rows(dom', children'),
         NEW p \in Alive(dom), NEW a \in Alive(dom), NEW f \in Copies(dom, a),
         NEW c, c = Cloned(dom, a, f),
         NEW left, NEW right, NEW place, Gap(c, p, left, right, place),
         Spliced(c, dom', p, f[a], left, right, place)
  PROVE  place \in 1..Len(children[p]) + 1 /\ Contract!InsertCopy(p, place, a)
<1>1. PICK u : u = dom'
  OBVIOUS
<1>2. PICK d : d = Duplicate(dom.type, children, f, children)
  OBVIOUS
<1>3. /\ Rows(c, d) /\ d[p] = children[p]
      /\ c.type = DuplicateKind(dom.type, f, dom.type) /\ f[a] \in Free(dom)
  BY <1>2, CopyIs
<1>4. Whole(c) /\ c.rank[f[a]] = 0
  BY CopyApart
<1>5. p \in Node /\ f[a] \in Node /\ f[a] \in Node \ Contract!Alive
  BY <1>3, ContractTerms DEF Alive, Free
<1>6. d[p] \in Seq(Node) /\ place \in 1..Len(d[p]) + 1
  BY <1>3, <1>4, GapPlace
<1>7. With(d[p], Contract!InsertAt(d[p], place, f[a]), place, f[a])
  BY <1>5, <1>6, InsertedIsWith
<1>8. Rows(u, [d EXCEPT ![p] = Contract!InsertAt(d[p], place, f[a])])
  BY <1>1, <1>3, <1>4, <1>5, <1>7, SplicedRows
<1>9. children' = [d EXCEPT ![p] = Contract!InsertAt(d[p], place, f[a])]
  BY <1>1, <1>8, RowsUnique
<1>10. d \in [Node -> Seq(Node)]
  BY <1>3 DEF Rows
<1>11. children'[p] = Contract!InsertAt(children[p], place, f[a])
  BY <1>3, <1>5, <1>9, <1>10
<1>12. /\ dom.type' = Contract!CopiedKind(f, dom.type)
       /\ d = Contract!Copied(f, children)
  BY <1>1, <1>2, <1>3, ContractCopies DEF Spliced
<1>13. children' = [Contract!Copied(f, children) EXCEPT ![p] = Contract!InsertAt(@, place, f[a])]
  BY <1>9, <1>12
<1>14. f \in Contract!Copies(a, Node \ Contract!Alive)
  BY CopiesOf
<1>15. Contract!InsertCopy(p, place, a)
  BY <1>5, <1>11, <1>12, <1>13, <1>14 DEF Contract!InsertCopy
<1>16. QED
  BY <1>3, <1>6, <1>15

-----------------------------------------------------------------------------
(***************************************************************************)
(* The calls that replace, remove, empty and assign                        *)
(***************************************************************************)

\* A copy leaves the families of all nodes as they were.
LEMMA CopyKeepsFamilies ==
  ASSUME TreeAssumption, NEW t, Whole(t), NEW a \in Alive(t), NEW f \in Copies(t, a),
         NEW c, c = Cloned(t, a, f), NEW r \in Alive(t)
  PROVE  Family(c, r) = Family(t, r)
<1>1. t \in Tree /\ r \in Node /\ c \in Tree /\ t.firstChild \in Pointer
  BY CopyApart DEF Whole, Alive, Tree
<1>2. /\ Family(t, r) = Reach(t, t.firstChild, r) /\ Family(c, r) = Reach(c, c.firstChild, r)
      /\ Downward(t, t.firstChild)
  BY <1>1, FamilyIsReach
<1>3. \A x \in Reach(t, t.firstChild, r) : x \in Alive(t)
  BY <1>1, <1>2, ReachBelow
<1>4. \A n \in Alive(t) : c.next[n] = t.next[n] /\ c.firstChild[n] = t.firstChild[n]
  BY CopyApart
<1>5. QED
  BY <1>1, <1>2, <1>3, <1>4, ReachSame

\* A linked node in its parent's sequence
LEMMA InRow ==
  ASSUME NEW t, NEW k, Rows(t, k), NEW p \in Node, NEW r \in Node,
         t.parent[r] = p, t.rank[r] > 0, NEW i, i = t.rank[r]
  PROVE  k[p] \in Seq(Node) /\ i \in 1..Len(k[p]) /\ i \in DOMAIN k[p] /\ k[p][i] = r
<1>1. k[p] \in Seq(Node) /\ i \in 1..Len(k[p]) /\ k[p][i] = r
  BY DEF Rows
<1>2. QED
  BY <1>1

\* Types when nodes go
LEMMA KindGone ==
  ASSUME NEW v \in Tree, NEW F \in SUBSET Node, NEW was,
         \A n \in F : v.type[n] = "free", \A n \in Node \ F : v.type[n] = was[n]
  PROVE  v.type = Contract!KindWithout(F, was)
<1>1. v.type = [n \in Node |-> v.type[n]]
  BY DEF Tree
<1>2. \A n \in Node : v.type[n] = IF n \in F THEN "free" ELSE was[n]
  OBVIOUS
<1>3. QED
  BY <1>1, <1>2 DEF Contract!KindWithout

\* A copy that takes a child's place
LEMMA ReplacesWithCopy ==
  ASSUME TreeAssumption, Whole(dom), NoneLoose(dom),
         Rows(dom, children), Rows(dom', children'),
         NEW p \in Alive(dom), NEW a \in Alive(dom), dom.type[a] # "document",
         NEW r \in Node, dom.parent[r] = p, NEW f \in Copies(dom, a),
         NEW u, u = Replaced(Cloned(dom, a, f), p, r, f[a]), dom' = Deleted(u, Family(u, r))
  PROVE  \E i \in DOMAIN children[p] : Contract!ReplaceWithCopy(p, i, a)
<1>1. PICK w : w = dom'
  OBVIOUS
<1>2. PICK c : c = Cloned(dom, a, f)
  OBVIOUS
<1>3. PICK d : d = Duplicate(dom.type, children, f, children)
  OBVIOUS
<1>4. PICK x : x = f[a]
  OBVIOUS
<1>5. /\ Rows(c, d) /\ d[p] = children[p] /\ d \in [Node -> Seq(Node)]
      /\ c.type = DuplicateKind(dom.type, f, dom.type) /\ x \in Free(dom)
  <2>1. /\ Rows(c, d) /\ d[p] = children[p]
        /\ c.type = DuplicateKind(dom.type, f, dom.type) /\ x \in Free(dom)
    BY <1>2, <1>3, <1>4, CopyIs
  <2>2. QED
    BY <2>1 DEF Rows
<1>6. p \in Node /\ x \in Node /\ x \in Node \ Contract!Alive /\ p # x
  BY <1>5, ContractTerms DEF Alive, Free
<1>7. r \in Alive(dom) /\ dom.rank[r] > 0
  <2>1. dom.parent[r] # NULL
    BY <1>6 DEF TreeAssumption
  <2>2. QED
    BY <2>1, ParentOf DEF NoneLoose
<1>8. /\ Whole(c) /\ NoneLoose(c) /\ p \in Alive(c) /\ x \in Alive(c)
      /\ p \notin Family(c, x) /\ x # p /\ c.type[x] # "document"
      /\ c.parent[r] = p /\ c.rank[r] > 0 /\ x # r /\ r \in Alive(c)
  BY <1>2, <1>4, CopyLinks
<1>9. c.parent[x] = NULL /\ c.rank[x] = 0 /\ c.rank[r] = dom.rank[r]
  BY <1>2, <1>4, <1>7, CopyApart
<1>10. PICK F : F = Family(c, r)
  OBVIOUS
<1>11. F = Contract!Family(r)
  BY <1>2, <1>7, <1>10, CopyKeepsFamilies, ContractTerms
<1>12. PICK i : i = dom.rank[r]
  OBVIOUS
<1>13. i \in Nat /\ i > 0 /\ c \in Tree
  BY <1>7, <1>8, <1>12, Fields DEF Whole
<1>14. i \in DOMAIN children[p] /\ children[p][i] = r /\ children[p] \in Seq(Node)
  BY <1>6, <1>7, <1>12, InRow
<1>15. u = Replaced(c, p, r, x) /\ w = Deleted(u, Family(u, r))
  BY <1>1, <1>2, <1>4
<1>16. /\ Whole(w) /\ x \notin F
       /\ \A n \in F : Void(w, n)
       /\ \A n \in Node \ F :
            /\ w.type[n] = c.type[n]
            /\ w.parent[n] = IF n = x THEN p ELSE c.parent[n]
            /\ w.rank[n] = IF n = x THEN c.rank[r] ELSE c.rank[n]
  BY <1>8, <1>9, <1>10, <1>15, ReplacedWhole
<1>17. /\ F \subseteq Node /\ r \in F /\ p \notin F
       /\ \A n \in F \ {r} : c.parent[n] \in F
       /\ \A n \in Node : c.parent[n] \in F => n \in F \ {r}
  BY <1>8, <1>10, NoneWaits, FamilyApart
<1>18. Swapped(c, w, F, p, r, i, x)
  BY <1>6, <1>9, <1>12, <1>16, <1>17 DEF Void, Swapped
<1>19. Rows(w, Contract!KidsWithout(F, [d EXCEPT ![p][i] = x]))
  BY <1>5, <1>6, <1>8, <1>9, <1>12, <1>13, <1>17, <1>18, SwappedRows
<1>20. children' = Contract!KidsWithout(F, [d EXCEPT ![p][i] = x])
  BY <1>1, <1>19, RowsUnique
<1>21. children'[p] = [children[p] EXCEPT ![i] = x]
  <2>1. children'[p] = [d EXCEPT ![p][i] = x][p]
    BY <1>6, <1>17, <1>20 DEF Contract!KidsWithout
  <2>2. QED
    BY <1>5, <1>6, <2>1
<1>22. dom.type' = Contract!KindWithout(F, c.type)
  <2>1. w.type = Contract!KindWithout(F, c.type)
    BY <1>16, <1>17, KindGone DEF Void, Whole
  <2>2. QED
    BY <1>1, <2>1
<1>23. d = Contract!Copied(f, children) /\ c.type = Contract!CopiedKind(f, dom.type)
  BY <1>3, <1>5, ContractCopies
<1>24. f \in Contract!Copies(a, Node \ Contract!Alive)
  BY CopiesOf
<1>25. Contract!ReplaceWithCopy(p, i, a)
  <2>1. F = Contract!Family(children[p][i])
    BY <1>11, <1>14
  <2>2. /\ dom.type' = Contract!KindWithout(F, Contract!CopiedKind(f, dom.type))
        /\ children' = Contract!KidsWithout(F, [Contract!Copied(f, children) EXCEPT ![p][i] = x])
    BY <1>20, <1>22, <1>23
  <2>3. QED
    BY <1>4, <1>6, <1>21, <1>24, <2>1, <2>2 DEF Contract!ReplaceWithCopy
<1>26. QED
  BY <1>14, <1>25

\* A child that goes
LEMMA RemovesChild ==
  ASSUME TreeAssumption, Whole(dom), NoneLoose(dom),
         Rows(dom, children), Rows(dom', children'),
         NEW p \in Node, NEW r \in Node, dom.parent[r] = p,
         NEW u, u = Bypassed(dom, p, r), dom' = Deleted(u, Family(u, r))
  PROVE  \E i \in DOMAIN children[p] : Contract!RemoveChild(p, i)
<1>1. PICK w : w = dom'
  OBVIOUS
<1>2. PICK F : F = Family(dom, r)
  OBVIOUS
<1>3. dom.parent[r] # NULL /\ dom.rank[r] > 0 /\ dom \in Tree
  BY DEF TreeAssumption, NoneLoose, Whole
<1>4. PICK i : i = dom.rank[r]
  OBVIOUS
<1>5. i \in Nat /\ i > 0
  BY <1>3, <1>4, Fields
<1>6. /\ i \in DOMAIN children[p] /\ children[p][i] = r /\ children[p] \in Seq(Node)
      /\ i \in 1..Len(children[p])
  BY <1>3, <1>4, InRow
<1>7. CutOut(dom, w, r)
  BY <1>1, <1>3, NoneWaits, BypassedCutsOut
<1>8. /\ F \subseteq Node /\ r \in F /\ p \notin F
      /\ \A n \in F \ {r} : dom.parent[n] \in F
      /\ \A n \in Node : dom.parent[n] \in F => n \in F \ {r}
  BY <1>2, NoneWaits, FamilyApart
<1>9. /\ w \in Tree
      /\ \A n \in F : Void(w, n)
      /\ \A n \in Node \ F :
           /\ w.type[n] = dom.type[n] /\ w.parent[n] = dom.parent[n]
           /\ w.rank[n] = IF dom.parent[n] = p /\ dom.rank[n] > i
                          THEN dom.rank[n] - 1 ELSE dom.rank[n]
  BY <1>2, <1>3, <1>4, <1>7 DEF CutOut
<1>10. Cut(dom, w, F, p, r, i)
  BY <1>8, <1>9 DEF Void, Cut
<1>11. PICK q : q = Contract!RemoveAt(children[p], i)
  OBVIOUS
<1>12. Without(children[p], q, i)
  BY <1>6, <1>11, RemovedIsWithout
<1>13. Rows(w, Contract!KidsWithout(F, [children EXCEPT ![p] = q]))
  BY <1>3, <1>4, <1>5, <1>8, <1>10, <1>12, CutRows
<1>14. children' = Contract!KidsWithout(F, [children EXCEPT ![p] = q])
  BY <1>1, <1>13, RowsUnique
<1>15. dom.type' = Contract!KindWithout(F, dom.type)
  <2>1. w.type = Contract!KindWithout(F, dom.type)
    BY <1>8, <1>9, KindGone DEF Void
  <2>2. QED
    BY <1>1, <2>1
<1>16. F = Contract!Family(children[p][i])
  BY <1>2, <1>6, ContractTerms
<1>17. Contract!RemoveChild(p, i)
  BY <1>11, <1>14, <1>15, <1>16 DEF Contract!RemoveChild
<1>18. QED
  BY <1>6, <1>17

\* A tree that goes
LEMMA DeletesTree ==
  ASSUME TreeAssumption, Whole(dom), NoneLoose(dom),
         Rows(dom, children), Rows(dom', children'),
         NEW x \in Alive(dom), dom.parent[x] = NULL, dom' = Deleted(dom, Family(dom, x))
  PROVE  Contract!Delete(x)
<1>1. PICK w : w = dom'
  OBVIOUS
<1>2. PICK F : F = Family(dom, x)
  OBVIOUS
<1>3. x \in Node /\ dom.rank[x] = 0
  BY DEF Alive, Whole, Ordered
<1>4. CutOut(dom, w, x)
  BY <1>1, DeletedCutsOut
<1>5. /\ F \subseteq Node /\ x \in F
      /\ \A n \in F \ {x} : dom.parent[n] \in F
      /\ \A n \in Node : dom.parent[n] \in F => n \in F \ {x}
  BY <1>2, <1>3, NoneWaits, FamilyApart
<1>6. /\ w \in Tree
      /\ \A n \in F : Void(w, n)
      /\ \A n \in Node \ F :
           w.type[n] = dom.type[n] /\ w.parent[n] = dom.parent[n] /\ w.rank[n] = dom.rank[n]
  BY <1>2, <1>4 DEF CutOut
<1>7. Pruned(dom, w, F)
  BY <1>3, <1>5, <1>6 DEF Void, Pruned
<1>8. Rows(w, Contract!KidsWithout(F, children))
  BY <1>5, <1>7, PrunedRows
<1>9. children' = Contract!KidsWithout(F, children)
  BY <1>1, <1>8, RowsUnique
<1>10. dom.type' = Contract!KindWithout(F, dom.type)
  <2>1. w.type = Contract!KindWithout(F, dom.type)
    BY <1>5, <1>6, KindGone DEF Void
  <2>2. QED
    BY <1>1, <2>1
<1>11. F = Contract!Family(x) /\ ~ Contract!Held(x)
  <2>1. dom.rank[x] = 0 => ~ (dom.rank[x] > 0)
    OBVIOUS
  <2>2. QED
    BY <1>2, <1>3, <2>1, ContractTerms
<1>12. QED
  BY <1>9, <1>10, <1>11 DEF Contract!Delete

\* An emptied node
LEMMA ClearedRows ==
  ASSUME TreeAssumption, NEW t, Whole(t), NoneLoose(t), NEW k, Rows(t, k),
         NEW p \in Alive(t), NEW v, v = Cleared(t, p), NEW F, F = Family(t, p)
  PROVE  /\ Rows(v, Contract!KidsWithout(F, k))
         /\ v.type = Contract!KindWithout(F \ {p}, t.type)
<1>1. /\ F \subseteq Node /\ p \in F /\ p \in Node
      /\ \A n \in F \ {p} : t.parent[n] \in F
      /\ \A n \in Node : t.parent[n] \in F => n \in F \ {p}
  BY NoneWaits, FamilyApart DEF Alive
<1>2. /\ Whole(v) /\ Alive(v) = Alive(t) \ (F \ {p})
      /\ \A n \in Node \ (F \ {p}) :
           /\ v.type[n] = t.type[n] /\ v.parent[n] = t.parent[n] /\ v.rank[n] = t.rank[n]
  BY NoneWaits, ClearedWhole
<1>3. \A n \in F \ {p} : n \in Free(v)
  BY <1>1, <1>2 DEF Alive, Free
<1>4. \A n \in F \ {p} : v.rank[n] = 0 /\ v.type[n] = "free"
  BY <1>2, <1>3, FreeIsAlone DEF Free
<1>5. Pruned(t, v, F)
  <2>1. t.parent[p] \notin F
    BY <1>1
  <2>2. QED
    BY <1>1, <1>2, <1>4, <2>1 DEF Pruned
<1>6. Rows(v, Contract!KidsWithout(F, k))
  BY <1>1, <1>5, PrunedRows
<1>7. v.type = Contract!KindWithout(F \ {p}, t.type)
  <2>1. PICK G \in SUBSET Node : G = F \ {p}
    BY <1>1
  <2>2. v.type = Contract!KindWithout(G, t.type)
    BY <1>2, <1>4, <2>1, KindGone DEF Whole
  <2>3. QED
    BY <2>1, <2>2
<1>8. QED
  BY <1>6, <1>7

LEMMA ClearsTree ==
  ASSUME TreeAssumption, Whole(dom), NoneLoose(dom),
         Rows(dom, children), Rows(dom', children'),
         NEW p \in Alive(dom), dom' = Cleared(dom, p)
  PROVE  Contract!Clear(p)
<1>1. PICK v : v = dom'
  OBVIOUS
<1>2. PICK F : F = Family(dom, p)
  OBVIOUS
<1>3. /\ Rows(v, Contract!KidsWithout(F, children))
      /\ v.type = Contract!KindWithout(F \ {p}, dom.type)
  BY <1>1, <1>2, ClearedRows
<1>4. children' = Contract!KidsWithout(F, children)
  BY <1>1, <1>3, RowsUnique
<1>5. F = Contract!Family(p)
  BY <1>2, ContractTerms DEF Alive
<1>6. QED
  BY <1>1, <1>3, <1>4, <1>5 DEF Contract!Clear

\* Of two nodes neither of which is above the other, the one's family has nothing
\* of what the other's copy has.
LEMMA TreesApart ==
  ASSUME TreeAssumption, NEW t, Whole(t), NoneLoose(t), NEW a \in Alive(t), NEW x \in Alive(t),
         x \notin Family(t, a), a \notin Family(t, x)
  PROVE  Copied(t, a) \cap Family(t, x) = {}
<1> DEFINE C == Copied(t, a)
           F == Family(t, x)
           Depths == {k \in Nat : \E y \in C \cap F : t.depth[y] = k}
<1>1. SUFFICES ASSUME C \cap F # {} PROVE FALSE
  OBVIOUS
<1>2. t \in Tree /\ x \in Node /\ a \in Node /\ \A n \in Node : t.depth[n] \in Nat
  BY Fields DEF Whole, Alive
<1>3. /\ F \subseteq Node
      /\ \A n \in F \ {x} : t.parent[n] \in F /\ n \in Alive(t)
  BY <1>2, NoneWaits, FamilyApart
<1>4. \A y \in C \ {a} : t.parent[y] \in C
  BY CopiedClosed
<1>5. x \notin C
  <2>1. \A S \in SUBSET Node : Closed(t, a, S) => Copying(t, a, S)
    BY DEF Closed, Copying
  <2>2. QED
    BY <2>1 DEF Copied, Family
<1>6. PICK k \in Depths : \A j \in Depths : k <= j
  <2>1. Depths \subseteq Nat /\ Depths # {}
    BY <1>1, <1>2, <1>3
  <2>2. QED
    BY <2>1, LeastExists
<1>7. PICK y \in C \cap F : t.depth[y] = k
  BY <1>6
<1> DEFINE q == t.parent[y]
<1>8. y # a /\ y # x /\ y \in Node
  BY <1>3, <1>5, <1>7
<1>9. q \in C \cap F /\ q \in Node
  BY <1>3, <1>4, <1>7, <1>8
<1>10. t.depth[y] = t.depth[q] + 1
  <2>1. q # NULL
    BY <1>9 DEF TreeAssumption
  <2>2. QED
    BY <1>8, <2>1, ParentOf
<1>11. k <= t.depth[q]
  BY <1>2, <1>6, <1>9
<1>12. QED
  BY <1>2, <1>7, <1>9, <1>10, <1>11

\* A node that is emptied leaves the other's copy as it was.
LEMMA ClearedCopied ==
  ASSUME TreeAssumption, NEW t, Whole(t), NoneLoose(t), NEW a \in Alive(t), NEW x \in Alive(t),
         x \notin Family(t, a), a \notin Family(t, x), NEW u, u = Cleared(t, x)
  PROVE  /\ Copied(u, a) = Copied(t, a) /\ a \in Alive(u)
         /\ \A y \in Copied(t, a) : y \notin Family(t, x) /\ u.type[y] = t.type[y]
<1> DEFINE C == Copied(t, a)
           F == Family(t, x)
<1>1. /\ Whole(u) /\ Alive(u) = Alive(t) \ (F \ {x})
      /\ \A n \in Node \ (F \ {x}) :
           /\ u.type[n] = t.type[n] /\ u.next[n] = t.next[n]
           /\ n # x => u.firstChild[n] = t.firstChild[n]
  <2>1. \A m \in Node : t.parent[m] \in Family(t, x) => t.rank[m] > 0
    BY NoneWaits
  <2>2. QED
    BY <2>1, ClearedWhole
<1>2. C \cap F = {} /\ C \subseteq Node /\ x \in F
  <2>1. x \in Node
    BY DEF Alive
  <2>2. x \in F
    BY <2>1, NoneWaits, FamilyApart
  <2>3. QED
    BY <2>2, TreesApart DEF Copied
<1>3. \A y \in C : /\ y \notin F /\ y # x /\ u.type[y] = t.type[y] /\ u.next[y] = t.next[y]
                   /\ u.firstChild[y] = t.firstChild[y]
  BY <1>1, <1>2
<1>4. t \in Tree /\ u \in Tree /\ a \in Node
  BY <1>1 DEF Whole, Alive
<1>5. /\ C = Reach(t, Opened(t), a) /\ Copied(u, a) = Reach(u, Opened(u), a)
      /\ Opened(t) \in Pointer
  BY <1>4, CopiedIsReach DEF Downward
<1>6. \A y \in C : Opened(u)[y] = Opened(t)[y]
  BY <1>2, <1>3 DEF Opened
<1> HIDE DEF C
<1>7. Reach(u, Opened(u), a) = Reach(t, Opened(t), a)
  BY <1>3, <1>4, <1>5, <1>6, ReachSame
<1>8. QED
  BY <1>1, <1>3, <1>5, <1>7 DEF C

\* The copies that two trees have of the same
LEMMA DuplicateSame ==
  ASSUME NEW C \in SUBSET Node, NEW f \in Injection(C, Node),
         NEW type, NEW k, NEW rest, NEW kind, NEW l,
         \A y \in C : type[y] = kind[y] /\ k[y] = l[y]
  PROVE  Duplicate(type, k, f, rest) = Duplicate(kind, l, f, rest)
<1>1. PICK d : d = Duplicate(type, k, f, rest)
  OBVIOUS
<1>2. PICK e : e = Duplicate(kind, l, f, rest)
  OBVIOUS
<1>3. /\ \A n \in Node : n \notin Range(f) => d[n] = rest[n]
      /\ \A y \in C : d[f[y]] = IF type[y] = "leaf" THEN <<>>
                                ELSE [i \in DOMAIN k[y] |-> f[k[y][i]]]
      /\ d = [n \in Node |-> d[n]]
  BY <1>1, DuplicateIs
<1>4. /\ \A n \in Node : n \notin Range(f) => e[n] = rest[n]
      /\ \A y \in C : e[f[y]] = IF kind[y] = "leaf" THEN <<>>
                                ELSE [i \in DOMAIN l[y] |-> f[l[y][i]]]
      /\ e = [n \in Node |-> e[n]]
  BY <1>2, DuplicateIs
<1>5. \A n \in Range(f) : \E y \in C : n = f[y]
  BY DEF Injection, Range
<1>6. \A n \in Node : d[n] = e[n]
  <2>1. ASSUME NEW y \in C PROVE d[f[y]] = e[f[y]]
    <3>1. PICK s : s = k[y] /\ s = l[y]
      OBVIOUS
    <3>2. d[f[y]] = IF type[y] = "leaf" THEN <<>> ELSE [i \in DOMAIN s |-> f[s[i]]]
      BY <1>3, <3>1
    <3>3. e[f[y]] = IF type[y] = "leaf" THEN <<>> ELSE [i \in DOMAIN s |-> f[s[i]]]
      BY <1>4, <3>1
    <3>4. QED
      BY <3>2, <3>3
  <2>2. QED
    BY <1>3, <1>4, <1>5, <2>1
<1>7. d = e
  BY <1>3, <1>4, <1>6
<1>8. QED
  BY <1>1, <1>2, <1>7


\* The contract's copies of a, when the nodes of gone are free as well
LEMMA CopiesInto ==
  ASSUME TreeAssumption, Whole(dom), Rows(dom, children), NEW a \in Alive(dom),
         NEW C, C = Copied(dom, a), NEW x \in Node, NEW gone, NEW S, S \subseteq Free(dom) \cup gone,
         NEW f \in Injection(C, S \cup {x})
  PROVE  f \in Contract!Copies(a, (Node \ Contract!Alive) \cup gone \cup {x})
<1>1. a \in Node /\ Node \ Contract!Alive = Free(dom)
  BY ContractTerms DEF Alive, Free
<1>2. PICK T : T = (Node \ Contract!Alive) \cup gone \cup {x}
  OBVIOUS
<1>3. S \cup {x} \subseteq T
  BY <1>1, <1>2
<1>4. f \in Injection(C, T)
  BY <1>3 DEF Injection
<1>5. Contract!Copies(a, T) = Injection(C, T)
  BY <1>1, ContractTerms DEF Contract!Copies
<1>6. QED
  BY <1>2, <1>4, <1>5

\* An assignment to a node that is emptied
LEMMA BecomesCopy ==
  ASSUME TreeAssumption, Whole(dom), NoneLoose(dom),
         Rows(dom, children), Rows(dom', children'),
         NEW x \in Alive(dom), NEW a \in Alive(dom), dom.type[x] = dom.type[a],
         x \notin Family(dom, a), a \notin Family(dom, x), NEW u, u = Cleared(dom, x),
         NEW f \in Injection(Copied(u, a), Free(u) \cup {x}), f[a] = x,
         dom' = Cloned(u, a, f)
  PROVE  Contract!Become(x, a)
<1>1. PICK v : v = dom'
  OBVIOUS
<1>2. PICK C : C = Copied(dom, a)
  OBVIOUS
<1>3. PICK F : F = Family(dom, x)
  OBVIOUS
<1>4. PICK was : was = Contract!KindWithout(F, dom.type)
  OBVIOUS
<1>5. PICK k : k = Contract!KidsWithout(F, children)
  OBVIOUS
<1>6. dom \in Tree /\ x \in Node /\ a \in Node /\ C \in SUBSET Node /\ F \subseteq Node
  BY <1>2, <1>3 DEF Whole, Alive, Copied, Family
<1>7. x \in F /\ Contract!Family(x) = F
  <2>1. x \in F
    BY <1>3, <1>6, NoneWaits, FamilyApart
  <2>2. QED
    BY <1>3, <1>6, <2>1, ContractTerms
<1>8. /\ Copied(u, a) = C /\ a \in Alive(u)
      /\ \A y \in C : y \notin F /\ u.type[y] = dom.type[y]
  BY <1>2, <1>3, ClearedCopied
<1>9. Whole(u) /\ Alive(u) = Alive(dom) \ (F \ {x})
  <2>1. \A m \in Node : dom.parent[m] \in Family(dom, x) => dom.rank[m] > 0
    BY NoneWaits
  <2>2. QED
    BY <1>3, <2>1, ClearedWhole
<1>10. Rows(u, k) /\ u.type = Contract!KindWithout(F \ {x}, dom.type)
  BY <1>3, <1>5, ClearedRows
<1>11. Free(u) \subseteq Free(dom) \cup F
  BY <1>9 DEF Free, Alive
<1>12. f \in Contract!Copies(a, (Node \ Contract!Alive) \cup F \cup {x})
  <2>1. f \in Injection(C, Free(u) \cup {x})
    BY <1>8
  <2>2. QED
    BY <1>2, <1>6, <1>11, <2>1, CopiesInto
<1>13. /\ f \in [C -> Free(u) \cup {x}] /\ DOMAIN f = C
       /\ \A y, z \in C : f[y] = f[z] => y = z
       /\ f \in Injection(C, Node) /\ a \in C
  <2>1. f \in [C -> Free(u) \cup {x}] /\ \A y, z \in C : f[y] = f[z] => y = z
    BY <1>8 DEF Injection, IsInjective
  <2>2. Free(u) \cup {x} \subseteq Node
    BY <1>6 DEF Free
  <2>3. f \in Injection(C, Node)
    BY <2>1, <2>2 DEF Injection, IsInjective
  <2>4. a \in C
    BY <1>2, CopiedClosed
  <2>5. QED
    BY <2>1, <2>3, <2>4
<1>14. /\ \A y \in C \ {a} : f[y] \in Free(u)
       /\ x \in Range(f)
  BY <1>13 DEF Range
<1>15. CopyMade(u, v, a, f)
  BY <1>1, <1>8, <1>9, <1>13, ClonedCopies
<1>16. children' = Contract!Copied(f, k)
  <2>1. k[x] = <<>>
    BY <1>5, <1>6, <1>7 DEF Contract!KidsWithout
  <2>2. Rows(v, Duplicate(u.type, k, f, k))
    BY <1>8, <1>9, <1>10, <1>13, <1>14, <1>15, <2>1, CopyRows
  <2>3. \A y \in C : u.type[y] = dom.type[y] /\ k[y] = children[y]
    BY <1>5, <1>6, <1>8 DEF Contract!KidsWithout
  <2>4. Duplicate(u.type, k, f, k) = Duplicate(dom.type, children, f, k)
    BY <1>6, <1>13, <2>3, DuplicateSame
  <2>5. children' = Duplicate(dom.type, children, f, k)
    BY <1>1, <2>2, <2>4, RowsUnique
  <2>6. QED
    BY <2>5, ContractCopies
<1>17. dom.type' = Contract!CopiedKind(f, was)
  <2>1. \A n \in Node \ Range(f) : u.type[n] = was[n]
    BY <1>4, <1>10, <1>14 DEF Contract!KindWithout
  <2>2. v.type = DuplicateKind(dom.type, f, was)
    BY <1>6, <1>8, <1>13, <1>15, <2>1, CopyKinds
  <2>3. QED
    BY <1>1, <2>2, ContractCopies
<1>18. QED
  <2>1. F # {} /\ F \in {Contract!Family(x), {}}
    BY <1>7
  <2>2. x \notin Contract!Family(a) /\ a \notin Contract!Family(x)
    BY <1>6, ContractTerms
  <2>3. children' = IF F = {} THEN children ELSE Contract!Copied(f, Contract!KidsWithout(F, children))
    BY <1>5, <1>16, <2>1
  <2>4. QED
    BY <1>4, <1>12, <1>17, <2>1, <2>2, <2>3 DEF Contract!Become

\* An assignment to a leaf that keeps its children
LEMMA LeafBecomes ==
  ASSUME TreeAssumption, Whole(dom), Rows(dom, children), Rows(dom', children'),
         NEW x \in Alive(dom), NEW a \in Alive(dom), dom.type[x] = dom.type[a],
         dom.type[x] = "leaf", x \notin Family(dom, a), a \notin Family(dom, x),
         NEW f \in Injection(Copied(dom, a), Free(dom) \cup {x}), f[a] = x,
         dom' = Cloned(dom, a, f)
  PROVE  Contract!Become(x, a)
<1>1. PICK v : v = dom'
  OBVIOUS
<1>2. PICK C : C = Copied(dom, a)
  OBVIOUS
<1>3. PICK was : was = Contract!KindWithout({}, dom.type)
  OBVIOUS
<1>4. dom \in Tree /\ x \in Node /\ a \in Node /\ C \in SUBSET Node
  BY <1>2 DEF Whole, Alive, Copied
<1>5. f \in Contract!Copies(a, (Node \ Contract!Alive) \cup {} \cup {x})
  <2>1. Free(dom) \subseteq Free(dom) \cup {}
    OBVIOUS
  <2>2. QED
    BY <1>2, <1>4, <2>1, CopiesInto
<1>6. f \in Injection(C, Node)
  <2>1. Free(dom) \cup {x} \subseteq Node
    BY <1>4 DEF Free
  <2>2. QED
    BY <1>2, <2>1 DEF Injection
<1>7. CopyMade(dom, v, a, f)
  BY <1>1, <1>2, <1>6, ClonedCopies
<1>8. children' = children
  <2>1. Rows(v, children)
    BY <1>2, <1>6, <1>7, LeafCopyRows
  <2>2. QED
    BY <1>1, <2>1, RowsUnique
<1>9. dom.type' = Contract!CopiedKind(f, was)
  <2>1. \A n \in Node : was[n] = dom.type[n]
    BY <1>3 DEF Contract!KindWithout
  <2>2. v.type = DuplicateKind(dom.type, f, was)
    BY <1>4, <1>6, <1>7, <2>1, CopyKinds
  <2>3. QED
    BY <1>1, <2>2, ContractCopies
<1>10. x \notin Contract!Family(a) /\ a \notin Contract!Family(x)
  BY <1>4, ContractTerms
<1>11. QED
  BY <1>3, <1>5, <1>8, <1>9, <1>10 DEF Contract!Become

-----------------------------------------------------------------------------
(***************************************************************************)
(* The tree implements its contract                                        *)
(***************************************************************************)

\* The three ways to insert a copy
LEMMA InsertsSomewhere ==
  ASSUME TreeAssumption, Whole(dom), NoneLoose(dom),
         Rows(dom, children), Rows(dom', children'),
         NEW p \in Alive(dom), NEW a \in Alive(dom), dom.type[a] # "document",
         NEW f \in Copies(dom, a),
         \/ dom' = Linked(Cloned(dom, a, f), p, f[a])
         \/ \E b \in Node : /\ dom.parent[b] = p
                            /\ \/ dom' = InsertedBefore(Cloned(dom, a, f), p, b, f[a])
                               \/ dom' = InsertedAfter(Cloned(dom, a, f), p, b, f[a])
  PROVE  \E i \in 1..Len(children[p]) + 1 : Contract!InsertCopy(p, i, a)
<1>1. PICK c : c = Cloned(dom, a, f)
  OBVIOUS
<1>2. PICK x : x = f[a]
  OBVIOUS
<1>3. /\ Whole(c) /\ p \in Alive(c) /\ x \in Alive(c) /\ p \notin Family(c, x)
      /\ c.rank[x] = 0
      /\ \A m \in Node : c.parent[m] \in Family(c, x) => c.rank[m] > 0
      /\ \A b \in Node : dom.parent[b] = p => c.parent[b] = p /\ c.rank[b] > 0
  BY <1>1, <1>2, CopyLinks
<1>4. PICK u : u = dom'
  OBVIOUS
<1>5. \E left, right, place : /\ Gap(c, p, left, right, place)
                              /\ Spliced(c, u, p, x, left, right, place)
  <2>1. CASE u = Linked(c, p, x)
    <3>1. \E place \in Nat : /\ Gap(c, p, c.lastChild[p], NULL, place)
                             /\ Spliced(c, u, p, x, c.lastChild[p], NULL, place)
      BY <1>3, <2>1, LinkedSplices
    <3>2. QED
      BY <3>1
  <2>2. CASE u # Linked(c, p, x)
    <3>1. PICK b \in Node : /\ dom.parent[b] = p
                            /\ u = InsertedBefore(c, p, b, x) \/ u = InsertedAfter(c, p, b, x)
      BY <1>1, <1>2, <1>4, <2>2
    <3>2. c.parent[b] = p /\ c.rank[b] > 0
      BY <1>3, <3>1
    <3>3. CASE u = InsertedBefore(c, p, b, x)
      <4>1. /\ Gap(c, p, c.prev[b], b, c.rank[b])
            /\ Spliced(c, u, p, x, c.prev[b], b, c.rank[b])
        BY <1>3, <3>2, <3>3, InsertedBeforeSplices
      <4>2. QED
        BY <4>1
    <3>4. CASE u = InsertedAfter(c, p, b, x)
      <4>1. /\ Gap(c, p, b, c.next[b], c.rank[b] + 1)
            /\ Spliced(c, u, p, x, b, c.next[b], c.rank[b] + 1)
        BY <1>3, <3>2, <3>4, InsertedAfterSplices
      <4>2. QED
        BY <4>1
    <3>5. QED
      BY <3>1, <3>3, <3>4
  <2>3. QED
    BY <2>1, <2>2
<1>6. PICK left, right, place : /\ Gap(c, p, left, right, place)
                                /\ Spliced(c, u, p, x, left, right, place)
  BY <1>5
<1>7. Spliced(c, dom', p, f[a], left, right, place)
  BY <1>2, <1>4, <1>6
<1>8. place \in 1..Len(children[p]) + 1 /\ Contract!InsertCopy(p, place, a)
  BY <1>1, <1>6, <1>7, InsertsCopy
<1>9. QED
  BY <1>8

\* A step of the tree changes the sequences as the contract says, or not at all.
LEMMA NextImplements ==
  ASSUME TreeAssumption, IInv, Rows(dom, children), Rows(dom', children'), [Next]_vars
  PROVE  [Contract!Next]_Contract!vars
<1>1. /\ Whole(dom) /\ dom \in Tree /\ Waiting(dom, parsing, loose)
      /\ parsing = NULL => NoneLoose(dom)
      /\ Alive(dom) \subseteq Node /\ Contract!Alive = Alive(dom)
  BY AsHolds, NoneWaiting, ContractTerms DEF Holds, Whole, Alive
<1>2. ASSUME dom' = dom PROVE UNCHANGED Contract!vars
  <2>1. children' = children
    BY <1>2, RowsUnique
  <2>2. QED
    BY <1>2, <2>1 DEF Contract!vars
<1>3. CASE UNCHANGED vars
  BY <1>2, <1>3 DEF vars
<1>4. ASSUME NEW p \in Alive(dom), NEW a \in Alive(dom), DocumentTopOnly(p, a)
      PROVE  UNCHANGED Contract!vars
  BY <1>2, <1>4 DEF DocumentTopOnly
<1>5. ASSUME NEW n \in Node, NEW kind \in Kind, NEW v \in Value, New(n, kind, v)
      PROVE  Contract!Next
  <2>1. n \in Free(dom) /\ dom' = Made(dom, n, kind, v, NULL)
    BY <1>5 DEF New
  <2>2. Contract!New(n, kind)
    BY <1>1, <2>1, MakesNew
  <2>3. QED
    BY <2>2 DEF Contract!Next
<1>6. ASSUME NEW p \in Alive(dom), NEW x \in Alive(dom), LinkEndChild(p, x)
      PROVE  Contract!Next
  <2>1. /\ dom.parent[x] = NULL /\ p \in Alive(dom) /\ p \notin Family(dom, x)
        /\ dom' = Linked(dom, p, x) /\ NoneLoose(dom) /\ x \in Node
    BY <1>1, <1>6 DEF LinkEndChild, Tops, Idle
  <2>2. dom.rank[x] = 0
    BY <1>1, <2>1 DEF Whole, Ordered
  <2>3. \A m \in Node : dom.parent[m] \in Family(dom, x) => dom.rank[m] > 0
    BY <2>1, NoneWaits
  <2>4. Contract!Link(p, x)
    BY <1>1, <2>1, <2>2, <2>3, LinksLast
  <2>5. QED
    BY <1>1, <2>4 DEF Contract!Next
<1>7. ASSUME NEW p \in Alive(dom), NEW a \in Alive(dom),
             \E i \in 1..Len(children[p]) + 1 : Contract!InsertCopy(p, i, a)
      PROVE  Contract!Next
  BY <1>1, <1>7 DEF Contract!Next
<1>8. ASSUME NEW p \in Alive(dom), NEW a \in Alive(dom), InsertEndChild(p, a)
      PROVE  [Contract!Next]_Contract!vars
  <2>1. CASE DocumentTopOnly(p, a)
    BY <1>4, <2>1
  <2>2. CASE ~ DocumentTopOnly(p, a)
    <3>1. /\ dom.type[a] # "document" /\ NoneLoose(dom)
          /\ \E f \in Copies(dom, a) : dom' = Linked(Cloned(dom, a, f), p, f[a])
      BY <1>1, <1>8, <2>2 DEF InsertEndChild, Idle
    <3>2. QED
      BY <1>1, <1>7, <3>1, InsertsSomewhere
  <2>3. QED
    BY <2>1, <2>2
<1>9. ASSUME NEW p \in Alive(dom), NEW b \in Alive(dom), NEW a \in Alive(dom),
             InsertBeforeChild(p, b, a)
      PROVE  [Contract!Next]_Contract!vars
  <2>1. CASE DocumentTopOnly(p, a)
    BY <1>4, <2>1
  <2>2. CASE ~ DocumentTopOnly(p, a)
    <3>1. /\ dom.type[a] # "document" /\ NoneLoose(dom) /\ b \in Node /\ dom.parent[b] = p
          /\ \E f \in Copies(dom, a) : dom' = InsertedBefore(Cloned(dom, a, f), p, b, f[a])
      BY <1>1, <1>9, <2>2 DEF InsertBeforeChild, Idle, Children
    <3>2. QED
      BY <1>1, <1>7, <3>1, InsertsSomewhere
  <2>3. QED
    BY <2>1, <2>2
<1>10. ASSUME NEW p \in Alive(dom), NEW b \in Alive(dom), NEW a \in Alive(dom),
              InsertAfterChild(p, b, a)
       PROVE  [Contract!Next]_Contract!vars
  <2>1. CASE DocumentTopOnly(p, a)
    BY <1>4, <2>1
  <2>2. CASE ~ DocumentTopOnly(p, a)
    <3>1. /\ dom.type[a] # "document" /\ NoneLoose(dom) /\ b \in Node /\ dom.parent[b] = p
          /\ \E f \in Copies(dom, a) : dom' = InsertedAfter(Cloned(dom, a, f), p, b, f[a])
      BY <1>1, <1>10, <2>2 DEF InsertAfterChild, Idle, Children
    <3>2. QED
      BY <1>1, <1>7, <3>1, InsertsSomewhere
  <2>3. QED
    BY <2>1, <2>2
<1>11. ASSUME NEW p \in Alive(dom), NEW r \in Alive(dom), NEW a \in Alive(dom),
              ReplaceChild(p, r, a)
       PROVE  [Contract!Next]_Contract!vars
  <2>1. CASE DocumentTopOnly(p, a)
    BY <1>4, <2>1
  <2>2. CASE ~ DocumentTopOnly(p, a)
    <3>1. dom.type[a] # "document" /\ NoneLoose(dom) /\ r \in Node /\ dom.parent[r] = p
      BY <1>1, <1>11, <2>2 DEF ReplaceChild, Idle, Children
    <3>2. PICK f \in Copies(dom, a) :
            LET u == Replaced(Cloned(dom, a, f), p, r, f[a])
            IN  dom' = Deleted(u, Family(u, r))
      BY <1>11, <2>2 DEF ReplaceChild
    <3>3. \E i \in DOMAIN children[p] : Contract!ReplaceWithCopy(p, i, a)
      BY <1>1, <3>1, <3>2, ReplacesWithCopy
    <3>4. QED
      BY <1>1, <3>3 DEF Contract!Next
  <2>3. QED
    BY <2>1, <2>2
<1>12. ASSUME NEW p \in Alive(dom), NEW r \in Alive(dom), RemoveChild(p, r)
       PROVE  Contract!Next
  <2>1. /\ NoneLoose(dom) /\ r \in Node /\ p \in Node /\ dom.parent[r] = p
        /\ dom' = LET u == Bypassed(dom, p, r) IN Deleted(u, Family(u, r))
    BY <1>1, <1>12 DEF RemoveChild, Idle, Children
  <2>2. \E i \in DOMAIN children[p] : Contract!RemoveChild(p, i)
    BY <1>1, <2>1, RemovesChild
  <2>3. QED
    BY <1>1, <2>2 DEF Contract!Next
<1>13. ASSUME NEW p \in Alive(dom), NoneLoose(dom), dom' = Cleared(dom, p)
       PROVE  Contract!Next
  <2>1. Contract!Clear(p)
    BY <1>1, <1>13, ClearsTree
  <2>2. QED
    BY <1>1, <2>1 DEF Contract!Next
<1>14. ASSUME NEW p \in Alive(dom), Clear(p)
       PROVE  Contract!Next
  BY <1>1, <1>13, <1>14 DEF Clear, Idle
<1>15. ASSUME NEW x \in Alive(dom), Delete(x)
       PROVE  Contract!Next
  <2>1. dom.parent[x] = NULL /\ NoneLoose(dom) /\ dom' = Deleted(dom, Family(dom, x))
    BY <1>1, <1>15 DEF Delete, Idle, Tops
  <2>2. Contract!Delete(x)
    BY <1>1, <2>1, DeletesTree
  <2>3. QED
    BY <1>1, <2>2 DEF Contract!Next
<1>16. ASSUME NEW a \in Alive(dom), Clone(a)
       PROVE  Contract!Next
  <2>1. PICK f \in Copies(dom, a) : dom' = Cloned(dom, a, f)
    BY <1>16 DEF Clone
  <2>2. Contract!Copy(a)
    BY <1>1, <2>1, ClonesCopy
  <2>3. QED
    BY <1>1, <2>2 DEF Contract!Next
<1>17. ASSUME NEW x \in Alive(dom), NEW a \in Alive(dom), Assign(x, a)
       PROVE  [Contract!Next]_Contract!vars
  <2>1. NoneLoose(dom) /\ dom.type[x] = dom.type[a]
    BY <1>1, <1>17 DEF Assign, Idle
  <2>2. CASE dom' = dom
    BY <1>2, <2>2
  <2>3. CASE dom' = Cleared(dom, x)
    BY <1>13, <2>1, <2>3
  <2>4. CASE dom' # dom /\ dom' # Cleared(dom, x)
    <3>1. PICK u : /\ u = Cleared(dom, x) \/ (dom.type[x] = "leaf" /\ u = dom)
                   /\ x \notin Family(dom, a) /\ a \notin Family(dom, x)
                   /\ \E f \in Injection(Copied(u, a), Free(u) \cup {x}) :
                        f[a] = x /\ dom' = Cloned(u, a, f)
      BY <1>17, <2>4 DEF Assign
    <3>2. PICK f \in Injection(Copied(u, a), Free(u) \cup {x}) :
            f[a] = x /\ dom' = Cloned(u, a, f)
      BY <3>1
    <3>3. ASSUME u = Cleared(dom, x) PROVE Contract!Become(x, a)
      BY <1>1, <2>1, <3>1, <3>2, <3>3, BecomesCopy
    <3>4. ASSUME dom.type[x] = "leaf", u = dom PROVE Contract!Become(x, a)
      <4>1. f \in Injection(Copied(dom, a), Free(dom) \cup {x}) /\ dom' = Cloned(dom, a, f)
        BY <3>2, <3>4
      <4>2. QED
        BY <1>1, <2>1, <3>1, <3>2, <3>4, <4>1, LeafBecomes
    <3>5. Contract!Become(x, a)
      BY <3>1, <3>3, <3>4
    <3>6. QED
      BY <1>1, <3>5 DEF Contract!Next
  <2>5. QED
    BY <2>2, <2>3, <2>4
<1>18. ASSUME NEW d \in Alive(dom), Parse(d) \/ LoadFile(d)
       PROVE  [Contract!Next]_Contract!vars
  <2>1. NoneLoose(dom) /\ (dom' = dom \/ dom' = Cleared(dom, d))
    BY <1>1, <1>18 DEF Parse, LoadFile, StartParse
  <2>2. QED
    BY <1>2, <1>13, <2>1
<1>19. ASSUME NEW n \in Alive(dom), ParseError(n) \/ DocumentParsed(n)
       PROVE  UNCHANGED Contract!vars
  BY <1>2, <1>19 DEF ParseError, DocumentParsed
<1>20. ASSUME NEW n \in Alive(dom), ParseReturns(n)
       PROVE  Contract!Next
  <2>1. PICK p : p = dom.parent[n]
    OBVIOUS
  <2>2. parsing = n /\ n \in loose /\ dom' = Linked(dom, p, n)
    BY <1>20, <2>1 DEF ParseReturns
  <2>3. /\ p \in Alive(dom) /\ p \notin Family(dom, n)
        /\ \A m \in Node : dom.parent[m] \in Family(dom, n) => dom.rank[m] > 0
    BY <1>1, <2>1, <2>2, ReturnFits
  <2>4. dom.rank[n] = 0
    BY <1>1, <2>2 DEF Waiting
  <2>5. Contract!Link(p, n)
    BY <1>1, <2>2, <2>3, <2>4, LinksLast
  <2>6. QED
    BY <1>1, <2>3, <2>5 DEF Contract!Next
<1>21. ASSUME NEW p \in Alive(dom), NEW n \in Node, NEW kind \in Kind, NEW v \in Value,
              Identify(p, n, kind, v)
       PROVE  Contract!Next
  <2>1. n \in Free(dom) /\ dom' = Made(dom, n, kind, v, p) /\ p \in Node
    BY <1>1, <1>21 DEF Identify, ParentInParse
  <2>2. Contract!New(n, kind)
    BY <1>1, <2>1, MakesNew
  <2>3. QED
    BY <2>2 DEF Contract!Next
<1>22. ASSUME NEW p \in Alive(dom), NEW n \in Node, NEW v \in Value, ReadText(p, n, v)
       PROVE  Contract!Next
  <2>1. n \in Free(dom) /\ dom' = Linked(Made(dom, n, "leaf", v, NULL), p, n)
    BY <1>22 DEF ReadText
  <2>2. Contract!NewLast(p, n, "leaf") /\ "leaf" \in Kind
    BY <1>1, <2>1, MakesLast DEF Kind
  <2>3. QED
    BY <1>1, <2>2 DEF Contract!Next
<1>23. QED
  BY <1>3, <1>5, <1>6, <1>8, <1>9, <1>10, <1>11, <1>12, <1>14, <1>15, <1>16, <1>17,
     <1>18, <1>19, <1>20, <1>21, <1>22 DEF Next

LEMMA ChainStepKeeps ==
  ASSUME TreeAssumption, IInv, children = Chains, [ChainNext]_<<vars, children>>
  PROVE  IInv' /\ children' = Chains'
<1>1. [Next]_vars
  BY DEF ChainNext, vars
<1>2. IInv'
  BY <1>1, NextHolds
<1>3. CASE ChainNext
  BY <1>2, <1>3 DEF ChainNext
<1>4. CASE UNCHANGED <<vars, children>>
  <2>1. dom' = dom
    BY <1>4 DEF vars
  <2>2. Chains' = Chains
    BY <2>1 DEF Chains, Chain
  <2>3. QED
    BY <1>2, <1>4, <2>2
<1>5. QED
  BY <1>3, <1>4

\* The pointers stay well formed, so that children has the sequences they stand for.
LEMMA ChainsStay == ChainSpec => [](IInv /\ children = Chains)
<1>1. ChainInit => IInv /\ children = Chains
  BY InitHolds, TreeAssumption DEF ChainInit
<1>2. IInv /\ children = Chains /\ [ChainNext]_<<vars, children>>
      => (IInv /\ children = Chains)'
  BY ChainStepKeeps, TreeAssumption
<1>3. QED
  BY <1>1, <1>2, PTL DEF ChainSpec

\* Whatever a program calls and wherever the parser is, the five pointers of the
\* nodes behave as sequences of children would: each call changes the one place
\* it should, makes or deletes whole trees, and touches nothing else.
\* (LinkEndChild, Insert...Child, ReplaceChild, RemoveChild, Clear, Clone, CopyTo, Parse)
THEOREM TreeImplements == ChainSpec => ImplementsContract
<1>1. ChainInit => Contract!Init
  <2> SUFFICES ASSUME ChainInit PROVE Contract!Init
    OBVIOUS
  <2>1. Whole(dom)
    BY InitHolds, AsHolds, TreeAssumption DEF ChainInit, Holds
  <2>2. Rows(dom, children)
    BY <2>1, ChainsAreRows, TreeAssumption DEF ChainInit
  <2>3. dom.type = [n \in Node |-> "free"] /\ \A n \in Node : dom.rank[n] = 0
    BY DEF ChainInit, Init, Zero
  <2>4. \A n \in Node : children[n] = <<>>
    BY <2>2, <2>3, NoRow
  <2>5. children = [n \in Node |-> <<>>]
    BY <2>2, <2>4 DEF Rows
  <2>6. QED
    BY <2>3, <2>5 DEF Contract!Init
<1>2. IInv /\ children = Chains => Rows(dom, children)
  BY AsHolds, ChainsAreRows, TreeAssumption DEF Holds
<1>3. Rows(dom, children)' => Rows(dom', children')
  BY DEF Rows
<1>4. IInv /\ Rows(dom, children) /\ Rows(dom', children') /\ [ChainNext]_<<vars, children>>
      => [Contract!Next]_Contract!vars
  BY NextImplements, TreeAssumption DEF ChainNext, vars
<1>5. QED
  BY <1>1, <1>2, <1>3, <1>4, ChainsStay, PTL DEF ChainSpec, ImplementsContract, Contract!Spec

-----------------------------------------------------------------------------
\* The linked children of p, and the linked siblings on either side of n
Kids(p) == {x \in Node : dom.parent[x] = p /\ dom.rank[x] > 0}
Later(n) == {x \in Kids(dom.parent[n]) : dom.rank[n] > 0 /\ dom.rank[x] > dom.rank[n]}
Earlier(n) == {x \in Kids(dom.parent[n]) : dom.rank[x] < dom.rank[n]}

-----------------------------------------------------------------------------
(***************************************************************************)
(* The first and the last of a set of siblings                             *)
(***************************************************************************)

\* Siblings have different places, which are numbers.
LEMMA PlacesApart ==
  ASSUME TreeAssumption, IInv, NEW p
  PROVE  /\ \A x \in Kids(p) : /\ x \in Node /\ x # NULL /\ dom.rank[x] \in Nat
                               /\ dom.rank[x] > 0 /\ dom.parent[x] = p /\ p # NULL
         /\ \A x, y \in Kids(p) : dom.rank[x] = dom.rank[y] => x = y
<1>1. dom \in Tree /\ Ordered(dom)
  BY DEF IInv, TypeOK, Shape
<1>2. \A x \in Node : dom.rank[x] \in Nat /\ (dom.rank[x] > 0 => dom.parent[x] # NULL)
  BY <1>1, Fields DEF Ordered
<1>3. QED
  BY <1>1, <1>2 DEF Kids, Ordered, TreeAssumption

LEMMA ForemostIs ==
  ASSUME TreeAssumption, IInv, NEW p, NEW T, T \subseteq Kids(p)
  PROVE  /\ T = {} <=> Foremost(T) = NULL
         /\ T # {} => /\ Foremost(T) \in T
                      /\ \A y \in T : dom.rank[Foremost(T)] <= dom.rank[y]
         /\ \A x \in T : (\A y \in T : dom.rank[x] <= dom.rank[y]) => Foremost(T) = x
<1>1. /\ \A x \in T : x # NULL /\ dom.rank[x] \in Nat
      /\ \A x, y \in T : dom.rank[x] = dom.rank[y] => x = y
  BY PlacesApart
<1>2. ASSUME T # {} PROVE \E x \in T : \A y \in T : dom.rank[x] <= dom.rank[y]
  <2> DEFINE Places == {k \in Nat : \E x \in T : dom.rank[x] = k}
  <2>1. PICK k \in Places : \A j \in Places : k <= j
    BY <1>1, <1>2, LeastExists
  <2>2. QED
    BY <1>1, <2>1
<1>3. ASSUME NEW x \in T, \A y \in T : dom.rank[x] <= dom.rank[y] PROVE Foremost(T) = x
  <2>1. \A z \in T : (\A y \in T : dom.rank[z] <= dom.rank[y]) => z = x
    BY <1>1, <1>3
  <2>2. Foremost(T) = CHOOSE z \in T : \A y \in T : dom.rank[z] <= dom.rank[y]
    BY <1>3 DEF Foremost
  <2>3. QED
    BY <1>3, <2>1, <2>2
<1>4. QED
  BY <1>1, <1>2, <1>3 DEF Foremost

LEMMA HindmostIs ==
  ASSUME TreeAssumption, IInv, NEW p, NEW T, T \subseteq Kids(p)
  PROVE  /\ T = {} <=> Hindmost(T) = NULL
         /\ T # {} => /\ Hindmost(T) \in T
                      /\ \A y \in T : dom.rank[Hindmost(T)] >= dom.rank[y]
         /\ \A x \in T : (\A y \in T : dom.rank[x] >= dom.rank[y]) => Hindmost(T) = x
<1>1. /\ \A x \in T : x # NULL /\ dom.rank[x] \in Nat
      /\ \A x, y \in T : dom.rank[x] = dom.rank[y] => x = y
  BY PlacesApart
<1>2. ASSUME T # {} PROVE \E x \in T : \A y \in T : dom.rank[x] >= dom.rank[y]
  <2> DEFINE last == dom.lastChild[p]
             Places == {k \in Nat : \E x \in T : k = dom.rank[last] - dom.rank[x]}
  <2>1. last \in Node /\ dom.rank[last] \in Nat
        /\ \A x \in T : dom.rank[x] <= dom.rank[last]
    <3>1. \A x \in T : x \in Node /\ dom.rank[x] > 0 /\ dom.parent[x] = p
      BY DEF Kids
    <3>2. Whole(dom)
      BY DEF IInv, TypeOK, Shape, Whole
    <3>3. QED
      BY <1>2, <3>1, <3>2, LastIsGreatest, Fields DEF Whole
  <2>2. \A x \in T : dom.rank[last] - dom.rank[x] \in Places
    BY <1>1, <2>1
  <2>3. PICK k \in Places : \A j \in Places : k <= j
    BY <1>2, <2>2, LeastExists
  <2>4. PICK x \in T : k = dom.rank[last] - dom.rank[x]
    BY <2>3
  <2>5. \A y \in T : dom.rank[last] - dom.rank[x] <= dom.rank[last] - dom.rank[y]
    BY <2>2, <2>3, <2>4
  <2>6. \A y \in T : dom.rank[x] >= dom.rank[y]
    BY <1>1, <2>1, <2>4, <2>5
  <2>7. QED
    BY <2>4, <2>6
<1>3. ASSUME NEW x \in T, \A y \in T : dom.rank[x] >= dom.rank[y] PROVE Hindmost(T) = x
  <2>1. \A z \in T : (\A y \in T : dom.rank[z] >= dom.rank[y]) => z = x
    BY <1>1, <1>3
  <2>2. Hindmost(T) = CHOOSE z \in T : \A y \in T : dom.rank[z] >= dom.rank[y]
    BY <1>3 DEF Hindmost
  <2>3. QED
    BY <1>3, <2>1, <2>2
<1>4. QED
  BY <1>1, <1>2, <1>3 DEF Hindmost

\* The siblings in S that come after a place
Beyond(p, k, S) == {x \in Kids(p) : dom.rank[x] > k /\ x \in S}

\* The first of what comes after a place, and the rest, which comes after it
LEMMA HeadAndRest ==
  ASSUME TreeAssumption, IInv, NEW p, NEW k \in Nat, NEW S, NEW x,
         x = Foremost(Beyond(p, k, S)), Beyond(p, k, S) # {}
  PROVE  /\ x \in Beyond(p, k, S) /\ x \notin Later(x)
         /\ Beyond(p, k, S) = {x} \cup (Later(x) \cap S)
<1>1. x \in Beyond(p, k, S) /\ \A y \in Beyond(p, k, S) : dom.rank[x] <= dom.rank[y]
  <2>1. Beyond(p, k, S) \subseteq Kids(p)
    BY DEF Beyond
  <2>2. QED
    BY <2>1, ForemostIs
<1>2. /\ x \in Kids(p) /\ dom.parent[x] = p /\ dom.rank[x] \in Nat /\ dom.rank[x] > k
      /\ \A y \in Kids(p) : dom.rank[y] \in Nat /\ (dom.rank[y] = dom.rank[x] => y = x)
  BY <1>1, PlacesApart DEF Beyond
<1>3. \A y : y \in Later(x) <=> y \in Kids(p) /\ dom.rank[y] > dom.rank[x]
  BY <1>2 DEF Later
<1>4. ASSUME NEW y PROVE y \in Beyond(p, k, S) <=> y = x \/ y \in Later(x) \cap S
  <2>1. ASSUME y \in Beyond(p, k, S), y # x PROVE y \in Later(x) \cap S
    <3>1. y \in Kids(p) /\ dom.rank[x] <= dom.rank[y] /\ y \in S
      BY <1>1, <2>1 DEF Beyond
    <3>2. dom.rank[y] > dom.rank[x]
      BY <1>2, <2>1, <3>1
    <3>3. QED
      BY <1>3, <3>1, <3>2
  <2>2. ASSUME y \in Later(x) \cap S PROVE y \in Beyond(p, k, S)
    <3>1. y \in Kids(p) /\ dom.rank[y] > dom.rank[x] /\ y \in S
      BY <1>3, <2>2
    <3>2. dom.rank[y] > k
      BY <1>2, <3>1
    <3>3. QED
      BY <3>1, <3>2 DEF Beyond
  <2>3. QED
    BY <1>1, <2>1, <2>2
<1>5. x \notin Later(x)
  BY <1>2, <1>3
<1>6. QED
  BY <1>1, <1>4, <1>5

\* What comes after a node is cut from its siblings by a place.
LEMMA LaterIsTail ==
  ASSUME TreeAssumption, IInv, NEW n \in Node
  PROVE  /\ Later(n) \subseteq Kids(dom.parent[n])
         /\ \E k \in Nat : \/ Later(n) = {x \in Kids(dom.parent[n]) : dom.rank[x] > k}
                           \/ Later(n) = {}
<1>1. dom.rank[n] \in Nat
  BY Fields DEF IInv, TypeOK
<1>2. QED
  BY <1>1 DEF Later

-----------------------------------------------------------------------------
(***************************************************************************)
(* Searches                                                                *)
(***************************************************************************)

\* Each step leads to the next sibling in S.
Leads(step, S) == \A n \in Node : step[n] = Foremost(Later(n) \cap S)

\* A search of which each step leads to the next sibling in S finds the next
\* sibling in S that is wanted.
LEMMA UntilForth ==
  ASSUME TreeAssumption, IInv, NEW S, NEW W, NEW step,
         Leads(step, S)
  PROVE  \A n \in Node \cup {NULL} :
           Until(step, n, W) = IF n = NULL \/ n \in W THEN n
                               ELSE Foremost(Later(n) \cap S \cap W)
<1> DEFINE D == Node \cup {NULL}
           G == [n \in D |-> IF n = NULL \/ n \in W THEN n
                             ELSE Foremost(Later(n) \cap S \cap W)]
           go[m \in D] == IF m = NULL \/ m \in W THEN m ELSE go[step[m]]
<1>1. ASSUME NEW n \in Node
      PROVE  /\ step[n] = NULL \/ step[n] \in Later(n)
             /\ G[step[n]] = Foremost(Later(n) \cap S \cap W)
  <2> DEFINE T == Later(n) \cap S
  <2>0. step[n] = Foremost(T)
    BY DEF Leads
  <2>1. T \subseteq Kids(dom.parent[n]) /\ Later(n) \subseteq Node
    BY DEF Later, Kids
  <2>2. CASE T = {}
    <3>1. step[n] = NULL /\ T \cap W = {} /\ Foremost({}) = NULL
      BY <2>0, <2>2 DEF Foremost
    <3>2. QED
      BY <3>1
  <2>3. CASE T # {}
    <3>1. PICK k \in Nat : Later(n) = {x \in Kids(dom.parent[n]) : dom.rank[x] > k}
      BY <2>3, LaterIsTail
    <3>2. T = Beyond(dom.parent[n], k, S) /\ step[n] = Foremost(T)
      BY <2>0, <3>1 DEF Beyond
    <3>3. /\ step[n] \in T /\ T = {step[n]} \cup (Later(step[n]) \cap S)
          /\ step[n] = Foremost(T)
      <4>1. PICK x : x = step[n]
        OBVIOUS
      <4>2. x = Foremost(Beyond(dom.parent[n], k, S)) /\ Beyond(dom.parent[n], k, S) # {}
        BY <2>3, <3>2, <4>1
      <4>3. x \in Beyond(dom.parent[n], k, S)
            /\ Beyond(dom.parent[n], k, S) = {x} \cup (Later(x) \cap S)
        BY <4>2, HeadAndRest
      <4>4. QED
        BY <3>2, <4>1, <4>3
    <3>4. step[n] \in D /\ step[n] # NULL
      BY <2>1, <3>3 DEF TreeAssumption
    <3>5. CASE step[n] \in W
      <4>1. \A y \in T \cap W : dom.rank[step[n]] <= dom.rank[y]
        BY <2>1, <3>3, ForemostIs
      <4>2. Foremost(T \cap W) = step[n]
        BY <2>1, <3>3, <3>5, <4>1, ForemostIs
      <4>3. QED
        BY <3>3, <3>4, <3>5, <4>2
    <3>6. CASE step[n] \notin W
      <4>1. T \cap W = Later(step[n]) \cap S \cap W
        BY <3>3, <3>6
      <4>2. QED
        BY <3>3, <3>4, <3>6, <4>1
    <3>7. QED
      BY <3>5, <3>6
  <2>4. QED
    BY <2>2, <2>3
<1>2. \A m \in D : G[m] = IF m = NULL \/ m \in W THEN m ELSE G[step[m]]
  BY <1>1
<1>3. G = [m \in D |-> IF m = NULL \/ m \in W THEN m ELSE G[step[m]]]
  BY <1>2
<1>4. go = [m \in D |-> IF m = NULL \/ m \in W THEN m ELSE go[step[m]]]
  BY <1>3
<1> HIDE DEF go
<1>5. \A m \in D : go[m] = IF m = NULL \/ m \in W THEN m ELSE go[step[m]]
  BY <1>4
<1>6. \A n \in Node : dom.rank[n] \in Nat /\ (dom.rank[n] = 0 => Later(n) = {})
  BY Fields DEF IInv, TypeOK, Later
<1> DEFINE Ahead(n) == dom.rank[dom.lastChild[dom.parent[n]]] - dom.rank[n]
           Bad == {k \in Nat : \E n \in Node : dom.rank[n] > 0 /\ go[n] # G[n] /\ k = Ahead(n)}
<1>7. ASSUME NEW n \in Node, dom.rank[n] > 0
      PROVE  Ahead(n) \in Nat /\ \A x \in Later(n) : /\ x \in Node /\ dom.rank[x] > 0
                                                     /\ Ahead(x) \in Nat /\ Ahead(x) < Ahead(n)
  <2> DEFINE last == dom.lastChild[dom.parent[n]]
  <2>1. Whole(dom)
    BY DEF IInv, TypeOK, Shape, Whole
  <2>2. last \in Node /\ dom.rank[n] <= dom.rank[last] /\ dom.rank[last] \in Nat
    BY <1>6, <1>7, <2>1, LastIsGreatest
  <2>3. \A x \in Later(n) : /\ x \in Node /\ dom.parent[x] = dom.parent[n] /\ dom.rank[x] > 0
                            /\ dom.rank[x] > dom.rank[n]
    BY DEF Later, Kids
  <2>4. \A x \in Later(n) : dom.rank[x] <= dom.rank[last]
    BY <2>1, <2>3, LastIsGreatest
  <2>5. QED
    BY <1>6, <2>2, <2>3, <2>4
<1>8. ASSUME Bad # {} PROVE FALSE
  <2>1. PICK k \in Bad : \A j \in Bad : k <= j
    BY <1>8, LeastExists
  <2>2. PICK n \in Node : dom.rank[n] > 0 /\ go[n] # G[n] /\ k = Ahead(n)
    BY <2>1
  <2>3. n \in D /\ n # NULL /\ n \notin W /\ go[step[n]] # G[step[n]]
    BY <1>2, <1>5, <2>2 DEF TreeAssumption
  <2>4. step[n] # NULL
    BY <1>2, <1>5, <2>3
  <2>5. PICK x \in Later(n) : x = step[n]
    BY <1>1, <2>4
  <2>6. x \in Node /\ dom.rank[x] > 0 /\ go[x] # G[x] /\ Ahead(x) \in Nat /\ Ahead(x) < k
    BY <1>7, <2>2, <2>3, <2>5
  <2> HIDE DEF Ahead, G
  <2>7. PICK j \in Nat : j = Ahead(x) /\ j < k
    BY <2>6
  <2>8. j \in Bad
    BY <2>6, <2>7
  <2>9. k \in Nat /\ k <= j
    BY <2>1, <2>8
  <2>10. QED
    BY <2>7, <2>9
<1>9. ASSUME NEW n \in D PROVE go[n] = G[n]
  <2>1. CASE n = NULL \/ n \in W
    BY <1>2, <1>5, <2>1
  <2>2. CASE n \in Node /\ dom.rank[n] > 0
    BY <1>7, <1>8, <2>2
  <2>3. CASE n \in Node /\ n \notin W /\ n # NULL /\ ~ (dom.rank[n] > 0)
    <3>1. Later(n) = {}
      BY <1>6, <2>3
    <3>2. step[n] = NULL
      BY <1>1, <2>3, <3>1
    <3>3. QED
      BY <1>2, <1>5, <2>3, <3>2
  <2>4. QED
    BY <2>1, <2>2, <2>3
<1>10. \A n \in D : Until(step, n, W) = go[n]
  BY DEF Until, go
<1>11. QED
  BY <1>9, <1>10

\* The same backward, through all siblings.
LEMMA UntilBack ==
  ASSUME TreeAssumption, IInv, NEW W, NEW step,
         \A n \in Node : step[n] = Hindmost(Earlier(n))
  PROVE  \A n \in Node \cup {NULL} :
           Until(step, n, W) = IF n = NULL \/ n \in W THEN n
                               ELSE Hindmost(Earlier(n) \cap W)
<1> DEFINE D == Node \cup {NULL}
           G == [n \in D |-> IF n = NULL \/ n \in W THEN n
                             ELSE Hindmost(Earlier(n) \cap W)]
           go[m \in D] == IF m = NULL \/ m \in W THEN m ELSE go[step[m]]
<1>1. ASSUME NEW n \in Node
      PROVE  /\ step[n] = NULL \/ (step[n] \in Node /\ dom.rank[step[n]] < dom.rank[n])
             /\ G[step[n]] = Hindmost(Earlier(n) \cap W)
  <2> DEFINE T == Earlier(n)
             x == step[n]
  <2>1. T \subseteq Kids(dom.parent[n]) /\ T \subseteq Node
    BY DEF Earlier, Kids
  <2>2. CASE T = {}
    <3>1. step[n] = NULL /\ T \cap W = {} /\ Hindmost({}) = NULL
      BY <2>2 DEF Hindmost
    <3>2. QED
      BY <3>1
  <2>3. CASE T # {}
    <3>1. x \in T /\ \A y \in T : dom.rank[x] >= dom.rank[y]
      BY <2>1, <2>3, HindmostIs
    <3>2. /\ x \in D /\ x # NULL /\ x \in Node /\ dom.parent[x] = dom.parent[n]
          /\ dom.rank[x] < dom.rank[n] /\ dom.rank[n] \in Nat
      BY <2>1, <3>1, Fields DEF TreeAssumption, Earlier, Kids, IInv, TypeOK
    <3>3. \A y \in Kids(dom.parent[n]) :
            /\ dom.rank[y] \in Nat
            /\ dom.rank[y] = dom.rank[x] => y = x
      BY <2>1, <3>1, PlacesApart
    <3>4. ASSUME NEW y PROVE y \in T <=> y = x \/ y \in Earlier(x)
      <4>1. ASSUME y \in T, y # x PROVE y \in Earlier(x)
        <5>1. y \in Kids(dom.parent[n]) /\ dom.rank[y] <= dom.rank[x]
          BY <3>1, <3>3, <4>1, <2>1
        <5>2. dom.rank[y] < dom.rank[x]
          BY <2>1, <3>1, <3>3, <4>1, <5>1
        <5>3. QED
          BY <3>2, <5>1, <5>2 DEF Earlier
      <4>2. ASSUME y \in Earlier(x) PROVE y \in T
        <5>1. y \in Kids(dom.parent[n]) /\ dom.rank[y] < dom.rank[x]
          BY <3>2, <4>2 DEF Earlier
        <5>2. dom.rank[y] < dom.rank[n]
          BY <2>1, <3>1, <3>2, <3>3, <5>1
        <5>3. QED
          BY <5>1, <5>2 DEF Earlier
      <4>3. QED
        BY <3>1, <4>1, <4>2
    <3>5. CASE x \in W
      <4>1. Hindmost(T \cap W) = x
        BY <2>1, <3>1, <3>5, HindmostIs
      <4>2. QED
        BY <3>2, <3>5, <4>1
    <3>6. CASE x \notin W
      <4>1. T \cap W = Earlier(x) \cap W
        BY <3>4, <3>6
      <4>2. QED
        BY <3>2, <3>6, <4>1
    <3>7. QED
      BY <3>5, <3>6
  <2>4. QED
    BY <2>2, <2>3
<1>2. \A m \in D : G[m] = IF m = NULL \/ m \in W THEN m ELSE G[step[m]]
  BY <1>1
<1>3. G = [m \in D |-> IF m = NULL \/ m \in W THEN m ELSE G[step[m]]]
  BY <1>2
<1>4. go = [m \in D |-> IF m = NULL \/ m \in W THEN m ELSE go[step[m]]]
  BY <1>3
<1> HIDE DEF go
<1>5. \A m \in D : go[m] = IF m = NULL \/ m \in W THEN m ELSE go[step[m]]
  BY <1>4
<1>6. \A n \in Node : dom.rank[n] \in Nat
  BY Fields DEF IInv, TypeOK
<1> DEFINE Bad == {k \in Nat : \E n \in Node : go[n] # G[n] /\ k = dom.rank[n]}
<1>7. ASSUME Bad # {} PROVE FALSE
  <2>1. PICK k \in Bad : \A j \in Bad : k <= j
    BY <1>7, LeastExists
  <2>2. PICK n \in Node : go[n] # G[n] /\ k = dom.rank[n]
    BY <2>1
  <2>3. n \in D /\ n # NULL /\ n \notin W /\ go[step[n]] # G[step[n]]
    BY <1>2, <1>5, <2>2 DEF TreeAssumption
  <2>4. step[n] # NULL
    BY <1>2, <1>5, <2>3
  <2>5. step[n] \in Node /\ dom.rank[step[n]] < dom.rank[n]
    BY <1>1, <2>4
  <2>6. PICK j \in Nat : j = dom.rank[step[n]] /\ j < k
    BY <1>6, <2>2, <2>5
  <2>7. j \in Bad
    BY <2>3, <2>5, <2>6
  <2>8. k \in Nat /\ k <= j
    BY <2>1, <2>7
  <2>9. QED
    BY <2>6, <2>8
<1>8. ASSUME NEW n \in D PROVE go[n] = G[n]
  <2>1. CASE n = NULL
    BY <1>2, <1>5, <2>1
  <2>2. CASE n \in Node
    BY <1>6, <1>7, <2>2
  <2>3. QED
    BY <2>1, <2>2
<1>9. \A n \in D : Until(step, n, W) = go[n]
  BY DEF Until, go
<1>10. QED
  BY <1>8, <1>9

-----------------------------------------------------------------------------
(***************************************************************************)
(* What the pointers say of the order                                      *)
(***************************************************************************)

\* Next is the first of the later siblings, and previous the last of the
\* earlier ones.
LEMMA NextIsForemost ==
  ASSUME TreeAssumption, IInv, NEW n \in Node
  PROVE  dom.next[n] = Foremost(Later(n) \cap Node)
<1>1. Whole(dom) /\ dom.rank[n] \in Nat /\ dom.next[n] \in Node \cup {NULL}
  BY Fields DEF IInv, TypeOK, Shape, Whole
<1>2. Later(n) \cap Node = Later(n) /\ Later(n) \subseteq Kids(dom.parent[n])
  BY DEF Later, Kids
<1>3. CASE dom.next[n] # NULL
  <2> DEFINE m == dom.next[n]
  <2>1. /\ m \in Node /\ dom.parent[m] = dom.parent[n] /\ dom.rank[n] > 0
        /\ dom.rank[m] = dom.rank[n] + 1
    BY <1>1, <1>3, NextOf
  <2>2. m \in Later(n)
    BY <1>1, <2>1 DEF Later, Kids
  <2>3. \A y \in Later(n) : dom.rank[y] \in Nat /\ dom.rank[y] > dom.rank[n]
    BY <1>2, PlacesApart DEF Later
  <2>4. \A y \in Later(n) : dom.rank[m] <= dom.rank[y]
    BY <1>1, <2>1, <2>3
  <2>5. QED
    BY <1>2, <2>2, <2>4, ForemostIs
<1>4. CASE dom.next[n] = NULL
  <2>1. ASSUME NEW y \in Later(n) PROVE FALSE
    <3>1. dom.rank[n] > 0 /\ y \in Kids(dom.parent[n]) /\ dom.rank[y] > dom.rank[n]
      BY DEF Later
    <3>2. y \in Node /\ dom.parent[y] = dom.parent[n] /\ dom.rank[y] > 0
          /\ dom.rank[y] \in Nat
      BY <3>1, PlacesApart
    <3>3. dom.lastChild[dom.parent[n]] = n
      BY <1>1, <1>4, <3>1, PlaceOf
    <3>4. dom.rank[y] <= dom.rank[n]
      BY <1>1, <3>2, <3>3, LastIsGreatest
    <3>5. QED
      BY <1>1, <3>1, <3>2, <3>4
  <2>2. QED
    BY <1>2, <1>4, <2>1 DEF Foremost
<1>5. QED
  BY <1>3, <1>4

LEMMA PrevIsHindmost ==
  ASSUME TreeAssumption, IInv, NEW n \in Node
  PROVE  dom.prev[n] = Hindmost(Earlier(n))
<1>1. Whole(dom) /\ dom.rank[n] \in Nat /\ dom.prev[n] \in Node \cup {NULL}
  BY Fields DEF IInv, TypeOK, Shape, Whole
<1>2. Earlier(n) \subseteq Kids(dom.parent[n])
  BY DEF Earlier
<1>3. \A y \in Earlier(n) : /\ dom.rank[y] \in Nat /\ dom.rank[y] > 0
                            /\ dom.rank[y] < dom.rank[n]
  BY <1>2, PlacesApart DEF Earlier
<1>4. CASE dom.prev[n] # NULL
  <2> DEFINE m == dom.prev[n]
  <2>1. /\ m \in Node /\ dom.parent[m] = dom.parent[n] /\ dom.rank[m] > 0
        /\ dom.rank[n] = dom.rank[m] + 1 /\ dom.rank[m] \in Nat
    BY <1>1, <1>4, PrevOf, Fields DEF Whole
  <2>2. m \in Earlier(n)
    BY <2>1 DEF Earlier, Kids
  <2>3. \A y \in Earlier(n) : dom.rank[m] >= dom.rank[y]
    BY <1>3, <2>1
  <2>4. QED
    BY <1>2, <2>2, <2>3, HindmostIs
<1>5. CASE dom.prev[n] = NULL
  <2>1. dom.rank[n] > 0 => dom.rank[n] = 1
    BY <1>1, <1>5, PlaceOf
  <2>2. Earlier(n) = {}
    BY <1>1, <1>3, <2>1
  <2>3. QED
    BY <1>5, <2>2 DEF Hindmost
<1>6. QED
  BY <1>4, <1>5

\* The ends of the list are the first and the last of the children.
LEMMA EndsAre ==
  ASSUME TreeAssumption, IInv, NEW p \in Node
  PROVE  /\ dom.firstChild[p] = Foremost(Kids(p))
         /\ dom.lastChild[p] = Hindmost(Kids(p))
<1>1. Whole(dom)
  BY DEF IInv, TypeOK, Shape, Whole
<1>2. \A y \in Kids(p) : /\ y \in Node /\ dom.rank[y] \in Nat /\ dom.rank[y] > 0
                         /\ dom.parent[y] = p
  BY PlacesApart
<1>3. dom.firstChild[p] = NULL <=> dom.lastChild[p] = NULL
  BY <1>1 DEF Whole, EndsHeld
<1>4. CASE dom.firstChild[p] = NULL
  <2>1. Kids(p) = {}
    BY <1>1, <1>2, <1>4, HasFirst
  <2>2. QED
    BY <1>3, <1>4, <2>1 DEF Foremost, Hindmost
<1>5. CASE dom.firstChild[p] # NULL
  <2>1. dom.firstChild[p] \in Kids(p) /\ dom.rank[dom.firstChild[p]] = 1
    BY <1>1, <1>5, FirstOf DEF Kids
  <2>2. dom.lastChild[p] \in Kids(p)
    BY <1>1, <1>3, <1>5, LastOf DEF Kids
  <2>3. \A y \in Kids(p) : dom.rank[dom.lastChild[p]] >= dom.rank[y]
    BY <1>1, <1>2, <2>2, LastIsGreatest
  <2>4. \A y \in Kids(p) : dom.rank[dom.firstChild[p]] <= dom.rank[y]
    BY <1>2, <2>1
  <2>5. QED
    BY <2>1, <2>2, <2>3, <2>4, ForemostIs, HindmostIs
<1>6. QED
  BY <1>4, <1>5

-----------------------------------------------------------------------------
(***************************************************************************)
(* What each lookup finds                                                  *)
(***************************************************************************)

\* A search from the first of some siblings in S finds the first wanted one.
LEMMA UntilFromFirst ==
  ASSUME TreeAssumption, IInv, NEW S, NEW W, NEW step,
         Leads(step, S),
         NEW p, NEW k \in Nat
  PROVE  Until(step, Foremost(Beyond(p, k, S)), W) = Foremost(Beyond(p, k, S) \cap W)
<1> DEFINE T == Beyond(p, k, S)
           x == Foremost(T)
<1>1. T \subseteq Kids(p) /\ Kids(p) \subseteq Node
  BY DEF Beyond, Kids
<1>2. CASE T = {}
  <2>1. x = NULL /\ Foremost(T \cap W) = NULL
    BY <1>2 DEF Foremost
  <2>2. Until(step, NULL, W) = NULL
    BY UntilForth
  <2>3. QED
    BY <2>1, <2>2
<1>3. CASE T # {}
  <2>1. x \in T /\ T = {x} \cup (Later(x) \cap S)
    BY <1>3, HeadAndRest
  <2>2. \A y \in T : dom.rank[x] <= dom.rank[y]
    BY <1>1, <1>3, ForemostIs
  <2>3. x \in Node /\ x # NULL
    BY <1>1, <2>1 DEF TreeAssumption
  <2>4. Until(step, x, W) = IF x \in W THEN x ELSE Foremost(Later(x) \cap S \cap W)
    BY <2>3, UntilForth
  <2>5. CASE x \in W
    <3>1. Foremost(T \cap W) = x
      BY <1>1, <2>1, <2>2, <2>5, ForemostIs
    <3>2. QED
      BY <2>4, <2>5, <3>1
  <2>6. CASE x \notin W
    <3>1. T \cap W = Later(x) \cap S \cap W
      BY <2>1, <2>6
    <3>2. QED
      BY <2>4, <2>6, <3>1
  <2>7. QED
    BY <2>5, <2>6
<1>4. QED
  BY <1>2, <1>3

LEMMA UntilFromKids ==
  ASSUME TreeAssumption, IInv, NEW S, NEW W, NEW step,
         Leads(step, S), NEW p
  PROVE  Until(step, Foremost(Kids(p) \cap S), W) = Foremost(Kids(p) \cap S \cap W)
<1>1. Kids(p) \cap S = Beyond(p, 0, S)
  BY PlacesApart DEF Beyond
<1>2. Until(step, Foremost(Beyond(p, 0, S)), W) = Foremost(Beyond(p, 0, S) \cap W)
  BY UntilFromFirst
<1>3. QED
  BY <1>1, <1>2

LEMMA UntilFromLater ==
  ASSUME TreeAssumption, IInv, NEW S, NEW W, NEW step,
         Leads(step, S), NEW m \in Node
  PROVE  Until(step, Foremost(Later(m) \cap S), W) = Foremost(Later(m) \cap S \cap W)
<1>1. dom.rank[m] \in Nat
  BY Fields DEF IInv, TypeOK
<1>2. CASE dom.rank[m] > 0
  <2>1. Later(m) \cap S = Beyond(dom.parent[m], dom.rank[m], S)
    BY <1>2 DEF Later, Beyond
  <2>2. Until(step, Foremost(Beyond(dom.parent[m], dom.rank[m], S)), W)
          = Foremost(Beyond(dom.parent[m], dom.rank[m], S) \cap W)
    BY <1>1, UntilFromFirst
  <2>3. QED
    BY <2>1, <2>2
<1>3. CASE ~ (dom.rank[m] > 0)
  <2>1. Later(m) \cap S = {} /\ Later(m) \cap S \cap W = {}
    BY <1>3 DEF Later
  <2>2. Foremost({}) = NULL
    BY DEF Foremost
  <2>3. Until(step, NULL, W) = NULL
    BY UntilForth
  <2>4. QED
    BY <2>1, <2>2, <2>3
<1>4. QED
  BY <1>2, <1>3

\* The lookups forward, from a node
LEMMA NextNamed ==
  ASSUME TreeAssumption, IInv, NEW n \in Node, NEW v
  PROVE  NextSiblingNamed(n, v) = Foremost(Later(n) \cap Named(v))
<1>1. Leads(dom.next, Node)
  BY NextIsForemost DEF Leads
<1>2. Until(dom.next, Foremost(Later(n) \cap Node), Named(v))
        = Foremost(Later(n) \cap Node \cap Named(v))
  BY <1>1, UntilFromLater
<1>3. Later(n) \cap Node \cap Named(v) = Later(n) \cap Named(v)
  BY DEF Named
<1>4. QED
  BY <1>2, <1>3, NextIsForemost DEF NextSiblingNamed, NextSibling

LEMMA NextElement ==
  ASSUME TreeAssumption, IInv, NEW n \in Node
  PROVE  NextSiblingElement(n) = Foremost(Later(n) \cap Elements)
<1>1. Leads(dom.next, Node)
  BY NextIsForemost DEF Leads
<1>2. Until(dom.next, Foremost(Later(n) \cap Node), Elements)
        = Foremost(Later(n) \cap Node \cap Elements)
  BY <1>1, UntilFromLater
<1>3. Later(n) \cap Node \cap Elements = Later(n) \cap Elements
  BY DEF Elements
<1>4. QED
  BY <1>2, <1>3, NextIsForemost DEF NextSiblingElement, NextSibling

\* The search for an element goes from one node of the name to the next.
LEMMA ByNameSteps ==
  ASSUME TreeAssumption, IInv, NEW v
  PROVE  Leads(ByName(v), Named(v))
BY NextNamed DEF ByName, Leads

LEMMA NextElementNamed ==
  ASSUME TreeAssumption, IInv, NEW n \in Node, NEW v
  PROVE  NextSiblingElementNamed(n, v) = Foremost(Later(n) \cap Named(v) \cap Elements)
<1>1. Until(ByName(v), Foremost(Later(n) \cap Named(v)), Elements)
        = Foremost(Later(n) \cap Named(v) \cap Elements)
  BY ByNameSteps, UntilFromLater
<1>2. QED
  BY <1>1, NextNamed DEF NextSiblingElementNamed

\* The lookups forward, from a parent
LEMMA FirstLookups ==
  ASSUME TreeAssumption, IInv, NEW p \in Node, NEW v
  PROVE  /\ FirstChild(p) = Foremost(Kids(p))
         /\ FirstChildNamed(p, v) = Foremost(Kids(p) \cap Named(v))
         /\ FirstChildElement(p) = Foremost(Kids(p) \cap Elements)
         /\ FirstChildElementNamed(p, v) = Foremost(Kids(p) \cap Named(v) \cap Elements)
<1>1. Leads(dom.next, Node)
  BY NextIsForemost DEF Leads
<1>2. Kids(p) \cap Node = Kids(p)
  BY DEF Kids
<1>3. FirstChild(p) = Foremost(Kids(p) \cap Node)
  BY <1>2, EndsAre DEF FirstChild
<1>4. FirstChildNamed(p, v) = Foremost(Kids(p) \cap Named(v))
  <2>1. Until(dom.next, Foremost(Kids(p) \cap Node), Named(v))
          = Foremost(Kids(p) \cap Node \cap Named(v))
    BY <1>1, UntilFromKids
  <2>2. QED
    BY <1>2, <1>3, <2>1 DEF FirstChildNamed
<1>5. FirstChildElement(p) = Foremost(Kids(p) \cap Elements)
  <2>1. Until(dom.next, Foremost(Kids(p) \cap Node), Elements)
          = Foremost(Kids(p) \cap Node \cap Elements)
    BY <1>1, UntilFromKids
  <2>2. QED
    BY <1>2, <1>3, <2>1 DEF FirstChildElement
<1>6. FirstChildElementNamed(p, v) = Foremost(Kids(p) \cap Named(v) \cap Elements)
  <2>1. Until(ByName(v), Foremost(Kids(p) \cap Named(v)), Elements)
          = Foremost(Kids(p) \cap Named(v) \cap Elements)
    BY ByNameSteps, UntilFromKids
  <2>2. QED
    BY <1>4, <2>1 DEF FirstChildElementNamed
<1>7. QED
  BY <1>2, <1>3, <1>4, <1>5, <1>6

\* The lookups backward
LEMMA BackLookups ==
  ASSUME TreeAssumption, IInv, NEW n \in Node, NEW v
  PROVE  /\ LastChildNamed(n, v) = Hindmost(Kids(n) \cap Named(v))
         /\ PreviousSiblingNamed(n, v) = Hindmost(Earlier(n) \cap Named(v))
<1>1. \A m \in Node : dom.prev[m] = Hindmost(Earlier(m))
  BY PrevIsHindmost
<1>2. \A m \in Node \cup {NULL} :
        Until(dom.prev, m, Named(v)) = IF m = NULL \/ m \in Named(v) THEN m
                                       ELSE Hindmost(Earlier(m) \cap Named(v))
  BY <1>1, UntilBack
<1>3. ASSUME NEW p, NEW T, T \subseteq Kids(p),
             \A x, y \in T : dom.rank[y] < dom.rank[x] => y \in Earlier(x),
             \A x \in T : Earlier(x) \subseteq T
      PROVE  Until(dom.prev, Hindmost(T), Named(v)) = Hindmost(T \cap Named(v))
  <2> DEFINE x == Hindmost(T)
  <2>1. CASE T = {}
    <3>1. x = NULL /\ Hindmost(T \cap Named(v)) = NULL
      BY <2>1 DEF Hindmost
    <3>2. QED
      BY <1>2, <3>1
  <2>2. CASE T # {}
    <3>1. x \in T /\ \A y \in T : dom.rank[x] >= dom.rank[y]
      BY <1>3, <2>2, HindmostIs
    <3>2. x \in Node /\ x # NULL /\ \A y \in T : dom.rank[y] \in Nat
                                             /\ (dom.rank[y] = dom.rank[x] => y = x)
      BY <1>3, <3>1, PlacesApart
    <3>3. CASE x \in Named(v)
      <4>1. Hindmost(T \cap Named(v)) = x
        BY <1>3, <3>1, <3>3, HindmostIs
      <4>2. QED
        BY <1>2, <3>2, <3>3, <4>1
    <3>4. CASE x \notin Named(v)
      <4>1. \A y \in T : y = x \/ y \in Earlier(x)
        <5>1. \A y \in T : y # x => dom.rank[y] < dom.rank[x]
          BY <3>1, <3>2
        <5>2. QED
          BY <1>3, <3>1, <5>1
      <4>2. T \cap Named(v) = Earlier(x) \cap Named(v)
        BY <1>3, <3>1, <3>4, <4>1
      <4>3. QED
        BY <1>2, <3>2, <3>4, <4>2
    <3>5. QED
      BY <3>3, <3>4
  <2>3. QED
    BY <2>1, <2>2
<1>4. LastChildNamed(n, v) = Hindmost(Kids(n) \cap Named(v))
  <2>1. \A x, y \in Kids(n) : dom.rank[y] < dom.rank[x] => y \in Earlier(x)
    BY DEF Kids, Earlier
  <2>2. \A x \in Kids(n) : Earlier(x) \subseteq Kids(n)
    BY DEF Kids, Earlier
  <2>3. QED
    BY <1>3, <2>1, <2>2, EndsAre DEF LastChildNamed, LastChild
<1>5. PreviousSiblingNamed(n, v) = Hindmost(Earlier(n) \cap Named(v))
  <2>1. Earlier(n) \subseteq Kids(dom.parent[n])
    BY DEF Earlier
  <2>2. \A x, y \in Earlier(n) : dom.rank[y] < dom.rank[x] => y \in Earlier(x)
    BY DEF Kids, Earlier
  <2>3. \A x \in Earlier(n) : Earlier(x) \subseteq Earlier(n)
    <3> SUFFICES ASSUME NEW x \in Earlier(n), NEW y \in Earlier(x) PROVE y \in Earlier(n)
      OBVIOUS
    <3>1. x \in Kids(dom.parent[n]) /\ dom.rank[x] < dom.rank[n] /\ dom.rank[x] \in Nat
      BY PlacesApart DEF Earlier
    <3>2. y \in Kids(dom.parent[n]) /\ dom.rank[y] < dom.rank[x]
      BY <3>1 DEF Earlier, Kids
    <3>3. dom.rank[y] \in Nat /\ dom.rank[n] \in Nat
      BY <3>2, PlacesApart, Fields DEF IInv, TypeOK
    <3>4. dom.rank[y] < dom.rank[n]
      BY <3>1, <3>2, <3>3
    <3>5. QED
      BY <3>2, <3>4 DEF Earlier
  <2>4. QED
    BY <1>3, <2>1, <2>2, <2>3, PrevIsHindmost DEF PreviousSiblingNamed, PreviousSibling
<1>6. QED
  BY <1>4, <1>5

\* The children that count are the linked ones.
LEMMA KidsAreChildren ==
  ASSUME TreeAssumption, IInv, NEW p \in Node
  PROVE  /\ Children(p) \ loose = Kids(p)
         /\ \A n \in Kids(p) : After(n) = Later(n) /\ Before(n) = Earlier(n)
<1>1. \A x \in Node : dom.rank[x] \in Nat
  BY Fields DEF IInv, TypeOK
<1>2. loose = {x \in Node : dom.parent[x] # NULL /\ dom.rank[x] = 0}
  BY DEF IInv, HalfLinkedOnlyInParse
<1>3. ASSUME NEW q \in Node PROVE Children(q) \ loose = Kids(q)
  BY <1>1, <1>2 DEF Children, Kids, TreeAssumption
<1>4. ASSUME NEW n \in Kids(p) PROVE After(n) = Later(n) /\ Before(n) = Earlier(n)
  <2>1. n \in Node /\ dom.parent[n] = p /\ dom.rank[n] > 0 /\ n \notin loose
    BY <1>1, <1>2 DEF Kids
  <2>2. Siblings(n) = Kids(p)
    BY <1>3, <2>1 DEF Siblings
  <2>3. QED
    BY <2>1, <2>2 DEF After, Before, Later, Earlier
<1>5. QED
  BY <1>3, <1>4

LEMMA SearchesFollow ==
  ASSUME TreeAssumption, IInv
  PROVE  SearchesFollowTheOrder
<1> SUFFICES ASSUME NEW p \in Alive(dom), NEW v \in Value
    PROVE  LET kids == Children(p) \ loose
               same == kids \cap Named(v) IN
           /\ FirstChildNamed(p, v) = Foremost(same)
           /\ LastChildNamed(p, v) = Hindmost(same)
           /\ NoChildren(p) <=> kids = {}
           /\ RootElement(p) = Foremost(kids \cap Elements)
           /\ FirstChildElementNamed(p, v) = Foremost(same \cap Elements)
           /\ \A n \in kids :
                /\ NextSiblingNamed(n, v) = Foremost(After(n) \cap Named(v))
                /\ PreviousSiblingNamed(n, v) = Hindmost(Before(n) \cap Named(v))
                /\ NextSiblingElement(n) = Foremost(After(n) \cap Elements)
                /\ NextSiblingElementNamed(n, v) =
                     Foremost(After(n) \cap Named(v) \cap Elements)
  BY DEF SearchesFollowTheOrder
<1>1. p \in Node
  BY DEF Alive
<1>2. Children(p) \ loose = Kids(p) /\ \A n \in Kids(p) : After(n) = Later(n)
                                                         /\ Before(n) = Earlier(n)
  BY <1>1, KidsAreChildren
<1>3. /\ FirstChildNamed(p, v) = Foremost(Kids(p) \cap Named(v))
      /\ RootElement(p) = Foremost(Kids(p) \cap Elements)
      /\ FirstChildElementNamed(p, v) = Foremost(Kids(p) \cap Named(v) \cap Elements)
  BY <1>1, FirstLookups DEF RootElement
<1>4. LastChildNamed(p, v) = Hindmost(Kids(p) \cap Named(v))
  BY <1>1, BackLookups
<1>5. NoChildren(p) <=> Kids(p) = {}
  <2>1. dom.firstChild[p] = Foremost(Kids(p))
    BY <1>1, EndsAre
  <2>2. QED
    BY <2>1, ForemostIs DEF NoChildren
<1>6. ASSUME NEW n \in Kids(p)
      PROVE  /\ NextSiblingNamed(n, v) = Foremost(After(n) \cap Named(v))
             /\ PreviousSiblingNamed(n, v) = Hindmost(Before(n) \cap Named(v))
             /\ NextSiblingElement(n) = Foremost(After(n) \cap Elements)
             /\ NextSiblingElementNamed(n, v) = Foremost(After(n) \cap Named(v) \cap Elements)
  <2>1. n \in Node
    BY DEF Kids
  <2>2. QED
    BY <1>2, <2>1, NextNamed, NextElement, NextElementNamed, BackLookups
<1>7. QED
  BY <1>2, <1>3, <1>4, <1>5, <1>6

-----------------------------------------------------------------------------
(***************************************************************************)
(* Counted walks                                                           *)
(***************************************************************************)

\* The siblings of T that a walk has passed when it is at x, and how many
Passed(T, x) == {y \in T : dom.rank[y] < dom.rank[x]}
Index(T, x) == Cardinality(Passed(T, x))

LEMMA PassedIsFinite ==
  ASSUME TreeAssumption, IInv, NEW p, NEW T, T \subseteq Kids(p), NEW x \in T
  PROVE  IsFiniteSet(Passed(T, x)) /\ Index(T, x) \in Nat
<1> DEFINE f == [y \in Passed(T, x) |-> dom.rank[y]]
<1>1. \A y \in Passed(T, x) : dom.rank[y] \in 0..dom.rank[x]
  BY PlacesApart DEF Passed
<1>2. \A y, z \in Passed(T, x) : dom.rank[y] = dom.rank[z] => y = z
  BY PlacesApart DEF Passed
<1>3. f \in Injection(Passed(T, x), 0..dom.rank[x])
  BY <1>1, <1>2 DEF Injection, IsInjective
<1>4. IsFiniteSet(0..dom.rank[x])
  BY FS_Interval, PlacesApart
<1>5. IsFiniteSet(Passed(T, x))
  BY <1>3, <1>4, FS_Injection
<1>6. QED
  BY <1>5, FS_CardinalityType DEF Index

\* Further along, more are passed.
LEMMA IndexGrows ==
  ASSUME TreeAssumption, IInv, NEW p, NEW T, T \subseteq Kids(p), NEW x \in T, NEW y \in T
  PROVE  /\ dom.rank[x] < dom.rank[y] => Index(T, x) < Index(T, y)
         /\ Index(T, x) = Index(T, y) => x = y
<1>1. ASSUME NEW a \in T, NEW b \in T, dom.rank[a] < dom.rank[b]
      PROVE  Index(T, a) < Index(T, b)
  <2>1. \A z \in T : dom.rank[z] \in Nat
    BY PlacesApart
  <2>2. Passed(T, a) \cup {a} \subseteq Passed(T, b) /\ a \notin Passed(T, a)
    BY <1>1, <2>1 DEF Passed
  <2>3. IsFiniteSet(Passed(T, a)) /\ IsFiniteSet(Passed(T, b))
        /\ Index(T, a) \in Nat /\ Index(T, b) \in Nat
    BY PassedIsFinite
  <2>4. Cardinality(Passed(T, a) \cup {a}) = Index(T, a) + 1
    BY <2>2, <2>3, FS_AddElement DEF Index
  <2>5. Cardinality(Passed(T, a) \cup {a}) <= Index(T, b)
    BY <2>2, <2>3, FS_Subset DEF Index
  <2>6. QED
    BY <2>3, <2>4, <2>5
<1>2. Index(T, x) \in Nat /\ Index(T, y) \in Nat
  BY PassedIsFinite
<1>3. ASSUME Index(T, x) = Index(T, y) PROVE x = y
  <2>1. ~ (dom.rank[x] < dom.rank[y]) /\ ~ (dom.rank[y] < dom.rank[x])
    BY <1>1, <1>2, <1>3
  <2>2. dom.rank[x] = dom.rank[y]
    BY <2>1, PlacesApart
  <2>3. QED
    BY <2>2, PlacesApart
<1>4. QED
  BY <1>1, <1>3

\* Nth is the one that has so many before it.
LEMMA NthIs ==
  ASSUME TreeAssumption, IInv, NEW p, NEW T, T \subseteq Kids(p), NEW i \in Nat
  PROVE  /\ \A x \in T : Index(T, x) = i => Nth(T, i) = x
         /\ (\A x \in T : Index(T, x) # i) => Nth(T, i) = NULL
<1> DEFINE U == {n \in T : \E Q \in [1..i -> T] :
                   /\ \A j, k \in 1..i : j # k => Q[j] # Q[k]
                   /\ {Q[j] : j \in 1..i} = {m \in T : dom.rank[m] < dom.rank[n]}}
<1>1. Nth(T, i) = Foremost(U)
  BY DEF Nth
<1>2. ASSUME NEW x \in T, NEW Q \in [1..i -> T],
             \A j, k \in 1..i : j # k => Q[j] # Q[k],
             {Q[j] : j \in 1..i} = Passed(T, x)
      PROVE  Index(T, x) = i
  <2>1. Q \in Bijection(1..i, Passed(T, x))
    <3>1. \A j \in 1..i : Q[j] \in Passed(T, x)
      BY <1>2
    <3>2. Q \in [1..i -> Passed(T, x)]
      BY <3>1
    <3>3. \A y \in Passed(T, x) : \E j \in 1..i : Q[j] = y
      BY <1>2
    <3>4. QED
      BY <1>2, <3>2, <3>3 DEF Bijection, Injection, Surjection, IsInjective
  <2>2. QED
    BY <2>1, FS_CountingElements DEF Index, ExistsBijection
<1>3. ASSUME NEW x \in T, Index(T, x) = i
      PROVE  \E Q \in [1..i -> T] : /\ \A j, k \in 1..i : j # k => Q[j] # Q[k]
                                    /\ {Q[j] : j \in 1..i} = Passed(T, x)
  <2>1. PICK Q \in Bijection(1..i, Passed(T, x)) : TRUE
    BY <1>3, PassedIsFinite, FS_CardinalityType DEF Index, ExistsBijection
  <2>2. /\ Q \in [1..i -> Passed(T, x)]
        /\ \A j, k \in 1..i : Q[j] = Q[k] => j = k
        /\ \A y \in Passed(T, x) : \E j \in 1..i : Q[j] = y
    BY <2>1 DEF Bijection, Injection, Surjection, IsInjective
  <2>3. Q \in [1..i -> T]
    BY <2>2 DEF Passed
  <2>4. {Q[j] : j \in 1..i} = Passed(T, x)
    BY <2>2
  <2>5. QED
    BY <2>2, <2>3, <2>4
<1>4. \A x : x \in U <=> x \in T /\ Index(T, x) = i
  BY <1>2, <1>3 DEF Passed
<1> HIDE DEF U
<1>5. ASSUME NEW x \in T, Index(T, x) = i PROVE Nth(T, i) = x
  <2>1. U = {x}
    BY <1>4, <1>5, IndexGrows
  <2>2. U \subseteq Kids(p) /\ U # {}
    BY <2>1
  <2>3. Foremost(U) \in U
    BY <2>2, ForemostIs
  <2>4. QED
    BY <1>1, <2>1, <2>3
<1>6. ASSUME \A x \in T : Index(T, x) # i PROVE Nth(T, i) = NULL
  <2>1. U = {}
    BY <1>4, <1>6
  <2>2. QED
    BY <1>1, <2>1 DEF Foremost
<1>7. QED
  BY <1>5, <1>6

\* Nth 0 is the first, and after each comes the next of its later siblings.
LEMMA NthSteps ==
  ASSUME TreeAssumption, IInv, NEW p, NEW S
  PROVE  LET T == Kids(p) \cap S IN
         /\ Nth(T, 0) = Foremost(T)
         /\ \A i \in Nat : /\ Nth(T, i) \in T \cup {NULL}
                           /\ Nth(T, i + 1) = IF Nth(T, i) = NULL THEN NULL
                                              ELSE Foremost(Later(Nth(T, i)) \cap S)
<1> SUFFICES ASSUME NEW T, T = Kids(p) \cap S
             PROVE  /\ Nth(T, 0) = Foremost(T)
                    /\ \A i \in Nat :
                         /\ Nth(T, i) \in T \cup {NULL}
                         /\ Nth(T, i + 1) = IF Nth(T, i) = NULL THEN NULL
                                            ELSE Foremost(Later(Nth(T, i)) \cap S)
  OBVIOUS
<1>1. /\ T \subseteq Kids(p)
      /\ \A x \in T : /\ dom.rank[x] \in Nat /\ dom.rank[x] > 0 /\ x # NULL /\ x \in Node
                      /\ dom.parent[x] = p
      /\ \A x, y \in T : dom.rank[x] = dom.rank[y] => x = y
  BY PlacesApart
<1>2. \A x \in T : IsFiniteSet(Passed(T, x)) /\ Index(T, x) \in Nat
  BY <1>1, PassedIsFinite
<1>3. ASSUME NEW x \in T, NEW y \in T, dom.rank[x] < dom.rank[y],
             \A z \in T : dom.rank[x] < dom.rank[z] => dom.rank[y] <= dom.rank[z]
      PROVE  Index(T, y) = Index(T, x) + 1
  <2>1. Passed(T, y) = Passed(T, x) \cup {x} /\ x \notin Passed(T, x)
    <3>1. ASSUME NEW z \in T PROVE dom.rank[z] < dom.rank[y]
                                   <=> dom.rank[z] < dom.rank[x] \/ z = x
      BY <1>1, <1>3
    <3>2. QED
      BY <1>1, <3>1 DEF Passed
  <2>2. QED
    BY <1>2, <2>1, FS_AddElement DEF Index
<1>4. ASSUME NEW x \in T PROVE Later(x) \cap S = {y \in T : dom.rank[y] > dom.rank[x]}
  BY <1>1 DEF Later
<1>5. Nth(T, 0) = Foremost(T)
  <2>1. CASE T = {}
    BY <1>1, <2>1, NthIs DEF Foremost
  <2>2. CASE T # {}
    <3>1. Foremost(T) \in T /\ \A y \in T : dom.rank[Foremost(T)] <= dom.rank[y]
      BY <1>1, <2>2, ForemostIs
    <3>2. Passed(T, Foremost(T)) = {}
      BY <1>1, <3>1 DEF Passed
    <3>3. Index(T, Foremost(T)) = 0
      BY <3>2, FS_EmptySet DEF Index
    <3>4. QED
      BY <1>1, <3>1, <3>3, NthIs
  <2>3. QED
    BY <2>1, <2>2
<1>6. ASSUME NEW i \in Nat PROVE Nth(T, i) \in T \cup {NULL}
  BY <1>1, NthIs
<1>7. ASSUME NEW i \in Nat, NEW z \in T, Index(T, z) = i + 1
      PROVE  \E x \in T : /\ Index(T, x) = i /\ dom.rank[x] < dom.rank[z]
  <2>1. Passed(T, z) # {} /\ Passed(T, z) \subseteq Kids(p)
    <3>1. Passed(T, z) = {} => Index(T, z) = 0
      BY FS_EmptySet DEF Index
    <3>2. Passed(T, z) # {}
      BY <1>7, <3>1
    <3>3. QED
      BY <1>1, <3>2 DEF Passed
  <2>2. PICK x \in Passed(T, z) : \A y \in Passed(T, z) : dom.rank[x] >= dom.rank[y]
    BY <2>1, HindmostIs
  <2>3. x \in T /\ dom.rank[x] < dom.rank[z]
    BY DEF Passed
  <2>4. \A y \in T : dom.rank[x] < dom.rank[y] => dom.rank[z] <= dom.rank[y]
    BY <1>1, <2>2, <2>3 DEF Passed
  <2>5. Index(T, z) = Index(T, x) + 1
    BY <1>3, <2>3, <2>4
  <2>6. QED
    BY <1>2, <1>7, <2>3, <2>5
<1>8. ASSUME NEW i \in Nat
      PROVE  Nth(T, i + 1) = IF Nth(T, i) = NULL THEN NULL
                             ELSE Foremost(Later(Nth(T, i)) \cap S)
  <2>0. PICK k \in Nat : k = i + 1
    OBVIOUS
  <2>1. CASE \A x \in T : Index(T, x) # i
    <3>1. Nth(T, i) = NULL
      BY <1>1, <2>1, NthIs
    <3>2. \A z \in T : Index(T, z) # i + 1
      BY <1>7, <2>1
    <3>3. Nth(T, i + 1) = NULL
      BY <1>1, <2>0, <3>2, NthIs
    <3>4. QED
      BY <3>1, <3>3
  <2>2. ASSUME NEW x \in T, Index(T, x) = i
        PROVE  Nth(T, i + 1) = IF Nth(T, i) = NULL THEN NULL
                               ELSE Foremost(Later(Nth(T, i)) \cap S)
    <3> DEFINE L == {y \in T : dom.rank[y] > dom.rank[x]}
    <3>1. Nth(T, i) = x /\ x # NULL /\ Later(x) \cap S = L
      BY <1>1, <1>4, <2>2, NthIs
    <3>2. CASE L = {}
      <4>1. ASSUME NEW z \in T, Index(T, z) = i + 1 PROVE FALSE
        <5>1. PICK w \in T : Index(T, w) = i /\ dom.rank[w] < dom.rank[z]
          BY <1>7, <4>1
        <5>2. w = x
          BY <1>1, <2>2, <5>1, IndexGrows
        <5>3. QED
          BY <1>1, <3>2, <5>1, <5>2
      <4>2. Nth(T, i + 1) = NULL
        BY <1>1, <2>0, <4>1, NthIs
      <4>3. QED
        BY <3>1, <3>2, <4>2 DEF Foremost
    <3>3. CASE L # {}
      <4>1. PICK y \in L : y = Foremost(L) /\ \A z \in L : dom.rank[y] <= dom.rank[z]
        BY <1>1, <3>3, ForemostIs
      <4>2. Index(T, y) = i + 1
        BY <1>3, <2>2, <4>1
      <4>3. Nth(T, i + 1) = y
        BY <1>1, <4>2, NthIs
      <4>4. QED
        BY <3>1, <4>1, <4>3
    <3>4. QED
      BY <3>2, <3>3
  <2>3. QED
    BY <2>1, <2>2
<1>9. QED
  BY <1>5, <1>6, <1>8

\* So a walk that counts steps is at Nth.
LEMMA CountedIs ==
  ASSUME TreeAssumption, IInv, NEW p, NEW S, NEW T, T = Kids(p) \cap S,
         NEW step, \A n \in T : step[n] = Foremost(Later(n) \cap S),
         NEW count \in Nat
  PROVE  Counted(Foremost(T), step, count) = Nth(T, count)
<1> DEFINE first == Foremost(T)
           h == [i \in 0..count |-> Nth(T, i)]
           at[i \in 0..count] == IF i = 0 THEN first ELSE
                                 IF at[i - 1] = NULL THEN NULL ELSE step[at[i - 1]]
<1>0. \A i \in Nat : /\ Nth(T, i) \in T \cup {NULL}
                     /\ Nth(T, i + 1) = IF Nth(T, i) = NULL THEN NULL
                                        ELSE Foremost(Later(Nth(T, i)) \cap S)
  <2>1. LET U == Kids(p) \cap S IN
        \A i \in Nat : /\ Nth(U, i) \in U \cup {NULL}
                       /\ Nth(U, i + 1) = IF Nth(U, i) = NULL THEN NULL
                                          ELSE Foremost(Later(Nth(U, i)) \cap S)
    BY NthSteps
  <2>2. QED
    BY <2>1
<1>1. \A i \in 0..count : h[i] = IF i = 0 THEN first ELSE
                                 IF h[i - 1] = NULL THEN NULL ELSE step[h[i - 1]]
  <2> TAKE i \in 0..count
  <2>1. CASE i = 0
    BY <2>1, NthSteps
  <2>2. CASE i # 0
    <3>1. PICK j \in Nat : j = i - 1 /\ j \in 0..count /\ j + 1 = i
      BY <2>2
    <3>2. /\ Nth(T, j) \in T \cup {NULL}
          /\ Nth(T, j + 1) = IF Nth(T, j) = NULL THEN NULL
                             ELSE Foremost(Later(Nth(T, j)) \cap S)
      BY <1>0
    <3>3. h[i] = Nth(T, j + 1) /\ h[j] = Nth(T, j)
      BY <3>1
    <3>4. QED
      BY <2>2, <3>1, <3>2, <3>3
  <2>3. QED
    BY <2>1, <2>2
<1>2. h = [i \in 0..count |-> IF i = 0 THEN first ELSE
                              IF h[i - 1] = NULL THEN NULL ELSE step[h[i - 1]]]
  BY <1>1, Zenon
<1>3. at = [i \in 0..count |-> IF i = 0 THEN first ELSE
                               IF at[i - 1] = NULL THEN NULL ELSE step[at[i - 1]]]
  BY <1>2, Zenon
<1>4. Counted(first, step, count) = at[count]
  BY DEF Counted
<1> HIDE DEF at
<1>5. \A i \in 0..count : at[i] = IF i = 0 THEN first ELSE
                                  IF at[i - 1] = NULL THEN NULL ELSE step[at[i - 1]]
  BY <1>3
<1> DEFINE Bad == {i \in Nat : i <= count /\ at[i] # h[i]}
<1> HIDE DEF h
<1>6. ASSUME Bad # {} PROVE FALSE
  <2>1. PICK i \in Bad : \A j \in Bad : i <= j
    BY <1>6, LeastExists
  <2>2. i \in 0..count /\ at[i] # h[i]
    BY <2>1
  <2>3. CASE i = 0
    BY <1>1, <1>5, <2>2, <2>3
  <2>4. CASE i # 0
    <3>1. i - 1 \in 0..count /\ i - 1 < i
      BY <2>2, <2>4
    <3>2. at[i - 1] = h[i - 1]
      BY <2>1, <3>1
    <3>3. QED
      BY <1>1, <1>5, <2>2, <2>4, <3>2
  <2>5. QED
    BY <2>3, <2>4
<1>7. at[count] = h[count]
  BY <1>6
<1>8. QED
  BY <1>4, <1>7 DEF h

\* Each step from one of T leads to the next sibling in S.
LeadsOn(step, T, S) == \A n \in T : step[n] = Foremost(Later(n) \cap S)

LEMMA CountedAlong ==
  ASSUME TreeAssumption, IInv, NEW p, NEW S, NEW step, LeadsOn(step, Kids(p) \cap S, S),
         NEW count \in Nat, NEW first, first = Foremost(Kids(p) \cap S)
  PROVE  Counted(first, step, count) = Nth(Kids(p) \cap S, count)
<1> PICK T : T = Kids(p) \cap S
  OBVIOUS
<1>1. \A n \in T : step[n] = Foremost(Later(n) \cap S)
  BY DEF LeadsOn
<1>2. Counted(Foremost(T), step, count) = Nth(T, count)
  BY <1>1, CountedIs
<1>3. QED
  BY <1>2

LEMMA WalksMeet ==
  ASSUME TreeAssumption, IInv
  PROVE  WalksMeetEveryChild
<1> SUFFICES ASSUME NEW p \in Alive(dom), NEW v \in Value, NEW count \in 0..2
    PROVE  LET kids == Children(p) \ loose
               same == kids \cap Named(v)
               walk == [n \in kids |-> IterateChildren(p, n)]
               namedWalk == [n \in Node |-> IterateChildrenNamed(p, v, n)] IN
           /\ Counted(IterateChildren(p, NULL), walk, count) = Nth(kids, count)
           /\ Counted(IterateChildrenNamed(p, v, NULL), namedWalk, count)
                = Nth(same, count)
           /\ Child(p, count) = Nth(kids, count)
           /\ ChildNamed(p, v, count) = Nth(same, count)
           /\ \A type \in {"element", "leaf"} :
                Cast(Child(p, count), type) =
                  Foremost({n \in kids : n = Nth(kids, count) /\ Type(n) = type})
           /\ ChildElement(p, count) = Nth(kids \cap Elements, count)
           /\ ChildElementNamed(p, v, count) = Nth(same \cap Elements, count)
  BY DEF WalksMeetEveryChild
<1> DEFINE kids == Kids(p)
           same == kids \cap Named(v)
           walk == [n \in kids |-> IterateChildren(p, n)]
           namedWalk == [n \in Node |-> IterateChildrenNamed(p, v, n)]
<1>1. p \in Node /\ p # NULL /\ count \in Nat /\ \A n \in Node : n # NULL
  BY DEF Alive, TreeAssumption
<1>2. Children(p) \ loose = kids
  BY <1>1, KidsAreChildren
<1>3. kids \cap Node = kids /\ kids \subseteq Node
  BY DEF Kids
<1>4. /\ FirstChild(p) = Foremost(kids)
      /\ FirstChildNamed(p, v) = Foremost(kids \cap Named(v))
      /\ FirstChildElement(p) = Foremost(kids \cap Elements)
      /\ FirstChildElementNamed(p, v) = Foremost(kids \cap Named(v) \cap Elements)
  BY <1>1, FirstLookups
<1>5. Counted(IterateChildren(p, NULL), walk, count) = Nth(kids, count)
  <2>1. LeadsOn(walk, Kids(p) \cap Node, Node)
    BY <1>1, <1>3, NextIsForemost DEF LeadsOn, IterateChildren, NextSibling
  <2>2. IterateChildren(p, NULL) = Foremost(Kids(p) \cap Node)
    BY <1>3, <1>4 DEF IterateChildren
  <2> HIDE DEF walk
  <2>3. Counted(IterateChildren(p, NULL), walk, count) = Nth(Kids(p) \cap Node, count)
    BY <1>1, <2>1, <2>2, CountedAlong
  <2>4. QED
    BY <1>3, <2>3
<1>6. Counted(IterateChildrenNamed(p, v, NULL), namedWalk, count) = Nth(same, count)
  <2>1. LeadsOn(namedWalk, Kids(p) \cap Named(v), Named(v))
    BY <1>1, <1>3, NextNamed DEF LeadsOn, IterateChildrenNamed
  <2>2. IterateChildrenNamed(p, v, NULL) = Foremost(Kids(p) \cap Named(v))
    BY <1>4 DEF IterateChildrenNamed
  <2> HIDE DEF namedWalk
  <2>3. QED
    BY <1>1, <2>1, <2>2, CountedAlong
<1>7. Child(p, count) = Nth(kids, count)
  <2>1. LeadsOn(dom.next, Kids(p) \cap Node, Node)
    BY <1>3, NextIsForemost DEF LeadsOn
  <2>2. Counted(FirstChild(p), dom.next, count) = Nth(Kids(p) \cap Node, count)
    BY <1>1, <1>3, <1>4, <2>1, CountedAlong
  <2>3. QED
    BY <1>1, <1>3, <2>2 DEF Child
<1>8. ChildNamed(p, v, count) = Nth(same, count)
  <2>1. LeadsOn(ByName(v), Kids(p) \cap Named(v), Named(v))
    BY <1>3, ByNameSteps DEF LeadsOn, Leads
  <2>2. Counted(FirstChildNamed(p, v), ByName(v), count) = Nth(Kids(p) \cap Named(v), count)
    BY <1>1, <1>4, <2>1, CountedAlong
  <2>3. QED
    BY <1>1, <2>2 DEF ChildNamed
<1>9. ChildElement(p, count) = Nth(kids \cap Elements, count)
  <2>1. LeadsOn(Elementwise, Kids(p) \cap Elements, Elements)
    BY <1>3, NextElement DEF LeadsOn, Elementwise
  <2>2. Counted(FirstChildElement(p), Elementwise, count) = Nth(Kids(p) \cap Elements, count)
    BY <1>1, <1>4, <2>1, CountedAlong
  <2>3. QED
    BY <1>1, <2>2 DEF ChildElement
<1>10. ChildElementNamed(p, v, count) = Nth(same \cap Elements, count)
  <2> DEFINE S == Named(v) \cap Elements
  <2>1. Kids(p) \cap Named(v) \cap Elements = Kids(p) \cap S
    OBVIOUS
  <2>2. \A n : Later(n) \cap Named(v) \cap Elements = Later(n) \cap S
    OBVIOUS
  <2>3. LeadsOn(ElementsByName(v), Kids(p) \cap S, S)
    BY <1>3, <2>2, NextElementNamed DEF LeadsOn, ElementsByName
  <2>4. FirstChildElementNamed(p, v) = Foremost(Kids(p) \cap S)
    BY <1>4, <2>1
  <2>5. Counted(FirstChildElementNamed(p, v), ElementsByName(v), count) = Nth(Kids(p) \cap S, count)
    BY <1>1, <2>3, <2>4, CountedAlong
  <2>6. QED
    BY <1>1, <2>1, <2>5 DEF ChildElementNamed
<1>11. ASSUME NEW type \in {"element", "leaf"}
       PROVE  Cast(Child(p, count), type) =
                Foremost({n \in kids : n = Nth(kids, count) /\ Type(n) = type})
  <2> DEFINE x == Nth(kids, count)
             U == {n \in kids : n = x /\ Type(n) = type}
  <2>1. x \in kids \cup {NULL}
    <3>1. LET T == Kids(p) \cap Node IN
          /\ Nth(T, 0) = Foremost(T)
          /\ \A i \in Nat : /\ Nth(T, i) \in T \cup {NULL}
                            /\ Nth(T, i + 1) = IF Nth(T, i) = NULL THEN NULL
                                               ELSE Foremost(Later(Nth(T, i)) \cap Node)
      BY NthSteps
    <3>2. QED
      BY <1>1, <1>3, <3>1
  <2>2. CASE x # NULL /\ Type(x) = type
    <3>1. U = {x}
      BY <2>1, <2>2
    <3>2. U \subseteq Kids(p) /\ U # {}
      BY <3>1
    <3>3. Foremost(U) = x
      BY <3>1, <3>2, ForemostIs
    <3>4. QED
      BY <1>7, <2>2, <3>3 DEF Cast
  <2>3. CASE ~ (x # NULL /\ Type(x) = type)
    <3>1. U = {}
      BY <1>1, <1>3, <2>1, <2>3
    <3>2. Foremost(U) = NULL
      BY <3>1 DEF Foremost
    <3>3. QED
      BY <1>7, <2>3, <3>2 DEF Cast
  <2>4. QED
    BY <2>2, <2>3
<1>12. QED
  BY <1>2, <1>5, <1>6, <1>7, <1>8, <1>9, <1>10, <1>11

\* Whichever way a program looks for a node, in a tree of any size and after
\* any calls, it finds the one that the order of the children says.
\* (TiXmlNode::FirstChild, LastChild, NextSibling, PreviousSibling,
\* IterateChildren; TiXmlHandle)
THEOREM LookupsHold == Spec => []LookupsFollowTheOrder
<1>1. IInv => LookupsFollowTheOrder
  BY SearchesFollow, WalksMeet, TreeAssumption DEF LookupsFollowTheOrder
<1>2. QED
  BY <1>1, TreeHolds, PTL
=============================================================================
