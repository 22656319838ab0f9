------------------------------ MODULE NatLeast ------------------------------
(***************************************************************************)
(* The least element of a set of naturals.  It carries the arguments that  *)
(* an induction over a list or a tree would carry: what fails somewhere    *)
(* fails at a least place, and the place before it gives the contradiction.*)
(***************************************************************************)
EXTENDS WellFoundedInduction, TLAPS

Less == {ss \in Nat \X Nat : ss[1] < ss[2]}

\* Every nonempty set of naturals has a least element.
LEMMA LeastExists ==
  ASSUME NEW T, T \subseteq Nat, T # {}
  PROVE  \E n \in T : \A k \in T : n <= k
<1>1. IsWellFoundedOn(Less, Nat)
  BY NatLessThanWellFounded DEF OpToRel, Less
<1>2. PICK n \in T : \A k \in T : ~ (<<k, n>> \in Less)
  BY <1>1, WFMin
<1>3. ASSUME NEW k \in T
      PROVE  n <= k
  <2>1. <<k, n>> \in Nat \X Nat /\ ~ (<<k, n>> \in Less)
    BY <1>2
  <2>2. ~ (<<k, n>>[1] < <<k, n>>[2])
    BY <2>1 DEF Less
  <2>3. QED
    BY <2>2
<1>4. QED
  BY <1>3
=============================================================================
