------------------------------ MODULE MCXmlParts ------------------------------
(***************************************************************************)
(* Constants for TLC.  What an element is made of, its strings and its     *)
(* attribute list, checked one or the other in a run's behaviour; they     *)
(* share no state.  A reserved buffer of 28 is too large for a text of one *)
(* character, and fits one of two.                                         *)
(***************************************************************************)
EXTENDS XmlAttributesWalks, XmlStringRep, TLC

VARIABLE part  \* which of them this behaviour is about

String == INSTANCE XmlString

MCInit ==
  /\ part \in {"attributes", "strings"}
  /\ WalkInit
  /\ String!Init

AttributesStep ==
  /\ part = "attributes"
  /\ WalkNext
  /\ UNCHANGED <<part, rep, capacity, text>>

StringsStep ==
  /\ part = "strings"
  /\ String!Next
  /\ UNCHANGED <<part, name, value, prev, next, owner, rank, attributes>>

MCSpec ==
  MCInit /\ [][AttributesStep \/ StringsStep]_<<part, vars, attributes, rep, capacity, text>>

MCLiteral == {<<>>, <<"a", "b">>}
MCSymmetry == Permutations(Attr) \cup Permutations(Buffer) \cup Permutations(Str)

-----------------------------------------------------------------------------
\* The values as numbers: ints of 8 bits, and two digits of a double.
Values == INSTANCE XmlValues WITH IntBits <- 8, Precision <- 2

Sample == ("n" :> <<"a">>) @@ ("m" :> <<"1">>)
Numbers == 0..1100 \cup {9949, 9950, 9951, 10500, 11500, 99499, 99500}
Texts == UNION {[1..k -> {" ", "-", "7", "e", "true"}] : k \in 0..3}

ASSUME IntegersAssumption == \A n \in {"m", "n", "new"} : 
  Values!IntegersReturn(Sample, n) /\ Values!OnlyTemplateChecks(Sample, n)
ASSUME DoublesAssumption ==
  /\ \A n \in Numbers \cup {- k : k \in Numbers} : Values!DoublesSettle(Sample, "n", n)
  /\ \A n \in 1..1100 : Values!IntsOfDoubles(Sample, "n", n)
ASSUME FailuresAssumption ==
  \A t \in Texts, n \in {"m", "n"} : Values!FailuresKeep("n" :> t, n, 5)

-----------------------------------------------------------------------------
\* Every text of up to three bytes out of a zero byte and two characters
StringRead == INSTANCE XmlStringRead
ByteTexts == UNION {[1..k -> {0, 65, 66}] : k \in 0..3}

ASSUME OrderAssumption == StringRead!OrderAgrees(ByteTexts)
ASSUME FindAssumption == StringRead!FindAgrees(ByteTexts, {65, 66, 67})

-----------------------------------------------------------------------------
\* The string helpers of the library itself
Helpers == INSTANCE BaseFun

ASSUME HelpersAssumption ==
  \A str \in UNION {[1..n -> {"a", "#", " "}] : n \in 0..5},
     sep \in {<<"#">>, <<"#", "#">>, <<"#", "a">>} : Helpers!NothingIsLost(str, sep)
=============================================================================
