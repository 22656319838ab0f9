------------------------------ MODULE MCXmlTree ------------------------------
(***************************************************************************)
(* Constants for TLC, and what is in the nodes, of which XmlTree has no    *)
(* more than a value.                                                      *)
(***************************************************************************)
EXTENDS XmlQuery, XmlTreeInv, XmlTreeChains, FiniteSets, Sequences, TLC

MCSymmetry == Permutations(Node) \cup Permutations(Value)

-----------------------------------------------------------------------------
\* Nodes by value, their copies and visits, and documents in streams
Samples == INSTANCE XmlSamples WITH condenseWhiteSpace <- TRUE
Classes == INSTANCE XmlNodes WITH condenseWhiteSpace <- TRUE
Keeping == INSTANCE XmlNodes WITH condenseWhiteSpace <- FALSE
Stream  == INSTANCE XmlStream WITH condenseWhiteSpace <- TRUE

ASSUME CopiesAssumption ==
  /\ Classes!CopiesAreEqual(Samples!CopiedNodes)
  /\ Classes!DocumentsAreEqual(Samples!CopiedDocuments)
  /\ Classes!TextsAreKept({<<"a">>, <<"<", "b", "/", ">">>, <<"&", "sq", " ", "com">>})
ASSUME WhiteSpaceAssumption ==
  Keeping!WhiteSpaceIsKept(UNION {[1..n -> {"a", " ", "nl", "<", "&"}] : n \in 1..4})
ASSUME VisitsAssumption ==
  \A d \in Samples!Whole : Classes!VisitsNest(Samples!NodeOf("document", <<>>, <<>>, d))

ASSUME StreamsAssumption ==
  /\ \A doc \in Samples!Streams, rest \in Samples!Rests : Stream!ReadAsWritten(doc, rest)
  /\ \A doc \in Samples!Streams :
       Stream!CutStreamReported(doc) /\ Stream!PrettyIsRead(doc)
\* A comment that is closed early is not read as it was written.
ASSUME ClosedEarlyAssumption ==
  \E doc \in Samples!Streams :
    /\ \E i \in DOMAIN doc : Stream!ClosedEarly(doc[i])
    /\ Stream!Extracted(Stream!Inserted(doc), 1).kids # doc
=============================================================================
