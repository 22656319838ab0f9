---------------------------- MODULE MCXmlDocument ----------------------------
(***************************************************************************)
(* The documents of XmlSamples, and some whose texts and attributes look   *)
(* like references or break their quotes; the texts that come of one by    *)
(* leaving out or doubling one token, and some with such references.       *)
(***************************************************************************)
EXTENDS XmlDocument, XmlSamples, FiniteSetsExt

\* What looks like a reference: one that EncodeString passes through, alone or
\* before another character, a decimal one, and one that is never finished
Lookalikes ==
  {<<"&", "#x61;">>, <<"&", "#x0A;">>, <<"b", "&", "#x20;", "<">>, <<"&", "#97;">>,
   <<"&", "#x">>, <<"&", "#x", "b", "dq">>}

MCDocuments ==
  Whole
    \cup {<<NodeOf("element", <<"a">>, << <<<<"b">>, t>> >>, <<Leaf("text", t)>>)>> :
            t \in Lookalikes}
    \cup {<<NodeOf("declaration", <<>>, << <<<<"version">>, t>> >>, <<>>),
            NodeOf("element", <<"a">>, <<>>, <<>>)>> : t \in {<<"a", "dq", "b">>, <<"&">>}}

Example ==
  PrintDocument(<<NodeOf("declaration", <<>>, << <<<<"version">>, <<"a">>>> >>, <<>>),
                  NodeOf("element", <<"a">>, << <<<<"b">>, <<"c">>>> >>,
                    << Leaf("text", <<"b", "&">>), Leaf("cdata", <<"b">>),
                       Leaf("comment", <<"c">>),
                       NodeOf("element", <<"b">>, <<>>, <<>>) >>)>>)

\* A file whose element has t as its text and as its attribute's value
Both(t) ==
  <<"<", "a", " ", "b", "=", "dq">> \o t \o <<"dq", ">">> \o t \o <<"<", "/", "a", ">">>

MCFiles ==
  {<<>>, <<"bom">> \o Example, ReplaceAll(Example, "nl", "cr")}
    \cup {SubSeq(Example, 1, i - 1) \o SubSeq(Example, i + 1, Len(Example)) :
            i \in {j \in DOMAIN Example : Example[j] # " " \/ Example[j + 1] # " "}}
    \cup {SubSeq(Example, 1, i) \o SubSeq(Example, i, Len(Example)) :
            i \in {j \in DOMAIN Example : Example[j] \in {"<", "dq", "/"}}}
    \cup {Both(t) : t \in {<<"&", "amp;", "#x61;">>, <<"&", "amp;", "#97;">>,
                            <<"&", "amp;", "#x">>, <<"&", "#x20;", " ", "&", "#97;">>,
                            <<"&", "#x0A;">>, <<"&", " ", "b", " ", "&", " ", "b">>}}

-----------------------------------------------------------------------------
\* The bytes below: characters around every change of length and some more, and
\* every text of up to four bytes that Stamp tells apart.
Bytes == INSTANCE XmlLocation WITH UnsignedBits <- 24

Characters ==
  0..300 \cup UNION {c - 3..c + 3 : c \in {2048, 4096, 65536, 1048576, 1114108, 2097148}}
Beyond == {2^24, 2^24 + 65, 2^25 - 1}
Encoded2 == {c \in Characters : c % 5 = 0 /\ c < 1114112}
Marks == UNION {[1..n -> {9, 10, 13, 97, 195, 239, 187, 191, 190}] : n \in 0..3}
Marks4 == [1..4 -> {10, 97, 195, 239, 187, 191}]

ASSUME CharactersAssumption ==
  /\ \A c \in Characters : Bytes!EncodingCarries(c)
  /\ \A c \in Characters \cup Beyond, base \in {10, 16} : Bytes!ReferenceRead(c, base)
  /\ \A a, b \in Encoded2 : Bytes!CharactersApart(a, b)
ASSUME EncodingsAssumption ==
  Bytes!EncodingsKnown({<<>>, Bytes!UTF8 \o <<54>>, <<85, 84, 70, 56>>, <<117, 84, 102, 45>>,
                        <<85, 84, 70, 45, 49, 54>>, <<73, 83, 79>>})
ASSUME StampsAssumption ==
  \A s \in Marks \cup Marks4, utf8 \in BOOLEAN : Bytes!StampsAgree(s, utf8, 4)
ASSUME PlacesAssumption ==
  /\ \A s \in Marks, utf8 \in BOOLEAN, tabsize \in {0, 1, 4} :
       Bytes!PlacesInOrder(s, utf8, tabsize)
  /\ Bytes!ErrorsTold(Bytes!NewDocument, [row : 0..1, col : 0..1])
=============================================================================
