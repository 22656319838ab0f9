------------------------------- MODULE XmlText -------------------------------
(***************************************************************************)
(* How tinyxml reads a text into nodes and writes nodes as a text: the     *)
(* Parse functions, Print, and the visitor TiXmlPrinter.                   *)
(*                                                                         *)
(* A text is a sequence of tokens.  A token is a character, or a word that *)
(* the code compares as a whole: "xml", "version", "amp;" after an         *)
(* ampersand, "[" for "[CDATA[" and "]" for "]]".  "dq" and "sq" are the   *)
(* quotes, "nl" and "cr" the line ends, "bom" the byte order mark, "#x61;" *)
(* and "#97;" character references and "#x" one that is never finished.  A *)
(* position counts from 1; the one past the end is the terminating zero    *)
(* byte, and 0 is the null pointer.                                        *)
(*                                                                         *)
(* A node is [kind, value, attrs, kids].  A declaration's version, encoding*)
(* and standalone are its attrs; a CDATA text is of kind "cdata".          *)
(***************************************************************************)
EXTENDS Naturals, SequencesExt

CONSTANT condenseWhiteSpace   \* TiXmlBase::condenseWhiteSpace
ASSUME CondenseAssumption == condenseWhiteSpace \in BOOLEAN

Fields == <<"version", "encoding", "standalone">>
Word == {"com", "busconfig", "policy", "user", "context", "allow", "own",
         "send_interface", "send_destination"}
Letter == {"a", "b", "c", "xml"} \cup Word \cup Range(Fields)
NameChar == Letter \cup {"-"}
White == {" ", "nl"}

IsWhiteSpaceCondensed == condenseWhiteSpace

\* What GetEntity makes of what follows an ampersand, and what EncodeString writes
Hexadecimal == {"#x0A;", "#x20;", "#x61;"}
Reference == {"amp;", "lt;", "gt;", "quot;", "apos;", "#97;"} \cup Hexadecimal
Meaning(t) ==
  CASE t = "amp;"  -> "&"  [] t = "lt;"   -> "<"  [] t = "gt;"    -> ">"
    [] t = "quot;" -> "dq" [] t = "apos;" -> "sq" [] t = "#x0A;" -> "nl"
    [] t = "#x20;" -> " "  [] t \in {"#x61;", "#97;"} -> "a"
Encodable == {"&", "<", ">", "dq", "sq", "nl"}
Entity(c) == CHOOSE t \in Reference : Meaning(t) = c

NodeOf(kind, value, attrs, kids) ==
  [kind |-> kind, value |-> value, attrs |-> attrs, kids |-> kids]

\* p && *p
More(s, p) == p \in 1..Len(s)
At(s, p) == IF More(s, p) THEN s[p] ELSE "end"

StringEqual(s, p, tag) ==
  p + Len(tag) - 1 <= Len(s) /\ SubSeq(s, p, p + Len(tag) - 1) = tag

\* The first place from p on that holds a token of no use to the loop, or the end
Past(s, p, S) ==
  CHOOSE q \in p..Len(s) + 1 : At(s, q) \notin S /\ \A r \in p..q - 1 : s[r] \in S

\* The first place from p on that begins with tag, or the end
Find(s, p, tag) ==
  CHOOSE q \in p..Len(s) + 1 :
    /\ q > Len(s) \/ StringEqual(s, q, tag)
    /\ \A r \in p..q - 1 : ~ StringEqual(s, r, tag)

\* A slip: SetError returns when there is no error yet.
First_Inverted(error, new) == IF error = "none" THEN error ELSE new

\* SetError keeps the first error.
First(error, new) == IF error = "none" THEN new ELSE error

-----------------------------------------------------------------------------
\* Reading characters

SkipWhiteSpace(s, p) == IF More(s, p) THEN Past(s, p, White) ELSE 0

\* <<name, position>>
ReadName(s, p) ==
  LET q == Past(s, p, NameChar)
  IN  IF At(s, p) \in Letter THEN <<SubSeq(s, p, q - 1), q>> ELSE <<<<>>, 0>>

\* <<characters, position>>.  An ampersand that begins no entity is dropped, and
\* an unfinished reference ends the reading.
GetChar(s, p) ==
  CASE s[p] # "&"                 -> <<<<s[p]>>, p + 1>>
    [] At(s, p + 1) \in Reference -> <<<<Meaning(s[p + 1])>>, p + 2>>
    [] At(s, p + 1) = "#x"        -> <<<<>>, 0>>
    [] OTHER                      -> <<<<>>, p + 1>>

RECURSIVE Kept(_, _, _, _)
Kept(s, p, endTag, text) ==
  LET c == GetChar(s, p) IN
  IF ~ More(s, p) \/ StringEqual(s, p, endTag) THEN <<text, p>>
  ELSE Kept(s, c[2], endTag, text \o c[1])

\* White space becomes one blank before the next character.
RECURSIVE Condensed(_, _, _, _)
Condensed(s, p, endTag, text) ==
  LET q == IF More(s, p) THEN Past(s, p, White) ELSE p
      c == GetChar(s, q)
  IN  IF ~ More(s, q) \/ StringEqual(s, q, endTag) THEN <<text, q>>
      ELSE Condensed(s, c[2], endTag,
                     text \o (IF q > p THEN <<" ">> ELSE <<>>) \o c[1])

\* A text that was read up to an end tag, and the place past that, or null when
\* nothing comes after it
PastEnd(s, read, endTag) ==
  <<read[1], IF More(s, read[2]) /\ More(s, read[2] + Len(endTag))
             THEN read[2] + Len(endTag) ELSE 0>>

\* A slip: white space is never condensed.
ReadText_NotTrimmed(s, p, trimWhiteSpace, endTag) ==
  PastEnd(s, Kept(s, p, endTag, <<>>), endTag)

ReadText(s, p, trimWhiteSpace, endTag) ==
  PastEnd(s, IF trimWhiteSpace /\ IsWhiteSpaceCondensed
             THEN Condensed(s, SkipWhiteSpace(s, p), endTag, <<>>)
             ELSE Kept(s, p, endTag, <<>>), endTag)

Blank(text) == Range(text) \subseteq White

-----------------------------------------------------------------------------
\* Reading nodes.  A Parse function leaves where it stopped, the document's error
\* and the node, which is complete only if there is no error.
Done(p, error, node) == [p |-> p, error |-> error, node |-> node]

\* The kind of node that begins at p
Identify(s, p) ==
  CASE At(s, p) # "<"                              -> "none"
    [] StringEqual(s, p, <<"<", "?", "xml">>)      -> "declaration"
    [] StringEqual(s, p, <<"<", "!", "-", "-">>)   -> "comment"
    [] StringEqual(s, p, <<"<", "!", "[">>)        -> "cdata"
    [] At(s, p + 1) \in Letter                     -> "element"
    [] OTHER                                       -> "unknown"

\* Where the value of an attribute begins, or 0 when there is none
ValueAt(s, p) ==
  LET equals == SkipWhiteSpace(s, p)
  IN  IF At(s, equals) = "=" THEN SkipWhiteSpace(s, equals + 1) ELSE 0

\* The value of an attribute, in quotes or without them: then a quote must not end it.
AttributeValue(s, name, quote) ==
  LET Result(read, error) ==
        [name |-> name, value |-> read[1], p |-> read[2], error |-> error]
      stop == Past(s, quote, Range(s) \ (White \cup {"/", ">", "dq", "sq"}))
      value == SubSeq(s, quote, stop - 1)
  IN  CASE ~ More(s, quote) -> Result(<<<<>>, 0>>, "READING_ATTRIBUTES")
        [] At(s, quote) \in {"dq", "sq"} ->
             Result(ReadText(s, quote + 1, FALSE, <<s[quote]>>), "none")
        [] OTHER -> IF At(s, stop) \in {"dq", "sq"}
                    THEN Result(<<value, 0>>, "READING_ATTRIBUTES")
                    ELSE Result(<<value, stop>>, "none")

\* TiXmlAttribute::Parse: name, value, where it stopped, and its error
Attribute(s, start) ==
  LET p == SkipWhiteSpace(s, start)
      name == ReadName(s, p)
  IN  IF More(s, p) THEN AttributeValue(s, name[1], ValueAt(s, name[2]))
      ELSE [name |-> <<>>, value |-> <<>>, p |-> 0, error |-> "none"]

\* TiXmlComment::Parse; one without an end takes the rest, and is no error.
Comment(s, p, error) ==
  LET end == Find(s, p + 4, <<"-", "-", ">">>)
  IN  Done(IF More(s, end) THEN end + 3 ELSE end, error,
           NodeOf("comment", SubSeq(s, p + 4, end - 1), <<>>, <<>>))

\* TiXmlUnknown::Parse, alike
Unknown(s, p, error) ==
  LET end == Find(s, p + 1, <<">">>)
  IN  Done(IF More(s, end) THEN end + 1 ELSE end, error,
           NodeOf("unknown", SubSeq(s, p + 1, end - 1), <<>>, <<>>))

\* TiXmlText::Parse of a CDATA section
CData(s, p, error) ==
  LET end == Find(s, p + 3, <<"]", ">">>)
  IN  Done(ReadText(s, end, FALSE, <<"]", ">">>)[2], error,
           NodeOf("cdata", SubSeq(s, p + 3, end - 1), <<>>, <<>>))

\* TiXmlDeclaration::Parse, from p on; got is what each field has so far.  It
\* reports no error.  At the end of the text StringEqual is given an empty text,
\* which its assertion forbids.
RECURSIVE Declaration(_, _, _, _)
\* A field has been read, or passed over when it is none that a declaration has.
AfterField(s, error, got, field) ==
  Declaration(s, field.p, error,
              [f \in DOMAIN got |-> IF <<f>> = field.name THEN field.value ELSE got[f]])

Declaration(s, p, error, got) ==
  LET known == SelectSeq(Fields, LAMBDA f : got[f] # <<>>)
      q == SkipWhiteSpace(s, p)
      other == Past(s, q, Range(s) \ (White \cup {">"}))
      End(r, e) == Done(r, e, NodeOf("declaration", <<>>,
                     [i \in DOMAIN known |-> <<<<known[i]>>, got[known[i]]>>], <<>>))
  IN  CASE ~ More(s, p)      -> End(0, error)
        [] At(s, p) = ">"    -> End(p + 1, error)
        [] OTHER ->
             IF ~ More(s, q) THEN End(0, "assertion")
             ELSE AfterField(s, error, got,
                    IF s[q] \in Range(Fields) THEN [Attribute(s, q) EXCEPT !.name = <<s[q]>>]
                    ELSE [name |-> <<>>, value |-> <<>>, p |-> other])

RECURSIVE Element(_, _, _)
RECURSIVE Attributes(_, _, _, _)
RECURSIVE ReadValue(_, _, _, _)

Parse(s, p, error) ==
  CASE Identify(s, p) = "declaration" ->
         Declaration(s, p + 3, error, [f \in Range(Fields) |-> <<>>])
    [] Identify(s, p) = "comment"     -> Comment(s, p, error)
    [] Identify(s, p) = "cdata"       -> CData(s, p, error)
    [] Identify(s, p) = "unknown"     -> Unknown(s, p, error)
    [] Identify(s, p) = "element"     -> Element(s, p, error)

\* TiXmlElement::Parse: the name
Element(s, p, error) ==
  LET name == ReadName(s, p + 1)
      node == NodeOf("element", name[1], <<>>, <<>>)
  IN  IF More(s, name[2]) THEN Attributes(s, name[2], error, node)
      ELSE Done(0, First(error, "FAILED_TO_READ_ELEMENT_NAME"), node)

\* TiXmlElement::Parse: an attribute joins the others if it has a name of its own.
AddAttribute(s, error, node, attribute) ==
  LET Fail(e) == Done(0, First(error, e), node) IN
  IF ~ More(s, attribute.p) THEN Fail(First(attribute.error, "PARSING_ELEMENT"))
  ELSE IF \E i \in DOMAIN node.attrs : node.attrs[i][1] = attribute.name
       THEN Fail("PARSING_ELEMENT")
  ELSE Attributes(s, attribute.p, error,
         [node EXCEPT !.attrs = Append(@, <<attribute.name, attribute.value>>)])

\* TiXmlElement::Parse: after the value there must be the end tag.
Ended(s, node, read) ==
  LET endTag == <<"<", "/">> \o node.value
      close == SkipWhiteSpace(s, read.p + Len(endTag))
      whole == [node EXCEPT !.kids = read.node]
  IN  IF More(s, read.p) /\ StringEqual(s, read.p, endTag) /\ At(s, close) = ">"
      THEN Done(close + 1, read.error, whole)
      ELSE Done(0, First(read.error, "READING_END_TAG"), whole)

\* TiXmlElement::Parse: the attributes, the value and the end tag
Attributes(s, start, error, node) ==
  LET p == SkipWhiteSpace(s, start)
      Fail(e) == Done(0, First(error, e), node)
  IN  CASE At(s, p) = "end" -> Fail("READING_ATTRIBUTES")
        [] At(s, p) = "/" -> IF At(s, p + 1) = ">" THEN Done(p + 2, error, node)
                                                   ELSE Fail("PARSING_EMPTY")
        [] At(s, p) = ">" -> Ended(s, node, ReadValue(s, p + 1, error, <<>>))
        [] OTHER -> AddAttribute(s, error, node, Attribute(s, p))

\* TiXmlText::Parse of a text that ends before a tag
TextBefore(read, error) ==
  Done(IF read[2] = 0 THEN 0 ELSE read[2] - 1, error,
       NodeOf("text", read[1], <<>>, <<>>))

\* What was read becomes a child, but for a text of nothing but white space.
AddChild(s, kids, child) ==
  ReadValue(s, child.p, child.error,
            IF child.node.kind = "text" /\ Blank(child.node.value) THEN kids
            ELSE Append(kids, child.node))

\* TiXmlElement::ReadValue: texts and nodes, until an end tag.  Its nodes are in
\* .node; an assertion that failed ends the reading.
ReadValue(s, start, error, kids) ==
  LET p == SkipWhiteSpace(s, start)
      from == IF IsWhiteSpaceCondensed THEN p ELSE start
  IN  IF error = "assertion" THEN Done(0, error, kids)
      ELSE IF p = 0 THEN Done(0, First(error, "READING_ELEMENT_VALUE"), kids)
      ELSE IF ~ More(s, p) \/ StringEqual(s, p, <<"<", "/">>) THEN Done(p, error, kids)
      ELSE AddChild(s, kids, IF s[p] = "<" THEN Parse(s, p, error)
                             ELSE TextBefore(ReadText(s, from, TRUE, <<"<">>), error))

\* TiXmlDocument::Parse, from p on
RECURSIVE Nodes(_, _, _, _)
AddNode(s, kids, child) == Nodes(s, child.p, child.error, Append(kids, child.node))

Nodes(s, p, error, kids) ==
  LET q == SkipWhiteSpace(s, p)
  IN  IF ~ More(s, q) \/ Identify(s, q) = "none" \/ error = "assertion"
      THEN [kids |-> kids, bom |-> FALSE,
            error |-> IF kids = <<>> THEN First(error, "DOCUMENT_EMPTY") ELSE error]
      ELSE AddNode(s, kids, Parse(s, q, error))

\* The mark is skipped in UTF-8, and noticed while the encoding is not known.
ParseDocument(s, encoding) ==
  LET marked == At(s, 1) = "bom" /\ encoding # "legacy"
  IN  [Nodes(s, IF marked THEN 2 ELSE 1, "none", <<>>) EXCEPT
         !.bom = marked /\ encoding = "unknown"]

\* TiXmlDocument::LoadFile turns every line end into a newline.
RECURSIVE Normalized(_)
Normalized(s) ==
  CASE s = <<>> -> <<>>
    [] s # <<>> /\ s[1] = "cr" ->
         <<"nl">> \o Normalized(SubSeq(s, IF At(s, 2) = "nl" THEN 3 ELSE 2, Len(s)))
    [] OTHER -> <<s[1]>> \o Normalized(Tail(s))

-----------------------------------------------------------------------------
\* Writing

\* EncodeString, from i on: what begins like a hexadecimal reference passes through,
\* up to the end of the next word that has a semicolon, or to the last character.
RECURSIVE Encoded(_, _)
Encoded(s, i) ==
  LET stops == {q \in i + 1..Len(s) : s[q] \in Reference \/ q >= Len(s) - 1}
      passes == s[i] = "&" /\ At(s, i + 1) \in {"#x"} \cup Hexadecimal
      Through(q) == (IF q = i /\ s[i] \in Encodable
                     THEN <<"&", Entity(s[i])>> ELSE SubSeq(s, i, q)) \o Encoded(s, q + 1)
  IN  IF ~ More(s, i) THEN <<>>
      ELSE Through(IF passes THEN CHOOSE q \in stops : \A r \in stops : q <= r ELSE i)
EncodeString(s) == Encoded(s, 1)

Quoted(name, value, quote) == name \o <<"=", quote>> \o value \o <<quote>>

\* A slip: the value is printed as it is.
PrintAttribute_Raw(a) ==
  Quoted(EncodeString(a[1]), a[2], IF "dq" \in Range(a[2]) THEN "sq" ELSE "dq")

\* TiXmlAttribute::Print
PrintAttribute(a) ==
  Quoted(EncodeString(a[1]), EncodeString(a[2]),
         IF "dq" \in Range(a[2]) THEN "sq" ELSE "dq")

\* What begins an element, up to its attributes
PrintTag(node) ==
  <<"<">> \o node.value
    \o FlattenSeq([i \in DOMAIN node.attrs |->
                    <<" ">> \o PrintAttribute(node.attrs[i])])
EndTag(node) == <<"<", "/">> \o node.value \o <<">">>

\* TiXmlDeclaration::Print encodes nothing.
PrintDeclaration(node) ==
  <<"<", "?", "xml", " ">>
    \o FlattenSeq([i \in DOMAIN node.attrs |->
                    Quoted(node.attrs[i][1], node.attrs[i][2], "dq") \o <<" ">>])
    \o <<"?", ">">>

\* The nodes that print the same everywhere
PrintComment(node) == <<"<", "!", "-", "-">> \o node.value \o <<"-", "-", ">">>
PrintText(node) ==
  IF node.kind = "cdata" THEN <<"<", "!", "[">> \o node.value \o <<"]", ">">>
  ELSE EncodeString(node.value)
PrintUnknown(node) == <<"<">> \o node.value \o <<">">>

PrintLeaf(node) ==
  CASE node.kind \in {"text", "cdata"} -> PrintText(node)
    [] node.kind = "comment"           -> PrintComment(node)
    [] node.kind = "unknown"           -> PrintUnknown(node)
    [] node.kind = "declaration"       -> PrintDeclaration(node)

Repeated(token, n) == [i \in 1..n |-> token]
IsText(node) == node.kind \in {"text", "cdata"}

\* Print, of a file; depth counts indents, one blank each.
RECURSIVE PrintNode(_, _)
PrintNode(node, depth) ==
  LET indent == Repeated(" ", depth)
      Line(k) == (IF IsText(k) THEN <<>> ELSE <<"nl">>) \o PrintNode(k, depth + 1)
      value == IF Len(node.kids) = 1 /\ IsText(node.kids[1])
               THEN PrintNode(node.kids[1], depth + 1)
               ELSE FlattenSeq([i \in DOMAIN node.kids |-> Line(node.kids[i])])
                      \o <<"nl">> \o indent
      Framed(leaf) ==
        CASE node.kind \in {"text", "declaration"} -> leaf
          [] node.kind = "cdata" -> <<"nl">> \o indent \o leaf \o <<"nl">>
          [] node.kind \in {"comment", "unknown"} -> indent \o leaf
  IN  IF node.kind = "element"
      THEN indent \o PrintTag(node) \o
           (IF node.kids = <<>> THEN <<" ", "/", ">">>
                                ELSE <<">">> \o value \o EndTag(node))
      ELSE Framed(PrintLeaf(node))

PrintDocument(kids) ==
  FlattenSeq([i \in DOMAIN kids |-> PrintNode(kids[i], 0) \o <<"nl">>])

\* TiXmlPrinter, with its indent and lineBreak; simple is simpleTextPrint.
RECURSIVE Visited(_, _, _, _, _)
Visited(node, depth, simple, indent, lineBreak) ==
  LET Indented(t) == FlattenSeq(Repeated(indent, depth)) \o t
      simpleTextPrint == Len(node.kids) = 1 /\ node.kids[1].kind = "text"
      kids == FlattenSeq([i \in DOMAIN node.kids |->
                Visited(node.kids[i], depth + 1, simpleTextPrint, indent, lineBreak)])
  IN  CASE node.kind = "text" /\ simple -> PrintLeaf(node)
        [] node.kind # "element" /\ ~ simple -> Indented(PrintLeaf(node)) \o lineBreak
        [] node.kind = "element" /\ node.kids = <<>> ->
             Indented(PrintTag(node)) \o <<" ", "/", ">">> \o lineBreak
        [] node.kind = "element" /\ node.kids # <<>> ->
             Indented(PrintTag(node)) \o <<">">>
               \o (IF simpleTextPrint THEN kids ELSE lineBreak \o kids \o Indented(<<>>))
               \o EndTag(node) \o lineBreak

\* A slip: the document takes the visitor to its elements only.
VisitDocument_Elements(kids, indent, lineBreak) ==
  LET elements == SelectSeq(kids, LAMBDA k : k.kind = "element")
  IN  FlattenSeq([i \in DOMAIN elements |->
                    Visited(elements[i], 0, FALSE, indent, lineBreak)])

VisitDocument(kids, indent, lineBreak) ==
  FlattenSeq([i \in DOMAIN kids |-> Visited(kids[i], 0, FALSE, indent, lineBreak)])
=============================================================================
