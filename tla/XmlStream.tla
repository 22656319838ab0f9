------------------------------ MODULE XmlStream ------------------------------
(***************************************************************************)
(* tinyxml's reading from and writing to C++ streams, which is compiled    *)
(* when TIXML_USE_STL is defined.  operator>> cannot know where a document *)
(* ends in the stream: the StreamIn functions guess the nodes from what    *)
(* they have taken so far, and stop behind the first element at the top.   *)
(* What was taken is then parsed as a whole.                               *)
(*                                                                         *)
(* A stream is a text and the position of the next character.  At the end  *)
(* peek and get give no character, and the stream is no longer good.       *)
(***************************************************************************)
EXTENDS XmlText

Taken(p, error) == [p |-> p, error |-> error]

StreamWhiteSpace(s, p) == Past(s, p, White)

StreamTo(s, p, character) == Past(s, p, Range(s) \ {character})

\* Unknown and Declaration: what is left of the tag
StreamTag(s, p, error) ==
  LET end == StreamTo(s, p, ">")
  IN  IF More(s, end) THEN Taken(end + 1, error)
                      ELSE Taken(end, First(error, "EMBEDDED_NULL"))

\* Past the first ">" at or after p that has these two before it
StreamMarked(s, p, mark, error) ==
  LET Ends(q) == s[q] = ">" /\ SubSeq(s, q - Len(mark), q - 1) = mark
      ends == {q \in p..Len(s) : Ends(q)}
  IN  IF ends = {} THEN Taken(Len(s) + 1, First(error, "EMBEDDED_NULL"))
      ELSE Taken((CHOOSE q \in ends : \A r \in ends : q <= r) + 1, error)

StreamComment(s, p, error) == StreamMarked(s, p, <<"-", "-">>, error)
StreamCData(s, p, error) == StreamMarked(s, p, <<"]">>, error)

\* A text on the stack belongs to no document and reports no error.
StreamText(s, p, error) == Taken(StreamTo(s, p, "<"), error)

\* A node that begins at w is told before its ">", or just after "<![CDATA[".
AfterCData(s, w, q) == q > w + 2 /\ SubSeq(s, q - 3, q - 1) = <<"<", "!", "[">>
Pause(s, w) ==
  CHOOSE q \in w..Len(s) + 1 :
    /\ At(s, q) \in {">", "end"} \/ AfterCData(s, w, q)
    /\ \A r \in w..q - 1 : s[r] # ">" /\ ~ AfterCData(s, w, r)

RECURSIVE StreamElement(_, _, _)
RECURSIVE StreamValue(_, _, _)

\* What is left of the node that was told at p
StreamIn(kind, s, p, error) ==
  CASE kind \in {"unknown", "declaration"} -> StreamTag(s, p, error)
    [] kind = "comment" -> StreamComment(s, p, error)
    [] kind = "cdata"   -> StreamCData(s, p, error)
    [] kind = "element" -> StreamElement(s, p, error)

StreamElement(s, p, error) ==
  LET end == StreamTo(s, p, ">")
  IN  IF More(s, end) /\ s[end - 1] # "/" THEN StreamValue(s, end + 1, error)
      ELSE StreamTag(s, p, error)

\* Texts and nodes, until a closing tag
StreamValue(s, p, error) ==
  LET w == StreamWhiteSpace(s, p)
      text == StreamText(s, w, error)
      stop == Pause(s, w)
      closingTag == At(s, Past(s, w, White \cup {"<"})) = "/"
      node == StreamIn(Identify(s, w), s, stop, error)
  IN  IF ~ More(s, w) THEN Taken(w, error)
      ELSE IF s[w] # "<" THEN StreamValue(s, text.p, error)
      ELSE IF ~ More(s, stop) THEN Taken(stop, First(error, "EMBEDDED_NULL"))
      ELSE IF closingTag
           THEN Taken(stop + 1, IF AfterCData(s, w, stop) THEN "assertion" ELSE error)
      ELSE StreamValue(s, node.p, node.error)

\* The nodes at the top, until an element
RECURSIVE StreamNodes(_, _, _)
StreamNodes(s, p, error) ==
  LET stop == StreamTo(s, p, ">")
      kind == Identify(s, SkipWhiteSpace(s, p))
      node == StreamIn(kind, s, stop, error)
  IN  IF ~ More(s, stop) THEN Taken(stop, First(error, "EMBEDDED_NULL"))
      ELSE IF kind = "none" THEN Taken(stop, First(error, "ERROR"))
      ELSE IF kind = "element" THEN node
      ELSE StreamNodes(s, node.p, node.error)

StreamDocument(s, p) ==
  LET start == StreamTo(s, p, "<")
  IN  IF More(s, start) THEN StreamNodes(s, start, "none")
                        ELSE Taken(start, "PARSING_EMPTY")

\* operator>> into an empty document.  Parse clears the error of StreamIn.
Extracted(s, p) ==
  LET taken == StreamDocument(s, p)
      document == ParseDocument(SubSeq(s, p, taken.p - 1), "unknown")
  IN  [kids |-> document.kids, error |-> document.error, p |-> taken.p]

\* A TiXmlPrinter's settings: pretty printing until it is told otherwise
TiXmlPrinter == [indent |-> <<" ", " ", " ", " ">>, lineBreak |-> <<"nl">>]
SetIndent(printer, indent) == [printer EXCEPT !.indent = indent]
SetLineBreak(printer, lineBreak) == [printer EXCEPT !.lineBreak = lineBreak]
SetStreamPrinting(printer) == SetLineBreak(SetIndent(printer, <<>>), <<>>)

\* operator<<
Inserted(kids) ==
  LET printer == SetStreamPrinting(TiXmlPrinter)
  IN  VisitDocument(kids, printer.indent, printer.lineBreak)

-----------------------------------------------------------------------------
\* What StreamComment takes for the end of a comment may be its beginning.
ClosedEarly(node) ==
  /\ node.kind = "comment"
  /\ \/ At(node.value, 1) = ">"
     \/ At(node.value, 1) = "-" /\ At(node.value, 2) = ">"

\* A document that ends with its only element at the top, and whose comments at
\* the top are not closed early
Streamable(kids) ==
  /\ kids # <<>>
  /\ \A i \in DOMAIN kids :
       (kids[i].kind = "element" <=> i = Len(kids)) /\ ~ ClosedEarly(kids[i])

\* A document that was written into a stream is read from it as it was, whatever
\* follows, and the stream is left where it ends; a document that was read without
\* an error is not read from a part of it.  (operator<<, operator>>, StreamIn)
ReadAsWritten(kids, rest) ==
  LET text == Inserted(kids)
      read == Extracted(text \o rest, 1)
  IN  Streamable(kids) =>
        read = [kids |-> kids, error |-> "none", p |-> Len(text) + 1]

\* Indented text is read back from a stream as well: as the same document.
PrettyIsRead(kids) ==
  LET text == VisitDocument(kids, TiXmlPrinter.indent, TiXmlPrinter.lineBreak)
  IN  Streamable(kids) => Extracted(text, 1).kids = ParseDocument(text, "unknown").kids

\* A stream that ends within the element at the top gives a document with an error.
CutStreamReported(kids) ==
  LET text == Inserted(kids)
      front == Inserted(SubSeq(kids, 1, Len(kids) - 1))
  IN  Streamable(kids) =>
        \A n \in Len(front) + 2..Len(text) - 1 :
          Extracted(SubSeq(text, 1, n), 1).error # "none"
=============================================================================
