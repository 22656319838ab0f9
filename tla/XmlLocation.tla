----------------------------- MODULE XmlLocation -----------------------------
(***************************************************************************)
(* Where tinyxml says that a node or an error is, and what it calls the    *)
(* error.  A place is [row, col], from 0; callers are told rows and        *)
(* columns from 1, and 0 for an unknown place.                             *)
(***************************************************************************)
EXTENDS XmlBytes

\* An error's number is its place in this list, from 0.
Errors ==
  <<"NO_ERROR", "ERROR", "OPENING_FILE", "PARSING_ELEMENT",
    "FAILED_TO_READ_ELEMENT_NAME", "READING_ELEMENT_VALUE", "READING_ATTRIBUTES",
    "PARSING_EMPTY", "READING_END_TAG", "PARSING_UNKNOWN", "PARSING_COMMENT",
    "PARSING_DECLARATION", "DOCUMENT_EMPTY", "EMBEDDED_NULL", "PARSING_CDATA",
    "DOCUMENT_TOP_ONLY">>

errorString ==
  <<"No error", "Error", "Failed to open file", "Error parsing Element.",
    "Failed to read Element name", "Error reading Element value.",
    "Error reading Attributes.", "Error: empty tag.", "Error reading end tag.",
    "Error parsing Unknown.", "Error parsing Comment.", "Error parsing Declaration.",
    "Error document empty.",
    "Error null (0) or unexpected EOF found in input stream.",
    "Error parsing CDATA.",
    "Error when TiXmlDocument added to document, because TiXmlDocument can only be at the root.">>

\* TiXmlCursor::Clear
NoPlace == [row |-> -1, col |-> -1]

Row(place) == place.row + 1
Column(place) == place.col + 1

\* What a TiXmlDocument knows of errors: [error, errorId, errorDesc, errorLocation,
\* tabsize].
NewDocument ==
  [error |-> FALSE, errorId |-> 0, errorDesc |-> "",
   errorLocation |-> [row |-> 0, col |-> 0], tabsize |-> 4]

ClearError(document) == [NewDocument EXCEPT !.tabsize = document.tabsize]
SetTabSize(document, tabsize) == [document EXCEPT !.tabsize = tabsize]

\* The place that the parsing data gives for byte now of s, which Parse began to
\* read with document's tabsize
Place(document, s, now, utf8) ==
  LET data == Stamp(s, Start, now, utf8, document.tabsize)
  IN  [row |-> data.row, col |-> data.col]

SetError(document, err, place) ==
  IF document.error THEN document
  ELSE [document EXCEPT !.error = TRUE, !.errorId = err,
                        !.errorDesc = errorString[err + 1], !.errorLocation = place]

Error(document) == <<document.error, document.errorId, document.errorDesc>>
ErrorPlace(document) ==
  <<Row(document.errorLocation), Column(document.errorLocation)>>

-----------------------------------------------------------------------------
\* The first error after ClearError is the one that is reported, under a text that
\* no other error has, and its place is 0, 0 exactly if it is not known.
\* (SetError, errorString)
ErrorsTold(document, places) ==
  /\ Len(errorString) = Len(Errors)
  /\ \A err, other \in 1..Len(Errors) - 1, at, later \in places \cup {NoPlace} :
       LET first == SetError(ClearError(document), err, at)
       IN  /\ SetError(first, other, later) = first
           /\ err # other => Error(first) # Error(SetError(ClearError(first), other, at))
                               /\ errorString[err + 1] # errorString[other + 1]
           /\ ErrorPlace(first) = <<0, 0>> <=> at = NoPlace

\* Going on in a text never leads back to an earlier row or column, and every
\* character that has a width and is no part of a pair of line ends is passed.
\* With a tabsize of 0 every place is 1, 1, not 0, 0.  (Stamp, SetTabSize)
PlacesInOrder(s, utf8, tabsize) ==
  LET document == SetTabSize(NewDocument, tabsize)
      At(q) == Place(document, s, q, utf8)
      Hangs(q) == Stamp(s, Start, q, utf8, tabsize).hangs
      begins == {q \in Begins(s, 1, utf8) \cap 1..Len(s) + 1 : ~ Hangs(q)}
      LineEnd(p) == Byte(s, p) \in {10, 13}
      Paired(p) == LineEnd(p) /\ \E q \in {p - 1, p + 1} : LineEnd(q) /\ s[p] # s[q]
      Wide(p) == ~ Paired(p) /\ ~ (utf8 /\ \E mark \in NoWidth : FromHere(s, p, mark))
      Before(a, b) == a.row < b.row \/ (a.row = b.row /\ a.col < b.col)
  IN  \A p, q \in begins : p < q =>
        IF tabsize = 0 THEN At(p) = At(q) /\ Row(At(q)) = 1 /\ Column(At(q)) = 1
        ELSE /\ ~ Before(At(q), At(p))
             /\ Wide(p) => Before(At(p), At(q))
=============================================================================
