------------------------------ MODULE XmlNodes ------------------------------
(***************************************************************************)
(* What tinyxml's node classes do each in their own way: copying a node of *)
(* the class (CopyTo, Clone, operator=, the copy constructors), and taking *)
(* a TiXmlVisitor through it (Accept).  Nodes are those of XmlText, by     *)
(* value; where copies are linked is in XmlTree.                           *)
(***************************************************************************)
EXTENDS XmlText, FiniteSets

\* The nodes that the constructors make
NewComment(value) == NodeOf("comment", value, <<>>, <<>>)
NewText(value) == NodeOf("text", value, <<>>, <<>>)
NewDeclaration(version, encoding, standalone) ==
  LET got == <<version, encoding, standalone>>
      given == SelectSeq(<<1, 2, 3>>, LAMBDA i : got[i] # <<>>)
  IN  NodeOf("declaration", <<>>,
           [i \in DOMAIN given |-> <<<<Fields[given[i]]>>, got[given[i]]>>], <<>>)
NewUnknown == NodeOf("unknown", <<>>, <<>>, <<>>)
NewElement(value) == NodeOf("element", value, <<>>, <<>>)

SetValue(node, value) == [node EXCEPT !.value = value]
SetCDATA(text, cdata) == [text EXCEPT !.kind = IF cdata THEN "cdata" ELSE "text"]

\* Version, Encoding and Standalone of a declaration; empty when there is none
Field(declaration, name) ==
  FoldLeft(LAMBDA got, a : IF a[1] = <<name>> THEN a[2] ELSE got, <<>>, declaration.attrs)

Nothing == <<"null">>
\* Of the first child only
GetText(element) ==
  IF element.kids # <<>> /\ IsText(element.kids[1]) THEN element.kids[1].value ELSE Nothing

\* TiXmlNode::CopyTo; the location and the user's pointer go with the value.
CopyNode(node, target) == [target EXCEPT !.value = node.value]

CopyComment(node, target) == CopyNode(node, target)
CopyUnknown(node, target) == CopyNode(node, target)
CopyText(node, target) == [CopyNode(node, target) EXCEPT !.kind = node.kind]
CopyDeclaration(node, target) == [CopyNode(node, target) EXCEPT !.attrs = node.attrs]

\* TiXmlElement::SetAttribute changes the attribute of that name, or adds one.  No name
\* is empty here; behind an empty one Add's assertion ends the process (XmlAttributes).
SetAttribute(attrs, name, value) ==
  LET places == {i \in DOMAIN attrs : attrs[i][1] = name}
  IN  IF places = {} THEN Append(attrs, <<name, value>>)
      ELSE [i \in DOMAIN attrs |-> IF i \in places THEN <<name, value>> ELSE attrs[i]]

RECURSIVE Clone(_)

\* The attributes and children of the target stay, and the node's come on top.
CopyElement(node, target) ==
  [CopyNode(node, target) EXCEPT
     !.attrs = FoldLeft(LAMBDA attrs, a : SetAttribute(attrs, a[1], a[2]), @, node.attrs),
     !.kids = @ \o [i \in DOMAIN node.kids |-> Clone(node.kids[i])]]

CloneComment(node) == CopyComment(node, NewComment(<<>>))
CloneText(node) == CopyText(node, NewText(<<>>))
CloneDeclaration(node) == CopyDeclaration(node, NewDeclaration(<<>>, <<>>, <<>>))
CloneUnknown(node) == CopyUnknown(node, NewUnknown)
CloneElement(node) == CopyElement(node, NewElement(node.value))

Clone(node) ==
  CASE node.kind = "comment"     -> CloneComment(node)
    [] IsText(node)              -> CloneText(node)
    [] node.kind = "declaration" -> CloneDeclaration(node)
    [] node.kind = "unknown"     -> CloneUnknown(node)
    [] node.kind = "element"     -> CloneElement(node)

\* operator=, of nodes of one class.  An element is emptied first.
AssignComment(target, node) == CopyComment(node, [target EXCEPT !.kids = <<>>])
AssignDeclaration(target, node) == CopyDeclaration(node, [target EXCEPT !.kids = <<>>])
AssignElement(target, node) ==
  CopyElement(node, [target EXCEPT !.attrs = <<>>, !.kids = <<>>])

Assigned(target, node) ==
  CASE node.kind = "comment"     -> AssignComment(target, node)
    [] IsText(node)              -> CopyText(node, target)
    [] node.kind = "declaration" -> AssignDeclaration(target, node)
    [] node.kind = "unknown"     -> CopyUnknown(node, target)
    [] node.kind = "element"     -> AssignElement(target, node)

\* A document is [value, kids, error, tabsize, bom].
NewDocument(value) ==
  [value |-> value, kids |-> <<>>, error |-> "none", tabsize |-> 4, bom |-> FALSE]
CopyDocument(document, target) ==
  [document EXCEPT !.kids = target.kids \o [i \in DOMAIN @ |-> Clone(@[i])]]
CloneDocument(document) == CopyDocument(document, NewDocument(<<>>))
AssignDocument(target, document) == CopyDocument(document, [target EXCEPT !.kids = <<>>])

-----------------------------------------------------------------------------
\* Visiting.  A visit is a sequence of calls <<function, node>>, of which the
\* visitor answers those in no with false.

\* TiXmlVisitor's own functions: true to everything
Default == {}

RECURSIVE Accept(_, _)

\* A leaf's Accept is one call, which has an overloading for each class.
AcceptComment(node)     == <<<<"Visit", node>>>>
AcceptText(node)        == <<<<"Visit", node>>>>
AcceptDeclaration(node) == <<<<"Visit", node>>>>
AcceptUnknown(node)     == <<<<"Visit", node>>>>

AcceptLeaf(node) ==
  CASE node.kind = "comment"     -> AcceptComment(node)
    [] IsText(node)              -> AcceptText(node)
    [] node.kind = "declaration" -> AcceptDeclaration(node)
    [] node.kind = "unknown"     -> AcceptUnknown(node)

\* The children up to one that says false
AcceptEach(kids, no) ==
  LET Stops(i) == Last(Accept(kids[i], no)) \in no
      last == CHOOSE n \in 0..Len(kids) :
                /\ n # Len(kids) => n > 0 /\ Stops(n)
                /\ \A i \in 1..n - 1 : ~ Stops(i)
  IN  FlattenSeq([i \in 1..last |-> Accept(kids[i], no)])

\* What Accept calls; its own answer is that of the last call.  Elements and
\* documents have children.
Accept(node, no) ==
  LET enter == <<"VisitEnter", node>>
  IN  IF node.kind \notin {"element", "document"} THEN AcceptLeaf(node)
      ELSE <<enter>> \o (IF enter \in no THEN <<>> ELSE AcceptEach(node.kids, no))
             \o <<<<"VisitExit", node>>>>

-----------------------------------------------------------------------------
\* A copy is equal to what it is a copy of, and what it is assigned to keeps
\* nothing of its own, as long as leaves have no children.  (Clone, operator=)
CopiesAreEqual(nodes) ==
  /\ \A node \in nodes : Clone(node) = node
  /\ \A node, target \in nodes :
       node.kind = target.kind \/ (IsText(node) /\ IsText(target))
         => Assigned(target, node) = node

\* A copied document has the error and the byte order mark as well.
DocumentsAreEqual(documents) ==
  \A document, target \in documents :
    /\ CloneDocument(document) = document
    /\ AssignDocument(target, document) = document

\* What an element was given as its text is what its text is after it was written and
\* read, as CDATA or not; and the constructor's fields are the ones of the
\* declaration that is read, unless they hold an ampersand.  (SetValue, SetCDATA, GetText, Version, Encoding,
\* Standalone)
TextsAreKept(texts) ==
  LET Read(node) == ParseDocument(PrintDocument(<<node>>), "unknown").kids[1] IN
  /\ \A value \in texts, old \in texts, cdata \in BOOLEAN :
       LET text == SetCDATA(SetValue(NewText(old), value), cdata)
       IN  GetText(Read([NewElement(<<"a">>) EXCEPT !.kids = <<text>>])) = value
  /\ \A version, encoding, standalone \in
         {<<>>} \cup {t \in texts : "&" \notin Range(t)} :
       LET read == Read(NewDeclaration(version, encoding, standalone))
       IN  <<Field(read, "version"), Field(read, "encoding"),
             Field(read, "standalone")>> = <<version, encoding, standalone>>

\* When white space is not condensed, no text is changed by writing and reading it,
\* unless it is all white.  (SetCondenseWhiteSpace, ReadText)
WhiteSpaceIsKept(texts) ==
  \A value \in texts :
    LET element == [NewElement(<<"a">>) EXCEPT !.kids = <<NewText(value)>>]
        read == ParseDocument(PrintDocument(<<element>>), "unknown")
    IN  ~ IsWhiteSpaceCondensed =>
          read.kids = IF Blank(value) THEN <<NewElement(<<"a">>)>> ELSE <<element>>

\* A visit leaves every element that it enters, inside out; and one that is told
\* to go on meets every node in the order in which it is written.  (Accept)
RECURSIVE Nested(_, _)
Nested(visit, open) ==
  IF visit = <<>> THEN open = <<>>
  ELSE LET call == Head(visit) IN
    CASE call[1] = "Visit"      -> Nested(Tail(visit), open)
      [] call[1] = "VisitEnter" -> Nested(Tail(visit), <<call[2]>> \o open)
      [] call[1] = "VisitExit"  -> open # <<>> /\ Head(open) = call[2]
                                     /\ Nested(Tail(visit), Tail(open))

RECURSIVE Written(_)
Written(node) == <<node>> \o FlattenSeq([i \in DOMAIN node.kids |-> Written(node.kids[i])])

VisitsNest(node) ==
  LET whole == Accept(node, Default)
      met == SelectSeq(whole, LAMBDA call : call[1] # "VisitExit")
  IN  /\ [i \in DOMAIN met |-> met[i][2]] = Written(node)
      /\ \A no \in {S \in SUBSET Range(whole) : Cardinality(S) < 3} :
           Nested(Accept(node, no), <<>>)
=============================================================================
