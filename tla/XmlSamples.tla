----------------------------- MODULE XmlSamples -----------------------------
(***************************************************************************)
(* Nodes and documents, by value as in XmlText, on which TLC checks what   *)
(* tinyxml does with them: an element with up to two children of every     *)
(* kind, with and without attributes, alone or after other nodes.          *)
(***************************************************************************)
EXTENDS XmlText

Leaf(kind, value) == NodeOf(kind, value, <<>>, <<>>)
Header ==
  NodeOf("declaration", <<>>, << <<<<"version">>, <<"a">>>>,
                               <<<<"standalone">>, <<"b">>>> >>, <<>>)

Attrs == { <<>>,
           << <<<<"b">>, <<"dq", " ", " ", "&">>>>, <<<<"c", "-">>, <<"sq", "nl">>>> >> }

Children ==
  { Leaf("text", <<"a", " ", "<">>), Leaf("text", <<"nl", "b">>),
    Leaf("cdata", <<" ", "<">>), Leaf("comment", <<"-", ">", " ">>),
    Leaf("unknown", <<"!", "a">>), Header,
    NodeOf("element", <<"b">>, <<>>, <<>>),
    NodeOf("element", <<"b">>, <<>>, <<Leaf("text", <<"c">>)>>) }

Pairable == {c \in Children : c.kind \in {"text", "cdata", "comment", "element"}
                               /\ c.kids = <<>> /\ c.value # <<"nl", "b">>}

ChildLists ==
  {<<>>} \cup {<<c>> : c \in Children}
    \cup {list \in Pairable \X Pairable : {list[1].kind, list[2].kind} # {"text"}}

Whole ==
  {<<Header, NodeOf("element", <<"a">>, <<>>, list)>> : list \in ChildLists}
    \cup {<<NodeOf("element", <<"a">>, attrs, <<>>), Leaf("comment", <<"b">>)>> : attrs \in Attrs}

-----------------------------------------------------------------------------
\* Streams: documents with all that may come before the element at the top, and
\* what may follow them in the stream.
Fronts ==
  {<<>>, <<Header, Leaf("comment", <<>>)>>}
    \cup {<<c>> : c \in {Header, Leaf("comment", <<"a", ">", "<">>),
                         Leaf("comment", <<"-", ">", " ">>),
                         Leaf("cdata", <<" ", ">", "<">>),
                         Leaf("unknown", <<"!", "a">>)}}
Roots ==
  {NodeOf("element", <<"a">>, attrs, list) : attrs \in Attrs, list \in ChildLists}
Streams == {front \o <<root>> : front \in Fronts, root \in Roots}
Rests == {<<>>, <<" ", "<", "a">>, <<"<", "/", ">", "a">>, <<"]", ">", "-", "-", ">">>}

-----------------------------------------------------------------------------
\* What is copied
CopiedNodes ==
  Children \cup {NodeOf("element", <<"a">>, attrs, list) : attrs \in Attrs,
                   list \in {<<>>, <<Leaf("text", <<"nl", "b">>)>>}}
CopiedDocuments ==
  {[value |-> v, kids |-> d, error |-> e, tabsize |-> t, bom |-> b] :
     v \in {<<>>, <<"a">>}, d \in {<<>>, <<Header>>, <<Header, Leaf("comment", <<"b">>)>>},
     e \in {"none", "DOCUMENT_EMPTY"}, t \in {2, 4}, b \in BOOLEAN}
=============================================================================
