----------------------------- MODULE XmlDocument -----------------------------
(***************************************************************************)
(* TiXmlDocument and the file it is kept in: LoadFile, SaveFile, Clear and *)
(* the error, in a process that may stop at any moment and on a disk that  *)
(* may be full.                                                            *)
(*                                                                         *)
(* stdio keeps what Print writes in a buffer: some of it is on the disk    *)
(* when Print returns and the rest goes there in fclose.  A disk that      *)
(* refuses before that is seen by ferror; one that refuses in fclose is    *)
(* not.  A parser's assertion that fails stops the process.                *)
(***************************************************************************)
EXTENDS XmlText

CONSTANTS
  Documents,      \* the documents an application builds, as sequences of nodes
  Files,          \* the texts that other programs leave in the file
  Encodings,      \* the encodings that LoadFile is given
  NoFile,
  Buffer,         \* how much stdio keeps
  MaxSaves        \* how often SaveFile is called

ASSUME DocumentAssumption ==
  MaxSaves \in Nat /\ Buffer \in Nat \ {0} /\ NoFile \notin Files

VARIABLES
  kids, error, bom,     \* the document: its nodes, error, and useMicrosoftBOM
  file,                 \* the text on the disk, or NoFile
  saving,               \* where SaveFile is
  returned,             \* what the last call returned
  saved,                \* the document last written, and whether all of it was
  saves                 \* how many files were opened for writing

document == <<kids, error, bom>>
vars == <<kids, error, bom, file, saving, returned, saved, saves>>

Unsaved == [kids |-> <<>>, bom |-> FALSE, whole |-> FALSE]

Init ==
  /\ \/ kids \in Documents /\ file = NoFile
     \/ kids = <<>> /\ file \in Files
  /\ error = "none" /\ bom = FALSE
  /\ saving = "no" /\ returned = "nothing" /\ saved = Unsaved
  /\ saves = 0

Running == saving = "no"

\* A file that cannot be opened leaves the nodes of the document.
OpenFails ==
  /\ Running
  /\ error' = First(error, "OPENING_FILE") /\ returned' = "false"
  /\ UNCHANGED <<kids, bom, file, saving, saved, saves>>

\* An empty file does not clear an error, nor a read that fails; both leave no nodes.
ReadFails ==
  /\ Running /\ file # NoFile
  /\ kids' = <<>> /\ returned' = "false"
  /\ error' = First(error, IF file = <<>> THEN "DOCUMENT_EMPTY" ELSE "OPENING_FILE")
  /\ UNCHANGED <<bom, file, saving, saved, saves>>

\* A slip: the assertion is not compiled in, and what it forbids goes on.
LoadFile_Unchecked(encoding) ==
  LET read == ParseDocument(Normalized(file), encoding) IN
  /\ Running /\ file \notin {NoFile, <<>>}
  /\ kids' = read.kids /\ error' = read.error /\ bom' = (bom \/ read.bom)
  /\ returned' = IF read.error = "none" THEN "true" ELSE "false"
  /\ UNCHANGED <<file, saving, saved, saves>>

LoadFile(encoding) ==
  LET read == ParseDocument(Normalized(file), encoding) IN
  /\ Running /\ file \notin {NoFile, <<>>}
  /\ kids' = read.kids /\ error' = read.error /\ bom' = (bom \/ read.bom)
  /\ saving' = IF read.error = "assertion" THEN "stopped" ELSE saving
  /\ returned' = IF read.error = "none" THEN "true" ELSE "false"
  /\ UNCHANGED <<file, saved, saves>>

\* fopen with "w" empties the file before anything is written.
SaveOpens ==
  /\ Running /\ saves < MaxSaves /\ saves' = saves + 1
  /\ file' = <<>> /\ saving' = "open" /\ saved' = Unsaved
  /\ UNCHANGED <<document, returned>>

SaveCannotOpen ==
  /\ Running /\ returned' = "false"
  /\ UNCHANGED <<document, file, saving, saved, saves>>

Text == (IF bom THEN <<"bom">> ELSE <<>>) \o PrintDocument(kids)

Flushed == Len(Text) - (Len(Text) % Buffer)

\* Full buffers go to the disk; if it refuses one of them, ferror tells.
SavePrints ==
  /\ saving = "open" /\ saving' = "printed"
  /\ \E n \in 0..Flushed :
       /\ file' = SubSeq(Text, 1, n)
       /\ returned' = IF n < Flushed THEN "false" ELSE "true"
  /\ UNCHANGED <<document, saved, saves>>

\* The rest goes out in fclose, as far as the disk takes it.
SaveCloses ==
  /\ saving = "printed" /\ saving' = "no"
  /\ \E n \in Len(file)..IF returned = "true" THEN Len(Text) ELSE Len(file) :
       /\ file' = SubSeq(Text, 1, n)
       /\ saved' = [kids |-> kids, bom |-> bom, whole |-> n = Len(Text)]
  /\ UNCHANGED <<document, returned, saves>>

Clear ==
  /\ Running /\ kids' = <<>>
  /\ UNCHANGED <<error, bom, file, saving, returned, saved, saves>>

ClearError ==
  /\ Running /\ error' = "none"
  /\ UNCHANGED <<kids, bom, file, saving, returned, saved, saves>>

\* The process ends; what is in its buffers is lost.
Stop ==
  /\ saving # "stopped" /\ saving' = "stopped"
  /\ saved' = IF saving = "printed"
              THEN [kids |-> kids, bom |-> bom, whole |-> file = Text] ELSE saved
  /\ UNCHANGED <<document, file, returned, saves>>

Restart ==
  /\ saving = "stopped" /\ saving' = "no"
  /\ kids' = <<>> /\ error' = "none" /\ bom' = FALSE /\ returned' = "nothing"
  /\ UNCHANGED <<file, saved, saves>>

Next ==
  \/ OpenFails \/ ReadFails \/ \E encoding \in Encodings : LoadFile(encoding)
  \/ SaveOpens \/ SaveCannotOpen \/ SavePrints \/ SaveCloses
  \/ Clear \/ ClearError \/ Stop \/ Restart

Spec == Init /\ [][Next]_vars

-----------------------------------------------------------------------------
Errors == {"none", "OPENING_FILE", "DOCUMENT_EMPTY", "FAILED_TO_READ_ELEMENT_NAME",
           "READING_ATTRIBUTES", "PARSING_ELEMENT", "PARSING_EMPTY",
           "READING_ELEMENT_VALUE", "READING_END_TAG", "assertion"}

\* Every variable has its type, and a failed assertion ends the process.
TypeOK ==
  /\ error \in Errors /\ bom \in BOOLEAN
  /\ saving \in {"no", "open", "printed", "stopped"}
  /\ returned \in {"nothing", "true", "false"}
  /\ saved.whole \in BOOLEAN /\ saves \in 0..MaxSaves
  /\ error = "assertion" => saving = "stopped"

\* A text that condensing leaves as it is
Condensable(text) ==
  /\ text[1] # " " /\ text[Len(text)] # " "
  /\ \A i \in 1..Len(text) - 1 : text[i] # " " \/ text[i + 1] # " "

NamesDiffer(attrs) == \A i, j \in DOMAIN attrs : attrs[i][1] = attrs[j][1] => i = j

\* A node and all the nodes below it
RECURSIVE Within(_)
Within(node) == {node} \cup UNION {Within(node.kids[i]) : i \in DOMAIN node.kids}

\* What the text of a node must lack, or it would end before its end
EndsAtItsEnd(node) ==
  /\ node.kind = "comment" => Find(node.value, 1, <<"-", "-", ">">>) > Len(node.value)
  /\ node.kind = "cdata" => Find(node.value, 1, <<"]", ">">>) > Len(node.value)
  /\ node.kind = "unknown" => ">" \notin Range(node.value)

Normal(node) ==
  /\ EndsAtItsEnd(node)
  /\ node.kind = "text" => ~ Blank(node.value)
  /\ node.kind = "element" => node.value # <<>> /\ node.value[1] \in Letter
  /\ node.kind # "element" => node.kids = <<>>
  /\ NamesDiffer(node.attrs)
  /\ \A i \in 1..Len(node.kids) - 1 :
       {node.kids[i].kind, node.kids[i + 1].kind} # {"text"}

\* Nodes that were loaded without an error are in normal form: texts are not blank,
\* not adjacent and not at the top, names differ, leaves are leaves.  Texts are
\* condensed too, if no blank of the file is a reference and no ampersand is dropped.
\* (TiXmlElement::Parse, ReadValue, ReadText)
LoadedIsNormal ==
  [][kids' # kids /\ returned' = "true" =>
     \A i \in DOMAIN kids' :
       /\ kids'[i].kind # "text"
       /\ \A node \in Within(kids'[i]) :
            /\ Normal(node)
            /\ /\ node.kind = "text" /\ condenseWhiteSpace
               /\ \A j \in DOMAIN file :
                    file[j] = "&" => At(file, j + 1) \in Reference \ {"#x20;"}
               => Condensable(node.value)]_vars

Referring(text, word) == \E i \in 1..Len(text) - 1 : text[i] = "&" /\ text[i + 1] = word

\* The text that is left when each hexadecimal reference is taken for its character
Resolved(text) ==
  LET Begins(i) == text[i] = "&" /\ At(text, i + 1) \in Hexadecimal
  IN  FlattenSeq([i \in DOMAIN text |->
        IF Begins(i) THEN <<>>
        ELSE IF i > 1 /\ Begins(i - 1) THEN <<Meaning(text[i])>> ELSE <<text[i]>>])

RECURSIVE Reloaded(_)
Reloaded(node) ==
  CASE node.kind = "text" -> [node EXCEPT !.value = Resolved(@)]
    [] node.kind = "element" ->
         [node EXCEPT
            !.attrs = [i \in DOMAIN @ |-> <<@[i][1], Resolved(@[i][2])>>],
            !.kids = [i \in DOMAIN @ |-> Reloaded(@[i])]]
    [] OTHER -> node

Name(text) == At(text, 1) \in Letter /\ Range(text) \subseteq NameChar

\* A node that can be stored: EncodeString passes what looks like a hexadecimal
\* reference through, and all that follows an unfinished one; a declaration is not
\* encoded at all.  A carriage return is for files only.
Storable(node) ==
  /\ Normal(node)
  /\ \A text \in {node.value} \cup {node.attrs[i][2] : i \in DOMAIN node.attrs} :
       "cr" \notin Range(text)
  /\ node.kind = "text" =>
       /\ condenseWhiteSpace /\ Condensable(node.value) /\ ~ Referring(node.value, "#x")
       /\ ~ Blank(Resolved(node.value))
  /\ node.kind = "unknown" => Identify(PrintUnknown(node), 1) = "unknown" /\ At(node.value, 1) # "/"
  /\ node.kind = "element" =>
       /\ Name(node.value)
       /\ \A i \in DOMAIN node.attrs :
            Name(node.attrs[i][1]) /\ ~ Referring(node.attrs[i][2], "#x")
  /\ node.kind = "declaration" =>
       \A i \in DOMAIN node.attrs : Range(node.attrs[i][2]) \cap {"dq", "&"} = {}

AllStorable(nodes) ==
  \A i \in DOMAIN nodes :
    nodes[i].kind # "text" /\ \A node \in Within(nodes[i]) : Storable(node)

\* A file that holds all of what SaveFile printed of a storable document loads as
\* the same document, but that what looks like a hexadecimal reference in its texts
\* and attributes has become one.
\* (TiXmlDocument::SaveFile, LoadFile, Print, EncodeString, Parse)
SavedLoads ==
  saved.whole /\ saved.kids # <<>> /\ AllStorable(saved.kids) =>
    ParseDocument(Normalized(file), "unknown") =
      [kids |-> [i \in DOMAIN saved.kids |-> Reloaded(saved.kids[i])],
       error |-> "none", bom |-> saved.bom]

\* The file of a storable document, cut off between the name of an element at the top
\* and the end of its end tag, does not load without an error.
\* (TiXmlElement::Parse, ReadValue)
CutIsReported ==
  AllStorable(saved.kids) => \A i \in DOMAIN saved.kids :
    LET Upto(n) == Len(PrintDocument(SubSeq(saved.kids, 1, n)))
                     + (IF saved.bom THEN 1 ELSE 0)
    IN  /\ saved.kids[i].kind = "element"
        /\ Len(file) \in Upto(i - 1) + 2..Upto(i) - 2
        => ParseDocument(Normalized(file), "unknown").error # "none"

\* TiXmlPrinter, however it indents, writes of a storable document a text that says the
\* same as the one that Print writes into the file.  (TiXmlPrinter, TiXmlElement::Print)
PrintersAgree ==
  saving = "open" /\ AllStorable(kids) =>
    \A layout \in {<<<<>>, <<>>>>, <<<<" ">>, <<"nl">>>>, <<<<"nl">>, <<>>>>} :
      ParseDocument(VisitDocument(kids, layout[1], layout[2]), "unknown")
        = ParseDocument(PrintDocument(kids), "unknown")
=============================================================================
