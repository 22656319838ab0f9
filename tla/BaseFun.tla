------------------------------- MODULE BaseFun -------------------------------
(***************************************************************************)
(* The string helpers of class BaseFun, on strings as sequences of         *)
(* characters.  A position counts from 1; npos is the one past the end.    *)
(***************************************************************************)
EXTENDS Naturals, SequencesExt

\* sStr.find(sSep, pos)
FindFrom(sStr, sSep, pos) ==
  CHOOSE q \in pos..Len(sStr) + 1 :
    LET Here(r) == r + Len(sSep) - 1 <= Len(sStr)
                     /\ SubSeq(sStr, r, r + Len(sSep) - 1) = sSep
    IN  /\ q = Len(sStr) + 1 \/ Here(q)
        /\ \A r \in pos..q - 1 : ~ Here(r)

\* The loop of sepString from pos on
RECURSIVE Pieces(_, _, _)
Pieces(sStr, sSep, pos) ==
  LET pos1 == FindFrom(sStr, sSep, pos)
      s == SubSeq(sStr, pos, pos1 - 1)
  IN  IF pos1 > Len(sStr) THEN <<s>>
      ELSE <<s>> \o Pieces(sStr, sSep, pos1 + Len(sSep))

\* A slip: empty pieces are left out whatever the caller asks for.
sepString_NoEmpty(sStr, sSep, withEmpty) ==
  IF sStr = <<>> THEN <<>>
  ELSE SelectSeq(Pieces(sStr, sSep, 1), LAMBDA s : s # <<>>)

sepString(sStr, sSep, withEmpty) ==
  LET pieces == IF sStr = <<>> THEN <<>> ELSE Pieces(sStr, sSep, 1)
  IN  IF withEmpty THEN pieces ELSE SelectSeq(pieces, LAMBDA s : s # <<>>)

Spaces == {" ", "nl"}

trimString(str) ==
  LET kept == {i \in DOMAIN str : str[i] \notin Spaces}
  IN  IF kept = {} THEN <<>>
      ELSE SubSeq(str, CHOOSE i \in kept : \A j \in kept : i <= j,
                       CHOOSE i \in kept : \A j \in kept : j <= i)

\* The whole of a file, which is empty when it cannot be opened
getFileContent(file) == trimString(file)

\* What readlink gave, after the last slash
getSelfProcessName(path) ==
  LET slash == CHOOSE i \in 0..Len(path) :
                 /\ i = 0 \/ path[i] = "/"
                 /\ \A j \in i + 1..Len(path) : path[j] # "/"
  IN  SubSeq(path, slash + 1, Len(path))
-----------------------------------------------------------------------------
\* Trimming takes all the white space around a string and nothing else; joining the
\* pieces of one, with a separator of any length, gives the string.
\* (BaseFun::trimString, getFileContent, sepString)
NothingIsLost(str, sep) ==
  LET kept == getFileContent(str)
      pieces == sepString(str, sep, TRUE)
  IN  /\ kept # <<>> => {kept[1], kept[Len(kept)]} \cap Spaces = {}
      /\ \E m, n \in 0..Len(str) :
           /\ str = SubSeq(str, 1, m) \o kept \o SubSeq(str, n + 1, Len(str))
           /\ Range(SubSeq(str, 1, m) \o SubSeq(str, n + 1, Len(str))) \subseteq Spaces
      /\ FoldLeft(LAMBDA joined, s : joined \o sep \o s, <<>>, pieces)
           = IF str = <<>> THEN <<>> ELSE sep \o str
      /\ sepString(str, sep, FALSE) = SelectSeq(pieces, LAMBDA s : s # <<>>)
=============================================================================
