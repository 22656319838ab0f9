------------------------------ MODULE XmlBytes ------------------------------
(***************************************************************************)
(* The bytes below the tokens of XmlText: UTF-8, numeric references, and   *)
(* the row and column at which the parser stands.  A text is a sequence of *)
(* bytes without the zero that ends it; a position counts from 1, the one  *)
(* past the end holds the zero, and 0 is the null pointer.                 *)
(***************************************************************************)
EXTENDS Integers, SequencesExt

CONSTANT UnsignedBits    \* the width of an unsigned int

Byte(s, p) == IF p \in DOMAIN s THEN s[p] ELSE 0
FromHere(s, p, bytes) == \A i \in DOMAIN bytes : Byte(s, p + i - 1) = bytes[i]

TIXML_UTF_LEAD == <<239, 187, 191>>
NoWidth == {TIXML_UTF_LEAD, <<239, 191, 190>>, <<239, 191, 191>>}

utf8ByteTable ==
  [b \in 0..255 |-> IF b \in 194..223 THEN 2 ELSE IF b \in 224..239 THEN 3 ELSE
                    IF b \in 240..244 THEN 4 ELSE 1]

-----------------------------------------------------------------------------
\* Characters

ConvertUTF32ToUTF8(input) ==
  LET length == CHOOSE n \in 0..4 :
                  IF input >= 2097152 THEN n = 0
                  ELSE /\ n > 0 /\ input < <<128, 2048, 65536, 2097152>>[n]
                       /\ n > 1 => input >= <<128, 2048, 65536, 2097152>>[n - 1]
      Rest(i) == input \div 64^(length - i)
  IN  [i \in 1..length |-> IF i = 1 THEN <<0, 192, 224, 240>>[length] + Rest(1)
                           ELSE 128 + (Rest(i) % 64)]

Digit(b, base) ==
  CASE b \in 48..57               -> b - 48
    [] base = 16 /\ b \in 97..102 -> b - 87
    [] base = 16 /\ b \in 65..70  -> b - 55
    [] OTHER                      -> -1

\* The digits s[first..q] from the last to the first, with mult as the place of
\* the last one.
RECURSIVE Number(_, _, _, _, _)
Number(s, first, q, base, mult) ==
  IF q < first THEN 0
  ELSE ((mult * Digit(s[q], base)) % 2^UnsignedBits)
         + Number(s, first, q - 1, base, (mult * base) % 2^UnsignedBits)

\* GetEntity, of a text that has "&#" and some byte at p: the bytes of the character
\* and where the text goes on.  The digits are those after the last "x" or "#"
\* before the next semicolon.
GetEntity(s, p, utf8) ==
  LET base == IF Byte(s, p + 2) = 120 THEN 16 ELSE 10
      mark == IF base = 16 THEN 120 ELSE 35
      from == IF base = 16 THEN p + 2 ELSE p + 1
      ends == {q \in from + 1..Len(s) : s[q] = 59}
      end == CHOOSE q \in ends : \A r \in ends : q <= r
      first == 1 + CHOOSE q \in from..end - 1 :
                     s[q] = mark /\ \A r \in q + 1..end - 1 : s[r] # mark
      ucs == Number(s, first, end - 1, base, 1)
  IN  IF ends = {} \/ \E q \in first..end - 1 : Digit(s[q], base) < 0
      THEN [bytes |-> <<>>, p |-> 0]
      ELSE [bytes |-> IF utf8 THEN ConvertUTF32ToUTF8(ucs) ELSE <<ucs % 256>>,
            p |-> end + 1]

\* In the C locale, bytes beyond ASCII are their own lower case in either encoding.
ToLower(v) == IF v \in 65..90 THEN v + 32 ELSE v

\* StringEqual, of a text that is not empty: it begins with tag.
StringEqual(s, tag, ignoreCase) ==
  \A i \in DOMAIN tag :
    IF ignoreCase THEN ToLower(Byte(s, i)) = ToLower(tag[i]) ELSE Byte(s, i) = tag[i]

UTF8 == <<85, 84, 70, 45, 56>>    \* "UTF-8"

\* The encoding that TiXmlDocument::Parse goes on with after a declaration
Declared(encoding) ==
  IF encoding = <<>> THEN "utf8"
  ELSE IF \E tag \in {UTF8, <<85, 84, 70, 56>>} : StringEqual(encoding, tag, TRUE)
  THEN "utf8" ELSE "legacy"

\* GetChar, of a character that is no reference.  A character that the end of the
\* text cuts off leads past the zero byte.
GetChar(s, p, utf8) ==
  LET length == IF utf8 THEN utf8ByteTable[s[p]] ELSE 1
  IN  [bytes |-> SubSeq(s, p, IF p + length - 1 <= Len(s) THEN p + length - 1 ELSE Len(s)),
       p |-> p + length]

-----------------------------------------------------------------------------
\* Where the parser stands: data is [row, col, stamp, hangs].  Rows and columns count
\* from 0.

\* What one turn of Stamp's loop makes of data; tabsize > 0.
Turn(s, data, utf8, tabsize) ==
  LET p == data.stamp
      Pair(b) == IF Byte(s, p + 1) = b THEN 2 ELSE 1
      Line(n) == [data EXCEPT !.row = @ + 1, !.col = 0, !.stamp = @ + n]
      Column(n) == [data EXCEPT !.col = @ + 1, !.stamp = @ + n]
  IN  CASE s[p] = 13 -> Line(Pair(10))
        [] s[p] = 10 -> Line(Pair(13))
        [] s[p] = 9  -> [data EXCEPT !.col = (@ \div tabsize + 1) * tabsize, !.stamp = @ + 1]
        [] s[p] = 239 /\ utf8 /\ p + 2 > Len(s) -> [data EXCEPT !.hangs = TRUE]
        [] s[p] = 239 /\ utf8 /\ p + 2 <= Len(s) ->
             IF \E mark \in NoWidth : FromHere(s, p, mark)
             THEN [data EXCEPT !.stamp = @ + 3] ELSE Column(3)
        [] OTHER -> Column(IF utf8 THEN utf8ByteTable[s[p]] ELSE 1)

RECURSIVE Turns(_, _, _, _, _)
Turns(s, data, now, utf8, tabsize) ==
  IF data.stamp >= now \/ data.hangs THEN data
  ELSE Turns(s, Turn(s, data, utf8, tabsize), now, utf8, tabsize)

\* A tabsize of 0 turns the counting off.
Stamp(s, data, now, utf8, tabsize) ==
  IF tabsize < 1 THEN data ELSE Turns(s, data, now, utf8, tabsize)

Start == [row |-> 0, col |-> 0, stamp |-> 1, hangs |-> FALSE]

-----------------------------------------------------------------------------
\* What these compute

\* A character's bytes carry its number, and the table knows how many they are.
\* (ConvertUTF32ToUTF8, utf8ByteTable)
EncodingCarries(input) ==
  LET bytes == ConvertUTF32ToUTF8(input)
      Bits(i) == IF i > 1 THEN bytes[i] - 128
                 ELSE bytes[1] - <<0, 192, 224, 240>>[Len(bytes)]
      Sum(i) == Bits(i) * 64^(Len(bytes) - i)
  IN  /\ input = FoldFunction(LAMBDA a, b : a + b, 0, [i \in DOMAIN bytes |-> Sum(i)])
      /\ \A i \in 2..Len(bytes) : bytes[i] \in 128..191
      /\ input < 1114112 => utf8ByteTable[bytes[1]] = Len(bytes)

\* The bytes of a reference to input, in base
Numeral(input, base) ==
  LET places == {n \in 0..7 : n = 0 \/ input >= base^n}
      DigitByte(d) == IF d < 10 THEN 48 + d ELSE 87 + d
      digits == [i \in 1..Cardinality(places) |->
                  DigitByte((input \div base^(Cardinality(places) - i)) % base)]
  IN  <<38, 35>> \o (IF base = 16 THEN <<120>> ELSE <<>>) \o digits \o <<59>>

\* A reference is the character of its number, as far as an unsigned int holds it.
\* (GetEntity)
ReferenceRead(input, base) ==
  base = 16 \/ input < 2^UnsignedBits =>
    GetEntity(Numeral(input, base), 1, TRUE) =
      [bytes |-> ConvertUTF32ToUTF8(input % 2^UnsignedBits),
       p |-> Len(Numeral(input, base)) + 1]

\* Upper and lower case name the same encoding; what begins as UTF-8 is taken for it.
\* (TiXmlDocument::Parse, StringEqual, ToLower)
EncodingsKnown(encodings) ==
  \A encoding \in encodings :
    LET lower == [i \in DOMAIN encoding |-> ToLower(encoding[i])]
    IN  /\ Declared(encoding) = Declared(lower)
        /\ \A rest \in encodings : Declared(UTF8 \o rest) = "utf8"
        /\ StringEqual(encoding \o <<1>>, lower, FALSE) <=> encoding = lower

\* Where a character begins, for one that reads the text from its beginning
RECURSIVE Begins(_, _, _)
Begins(s, p, utf8) ==
  IF p > Len(s) THEN {p} ELSE {p} \cup Begins(s, GetChar(s, p, utf8).p, utf8)

\* Two characters that were encoded are read as two.  (GetChar)
CharactersApart(a, b) ==
  LET first == ConvertUTF32ToUTF8(a)  second == ConvertUTF32ToUTF8(b)
  IN  Begins(first \o second, 1, TRUE) =
        {1, Len(first) + 1, Len(first) + Len(second) + 1}

\* Stamping on the way does not change where the parser says it stands later.  Every
\* line end is a row, save that one and a different one after it can be one.
\* Stamp ends, unless the text does in the middle of a character that begins as the
\* mark does.  (TiXmlParsingData::Stamp)
StampsAgree(s, utf8, tabsize) ==
  LET At(q) == Stamp(s, Start, q, utf8, tabsize)
      begins == Begins(s, 1, utf8) \cap 1..Len(s) + 1
      Ends(q) == {i \in begins : i < q /\ s[i] \in {10, 13}}
      Pairs(q) == {i \in Ends(q) : i + 1 \in Ends(q) /\ s[i] # s[i + 1]}
  IN  \A q \in begins :
        /\ At(q).hangs <=>
             utf8 /\ \E p \in begins : p < q /\ s[p] = 239 /\ p + 2 > Len(s)
        /\ ~ At(q).hangs =>
             /\ \A p \in begins : p <= q => Stamp(s, At(p), q, utf8, tabsize) = At(q)
             /\ At(q).row \in Cardinality(Ends(q) \ Pairs(q))..Cardinality(Ends(q))
             /\ Pairs(q) # {} => At(q).row < Cardinality(Ends(q))
             /\ At(q).stamp \in q..Len(s) + 1
=============================================================================
