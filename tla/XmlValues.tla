----------------------------- MODULE XmlValues -----------------------------
(***************************************************************************)
(* Attribute values as numbers: what TiXmlElement and TiXmlAttribute write *)
(* for a number and read from a text.  An element is a function from the   *)
(* names of its attributes to their values (XmlAttributesContract), and a  *)
(* text a sequence of characters, "true" and the like being one.  A double *)
(* is a whole number here.  sscanf and printf are the C library's.         *)
(***************************************************************************)
EXTENDS Integers, SequencesExt

CONSTANTS
  IntBits,     \* the width of an int
  Precision    \* how many digits %g prints

Digits == <<"0", "1", "2", "3", "4", "5", "6", "7", "8", "9">>
Digit == [d \in Range(Digits) |-> (CHOOSE i \in 1..10 : Digits[i] = d) - 1]

At(text, p) == IF p \in DOMAIN text THEN text[p] ELSE "end"

\* The characters of S that text has from p on, without a gap
Run(text, p, S) ==
  SubSeq(text, p, -1 + CHOOSE q \in p..Len(text) + 1 :
                        At(text, q) \notin S /\ \A r \in p..q - 1 : text[r] \in S)

\* What %d prints for a number from 0 on
RECURSIVE Decimal(_)
Decimal(n) ==
  IF n < 10 THEN <<Digits[n + 1]>> ELSE Decimal(n \div 10) \o <<Digits[(n % 10) + 1]>>

Number(digits) == FoldLeft(LAMBDA n, d : 10 * n + Digit[d], 0, digits)
Wrapped(n) == ((n + 2^(IntBits - 1)) % 2^IntBits) - 2^(IntBits - 1)

Signed(n, text) == IF n < 0 THEN <<"-">> \o text ELSE text

\* Where the digits of a number begin, and the number
FirstDigit(text) ==
  LET p == Len(Run(text, 1, {" "})) + 1
  IN  IF At(text, p) \in {"-", "+"} THEN p + 1 ELSE p
WithSign(text, n) == IF At(text, FirstDigit(text) - 1) = "-" THEN - n ELSE n

\* sscanf of %d: the number that text begins with, if any.  glibc reads a long and
\* keeps the low bits.
ScannedInt(text) ==
  LET digits == Run(text, FirstDigit(text), Range(Digits))
  IN  IF digits = <<>> THEN {} ELSE {Wrapped(WithSign(text, Number(digits)))}

Largest == 2^(IntBits - 1) - 1

\* operator>> of an int: what does not fit fails and gives the nearest int, and what
\* is no number gives 0.  <<read, value>>
StreamedInt(text) ==
  LET digits == Run(text, FirstDigit(text), Range(Digits))
      n == WithSign(text, Number(digits))
  IN  CASE digits = <<>>        -> <<FALSE, 0>>
        [] n > Largest          -> <<FALSE, Largest>>
        [] n < - Largest - 1    -> <<FALSE, - Largest - 1>>
        [] OTHER                -> <<TRUE, n>>

\* sscanf of %lf, of a number with enough of an exponent to be whole
ScannedDouble(text) ==
  LET whole == Run(text, FirstDigit(text), Range(Digits))
      point == FirstDigit(text) + Len(whole)
      fraction == IF At(text, point) = "." THEN Run(text, point + 1, Range(Digits)) ELSE <<>>
      mark == point + (IF At(text, point) = "." THEN 1 + Len(fraction) ELSE 0)
      exponent == IF At(text, mark) = "e" /\ At(text, mark + 1) = "+"
                  THEN Number(Run(text, mark + 2, Range(Digits))) ELSE 0
  IN  IF whole \o fraction = <<>> THEN {}
      ELSE {WithSign(text, Number(whole \o fraction) * 10^(exponent - Len(fraction)))}

-----------------------------------------------------------------------------
\* TiXmlAttribute

SetIntValue(n) == Signed(n, Decimal(IF n < 0 THEN - n ELSE n))

\* n > 0 with Precision digits; a tie goes to the even one
Rounded(n) ==
  LET size == Len(Decimal(n))
      unit == IF size > Precision THEN 10^(size - Precision) ELSE 1
      down == n \div unit
      up == 2 * (n % unit) > unit \/ (2 * (n % unit) = unit /\ down % 2 = 1)
  IN  (IF up THEN down + 1 ELSE down) * unit

\* %g: plain up to Precision digits, with an exponent of two digits beyond
PrintedDouble(n) ==
  LET all == Decimal(Rounded(n))
      zeros == CHOOSE k \in 0..Len(all) - 1 :
                 /\ At(all, Len(all) - k) # "0"
                 /\ \A i \in Len(all) - k + 1..Len(all) : all[i] = "0"
      digits == SubSeq(all, 1, Len(all) - zeros)
      point == IF Len(digits) > 1 THEN <<".">> ELSE <<>>
      exponent == (IF Len(all) <= 10 THEN <<"0">> ELSE <<>>) \o Decimal(Len(all) - 1)
  IN  IF n = 0 \/ Len(all) <= Precision THEN Decimal(n)
      ELSE <<digits[1]>> \o point \o Tail(digits) \o <<"e", "+">> \o exponent

SetDoubleValue(n) == Signed(n, PrintedDouble(IF n < 0 THEN - n ELSE n))

\* What the caller gave as before stays when there is no number.
Queried(numbers, before) ==
  IF numbers = {} THEN [result |-> "WRONG_TYPE", value |-> before]
  ELSE [result |-> "SUCCESS", value |-> CHOOSE n \in numbers : TRUE]

QueryIntValue(text, before) == Queried(ScannedInt(text), before)
QueryDoubleValue(text, before) == Queried(ScannedDouble(text), before)

\* atoi
IntValue(text) == IF ScannedInt(text) = {} THEN 0 ELSE CHOOSE n \in ScannedInt(text) : TRUE

-----------------------------------------------------------------------------
\* TiXmlElement

NoAttribute(before) == [result |-> "NO_ATTRIBUTE", value |-> before]

QueryIntAttribute(attrs, name, before) ==
  IF name \notin DOMAIN attrs THEN NoAttribute(before)
  ELSE QueryIntValue(attrs[name], before)

QueryDoubleAttribute(attrs, name, before) ==
  IF name \notin DOMAIN attrs THEN NoAttribute(before)
  ELSE QueryDoubleValue(attrs[name], before)

\* What is no number makes the caller's value 0.
QueryUnsignedAttribute(attrs, name, before) ==
  LET read == QueryIntValue(attrs[name], 0)
  IN  IF name \notin DOMAIN attrs THEN NoAttribute(before)
      ELSE [read EXCEPT !.value = @ % 2^IntBits]

\* StringEqual compares the beginning, whatever the case, and its assertion does not
\* allow an empty value.
Beginning == [t \in {"true", "TRUE", "yes", "1"} |-> TRUE]
               @@ [f \in {"false", "FALSE", "no", "0"} |-> FALSE]

QueryBoolAttribute(attrs, name, before) ==
  CASE name \notin DOMAIN attrs -> NoAttribute(before)
    [] name \in DOMAIN attrs /\ attrs[name] = <<>> ->
         [result |-> "assertion", value |-> before]
    [] OTHER -> Queried(IF attrs[name][1] \in DOMAIN Beginning
                        THEN {Beginning[attrs[name][1]]} ELSE {}, before)

\* Attribute with a place for the number: the text, "null" if there is none
AttributeInt(attrs, name, before) ==
  [text |-> IF name \in DOMAIN attrs THEN <<attrs[name]>> ELSE <<>>,
   value |-> QueryIntAttribute(attrs, name, before).value]

AttributeDouble(attrs, name, before) ==
  [text |-> IF name \in DOMAIN attrs THEN <<attrs[name]>> ELSE <<>>,
   value |-> QueryDoubleAttribute(attrs, name, before).value]

\* The float has its value only if the query succeeds.
QueryFloatAttribute(attrs, name, before) ==
  LET read == QueryDoubleAttribute(attrs, name, 0)
  IN  IF read.result = "SUCCESS" THEN read ELSE [read EXCEPT !.value = before]

QueryStringAttribute(attrs, name, before) ==
  IF name \notin DOMAIN attrs THEN NoAttribute(before)
  ELSE [result |-> "SUCCESS", value |-> attrs[name]]

\* QueryValueAttribute of an int
QueryValueAttribute(attrs, name, before) ==
  LET read == StreamedInt(attrs[name])
  IN  IF name \notin DOMAIN attrs THEN NoAttribute(before)
      ELSE [result |-> IF read[1] THEN "SUCCESS" ELSE "WRONG_TYPE", value |-> read[2]]

Set(attrs, name, text) == (name :> text) @@ attrs
SetAttribute(attrs, name, n) == Set(attrs, name, SetIntValue(n))
SetDoubleAttribute(attrs, name, n) == Set(attrs, name, SetDoubleValue(n))

-----------------------------------------------------------------------------
\* What the calls promise each other, of any element

Ints == - (2^(IntBits - 1))..2^(IntBits - 1) - 1

\* An int that was set is read by every call that reads one, whatever its sign, and
\* an unsigned that was set as an int is itself.  A text never gives more than an int.
\* (SetIntValue, QueryIntValue, QueryUnsignedAttribute, IntValue)
IntegersReturn(attrs, name) ==
  /\ \A n \in Ints :
       LET set == SetAttribute(attrs, name, n) IN
       /\ QueryIntAttribute(set, name, 0) = [result |-> "SUCCESS", value |-> n]
       /\ AttributeInt(set, name, 0) =
            [text |-> <<QueryStringAttribute(set, name, <<>>).value>>, value |-> n]
       /\ IntValue(set[name]) = n
       /\ AttributeDouble(set, name, 0).value = n
       /\ QueryValueAttribute(set, name, 0) = [result |-> "SUCCESS", value |-> n]
  /\ \A u \in 0..2^IntBits - 1 :
       /\ QueryUnsignedAttribute(SetAttribute(attrs, name, Wrapped(u)), name, 0).value = u
       /\ QueryIntValue(Decimal(u), 0) = [result |-> "SUCCESS", value |-> Wrapped(u)]
       /\ QueryIntValue(Decimal(u), 0).value \in Ints

\* The template finds out that a number is no int, which the other query does not.
\* (QueryValueAttribute, QueryIntAttribute)
OnlyTemplateChecks(attrs, name) ==
  \A n \in - (2^IntBits)..2^IntBits :
    LET set == Set(attrs, name, SetIntValue(n))
    IN  /\ QueryIntAttribute(set, name, 0).result = "SUCCESS"
        /\ QueryValueAttribute(set, name, 0).result = "SUCCESS" <=> n \in Ints
        /\ QueryValueAttribute(set, name, 0).value = n <=>
             QueryIntAttribute(set, name, 0).value = n

\* A double that was set is read as near as the digits of %g allow, and setting what
\* was read changes nothing.  (SetDoubleValue, QueryDoubleValue)
DoublesSettle(attrs, name, n) ==
  LET set == SetDoubleAttribute(attrs, name, n)
      read == QueryDoubleAttribute(set, name, 0).value
      Abs(k) == IF k < 0 THEN - k ELSE k
      size == Len(Decimal(Abs(n)))
  IN  /\ SetDoubleAttribute(set, name, read) = set
      /\ IF size <= Precision THEN read = n
         ELSE 2 * Abs(read - n) <= 10^(size - Precision)

\* A double is read as an int only while it is printed without an exponent; beyond
\* that the int is the digit before the point, and no error is reported.
IntsOfDoubles(attrs, name, n) ==
  LET read == QueryIntAttribute(SetDoubleAttribute(attrs, name, n), name, 0)
  IN  /\ read.result = "SUCCESS"
      /\ n \in Ints => (read.value = n <=> Rounded(n) < 10^Precision)

\* A failed query leaves the caller's value alone, except that of an unsigned and of
\* the template, which may become 0 or the nearest int.  (QueryIntAttribute,
\* QueryUnsignedAttribute, QueryValueAttribute)
FailuresKeep(attrs, name, before) ==
  /\ \A read \in {QueryIntAttribute(attrs, name, before),
                  QueryFloatAttribute(attrs, name, before),
                  QueryDoubleAttribute(attrs, name, before)} :
       read.result # "SUCCESS" => read.value = before
  /\ LET read == QueryUnsignedAttribute(attrs, name, before)
     IN  read.result # "SUCCESS" => read.value \in {before, 0}
  /\ LET read == QueryValueAttribute(attrs, name, before)
     IN  read.result # "SUCCESS" => read.value \in {before, 0, Largest, - Largest - 1}
=============================================================================
