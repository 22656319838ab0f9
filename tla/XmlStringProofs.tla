--------------------------- MODULE XmlStringProofs ---------------------------
(***************************************************************************)
(* Proofs about module XmlString, for every set of strings and buffers:    *)
(* BuffersOwned is inductive.  All that changes a buffer goes through      *)
(* Swapped or InPlace, so that there is one lemma for each of them.        *)
(***************************************************************************)
EXTENDS XmlString, SequenceTheorems, TLAPS

\* A string that exchanges its buffer for a free one, or for the static empty one,
\* still has it alone.
LEMMA SwappedKeeps ==
  ASSUME StringAssumption, BuffersOwned,
         NEW s \in Str, NEW cap \in Nat, NEW str \in Seq(Char), Len(str) <= cap,
         NewRep(s, cap, str)
  PROVE  BuffersOwned'
<1> USE DEF Rep
<1> DEFINE r == rep[s]
<1>1. r \in Rep /\ nullrep \notin Buffer
  BY DEF BuffersOwned, RepTypeOK, StringAssumption
<1>2. PICK b \in Rep : /\ Swapped(s, r, b, IF b = nullrep THEN 0 ELSE cap,
                                  IF b = nullrep THEN <<>> ELSE str)
                       /\ b # nullrep => cap > 0 /\ b \in Free
  <2>1. CASE cap = 0
    BY <2>1, <1>1 DEF NewRep
  <2>2. CASE cap # 0
    BY <2>2, <1>1 DEF NewRep, Free
  <2>3. QED
    BY <2>1, <2>2
<1>3. /\ rep' = [rep EXCEPT ![s] = b]
      /\ capacity' = [x \in Rep |-> IF x = nullrep THEN 0 ELSE
                                    IF x = b THEN cap ELSE
                                    IF x = r THEN 0 ELSE capacity[x]]
      /\ text' = [x \in Rep |-> IF x = nullrep THEN <<>> ELSE
                                IF x = b THEN str ELSE
                                IF x = r THEN <<>> ELSE text[x]]
  BY <1>2 DEF Swapped
<1>4. RepTypeOK'
  <2>1. <<>> \in Seq(Char)
    OBVIOUS
  <2>2. QED
    BY <1>1, <1>3, <2>1 DEF BuffersOwned, RepTypeOK
<1>5. TextFits'
  <2>1. Len(<<>>) = 0
    OBVIOUS
  <2>2. QED
    BY <1>1, <1>3, <2>1 DEF BuffersOwned, RepTypeOK, TextFits
<1>6. \A t \in Str : rep[t] = b => b = nullrep
  <2> SUFFICES ASSUME b # nullrep, NEW t \in Str PROVE rep[t] # b
    OBVIOUS
  <2>1. b \in Buffer /\ capacity[b] = 0
    BY <1>2 DEF Free
  <2>2. QED
    BY <2>1 DEF BuffersOwned, NoneLost
<1>7. RepsApart'
  BY <1>1, <1>3, <1>6 DEF BuffersOwned, RepTypeOK, RepsApart
<1>8. NoneLost'
  <2> SUFFICES ASSUME NEW x \in Buffer
               PROVE  capacity'[x] > 0 <=> \E t \in Str : rep'[t] = x
    BY DEF NoneLost
  <2>1. x \in Rep /\ x # nullrep /\ (capacity[x] > 0 <=> \E t \in Str : rep[t] = x)
    BY <1>1 DEF BuffersOwned, NoneLost
  <2>2. CASE x = b
    BY <2>1, <2>2, <1>2, <1>3 DEF BuffersOwned, RepTypeOK
  <2>3. CASE x # b /\ x = r
    <3>1. \A t \in Str : rep'[t] # x
      BY <2>1, <2>3, <1>3 DEF BuffersOwned, RepTypeOK, RepsApart
    <3>2. QED
      BY <3>1, <2>1, <2>3, <1>3
  <2>4. CASE x # b /\ x # r
    <3>1. capacity'[x] = capacity[x]
      BY <2>1, <2>4, <1>3
    <3>2. (\E t \in Str : rep'[t] = x) <=> \E t \in Str : rep[t] = x
      BY <2>1, <2>4, <1>3 DEF BuffersOwned, RepTypeOK
    <3>3. QED
      BY <3>1, <3>2, <2>1
  <2>5. QED
    BY <2>2, <2>3, <2>4
<1>9. QED
  BY <1>4, <1>5, <1>7, <1>8 DEF BuffersOwned

\* A text that is written into the buffer that is there fits in it, and is no other
\* string's.
LEMMA InPlaceKeeps ==
  ASSUME StringAssumption, BuffersOwned,
         NEW s \in Str, NEW str \in Seq(Char), Len(str) <= capacity[rep[s]],
         InPlace(s, str)
  PROVE  BuffersOwned'
  BY DEF BuffersOwned, RepTypeOK, TextFits, RepsApart, NoneLost, InPlace

\* assign gives a string a text that fits.
LEMMA AssignKeeps ==
  ASSUME StringAssumption, BuffersOwned,
         NEW s \in Str, NEW str \in Seq(Char), Assign(s, str)
  PROVE  BuffersOwned'
<1>1. Len(str) \in Nat /\ capacity[rep[s]] \in Nat
  BY DEF BuffersOwned, RepTypeOK
<1>2. CASE NewRep(s, Len(str), str)
  BY <1>1, <1>2, SwappedKeeps
<1>3. CASE InPlace(s, str) /\ Len(str) <= capacity[rep[s]]
  BY <1>3, InPlaceKeeps
<1>4. QED
  BY <1>1, <1>2, <1>3 DEF Assign

\* append makes room for both texts, even where the second one is lost.
LEMMA AppendKeeps ==
  ASSUME StringAssumption, BuffersOwned,
         NEW s \in Str, NEW str \in Seq(Char), NEW own \in BOOLEAN,
         Append1(s, str, own)
  PROVE  BuffersOwned'
<1> DEFINE cap == capacity[rep[s]]
           newsize == Len(Value(s)) + Len(str)
<1>1. /\ Value(s) \in Seq(Char) /\ Len(Value(s)) \in Nat
      /\ Len(str) \in Nat /\ cap \in Nat
  BY DEF BuffersOwned, RepTypeOK, Value
<1>2. ASSUME NEW read \in Seq(Char), Len(read) = Len(str)
      PROVE  /\ Value(s) \o read \in Seq(Char)
             /\ Len(Value(s) \o read) = newsize
  BY <1>1, <1>2
<1>3. Deleted(str) \in Seq(Char) /\ Len(Deleted(str)) = Len(str)
  BY DEF Deleted, StringAssumption
<1>4. CASE newsize > cap
  <2>1. PICK read \in {str, Deleted(str)} : NewRep(s, newsize + cap, Value(s) \o read)
    BY <1>4 DEF Append1
  <2>2. /\ Value(s) \o read \in Seq(Char)
        /\ Len(Value(s) \o read) = newsize
    BY <1>2, <1>3, <2>1
  <2> HIDE DEF newsize, cap
  <2>3. newsize + cap \in Nat /\ newsize <= newsize + cap
    BY <1>1 DEF newsize
  <2>4. QED
    BY <2>1, <2>2, <2>3, SwappedKeeps
<1>5. CASE ~(newsize > cap)
  <2>1. InPlace(s, Value(s) \o str)
    BY <1>5 DEF Append1
  <2>2. /\ Value(s) \o str \in Seq(Char)
        /\ Len(Value(s) \o str) <= cap
    BY <1>1, <1>2, <1>5
  <2>3. QED
    BY <2>1, <2>2, InPlaceKeeps
<1>6. QED
  BY <1>4, <1>5

\* The rest of a string is a text.
LEMMA RestIsText ==
  ASSUME StringAssumption, BuffersOwned, NEW t \in Str, NEW str \in Rest(t)
  PROVE  str \in Seq(Char)
<1>1. Value(t) \in Seq(Char) /\ Len(Value(t)) \in Nat
  BY DEF BuffersOwned, RepTypeOK, Value
<1>2. PICK i \in Nat : str = SubSeq(Value(t), i + 1, Len(Value(t)))
  BY DEF Rest, StringAssumption
<1>3. QED
  BY <1>1, <1>2, SubSeqProperties

\* Every call keeps every string's buffer its own.
LEMMA NextKeeps ==
  ASSUME StringAssumption, BuffersOwned, [Next]_vars
  PROVE  BuffersOwned'
<1>1. ASSUME NEW s \in Str PROVE Value(s) \in Seq(Char) /\ Len(Value(s)) <= capacity[rep[s]]
                                 /\ Len(Value(s)) \in Nat /\ capacity[rep[s]] \in Nat
  BY DEF BuffersOwned, RepTypeOK, TextFits, Value
<1>2. ASSUME NEW s \in Str, NEW str \in Literal, AssignLiteral(s, str)
      PROVE  BuffersOwned'
  BY <1>2, AssignKeeps DEF AssignLiteral, StringAssumption
<1>3. ASSUME NEW s \in Str, NEW str \in Literal, AppendLiteral(s, str)
      PROVE  BuffersOwned'
  BY <1>3, AppendKeeps DEF AppendLiteral, StringAssumption
<1>4. ASSUME NEW s \in Str, NEW cap \in Room, Reserve(s, cap)
      PROVE  BuffersOwned'
  <2>1. cap \in Nat
    BY DEF StringAssumption
  <2>2. Len(Value(s)) <= cap
    BY <1>1, <1>4, <2>1 DEF Reserve
  <2>3. QED
    BY <1>1, <1>4, <2>1, <2>2, SwappedKeeps DEF Reserve
<1>5. ASSUME NEW s \in Str, Clear(s)
      PROVE  BuffersOwned'
  <2>1. <<>> \in Seq(Char) /\ Len(<<>>) <= 0
    OBVIOUS
  <2>2. QED
    BY <1>5, <2>1, SwappedKeeps DEF Clear
<1>6. ASSUME NEW s \in Str, NEW t \in Str, NEW str \in Rest(t), AssignString(s, t, str)
      PROVE  BuffersOwned'
  BY <1>6, RestIsText, AssignKeeps DEF AssignString
<1>7. ASSUME NEW s \in Str, NEW t \in Str, NEW str \in Rest(t), AppendString(s, t, str)
      PROVE  BuffersOwned'
  BY <1>7, RestIsText, AppendKeeps DEF AppendString
<1>8. ASSUME NEW s \in Str, NEW t \in Str, Copy(s, t)
      PROVE  BuffersOwned'
  BY <1>1, <1>8, SwappedKeeps DEF Copy
<1>9. ASSUME NEW s \in Str, NEW t \in Str, Swap(s, t)
      PROVE  BuffersOwned'
  <2>1. RepTypeOK' /\ TextFits'
    BY <1>9 DEF BuffersOwned, RepTypeOK, TextFits, Swap
  <2>2. RepsApart'
    BY <1>9 DEF BuffersOwned, RepTypeOK, RepsApart, Swap
  <2>3. ASSUME NEW b \in Buffer
        PROVE  (\E u \in Str : rep'[u] = b) <=> \E u \in Str : rep[u] = b
    BY <1>9 DEF BuffersOwned, RepTypeOK, Swap
  <2>4. NoneLost'
    BY <1>9, <2>3 DEF BuffersOwned, NoneLost, Swap
  <2>5. QED
    BY <2>1, <2>2, <2>4 DEF BuffersOwned
<1>10. ASSUME NEW s \in Str, NEW t \in Str, NEW u \in Str, AssignSum(s, t, u)
       PROVE  BuffersOwned'
  <2>1. Value(t) \o Value(u) \in Seq(Char)
    BY <1>1
  <2>2. QED
    BY <1>10, <2>1, AssignKeeps DEF AssignSum
<1>11. CASE UNCHANGED vars
  BY <1>11 DEF vars, BuffersOwned, RepTypeOK, TextFits, RepsApart, NoneLost
<1>12. QED
  BY <1>2, <1>3, <1>4, <1>5, <1>6, <1>7, <1>8, <1>9, <1>10, <1>11 DEF Next

\* Whatever a program does with its strings, each text fits in its buffer, no two
\* strings share one but the static empty one, and no buffer is lost.
\* (TiXmlString::assign, append, reserve, swap, operator+, quit)
THEOREM StringsOwnBuffers == Spec => []BuffersOwned
<1>1. Init => BuffersOwned
  <2>1. <<>> \in Seq(Char) /\ Len(<<>>) = 0
    OBVIOUS
  <2>2. QED
    BY <2>1, StringAssumption
       DEF Init, BuffersOwned, RepTypeOK, TextFits, RepsApart, NoneLost, Rep
<1>2. BuffersOwned /\ [Next]_vars => BuffersOwned'
  BY NextKeeps, StringAssumption
<1>3. QED
  BY <1>1, <1>2, PTL DEF Spec

-----------------------------------------------------------------------------
\* A string that exchanges its buffer has the new text, and no other string
\* notices.
LEMMA NewRepValues ==
  ASSUME StringAssumption, BuffersOwned,
         NEW s \in Str, NEW cap \in Nat, NEW str \in Seq(Char), Len(str) <= cap,
         NewRep(s, cap, str), NEW t \in Str
  PROVE  Value(t)' = IF t = s THEN str ELSE Value(t)
<1> DEFINE r == rep[s]
<1>1. r \in Rep /\ rep[t] \in Rep /\ rep \in [Str -> Rep] /\ nullrep \notin Buffer
      /\ Rep = Buffer \cup {nullrep}
  BY DEF BuffersOwned, RepTypeOK, StringAssumption, Rep
<1>2. text[nullrep] = <<>>
  <2>1. text[nullrep] \in Seq(Char) /\ Len(text[nullrep]) <= 0
    BY <1>1 DEF BuffersOwned, RepTypeOK, TextFits
  <2>2. QED
    BY <2>1, EmptySeq
<1>3. PICK b \in Rep : /\ Swapped(s, r, b, IF b = nullrep THEN 0 ELSE cap, str)
                       /\ b = nullrep => str = <<>>
                       /\ b # nullrep => b \in Free
  <2>1. CASE cap = 0
    <3>1. str = <<>>
      BY <2>1, EmptySeq
    <3>2. QED
      BY <2>1, <3>1, <1>1 DEF NewRep
  <2>2. CASE cap # 0
    BY <2>2, <1>1 DEF NewRep, Free
  <2>3. QED
    BY <2>1, <2>2
<1>4. /\ rep' = [rep EXCEPT ![s] = b]
      /\ text' = [x \in Rep |-> IF x = nullrep THEN <<>> ELSE
                                IF x = b THEN str ELSE
                                IF x = r THEN <<>> ELSE text[x]]
  BY <1>3 DEF Swapped
<1>5. CASE t = s
  BY <1>1, <1>3, <1>4, <1>5 DEF Value
<1>6. CASE t # s
  <2>1. rep'[t] = rep[t] /\ (rep[t] = r => rep[t] = nullrep)
    BY <1>1, <1>4, <1>6 DEF BuffersOwned, RepsApart
  <2>2. rep[t] = b => b = nullrep
    <3>1. b \in Free => \A u \in Str : rep[u] # b
      BY DEF Free, BuffersOwned, NoneLost
    <3>2. QED
      BY <1>3, <3>1
  <2>3. QED
    BY <1>1, <1>2, <1>4, <1>6, <2>1, <2>2 DEF Value
<1>7. QED
  BY <1>5, <1>6

\* What is written into a buffer shows in the string that has it and in no other.
LEMMA InPlaceValues ==
  ASSUME StringAssumption, BuffersOwned,
         NEW s \in Str, NEW str \in Seq(Char), Len(str) <= capacity[rep[s]],
         InPlace(s, str), NEW t \in Str
  PROVE  Value(t)' = IF t = s THEN str ELSE Value(t)
<1>1. /\ text' = [text EXCEPT ![rep[s]] = str] /\ rep' = rep
      /\ rep[s] \in Rep /\ rep[t] \in Rep /\ text \in [Rep -> Seq(Char)]
  BY DEF BuffersOwned, RepTypeOK, InPlace
<1>2. CASE rep[t] = rep[s] /\ t # s
  <2>1. rep[t] = nullrep
    BY <1>2 DEF BuffersOwned, RepsApart
  <2>2. Len(str) <= 0 /\ Len(text[nullrep]) <= 0 /\ text[nullrep] \in Seq(Char)
    BY <1>1, <1>2, <2>1 DEF BuffersOwned, TextFits
  <2>3. str = <<>> /\ text[nullrep] = <<>>
    BY <2>2, EmptySeq
  <2>4. QED
    BY <1>1, <1>2, <2>1, <2>3 DEF Value
<1>3. CASE rep[t] # rep[s] \/ t = s
  BY <1>1, <1>3 DEF Value
<1>4. QED
  BY <1>2, <1>3

\* assign gives the string the text, in whichever buffer.
LEMMA AssignValues ==
  ASSUME StringAssumption, BuffersOwned,
         NEW s \in Str, NEW str \in Seq(Char), Assign(s, str), NEW t \in Str
  PROVE  Value(t)' = IF t = s THEN str ELSE Value(t)
<1>1. Len(str) \in Nat /\ capacity[rep[s]] \in Nat
  BY DEF BuffersOwned, RepTypeOK
<1>2. CASE NewRep(s, Len(str), str)
  BY <1>1, <1>2, NewRepValues
<1>3. CASE InPlace(s, str) /\ Len(str) <= capacity[rep[s]]
  BY <1>3, InPlaceValues
<1>4. QED
  BY <1>1, <1>2, <1>3 DEF Assign

\* append puts the text behind the string's own, or garbage of its length when
\* the text was in the buffer that reserve deleted.
LEMMA AppendValues ==
  ASSUME StringAssumption, BuffersOwned,
         NEW s \in Str, NEW str \in Seq(Char), NEW own \in BOOLEAN,
         Append1(s, str, own)
  PROVE  \E read \in IF own THEN {str, Deleted(str)} ELSE {str} :
           \A t \in Str : Value(t)' = IF t = s THEN Value(s) \o read ELSE Value(t)
<1> DEFINE cap == capacity[rep[s]]
           newsize == Len(Value(s)) + Len(str)
<1>1. /\ Value(s) \in Seq(Char) /\ Len(Value(s)) \in Nat
      /\ Len(str) \in Nat /\ cap \in Nat
  BY DEF BuffersOwned, RepTypeOK, Value
<1>2. ASSUME NEW read \in Seq(Char), Len(read) = Len(str)
      PROVE  /\ Value(s) \o read \in Seq(Char)
             /\ Len(Value(s) \o read) = newsize
  BY <1>1, <1>2
<1>3. Deleted(str) \in Seq(Char) /\ Len(Deleted(str)) = Len(str)
  BY DEF Deleted, StringAssumption
<1>4. CASE newsize > cap
  <2>1. PICK read \in IF own THEN {str, Deleted(str)} ELSE {str} :
               NewRep(s, newsize + cap, Value(s) \o read)
    BY <1>4 DEF Append1
  <2>2. /\ Value(s) \o read \in Seq(Char)
        /\ Len(Value(s) \o read) = newsize
    BY <1>2, <1>3, <2>1
  <2> HIDE DEF newsize, cap
  <2>3. newsize + cap \in Nat /\ newsize <= newsize + cap
    BY <1>1 DEF newsize
  <2>4. \A t \in Str : Value(t)' = IF t = s THEN Value(s) \o read ELSE Value(t)
    BY <2>1, <2>2, <2>3, NewRepValues
  <2>5. QED
    BY <2>1, <2>4
<1>5. CASE ~(newsize > cap)
  <2>1. InPlace(s, Value(s) \o str)
    BY <1>5 DEF Append1
  <2>2. /\ Value(s) \o str \in Seq(Char)
        /\ Len(Value(s) \o str) <= cap
    BY <1>1, <1>2, <1>5
  <2>3. \A t \in Str : Value(t)' = IF t = s THEN Value(s) \o str ELSE Value(t)
    BY <2>1, <2>2, InPlaceValues
  <2>4. QED
    BY <2>3
<1>6. QED
  BY <1>4, <1>5

\* What the strings have, as the contract sees it
Texts == [s \in Str |-> Value(s)]

\* A call that gives one string a text is a step of the contract.
LEMMA BecomeStep ==
  ASSUME NEW s \in Str, NEW str, \A t \in Str : Value(t)' = IF t = s THEN str ELSE Value(t)
  PROVE  Texts' = [Texts EXCEPT ![s] = str]
  BY DEF Texts

\* Every call changes the texts as the contract says.
LEMMA ContractNext ==
  ASSUME StringAssumption, BuffersOwned, [Next]_vars
  PROVE  [Contract!Next]_Texts
<1>1. \A s \in Str : /\ Value(s) \in Seq(Char) /\ Len(Value(s)) <= capacity[rep[s]]
                     /\ Len(Value(s)) \in Nat /\ capacity[rep[s]] \in Nat
                     /\ Value(s) = Texts[s]
  BY DEF BuffersOwned, RepTypeOK, TextFits, Value, Texts
<1>2. \A t \in Str : Rest(t) = Contract!Rest(t) /\ Rest(t) \subseteq Seq(Char)
  BY RestIsText DEF Rest, Contract!Rest, Texts
<1>3. Literal \subseteq Seq(Char) /\ <<>> \in Seq(Char)
  BY DEF StringAssumption
<1>4. ASSUME NEW s \in Str, NEW str \in Literal, AssignLiteral(s, str)
      PROVE  Contract!Next
  <2>1. Texts' = [Texts EXCEPT ![s] = str]
    BY <1>3, <1>4, AssignValues, BecomeStep DEF AssignLiteral
  <2>2. QED
    BY <2>1 DEF Contract!Next, Contract!Become, Texts
<1>5. ASSUME NEW s \in Str, NEW str \in Literal, AppendLiteral(s, str)
      PROVE  Contract!Next
  <2>1. FALSE \in BOOLEAN /\ str \in Seq(Char) /\ Append1(s, str, FALSE)
    BY <1>3, <1>5 DEF AppendLiteral
  <2>2. \E read \in {str} :
          \A t \in Str : Value(t)' = IF t = s THEN Value(s) \o read ELSE Value(t)
    BY <2>1, AppendValues
  <2>3. Texts' = [Texts EXCEPT ![s] = Texts[s] \o str]
    BY <1>1, <2>2, BecomeStep
  <2>4. Contract!Become(s, Texts[s] \o str)
    BY <2>3 DEF Contract!Become, Texts
  <2>5. QED
    BY <2>4 DEF Contract!Next, Texts
<1>6. ASSUME NEW s \in Str, NEW cap \in Room, Reserve(s, cap)
      PROVE  Texts' = Texts
  <2>1. cap \in Nat
    BY DEF StringAssumption
  <2>2. Len(Value(s)) <= cap
    BY <1>1, <1>6, <2>1 DEF Reserve
  <2>3. \A t \in Str : Value(t)' = IF t = s THEN Value(s) ELSE Value(t)
    BY <1>1, <1>6, <2>1, <2>2, NewRepValues DEF Reserve
  <2>4. QED
    BY <2>3 DEF Texts
<1>7. ASSUME NEW s \in Str, Clear(s)
      PROVE  Contract!Next
  <2>1. Len(<<>>) <= 0
    OBVIOUS
  <2>2. Texts' = [Texts EXCEPT ![s] = <<>>]
    BY <1>3, <1>7, <2>1, NewRepValues, BecomeStep DEF Clear
  <2>3. QED
    BY <2>2 DEF Contract!Next, Contract!Become, Texts
<1>8. ASSUME NEW s \in Str, NEW t \in Str, NEW str \in Rest(t), AssignString(s, t, str)
      PROVE  Contract!Next
  <2>1. Texts' = [Texts EXCEPT ![s] = str]
    BY <1>2, <1>8, AssignValues, BecomeStep DEF AssignString
  <2>2. Contract!Become(s, str) /\ str \in Contract!Rest(t)
    BY <1>2, <2>1 DEF Contract!Become, Texts
  <2>3. QED
    BY <2>2 DEF Contract!Next
<1>9. ASSUME NEW s \in Str, NEW t \in Str, NEW str \in Rest(t), AppendString(s, t, str)
      PROVE  Contract!Next
  <2>1. PICK read \in IF s = t THEN {str, Deleted(str)} ELSE {str} :
               \A u \in Str : Value(u)' = IF u = s THEN Value(s) \o read ELSE Value(u)
    BY <1>2, <1>9, AppendValues DEF AppendString
  <2>2. Texts' = [Texts EXCEPT ![s] = Texts[s] \o read]
    BY <1>1, <2>1, BecomeStep
  <2>3. str \in Contract!Rest(t)
    BY <1>2
  <2>4. Contract!Become(s, Texts[s] \o read)
    BY <2>2 DEF Contract!Become, Texts
  <2>5. CASE read = str
    BY <2>3, <2>4, <2>5 DEF Contract!Next, Texts
  <2>6. CASE s = t /\ read = Deleted(str)
    BY <2>3, <2>4, <2>6 DEF Contract!Next, Texts, Deleted
  <2>7. QED
    BY <2>1, <2>5, <2>6
<1>10. ASSUME NEW s \in Str, NEW t \in Str, Copy(s, t)
       PROVE  Contract!Next
  <2>1. \A u \in Str : Value(u)' = IF u = s THEN Value(t) ELSE Value(u)
    BY <1>1, <1>10, NewRepValues DEF Copy
  <2>2. Texts' = [Texts EXCEPT ![s] = Texts[t]]
    BY <1>1, <2>1, BecomeStep
  <2>3. QED
    BY <2>2 DEF Contract!Next, Contract!Become, Texts
<1>11. ASSUME NEW s \in Str, NEW t \in Str, Swap(s, t)
       PROVE  Contract!Next
  <2>1. Texts' = [Texts EXCEPT ![s] = Texts[t], ![t] = Texts[s]]
    BY <1>11 DEF Swap, Texts, Value, BuffersOwned, RepTypeOK
  <2>2. QED
    BY <2>1 DEF Contract!Next, Texts
<1>12. ASSUME NEW s \in Str, NEW t \in Str, NEW u \in Str, AssignSum(s, t, u)
       PROVE  Contract!Next
  <2>1. Value(t) \o Value(u) \in Seq(Char)
    BY <1>1
  <2>2. Texts' = [Texts EXCEPT ![s] = Texts[t] \o Texts[u]]
    BY <1>1, <1>12, <2>1, AssignValues, BecomeStep DEF AssignSum
  <2>3. Contract!Become(s, Texts[t] \o Texts[u])
    BY <2>2 DEF Contract!Become, Texts
  <2>4. QED
    BY <2>3 DEF Contract!Next, Texts
<1>13. CASE UNCHANGED vars
  BY <1>13 DEF vars, Texts, Value
<1>14. QED
  BY <1>4, <1>5, <1>6, <1>7, <1>8, <1>9, <1>10, <1>11, <1>12, <1>13 DEF Next

\* Whatever the buffers do, a call changes the text of the string it is called on,
\* to what it was given, and of no other; only a string that is appended to itself
\* may get garbage for what was appended.
THEOREM StringsImplementContract == Spec => ImplementsContract
<1>1. Init => Contract!Init
  BY DEF Init, Contract!Init, Value, Rep
<1>2. BuffersOwned /\ [Next]_vars => [Contract!Next]_Texts
  BY ContractNext, StringAssumption
<1>3. QED
  BY <1>1, <1>2, StringsOwnBuffers, PTL DEF Spec, ImplementsContract, Contract!Spec, Texts
=============================================================================
