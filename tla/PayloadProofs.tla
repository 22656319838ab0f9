---------------------------- MODULE PayloadProofs ----------------------------
(***************************************************************************)
(* Proofs about module Payload, for all sets of bytes, lengths and codes   *)
(* and for every bound.                                                    *)
(***************************************************************************)
EXTENDS Payload, NatLeast, SequenceTheorems, TLAPS

\* strlen finds the first zero, or the end.
LEMMA StrlenFinds ==
  ASSUME NEW b \in Seq(Nat)
  PROVE  /\ strlen(b) \in 0 .. Len(b)
         /\ \A i \in 1 .. strlen(b) : b[i] # 0
         /\ strlen(b) < Len(b) => b[strlen(b) + 1] = 0
<1> DEFINE Is(n) == /\ \A i \in 1 .. n : b[i] # 0
                    /\ n < Len(b) => b[n + 1] = 0
           Zeros == {i \in 1 .. Len(b) : b[i] = 0}
<1>1. Len(b) \in Nat
  OBVIOUS
<1>2. \E n \in 0 .. Len(b) : Is(n)
  <2>1. CASE Zeros = {}
    <3>1. Is(Len(b)) /\ Len(b) \in 0 .. Len(b)
      BY <1>1, <2>1
    <3>2. QED
      BY <3>1
  <2>2. CASE Zeros # {}
    <3> Zeros \subseteq Nat
      BY <1>1
    <3> HIDE DEF Zeros
    <3>1. PICK z \in Zeros : \A i \in Zeros : z <= i
      BY <2>2, LeastExists
    <3> USE DEF Zeros
    <3>2. z - 1 \in 0 .. Len(b) /\ (z - 1) + 1 = z
      BY <1>1, <3>1
    <3>3. \A i \in 1 .. z - 1 : b[i] # 0
      BY <1>1, <3>1
    <3>4. Is(z - 1)
      BY <3>1, <3>2, <3>3
    <3>5. QED
      BY <3>2, <3>4
  <2>3. QED
    BY <2>1, <2>2
<1>3. strlen(b) = CHOOSE n \in 0 .. Len(b) : Is(n)
  BY DEF strlen
<1> HIDE DEF Is
<1>4. strlen(b) \in 0 .. Len(b) /\ Is(strlen(b))
  BY <1>2, <1>3
<1>5. QED
  BY <1>4 DEF Is

\* There is one such place.
LEMMA StrlenIs ==
  ASSUME NEW b \in Seq(Nat), NEW n \in 0 .. Len(b),
         \A i \in 1 .. n : b[i] # 0, n < Len(b) => b[n + 1] = 0
  PROVE  strlen(b) = n
<1> DEFINE k == strlen(b)
<1>1. /\ k \in 0 .. Len(b) /\ \A i \in 1 .. k : b[i] # 0
      /\ k < Len(b) => b[k + 1] = 0
  BY StrlenFinds
<1>2. Len(b) \in Nat
  OBVIOUS
<1> HIDE DEF k
<1>3. ~ (k < n)
  <2>1. k < n => k + 1 \in 1 .. n /\ k < Len(b)
    BY <1>1, <1>2
  <2>2. QED
    BY <1>1, <2>1
<1>4. ~ (n < k)
  <2>1. n < k => n + 1 \in 1 .. k /\ n < Len(b)
    BY <1>1, <1>2
  <2>2. QED
    BY <1>1, <2>1
<1>5. k = n
  BY <1>1, <1>2, <1>3, <1>4
<1>6. QED
  BY <1>5 DEF k

\* A string is what comes before the zero, and has none itself.
LEMMA StringEnds ==
  ASSUME NEW b \in Seq(Nat)
  PROVE  /\ String(b) \in Seq(Nat) /\ Len(String(b)) = strlen(b)
         /\ \A i \in 1 .. strlen(b) : String(b)[i] = b[i]
         /\ strlen(String(b)) = strlen(b)
<1> DEFINE k == strlen(b)
<1>1. k \in 0 .. Len(b) /\ k \in Nat /\ Len(b) \in Nat /\ \A i \in 1 .. k : b[i] # 0
  BY StrlenFinds
<1> HIDE DEF k
<1>2. /\ SubSeq(b, 1, k) \in Seq(Nat) /\ Len(SubSeq(b, 1, k)) = k
      /\ \A i \in 1 .. k : SubSeq(b, 1, k)[i] = b[i]
  BY <1>1
<1>3. String(b) = SubSeq(b, 1, k)
  BY DEF String, k
<1>4. strlen(String(b)) = k
  <2>1. /\ String(b) \in Seq(Nat) /\ k \in 0 .. Len(String(b))
        /\ \A i \in 1 .. k : String(b)[i] # 0
        /\ ~ (k < Len(String(b)))
    BY <1>1, <1>2, <1>3
  <2>2. QED
    BY <2>1, StrlenIs
<1>5. QED
  BY <1>2, <1>3, <1>4 DEF k

\* A copy of n bytes has n bytes.
LEMMA StrncpyIs ==
  ASSUME NEW b \in Seq(Nat), NEW n \in Nat
  PROVE  /\ strncpy(b, n) \in Seq(Nat) /\ Len(strncpy(b, n)) = n
         /\ \A i \in 1 .. n : strncpy(b, n)[i] = IF i <= strlen(b) THEN b[i] ELSE 0
<1> DEFINE At(i) == IF i <= strlen(b) THEN b[i] ELSE 0
<1>1. strncpy(b, n) = [i \in 1 .. n |-> At(i)]
  BY DEF strncpy
<1>2. \A i \in 1 .. n : At(i) \in Nat
  <2> TAKE i \in 1 .. n
  <2>1. strlen(b) \in 0 .. Len(b) /\ Len(b) \in Nat
    BY StrlenFinds
  <2>2. i <= strlen(b) => i \in 1 .. Len(b)
    BY <2>1
  <2>3. QED
    BY <2>2
<1> HIDE DEF At
<1>3. [i \in 1 .. n |-> At(i)] \in Seq(Nat) /\ Len([i \in 1 .. n |-> At(i)]) = n
      /\ \A i \in 1 .. n : [j \in 1 .. n |-> At(j)][i] = At(i)
  BY <1>2
<1>4. QED
  BY <1>1, <1>3 DEF At

\* A zero behind a text is found there at the latest.
LEMMA ZeroIsFound ==
  ASSUME NEW c \in Seq(Nat)
  PROVE  c \o <<0>> \in Seq(Nat) /\ strlen(c \o <<0>>) < Len(c \o <<0>>)
<1> DEFINE d == c \o <<0>>
<1>1. d \in Seq(Nat) /\ Len(d) = Len(c) + 1 /\ d[Len(c) + 1] = 0 /\ Len(c) \in Nat
  OBVIOUS
<1> HIDE DEF d
<1>2. strlen(d) \in 0 .. Len(d) /\ \A i \in 1 .. strlen(d) : d[i] # 0
  BY <1>1, StrlenFinds
<1>3. strlen(d) # Len(d)
  BY <1>1, <1>2
<1>4. strlen(d) < Len(d)
  BY <1>1, <1>2, <1>3
<1>5. QED
  BY <1>1, <1>4 DEF d

\* The text of an honest callback goes through replyToMessage's copy unchanged.
LEMMA HonestCopy ==
  ASSUME NEW b \in Seq(Nat), NEW n \in 1 .. Len(b), n - strlen(b) \in {0, 1}
  PROVE  String(strncpy(b, n) \o <<0>>) = String(b)
<1> DEFINE k == strlen(b)
           c == strncpy(b, n)
           d == c \o <<0>>
<1>1. k \in 0 .. Len(b) /\ k \in Nat /\ n \in Nat /\ (\A i \in 1 .. k : b[i] # 0)
      /\ (n = k \/ n = k + 1)
  BY StrlenFinds
<1>2. c \in Seq(Nat) /\ Len(c) = n /\ \A i \in 1 .. n : c[i] = IF i <= k THEN b[i] ELSE 0
  BY <1>1, StrncpyIs
<1> HIDE DEF k, c
<1>3. /\ d \in Seq(Nat) /\ Len(d) = n + 1 /\ d[n + 1] = 0
      /\ \A i \in 1 .. n : d[i] = c[i]
  BY <1>1, <1>2
<1> HIDE DEF d
<1>4. \A i \in 1 .. k : d[i] = b[i]
  <2> TAKE i \in 1 .. k
  <2>1. i \in 1 .. n /\ i <= k
    BY <1>1
  <2>2. QED
    BY <1>2, <1>3, <2>1
<1>5. strlen(d) = k
  <2>1. \A i \in 1 .. k : d[i] # 0
    BY <1>1, <1>4
  <2>2. k \in 0 .. Len(d)
    <3>1. n <= Len(d) /\ k <= n
      BY <1>1, <1>3
    <3>2. QED
      BY <3>1, <1>1, <1>3
  <2>3. d[k + 1] = 0
    <3>1. CASE n = k
      BY <3>1, <1>3
    <3>2. CASE n = k + 1
      <4>1. k + 1 \in 1 .. n /\ ~(k + 1 <= k)
        BY <3>2, <1>1
      <4>2. c[k + 1] = 0
        BY <4>1, <1>2
      <4>3. QED
        BY <4>1, <4>2, <1>3
    <3>3. QED
      BY <3>1, <3>2, <1>1
  <2>4. QED
    BY <1>3, <2>1, <2>2, <2>3, StrlenIs
<1>6. /\ String(d) \in Seq(Nat) /\ Len(String(d)) = k
      /\ \A i \in 1 .. k : String(d)[i] = d[i]
  BY <1>3, <1>5, StringEnds
<1>7. /\ String(b) \in Seq(Nat) /\ Len(String(b)) = k
      /\ \A i \in 1 .. k : String(b)[i] = b[i]
  BY StringEnds DEF k
<1>8. \A i \in 1 .. k : String(d)[i] = String(b)[i]
  BY <1>4, <1>6, <1>7
<1>9. String(d) = String(b)
  BY <1>6, <1>7, <1>8, SeqEqual
<1>10. QED
  BY <1>9 DEF d, c

-----------------------------------------------------------------------------
\* A callback's text is a sequence of bytes, and an answer is not NULL.
LEMMA Answers ==
  ASSUME PayloadAssumption, NullAssumption
  PROVE  /\ Text \subseteq Seq(Nat)
         /\ \A g \in MessageProc : /\ g # NULL /\ g.len \in Int /\ g.code \in Code
                                   /\ g.bytes # NULL => g.bytes \in Seq(Nat)
<1>1. Text \subseteq Seq(Nat)
  <2>1. ASSUME NEW n \in 0 .. MaxSize, NEW b \in [1 .. n -> Byte \cup {0}]
        PROVE  b \in Seq(Nat)
    <3>1. n \in Nat
      BY DEF PayloadAssumption
    <3>2. Byte \cup {0} \subseteq Nat
      BY DEF PayloadAssumption
    <3>3. b \in [1 .. n -> Nat]
      BY <3>2
    <3>4. QED
      BY <3>1, <3>3
  <2>2. QED
    BY <2>1 DEF Text
<1>2. QED
  BY <1>1 DEF MessageProc, PayloadAssumption, NullAssumption

\* What replyToMessage copies is a text, and so is what the reply gets of it.
LEMMA CopiedIs ==
  ASSUME PayloadAssumption, NullAssumption, gave \in MessageProc,
         gave.len > 0 => gave.bytes # NULL
  PROVE  /\ Copied \in Seq(Nat) /\ Claimed \in Nat \ {0} /\ Len(Copied) = Claimed
         /\ Copied \o <<0>> \in Seq(Nat)
         /\ String(Copied \o <<0>>) \in Seq(Nat)
         /\ strlen(String(Copied \o <<0>>)) = Len(String(Copied \o <<0>>))
         /\ strlen(Copied \o <<0>>) < Len(Copied \o <<0>>)
<1>1. Copied \in Seq(Nat) /\ Claimed \in Nat \ {0} /\ Len(Copied) = Claimed
  <2>1. CASE gave.len > 0
    <3>1. gave.bytes \in Seq(Nat) /\ gave.len \in Nat
      BY <2>1, Answers
    <3>2. Copied = strncpy(gave.bytes, gave.len) /\ Claimed = gave.len
      BY <2>1 DEF Copied, Claimed
    <3>3. strncpy(gave.bytes, gave.len) \in Seq(Nat) /\ Len(strncpy(gave.bytes, gave.len)) = gave.len
      BY <3>1, StrncpyIs
    <3>4. QED
      BY <2>1, <3>1, <3>2, <3>3
  <2>2. CASE ~ (gave.len > 0)
    <3>1. Copied = <<99>> /\ Claimed = Len(<<99>>)
      BY <2>2 DEF Copied, Claimed, Instead
    <3>2. QED
      BY <3>1
  <2>3. QED
    BY <2>1, <2>2
<1> DEFINE d == Copied \o <<0>>
<1>2. d \in Seq(Nat) /\ strlen(d) < Len(d)
  BY <1>1, ZeroIsFound
<1> HIDE DEF d
<1>3. String(d) \in Seq(Nat) /\ strlen(String(d)) = Len(String(d))
  BY <1>2, StringEnds
<1>4. QED
  BY <1>1, <1>2, <1>3 DEF d

\* What the caller's block holds
Taken(s, l, last) ==
  [i \in 1 .. Size(last, l) |-> IF i <= l THEN strncpy(s, l)[i] ELSE 0]

\* The block for the caller: what is in it, and that it ends with a zero.
LEMMA TakenIs ==
  ASSUME NEW s \in Seq(Nat), strlen(s) = Len(s), NEW l \in Nat, NEW last \in Last(s, l)
  PROVE  /\ Size(last, l) \in Nat /\ Taken(s, l, last) \in Seq(Nat)
         /\ Len(Taken(s, l, last)) = Size(last, l)
         /\ Size(last, l) > 0 => Taken(s, l, last)[Size(last, l)] = 0
         /\ l > 0 /\ l \in {Len(s), Len(s) + 1} /\ (l = Len(s) => s[l] # 0) =>
              Taken(s, l, last) = s \o <<0>>
<1> DEFINE len == Size(last, l)
           r == Taken(s, l, last)
<1>1. len = (IF last = 0 THEN l ELSE l + 1) /\ len \in Nat
  BY DEF Size
<1>2. /\ \A i \in 1 .. l : strncpy(s, l)[i] = IF i <= Len(s) THEN s[i] ELSE 0
      /\ Len(s) \in Nat /\ \A i \in 1 .. Len(s) : s[i] \in Nat
  <2>1. \A i \in 1 .. l : strncpy(s, l)[i] = IF i <= strlen(s) THEN s[i] ELSE 0
    BY StrncpyIs
  <2>2. Len(s) \in Nat
    OBVIOUS
  <2>3. \A i \in 1 .. Len(s) : s[i] \in Nat
    OBVIOUS
  <2>4. QED
    BY <2>1, <2>2, <2>3
<1>3. /\ l \in 1 .. Len(s) => last = s[l]
      /\ l = Len(s) + 1 => last = 0
  BY <1>2 DEF Last
<1> HIDE DEF len
<1> DEFINE At(i) == IF i <= l THEN strncpy(s, l)[i] ELSE 0
<1>4. r = [i \in 1 .. len |-> At(i)]
  BY DEF len, Taken
<1> HIDE DEF r
<1>5. \A i \in 1 .. len : At(i) \in Nat /\ At(i) = IF i <= l /\ i <= Len(s) THEN s[i] ELSE 0
  <2> TAKE i \in 1 .. len
  <2>1. i \in Nat /\ i >= 1
    BY <1>1
  <2>2. CASE i <= l
    BY <1>2, <2>1, <2>2
  <2>3. CASE ~ (i <= l)
    BY <2>3
  <2>4. QED
    BY <2>2, <2>3
<1> HIDE DEF At
<1>6. r \in Seq(Nat) /\ Len(r) = len /\ \A i \in 1 .. len : r[i] = At(i)
  <2>1. \A i \in 1 .. len : At(i) \in Nat
    BY <1>5
  <2>2. [i \in 1 .. len |-> At(i)] \in Seq(Nat) /\ Len([i \in 1 .. len |-> At(i)]) = len
    BY <1>1, <2>1
  <2>3. \A i \in 1 .. len : [j \in 1 .. len |-> At(j)][i] = At(i)
    OBVIOUS
  <2> HIDE DEF At
  <2>4. QED
    BY <1>4, <2>2, <2>3
<1>7. ASSUME len > 0 PROVE r[len] = 0
  <2>1. len \in 1 .. len
    BY <1>1, <1>7
  <2>4. r[len] = IF len <= l /\ len <= Len(s) THEN s[len] ELSE 0
    BY <1>5, <1>6, <2>1
  <2>2. CASE len <= l /\ len <= Len(s)
    <3>1. last = 0 /\ len = l
      BY <1>1, <2>2
    <3>2. s[len] = 0
      BY <1>1, <1>3, <1>7, <2>2, <3>1
    <3>3. QED
      BY <2>4, <3>2, <2>2
  <2>3. QED
    BY <2>4, <2>2
<1>8. ASSUME l > 0, l \in {Len(s), Len(s) + 1}, l = Len(s) => s[l] # 0
      PROVE  r = s \o <<0>>
  <2>1. len = Len(s) + 1
    <3>1. CASE l = Len(s)
      BY <1>1, <1>2, <1>3, <1>8, <3>1
    <3>2. CASE l = Len(s) + 1
      BY <1>1, <1>3, <3>2
    <3>3. QED
      BY <1>8, <3>1, <3>2
  <2>2. /\ s \o <<0>> \in Seq(Nat) /\ Len(s \o <<0>>) = Len(s) + 1
        /\ \A i \in 1 .. Len(s) + 1 : (s \o <<0>>)[i] = IF i <= Len(s) THEN s[i] ELSE 0
    <3>1. <<0>> \in Seq(Nat) /\ Len(<<0>>) = 1 /\ <<0>>[1] = 0
      OBVIOUS
    <3>2. /\ s \o <<0>> \in Seq(Nat) /\ Len(s \o <<0>>) = Len(s) + 1
          /\ \A i \in 1 .. Len(s) + 1 :
               (s \o <<0>>)[i] = IF i <= Len(s) THEN s[i] ELSE <<0>>[i - Len(s)]
      BY <3>1, ConcatProperties
    <3>3. \A i \in 1 .. Len(s) + 1 : ~ (i <= Len(s)) => i - Len(s) = 1
      BY <1>2
    <3>4. QED
      BY <3>1, <3>2, <3>3
  <2>3. \A i \in 1 .. len : i <= Len(s) => i <= l
    BY <1>1, <1>2, <1>8
  <2>4. \A i \in 1 .. len : r[i] = (s \o <<0>>)[i]
    BY <1>5, <1>6, <2>1, <2>2, <2>3
  <2>5. QED
    BY <1>6, <2>1, <2>2, <2>4, SeqEqual
<1>9. QED
  BY <1>1, <1>6, <1>7, <1>8 DEF len, r

-----------------------------------------------------------------------------
\* The caller takes a reply: an honest callback's bytes are all there, and what
\* another program claimed is cut off by a zero.
LEMMA TakeReplyKeeps ==
  ASSUME PayloadAssumption, NullAssumption, IInv, TakeReply
  PROVE  IInv'
<1> DEFINE s == reply.str
           l == reply.len
<1>1. /\ reply \in Replies /\ reply.by \in {"library", "other"} /\ s \in Seq(Nat)
      /\ wants => l \in Nat
      /\ reply.code \in Code /\ strlen(s) = Len(s) /\ heap = {}
  BY DEF IInv, OnItsWay, HeapByStage, TakeReply, Replies
<1>2. /\ stage' = "back" /\ reply' = NULL /\ ret' = reply.code
      /\ UNCHANGED <<callVars, gave, copyVars>>
  BY DEF TakeReply
<1>3. CASE ~ wants
  <2>1. ret_len' = 0 /\ UNCHANGED <<retval, heap, lost, stray>>
    BY <1>3 DEF TakeReply
  <2>2. TypeOK' /\ HeapByStage' /\ OnItsWay'
    BY <1>1, <1>2, <2>1 DEF IInv, TypeOK, HeapByStage, OnItsWay, callVars, copyVars
  <2>3. Delivered' /\ Terminated' /\ NoneLeft'
    BY <1>1, <1>2, <2>1 DEF IInv, Delivered, Answered, Terminated, NoneLeft
  <2>4. QED
    BY <2>2, <2>3 DEF IInv
<1>4. CASE wants
  <2>1. PICK last \in Last(s, l) :
          /\ retval' = [i \in 1 .. Size(last, l) |-> IF i <= l THEN strncpy(s, l)[i] ELSE 0]
          /\ ret_len' = Size(last, l)
          /\ heap' = heap \cup {"retval"}
          /\ lost' = Lost("retval")
          /\ stray' = (stray \/ ~Inside(s, l))
    BY <1>4 DEF TakeReply
  <2>2. heap' = {"retval"} /\ lost' = lost
    BY <1>1, <2>1 DEF Lost
  <2>3. /\ ret_len' \in Nat /\ retval' \in Seq(Nat) /\ Len(retval') = ret_len'
        /\ ret_len' > 0 => retval'[ret_len'] = 0
        /\ l > 0 /\ l \in {Len(s), Len(s) + 1} /\ (l = Len(s) => s[l] # 0) =>
             retval' = s \o <<0>>
    <3> HIDE DEF s, l
    <3>1. retval' = Taken(s, l, last)
      BY <2>1 DEF Taken
    <3>2. s \in Seq(Nat) /\ l \in Nat /\ strlen(s) = Len(s)
      BY <1>1, <1>4
    <3>3. /\ Size(last, l) \in Nat /\ Taken(s, l, last) \in Seq(Nat)
          /\ Len(Taken(s, l, last)) = Size(last, l)
          /\ Size(last, l) > 0 => Taken(s, l, last)[Size(last, l)] = 0
          /\ l > 0 /\ l \in {Len(s), Len(s) + 1} /\ (l = Len(s) => s[l] # 0) =>
               Taken(s, l, last) = s \o <<0>>
      BY <3>2, TakenIs
    <3>4. QED
      BY <2>1, <3>1, <3>3
  <2>4. stray' \in BOOLEAN
    BY <2>1 DEF IInv, TypeOK, Inside
  <2>5. TypeOK' /\ HeapByStage' /\ OnItsWay'
    BY <1>1, <1>2, <2>2, <2>3, <2>4 DEF IInv, TypeOK, HeapByStage, OnItsWay, callVars, copyVars
  <2>6. Terminated' /\ NoneLeft'
    BY <1>2, <2>2, <2>3 DEF IInv, Terminated, NoneLeft
  <2>7. ASSUME gave # NULL, Honest
        PROVE  /\ retval' = (IF gave.bytes = NULL THEN Instead ELSE String(gave.bytes)) \o <<0>>
               /\ ret' = gave.code
    <3>1. gave \in MessageProc /\ (gave.len > 0 => gave.bytes # NULL)
      BY <1>1, <2>7 DEF IInv, OnItsWay, TypeOK
    <3>2. /\ s = String(Copied \o <<0>>) /\ l = Claimed /\ reply.code = gave.code
      BY <1>1, <2>7 DEF IInv, OnItsWay, TakeReply
    <3>3. Copied \in Seq(Nat) /\ l \in Nat \ {0} /\ Copied \o <<0>> \in Seq(Nat)
      BY <3>1, <3>2, <2>7, CopiedIs DEF Honest
    <3>4. CASE gave.bytes = NULL /\ gave.len = 0
      <4>1. Copied = <<99>> /\ l = 1
        BY <3>2, <3>4 DEF Copied, Claimed, Instead
      <4> DEFINE d == <<99>> \o <<0>>
      <4>2. d \in Seq(Nat) /\ Len(d) = 2 /\ d[1] = 99 /\ d[2] = 0
        OBVIOUS
      <4> HIDE DEF d
      <4>3. strlen(d) = 1
        <5>1. 1 \in 0 .. Len(d) /\ (\A i \in 1 .. 1 : d[i] # 0) /\ d[1 + 1] = 0
          BY <4>2
        <5>2. QED
          BY <4>2, <5>1, StrlenIs
      <4>4. s \in Seq(Nat) /\ Len(s) = 1 /\ s[1] = 99
        <5>1. /\ String(d) \in Seq(Nat) /\ Len(String(d)) = strlen(d)
              /\ \A i \in 1 .. strlen(d) : String(d)[i] = d[i]
          BY <4>2, StringEnds
        <5>2. s = String(d)
          BY <3>2, <4>1 DEF d
        <5>3. QED
          BY <4>2, <4>3, <5>1, <5>2
      <4>5. s = <<99>>
        BY <4>4
      <4>6. retval' = <<99>> \o <<0>>
        BY <2>3, <4>1, <4>4, <4>5
      <4>7. QED
        BY <1>2, <3>2, <3>4, <4>6 DEF Instead
    <3>5. CASE /\ gave.bytes # NULL /\ gave.len \in 1 .. Len(gave.bytes)
               /\ gave.len - strlen(gave.bytes) \in {0, 1}
      <4> DEFINE b == gave.bytes
      <4>1. b \in Seq(Nat) /\ gave.len > 0
        BY <3>1, <3>5, Answers
      <4>2. Copied = strncpy(b, gave.len) /\ l = gave.len
        BY <3>2, <4>1 DEF Copied, Claimed
      <4>3. s = String(b)
        BY <3>2, <3>5, <4>1, <4>2, HonestCopy
      <4>4. Len(s) = strlen(b) /\ \A i \in 1 .. strlen(b) : s[i] = b[i] /\ b[i] # 0
        BY <4>1, <4>3, StringEnds, StrlenFinds
      <4>5. strlen(b) \in Nat
        BY <4>1, StrlenFinds
      <4>6. l \in {Len(s), Len(s) + 1} /\ (l = Len(s) => s[l] # 0)
        BY <3>3, <3>5, <4>2, <4>4, <4>5
      <4>7. retval' = s \o <<0>>
        BY <2>3, <3>3, <4>6
      <4>8. QED
        BY <1>2, <3>2, <3>5, <4>3, <4>7
    <3>6. QED
      BY <2>7, <3>4, <3>5 DEF Honest
  <2>8. Delivered'
    BY <1>2, <2>3, <2>7 DEF Delivered, Answered, Honest
  <2>9. QED
    BY <2>5, <2>6, <2>8 DEF IInv
<1>5. QED
  BY <1>3, <1>4

\* replyToMessage has a copy with room for a zero, of one text or the other, and
\* no block of the callback's is in use any more.
LEMMA CopiesKeep ==
  ASSUME PayloadAssumption, NullAssumption, IInv, CopyPayload \/ CopyInstead
  PROVE  IInv'
<1>1. /\ stage = "returned" /\ stage' = "copied" /\ gave \in MessageProc
      /\ UNCHANGED <<callVars, gave, reply, callerVars>>
      /\ heap = IF gave.bytes = NULL THEN {} ELSE {"ret_value"}
  BY DEF CopyPayload, CopyInstead, IInv, HeapByStage, OnItsWay
<1>2. /\ return_msg' = Copied \o <<0>> /\ return_msg_len' = Claimed
      /\ gave.len > 0 => gave.bytes # NULL
  <2>1. CASE CopyPayload
    <3>1. [i \in 1 .. Room(gave.len) - gave.len |-> 0] = <<0>>
      <4>1. Room(gave.len) - gave.len = 1
        BY <1>1, Answers DEF Room
      <4>2. [i \in 1 .. 1 |-> 0] = <<0>>
        OBVIOUS
      <4>3. QED
        BY <4>1, <4>2
    <3>2. QED
      BY <2>1, <3>1 DEF CopyPayload, Copied, Claimed
  <2>2. CASE CopyInstead
    <3>1. ~ (gave.len > 0)
      BY <1>1, <2>2, Answers DEF CopyInstead
    <3>2. QED
      BY <2>2, <3>1 DEF CopyInstead, Copied, Claimed
  <2>3. QED
    BY <2>1, <2>2
<1>3. return_msg' \in Seq(Nat) /\ return_msg_len' \in Nat
  BY <1>1, <1>2, CopiedIs
<1>4. heap' = {"return_msg"} /\ stray' \in BOOLEAN
  BY <1>1 DEF CopyPayload, CopyInstead, Freed, IInv, TypeOK, Overruns
<1>5. NoneLeft'
  <2>1. \A g \in lost' : g \in lost \/ (g = gave /\ gave.bytes # NULL /\ gave.len <= 0)
    BY <1>1 DEF CopyPayload, CopyInstead, Lost
  <2>2. gave # NULL
    BY <1>1, Answers
  <2>3. QED
    BY <1>1, <2>1, <2>2 DEF IInv, NoneLeft
<1>6. TypeOK'
  BY <1>1, <1>3, <1>4 DEF IInv, TypeOK, callVars, callerVars
<1>7. HeapByStage' /\ OnItsWay'
  BY <1>1, <1>2, <1>4 DEF IInv, HeapByStage, OnItsWay, Copied, Claimed
<1>8. Delivered' /\ Terminated'
  BY <1>1 DEF Delivered, Answered, Terminated
<1>9. QED
  BY <1>5, <1>6, <1>7, <1>8 DEF IInv

\* The reply takes the string of the copy and its length.
LEMMA SendReplyKeeps ==
  ASSUME PayloadAssumption, NullAssumption, IInv, NEW fits \in BOOLEAN, SendReply(fits)
  PROVE  IInv'
<1>1. /\ stage = "copied" /\ stage' = "replied" /\ return_msg' = NULL /\ return_msg_len' = 0
      /\ UNCHANGED <<callVars, gave, callerVars, lost>>
      /\ gave \in MessageProc /\ (gave.len > 0 => gave.bytes # NULL)
      /\ return_msg = Copied \o <<0>> /\ return_msg_len = Claimed
      /\ heap' = {} /\ stray' \in BOOLEAN
  BY DEF SendReply, IInv, HeapByStage, OnItsWay, TypeOK
<1>2. /\ String(Copied \o <<0>>) \in Seq(Nat) /\ Claimed \in Nat
      /\ strlen(String(Copied \o <<0>>)) = Len(String(Copied \o <<0>>))
      /\ gave.code \in Code
  BY <1>1, CopiedIs, Answers
<1>3. reply' = IF fits
               THEN [by |-> "library", str |-> String(Copied \o <<0>>),
                     len |-> Claimed, code |-> gave.code]
               ELSE [by |-> "nobody"]
  BY <1>1 DEF SendReply
<1>4. reply' \in Replies
  BY <1>2, <1>3 DEF Replies
<1>5. TypeOK'
  BY <1>1, <1>4 DEF IInv, TypeOK, callVars, callerVars
<1>6. HeapByStage' /\ OnItsWay'
  BY <1>1, <1>2, <1>3, <1>4 DEF IInv, HeapByStage, OnItsWay, Copied, Claimed
<1>7. Delivered' /\ Terminated' /\ NoneLeft'
  BY <1>1 DEF IInv, Delivered, Answered, Terminated, NoneLeft
<1>8. QED
  BY <1>5, <1>6, <1>7 DEF IInv

\* Another program's reply has a string and whatever length it claims.
LEMMA ForeignReplyKeeps ==
  ASSUME PayloadAssumption, NullAssumption, IInv,
         NEW b \in Text, NEW len \in Length, NEW code \in Code,
         ForeignReply(String(b), len, code)
  PROVE  IInv'
<1>1. /\ stage = "asked" /\ stage' = "replied" /\ gave = NULL /\ heap = {}
      /\ reply' = [by |-> "other", str |-> String(b), len |-> len, code |-> code]
      /\ UNCHANGED <<callVars, gave, copyVars, callerVars, memVars>>
  BY DEF ForeignReply, IInv, HeapByStage, OnItsWay
<1>2. String(b) \in Seq(Nat) /\ strlen(String(b)) = Len(String(b))
  BY Answers, StringEnds
<1>3. reply' \in Replies
  BY <1>1, <1>2, PayloadAssumption DEF Replies, PayloadAssumption
<1>4. TypeOK'
  BY <1>1, <1>3 DEF IInv, TypeOK, callVars, copyVars, callerVars, memVars
<1>5. HeapByStage' /\ OnItsWay'
  BY <1>1, <1>2, <1>3 DEF IInv, HeapByStage, OnItsWay, memVars
<1>6. Delivered' /\ Terminated' /\ NoneLeft'
  BY <1>1 DEF IInv, Delivered, Answered, Terminated, NoneLeft, memVars
<1>7. QED
  BY <1>4, <1>5, <1>6 DEF IInv

\* Every step keeps the blocks in their places and an honest answer whole.
LEMMA NextKeeps ==
  ASSUME PayloadAssumption, NullAssumption, IInv, [Next]_vars
  PROVE  IInv'
<1> USE DEF IInv
<1>1. ASSUME NEW address \in BOOLEAN, Call(address)
      PROVE  IInv'
  <2>1. calls + 1 \in 0 .. MaxCalls
    BY <1>1 DEF Call, TypeOK, PayloadAssumption
  <2>2. TypeOK'
    BY <1>1, <2>1 DEF Call, TypeOK, copyVars, memVars
  <2>3. HeapByStage' /\ OnItsWay'
    BY <1>1 DEF Call, HeapByStage, OnItsWay, copyVars, memVars
  <2>4. Delivered' /\ Terminated' /\ NoneLeft'
    BY <1>1 DEF Call, HeapByStage, Delivered, Answered, Terminated, NoneLeft, memVars
  <2>5. QED
    BY <2>2, <2>3, <2>4
<1>2. ASSUME NEW answer \in MessageProc, CallbackReturns(answer)
      PROVE  IInv'
  <2>1. /\ heap = {} /\ lost' = lost
        /\ heap' = IF answer.bytes = NULL THEN {} ELSE {"ret_value"}
    BY <1>2 DEF CallbackReturns, HeapByStage, Lost
  <2>2. TypeOK' /\ HeapByStage' /\ OnItsWay'
    BY <1>2, <2>1 DEF CallbackReturns, TypeOK, HeapByStage, OnItsWay, callVars, copyVars,
                      callerVars
  <2>3. Delivered' /\ Terminated' /\ NoneLeft'
    BY <1>2, <2>1 DEF CallbackReturns, Delivered, Answered, Terminated, NoneLeft
  <2>4. QED
    BY <2>2, <2>3
<1>3. CASE CopyPayload \/ CopyInstead
  BY <1>3, CopiesKeep
<1>4. CASE CopyNull
  <2>1. TypeOK' /\ HeapByStage' /\ OnItsWay'
    BY <1>4 DEF CopyNull, TypeOK, HeapByStage, OnItsWay, callVars, copyVars, callerVars, memVars
  <2>2. Delivered' /\ Terminated' /\ NoneLeft'
    BY <1>4 DEF CopyNull, Delivered, Answered, Terminated, NoneLeft, memVars
  <2>3. QED
    BY <2>1, <2>2
<1>5. ASSUME NEW fits \in BOOLEAN, SendReply(fits)
      PROVE  IInv'
  BY <1>5, SendReplyKeeps
<1>6. ASSUME NEW b \in Text, NEW len \in Length, NEW code \in Code,
             ForeignReply(String(b), len, code)
      PROVE  IInv'
  BY <1>6, ForeignReplyKeeps
<1>7. CASE NoReply
  <2>1. reply' \in Replies /\ reply'.by = "nobody"
    BY <1>7 DEF NoReply, Replies
  <2>2. TypeOK' /\ HeapByStage' /\ OnItsWay'
    BY <1>7, <2>1 DEF NoReply, TypeOK, HeapByStage, OnItsWay, callVars, copyVars, callerVars,
                      memVars
  <2>3. Delivered' /\ Terminated' /\ NoneLeft'
    BY <1>7 DEF NoReply, Delivered, Answered, Terminated, NoneLeft, memVars
  <2>4. QED
    BY <2>2, <2>3
<1>8. CASE TakeReply
  BY <1>8, TakeReplyKeeps
<1>9. CASE TakeFailure
  <2>1. heap = {} /\ heap' = {}
    BY <1>9 DEF TakeFailure, HeapByStage, memVars
  <2>2. TypeOK' /\ HeapByStage' /\ OnItsWay'
    BY <1>9, <2>1 DEF TakeFailure, TypeOK, HeapByStage, OnItsWay, callVars, copyVars, memVars,
                      PayloadAssumption
  <2>3. Delivered' /\ Terminated' /\ NoneLeft'
    BY <1>9, <2>1 DEF TakeFailure, Delivered, Answered, Terminated, NoneLeft, memVars
  <2>4. QED
    BY <2>2, <2>3
<1>10. CASE CallerFrees
  <2>1. heap' = {}
    BY <1>10 DEF CallerFrees, HeapByStage
  <2>2. TypeOK' /\ HeapByStage' /\ OnItsWay'
    BY <1>10, <2>1 DEF CallerFrees, TypeOK, HeapByStage, OnItsWay, callVars, copyVars
  <2>3. Delivered' /\ Terminated' /\ NoneLeft'
    BY <1>10, <2>1 DEF CallerFrees, Delivered, Answered, Terminated, NoneLeft
  <2>4. QED
    BY <2>2, <2>3
<1>11. CASE TakeOutside
  <2>1. heap = {} /\ heap' = {}
    BY <1>11 DEF TakeOutside, HeapByStage
  <2>2. TypeOK' /\ HeapByStage' /\ OnItsWay'
    BY <1>11, <2>1 DEF TakeOutside, TypeOK, HeapByStage, OnItsWay, callVars, copyVars, callerVars
  <2>3. Delivered' /\ Terminated' /\ NoneLeft'
    BY <1>11, <2>1 DEF TakeOutside, Delivered, Answered, Terminated, NoneLeft
  <2>4. QED
    BY <2>2, <2>3
<1>12. CASE UNCHANGED vars
  <2>1. TypeOK' /\ HeapByStage' /\ OnItsWay'
    BY <1>12 DEF vars, TypeOK, HeapByStage, OnItsWay, callVars, copyVars, callerVars, memVars,
                 Copied, Claimed
  <2>2. Delivered' /\ Terminated' /\ NoneLeft'
    BY <1>12 DEF vars, Delivered, Answered, Honest, Terminated, NoneLeft, callVars,
                 copyVars, callerVars, memVars
  <2>3. QED
    BY <2>1, <2>2
<1>13. QED
  BY <1>1, <1>2, <1>3, <1>4, <1>5, <1>6, <1>7, <1>8, <1>9, <1>10, <1>11,
     <1>12 DEF Next

-----------------------------------------------------------------------------
\* What is in use at each stage, and how far an answer has come, holds of every
\* payload, for all bytes, lengths and codes.
THEOREM PayloadInvariance == Spec => []IInv
<1>1. Init => IInv
  <2>1. 0 \in 0 .. MaxCalls
    BY PayloadAssumption DEF PayloadAssumption
  <2>2. ASSUME Init
        PROVE  TypeOK
    <3>1. calls \in 0 .. MaxCalls
      BY <2>1, <2>2 DEF Init
    <3>2. /\ stage \in {"idle", "asked", "returned", "copied", "replied", "back", "crashed"}
          /\ wants \in BOOLEAN /\ stray \in BOOLEAN
          /\ heap \subseteq {"ret_value", "return_msg", "retval"}
          /\ return_msg_len \in Nat /\ ret_len \in Nat
      BY <2>2 DEF Init
    <3>3. /\ gave \in MessageProc \cup {NULL}
          /\ return_msg \in Seq(Nat) \cup {NULL} /\ retval \in Seq(Nat) \cup {NULL}
          /\ reply \in Replies \cup {NULL} /\ ret \in Code \cup {NULL}
      BY <2>2 DEF Init
    <3>4. QED
      BY <3>1, <3>2, <3>3 DEF TypeOK
  <2>3. Init => HeapByStage /\ OnItsWay
    BY DEF Init, HeapByStage, OnItsWay
  <2>4. Init => Delivered /\ Terminated /\ NoneLeft
    BY DEF Init, Delivered, Answered, Terminated, NoneLeft
  <2>5. QED
    BY <2>2, <2>3, <2>4 DEF IInv
<1>2. IInv /\ [Next]_vars => IInv'
  BY NextKeeps, PayloadAssumption, NullAssumption
<1>3. QED
  BY <1>1, <1>2, PTL DEF Spec

\* A text before a zero is found in the block again.
LEMMA TextIsFound ==
  ASSUME NEW b \in Seq(Nat)
  PROVE  /\ String(String(b) \o <<0>>) = String(b)
         /\ strlen(String(b) \o <<0>>) = strlen(b)
         /\ Len(String(b) \o <<0>>) = strlen(b) + 1 /\ strlen(b) \in Nat
<1> DEFINE s == String(b)
           k == strlen(b)
           d == s \o <<0>>
<1>1. /\ s \in Seq(Nat) /\ Len(s) = k /\ k \in Nat
      /\ \A i \in 1 .. k : s[i] = b[i] /\ b[i] # 0
  BY StringEnds, StrlenFinds
<1> HIDE DEF s, k
<1>2. d \in Seq(Nat) /\ Len(d) = k + 1 /\ d[k + 1] = 0 /\ \A i \in 1 .. k : d[i] = s[i]
  BY <1>1
<1> HIDE DEF d
<1>3. strlen(d) = k
  <2>1. k \in 0 .. Len(d) /\ (\A i \in 1 .. k : d[i] # 0) /\ d[k + 1] = 0
    BY <1>1, <1>2
  <2>2. QED
    BY <1>2, <2>1, StrlenIs
<1>4. String(d) \in Seq(Nat) /\ Len(String(d)) = k /\ \A i \in 1 .. k : String(d)[i] = s[i]
  BY <1>2, <1>3, StringEnds
<1>5. String(d) = s
  BY <1>1, <1>4, SeqEqual
<1>6. QED
  BY <1>1, <1>2, <1>3, <1>5 DEF d, s, k

\* The payload that an honest callback gives is the text its caller gets, inside
\* a block that ends it with a zero, with the callback's code and a length that
\* ends with the text or with its zero.  (DbusOperate::replyToMessage,
\* sendMethodMsg)
THEOREM IntactOnArrival == Spec => []ArrivesIntact
<1>1. IInv => ArrivesIntact
  <2> SUFFICES ASSUME IInv, Answered, Honest, gave.bytes # NULL
               PROVE  /\ String(retval) = String(gave.bytes)
                      /\ strlen(retval) < Len(retval)
                      /\ ret_len - strlen(retval) \in {0, 1}
                      /\ ret = gave.code
    BY DEF ArrivesIntact
  <2> DEFINE b == gave.bytes
  <2>1. retval = String(b) \o <<0>> /\ ret_len = Len(retval) /\ ret = gave.code
    BY DEF IInv, Delivered
  <2>2. b \in Seq(Nat)
    BY Answers, PayloadAssumption, NullAssumption DEF IInv, TypeOK, Answered
  <2> HIDE DEF b
  <2>3. /\ String(retval) = String(b) /\ strlen(retval) = strlen(b)
        /\ Len(retval) = strlen(b) + 1 /\ strlen(b) \in Nat
    BY <2>1, <2>2, TextIsFound
  <2>4. QED
    BY <2>1, <2>3 DEF b
<1>2. QED
  BY <1>1, PayloadInvariance, PTL

\* Whoever answered and whatever length was claimed, the caller's block ends
\* with a zero.  (DbusOperate::sendMethodMsg)
THEOREM AlwaysTerminated == Spec => []Terminated
<1>1. IInv => Terminated
  BY DEF IInv
<1>2. QED
  BY <1>1, PayloadInvariance, PTL

\* No path forgets a block, but for a callback's block that came without a length.
THEOREM NothingLeft == Spec => []NoneLeft
<1>1. IInv => NoneLeft
  BY DEF IInv
<1>2. QED
  BY <1>1, PayloadInvariance, PTL

\* The code reads outside its blocks and strings only for the answer of a
\* callback or a program that claims a wrong length.
THEOREM HonestReadsInside == Spec => ReadsInside
<1> DEFINE Fine == \/ gave # NULL /\ ~Honest
                   \/ reply # NULL /\ reply.by = "other"
<1>1. ASSUME IInv, Next, ~stray, stray'
      PROVE  Fine
  <2>1. CASE CopyPayload
    <3>1. Overruns(gave.bytes, gave.len) /\ gave \in MessageProc
      BY <1>1, <2>1 DEF CopyPayload, IInv, OnItsWay
    <3>2. gave # NULL /\ gave.bytes # NULL /\ gave.bytes \in Seq(Nat) /\ gave.len \in Int
      BY <2>1, <3>1, Answers, PayloadAssumption, NullAssumption DEF CopyPayload
    <3>3. gave.len > Len(gave.bytes)
      BY <3>1 DEF Overruns
    <3>4. ~ (gave.len \in 1 .. Len(gave.bytes))
      BY <3>2, <3>3
    <3>5. QED
      BY <3>2, <3>4 DEF Honest
  <2>2. ASSUME NEW fits \in BOOLEAN, SendReply(fits)
        PROVE  FALSE
    <3>1. strlen(return_msg) = Len(return_msg) /\ return_msg = Copied \o <<0>>
          /\ gave \in MessageProc /\ (gave.len > 0 => gave.bytes # NULL)
      BY <1>1, <2>2 DEF SendReply, IInv, OnItsWay
    <3>2. /\ Copied \o <<0>> \in Seq(Nat)
          /\ strlen(Copied \o <<0>>) < Len(Copied \o <<0>>)
      BY <3>1, CopiedIs, PayloadAssumption, NullAssumption
    <3>3. Len(Copied \o <<0>>) \in Nat
      BY <3>2
    <3>4. QED
      BY <3>1, <3>2, <3>3
  <2>3. CASE TakeReply \/ TakeOutside
    <3>1. reply \in Replies /\ reply.by \in {"library", "other"}
      BY <1>1, <2>3 DEF IInv, OnItsWay, TakeReply, TakeOutside, Replies
    <3>2. reply # NULL
      BY <3>1, NullAssumption
    <3>3. ASSUME reply.by = "library"
          PROVE  gave # NULL /\ ~Honest
      <4>1. /\ gave \in MessageProc /\ (gave.len > 0 => gave.bytes # NULL)
            /\ reply.str = String(Copied \o <<0>>) /\ reply.len = Claimed
            /\ ~ Inside(reply.str, reply.len)
        <5>1. /\ gave \in MessageProc /\ (gave.len > 0 => gave.bytes # NULL)
              /\ reply.str = String(Copied \o <<0>>) /\ reply.len = Claimed
          BY <1>1, <2>3, <3>3 DEF IInv, OnItsWay, TakeReply, TakeOutside
        <5>2. CASE TakeReply
          BY <1>1, <5>1, <5>2 DEF TakeReply
        <5>3. CASE TakeOutside
          <6>1. Len(reply.str) \in Nat /\ reply.len \in Nat
            BY <5>1, CopiedIs, PayloadAssumption, NullAssumption
          <6>2. QED
            BY <5>1, <5>3, <6>1 DEF TakeOutside, Inside
        <5>4. QED
          BY <2>3, <5>2, <5>3
      <4>2. ASSUME gave.bytes = NULL, gave.len = 0
            PROVE  FALSE
        <5>1. Claimed = 1
          BY <4>2 DEF Claimed, Instead
        <5>2. Len(reply.str) \in Nat
          BY <4>1, CopiedIs, PayloadAssumption, NullAssumption
        <5>3. QED
          BY <4>1, <5>1, <5>2 DEF Inside
      <4>3. ASSUME gave.bytes # NULL, gave.len \in 1 .. Len(gave.bytes),
                   gave.len - strlen(gave.bytes) \in {0, 1}
            PROVE  FALSE
        <5>1. gave.bytes \in Seq(Nat) /\ gave.len > 0 /\ gave.len \in Nat
          BY <4>1, <4>3, Answers, PayloadAssumption, NullAssumption
        <5>2. Copied = strncpy(gave.bytes, gave.len) /\ Claimed = gave.len
          BY <5>1 DEF Copied, Claimed
        <5>3. reply.str = String(gave.bytes)
          BY <4>1, <4>3, <5>1, <5>2, HonestCopy
        <5>4. Len(reply.str) = strlen(gave.bytes) /\ strlen(gave.bytes) \in Nat
          BY <5>1, <5>3, StringEnds, StrlenFinds
        <5>5. QED
          BY <4>1, <4>3, <5>1, <5>2, <5>4 DEF Inside
      <4>4. gave # NULL
        BY <4>1, Answers, PayloadAssumption, NullAssumption
      <4>5. QED
        BY <4>2, <4>3, <4>4 DEF Honest
    <3>4. QED
      BY <3>1, <3>2, <3>3
  <2>4. CASE UNCHANGED stray
    BY <1>1, <2>4
  <2>5. QED
    BY <1>1, <2>1, <2>2, <2>3, <2>4
       DEF Next, Call, CallbackReturns, CopyNull, CopyInstead, ForeignReply, NoReply, TakeFailure,
           CallerFrees, memVars
<1>2. IInv /\ [Next]_vars => [~stray /\ stray' => Fine]_vars
  BY <1>1
<1>3. QED
  BY <1>2, PayloadInvariance, PTL DEF Spec, ReadsInside
=============================================================================
