------------------------------- MODULE Payload -------------------------------
(***************************************************************************)
(* The payload of an answer: from the buffer that a callback allocates,    *)
(* through replyToMessage() and the reply's string and length, to the      *)
(* buffer that sendMethodMsg() allocates for its caller.  Three blocks of  *)
(* memory have each a place where they are freed, two lengths travel apart *)
(* from the bytes they count, and the reply may be another program's.      *)
(* Module Calls is about which answer arrives; this one is about what.     *)
(***************************************************************************)
EXTENDS Integers, Sequences

CONSTANTS
  Byte,      \* the bytes of a text, none of them the final zero
  MaxSize,   \* bound on the bytes a callback allocates
  Length,    \* the lengths a callback or another program's reply may claim
  Code,      \* the codes a callback may return
  MaxCalls,  \* bound on the requests made
  NULL

ASSUME PayloadAssumption ==
  /\ Byte \subseteq Nat \ {0} /\ Byte # {}
  /\ MaxSize \in Nat /\ MaxCalls \in Nat
  /\ Length \subseteq Int /\ 0 \in Length
  /\ "EGENERAL" \in Code

VARIABLES
  stage,   \* "idle", "asked", "returned", "copied", "replied", "back", "crashed"
  calls,   \* the requests made
  wants,   \* whether the caller gives an address for the payload
  gave,    \* the bytes, the length and the code a callback returned
  return_msg, return_msg_len,  \* replyToMessage's copy
  reply,   \* what the reply holds; its sender is this library or another
  retval, ret_len, ret,        \* what the caller has
  heap,    \* the blocks in use
  lost,    \* what callbacks gave when nobody would free a block any more
  stray    \* whether memory outside a block or a string was read

callVars == <<calls, wants>>
copyVars == <<return_msg, return_msg_len>>
callerVars == <<retval, ret_len, ret>>
memVars == <<heap, lost, stray>>
vars == <<stage, callVars, gave, copyVars, reply, callerVars, memVars>>

Text == UNION {[1 .. n -> Byte \cup {0}] : n \in 0 .. MaxSize}

\* What a callback may leave in retval and retLen, and return.  libdbus.h asks for
\* NULL and 0 together, for 0 or the one error; nothing checks that.
MessageProc == [bytes : Text \cup {NULL}, len : Length, code : Code]

\* The arguments of a reply with its sender, or that there is none
Replies == [by : {"library", "other"}, str : Seq(Nat), len : Int, code : Code]
             \cup [by : {"nobody"}]

ASSUME NullAssumption == NULL \notin MessageProc \cup Replies

\* "get info fail!", as one byte that no callback's text has
Instead == <<99>>

\* strlen, where the text may lack its zero, and strncpy
strlen(b) ==
  CHOOSE n \in 0 .. Len(b) :
    /\ \A i \in 1 .. n : b[i] # 0
    /\ n < Len(b) => b[n + 1] = 0

strncpy(b, n) == [i \in 1 .. n |-> IF i <= strlen(b) THEN b[i] ELSE 0]
Overruns(b, n) == strlen(b) = Len(b) /\ n > Len(b)

TypeOK ==
  /\ stage \in {"idle", "asked", "returned", "copied", "replied", "back", "crashed"}
  /\ calls \in 0 .. MaxCalls /\ wants \in BOOLEAN
  /\ gave \in MessageProc \cup {NULL}
  /\ return_msg \in Seq(Nat) \cup {NULL} /\ return_msg_len \in Nat
  /\ reply \in Replies \cup {NULL}
  /\ retval \in Seq(Nat) \cup {NULL}
  /\ ret_len \in Nat /\ ret \in Code \cup {NULL}
  /\ heap \subseteq {"ret_value", "return_msg", "retval"}
  /\ stray \in BOOLEAN

Init ==
  /\ stage = "idle" /\ calls = 0 /\ wants = FALSE
  /\ gave = NULL
  /\ return_msg = NULL /\ return_msg_len = 0
  /\ reply = NULL
  /\ retval = NULL /\ ret_len = 0 /\ ret = NULL
  /\ heap = {} /\ lost = {} /\ stray = FALSE

-----------------------------------------------------------------------------
\* The caller's variables keep what an earlier call left in them.
Call(address) ==
  /\ stage = "idle" /\ calls < MaxCalls
  /\ stage' = "asked" /\ calls' = calls + 1 /\ wants' = address
  /\ gave' = NULL /\ ret' = NULL
  /\ UNCHANGED <<copyVars, reply, retval, ret_len, memVars>>

\* The pointer to a block in use is overwritten.
Lost(block) == IF block \in heap THEN lost \cup {gave} ELSE lost

\* The callback returns; bytes is NULL or a block that it allocated.
CallbackReturns(answer) ==
  /\ stage = "asked"
  /\ stage' = "returned"
  /\ gave' = answer
  /\ IF answer.bytes = NULL THEN UNCHANGED <<heap, lost>>
     ELSE /\ heap' = heap \cup {"ret_value"}
          /\ lost' = Lost("ret_value")
  /\ UNCHANGED <<callVars, copyVars, reply, callerVars, stray>>

\* Slips: the copy has no room for a zero; the callback's block is kept.
Room_Exact(n) == n
Freed_Kept(blocks) == blocks

Room(n) == n + 1
Freed(blocks) == blocks \ {"ret_value"}

\* replyToMessage copies a payload that has a length and frees the callback's
\* block, or puts a text of its own in its place and forgets the block.
CopyPayload ==
  /\ stage = "returned" /\ gave.len > 0 /\ gave.bytes # NULL
  /\ stage' = "copied"
  /\ return_msg' = strncpy(gave.bytes, gave.len)
                     \o [i \in 1 .. Room(gave.len) - gave.len |-> 0]
  /\ return_msg_len' = gave.len
  /\ stray' = (stray \/ Overruns(gave.bytes, gave.len))
  /\ heap' = Freed(heap) \cup {"return_msg"}
  /\ UNCHANGED <<callVars, gave, reply, callerVars, lost>>

CopyNull ==
  /\ stage = "returned" /\ gave.len > 0 /\ gave.bytes = NULL
  /\ stage' = "crashed"
  /\ UNCHANGED <<callVars, gave, copyVars, reply, callerVars, memVars>>

CopyInstead ==
  /\ stage = "returned" /\ gave.len <= 0
  /\ stage' = "copied"
  /\ return_msg' = Instead \o <<0>>
  /\ return_msg_len' = Len(Instead)
  /\ heap' = (heap \ {"ret_value"}) \cup {"return_msg"}
  /\ lost' = Lost("ret_value")
  /\ UNCHANGED <<callVars, gave, reply, callerVars, stray>>

\* The string argument of the reply ends at the first zero.
String(b) == SubSeq(b, 1, strlen(b))

\* The reply is built and sent; or one of its arguments does not fit in the
\* memory, nothing is sent and the caller's pending call times out.
SendReply(fits) ==
  /\ stage = "copied"
  /\ IF fits
     THEN reply' = [by |-> "library", str |-> String(return_msg),
                    len |-> return_msg_len, code |-> gave.code]
     ELSE reply' = [by |-> "nobody"]
  /\ stray' = (stray \/ (fits /\ strlen(return_msg) = Len(return_msg)))
  /\ stage' = "replied"
  /\ return_msg' = NULL /\ return_msg_len' = 0
  /\ heap' = heap \ {"return_msg"}
  /\ UNCHANGED <<callVars, gave, callerVars, lost>>

\* Another program has the service's name; or no answer comes, or one without
\* the three arguments.  An unsigned length above INT_MAX is read into an int32_t
\* as a negative one.
ForeignReply(str, len, code) ==
  /\ stage = "asked"
  /\ reply' = [by |-> "other", str |-> str, len |-> len, code |-> code]
  /\ stage' = "replied"
  /\ UNCHANGED <<callVars, gave, copyVars, callerVars, memVars>>

NoReply ==
  /\ stage = "asked"
  /\ reply' = [by |-> "nobody"]
  /\ stage' = "replied"
  /\ UNCHANGED <<callVars, gave, copyVars, callerVars, memVars>>

-----------------------------------------------------------------------------
\* The bytes at ret_msg[ret_msg_len - 1]: those of the string and its zero;
\* any, where the length is not the string's.
Last(str, len) ==
  IF len \in 1 .. Len(str) THEN {str[len]} ELSE
  IF len = Len(str) + 1 THEN {0} ELSE Byte \cup {0}

Inside(str, len) == len \in 1 .. Len(str) + 1

\* A slip: the room is the length, whether it counts a zero or not.
Size_Claimed(last, len) == len

Size(last, len) == IF last = 0 THEN len ELSE len + 1

\* sendMethodMsg takes the reply and returns its code; the copy is filled with
\* zeros first.
TakeReply ==
  /\ stage = "replied" /\ reply.by # "nobody"
  /\ wants => reply.len >= 0
  /\ stage' = "back" /\ reply' = NULL
  /\ ret' = reply.code
  /\ IF wants
     THEN \E last \in Last(reply.str, reply.len) :
            LET len == Size(last, reply.len) IN
            /\ retval' = [i \in 1 .. len |-> IF i <= reply.len
                          THEN strncpy(reply.str, reply.len)[i] ELSE 0]
            /\ ret_len' = len
            /\ heap' = heap \cup {"retval"}
            /\ lost' = Lost("retval")
            /\ stray' = (stray \/ ~Inside(reply.str, reply.len))
     ELSE /\ ret_len' = 0
          /\ UNCHANGED <<retval, heap, lost, stray>>
  /\ UNCHANGED <<callVars, gave, copyVars>>

\* The byte before a length that is negative, or beyond the string, is read all
\* the same.  The process ends there, where that memory is not mapped, and with
\* a negative length in the memset or strncpy after it at the latest: malloc had
\* no room to give, and their size is huge.
TakeOutside ==
  /\ stage = "replied" /\ reply.by # "nobody" /\ wants
  /\ reply.len < 0 \/ reply.len > Len(reply.str) + 1
  /\ stage' = "crashed" /\ reply' = NULL
  /\ stray' = TRUE
  /\ UNCHANGED <<callVars, gave, copyVars, callerVars, heap, lost>>

\* Nothing was answered: the caller's variables are not touched.
TakeFailure ==
  /\ stage = "replied" /\ reply.by = "nobody"
  /\ stage' = "back" /\ reply' = NULL
  /\ ret' = "EGENERAL"
  /\ UNCHANGED <<callVars, gave, copyVars, retval, ret_len, memVars>>

\* The caller frees what it got, as libdbus.h tells it to.
CallerFrees ==
  /\ stage = "back"
  /\ stage' = "idle"
  /\ heap' = heap \ {"retval"}
  /\ retval' = NULL /\ ret_len' = 0
  /\ UNCHANGED <<callVars, gave, copyVars, reply, ret, lost, stray>>

Next ==
  \/ \E address \in BOOLEAN : Call(address)
  \/ \E answer \in MessageProc : CallbackReturns(answer)
  \/ CopyPayload \/ CopyNull \/ CopyInstead
  \/ \E fits \in BOOLEAN : SendReply(fits)
  \/ \E b \in Text, len \in Length, code \in Code :
       ForeignReply(String(b), len, code)
  \/ NoReply \/ TakeReply \/ TakeOutside \/ TakeFailure \/ CallerFrees

Spec == Init /\ [][Next]_vars

-----------------------------------------------------------------------------
(***************************************************************************)
(* Properties                                                              *)
(***************************************************************************)

\* A callback that does as libdbus.h:65-68 asks: no payload and no length, or
\* a payload and its number of bytes.  Its final zero may be missing, as the
\* length says where it ends; or it may be counted, as many callbacks do.
Honest ==
  \/ gave.bytes = NULL /\ gave.len = 0
  \/ /\ gave.bytes # NULL /\ gave.len \in 1 .. Len(gave.bytes)
     /\ gave.len - strlen(gave.bytes) \in {0, 1}

Answered == stage = "back" /\ gave # NULL /\ ret # NULL /\ wants /\ "retval" \in heap

\* The payload of an honest callback is the payload its caller gets: the same
\* text, ended by a zero inside the block, a length that ends where the text does
\* or counts its zero, and the callback's code; whether the callback's text had a
\* zero, counted it or lacked it.  (replyToMessage, sendMethodMsg)
ArrivesIntact ==
  Answered /\ Honest /\ gave.bytes # NULL =>
    /\ String(retval) = String(gave.bytes)
    /\ strlen(retval) < Len(retval)
    /\ ret_len - strlen(retval) \in {0, 1}
    /\ ret = gave.code

\* A block that the caller gets ends with a zero, whoever answered and
\* whatever length it claimed, but for a length of 0.
Terminated ==
  stage = "back" /\ "retval" \in heap /\ ret_len > 0 => retval[ret_len] = 0

\* No path forgets a block, and the caller's is the only one left after a call,
\* but for a callback's block that comes without a length, which is lost.
\* (DbusOperate::replyToMessage, sendMethodMsg)
NoneLeft ==
  /\ stage = "back" => heap \subseteq {"retval"}
  /\ stage \in {"idle", "asked"} => heap = {}
  /\ \A g \in lost : g # NULL /\ g.bytes # NULL /\ g.len <= 0

\* Nothing outside the blocks is read for an answer of an honest callback.
ReadsInside ==
  [][~stray /\ stray' => \/ gave # NULL /\ ~Honest
                         \/ reply # NULL /\ reply.by = "other"]_vars

-----------------------------------------------------------------------------
(***************************************************************************)
(* Why: which block is in use at which stage, and what of the callback's   *)
(* answer has come how far.                                                *)
(***************************************************************************)

HeapByStage ==
  /\ stage \in {"idle", "asked", "replied", "crashed"} => heap = {}
  /\ stage = "returned" => heap = IF gave.bytes = NULL THEN {} ELSE {"ret_value"}
  /\ stage = "copied" => heap = {"return_msg"}
  /\ stage = "back" => heap \subseteq {"retval"}

\* What replyToMessage makes of the callback's answer
Copied == IF gave.len > 0 THEN strncpy(gave.bytes, gave.len) ELSE Instead
Claimed == IF gave.len > 0 THEN gave.len ELSE Len(Instead)

OnItsWay ==
  /\ stage = "asked" => gave = NULL
  /\ stage \in {"returned", "copied"} => gave \in MessageProc
  /\ stage = "copied" => /\ gave.len > 0 => gave.bytes # NULL
                         /\ return_msg = Copied \o <<0>> /\ return_msg_len = Claimed
  /\ IF stage = "replied" THEN reply \in Replies ELSE reply = NULL
  /\ stage = "replied" /\ reply.by = "other" => gave = NULL
  /\ stage = "replied" /\ reply.by = "library" =>
       /\ gave \in MessageProc
       /\ gave.len > 0 => gave.bytes # NULL
       /\ reply.str = String(Copied \o <<0>>)
       /\ reply.len = Claimed /\ reply.code = gave.code
  /\ stage = "replied" /\ reply.by # "nobody" => strlen(reply.str) = Len(reply.str)
  /\ stage = "back" /\ "retval" \in heap => retval \in Seq(Nat) /\ ret_len = Len(retval)

\* The caller's block to the byte, after an honest answer
Delivered ==
  Answered /\ Honest =>
    /\ retval = (IF gave.bytes = NULL THEN Instead ELSE String(gave.bytes)) \o <<0>>
    /\ ret_len = Len(retval)
    /\ ret = gave.code

IInv == TypeOK /\ HeapByStage /\ OnItsWay /\ Delivered /\ Terminated /\ NoneLeft
=============================================================================
