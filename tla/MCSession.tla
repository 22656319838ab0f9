----------------------------- MODULE MCSession -----------------------------
(***************************************************************************)
(* Constants for TLC.  "a" and "b" are two services; the send name of "a"  *)
(* is "as", that of "b" is "bs".                                           *)
(***************************************************************************)
EXTENDS SessionInv, Sequences, TLC

MCService1 == {"a"}
MCName1 == {"a", "as"}
MCSendName1 == [s \in MCService1 |-> "as"]

MCService2 == {"a", "b"}
MCName2 == {"a", "as", "b", "bs"}
MCSendName2 == [s \in MCService2 |-> s \o "s"]

MCSymmetry == Permutations(Conn) \cup Permutations(Worker)
=============================================================================
