------------------------------ MODULE MCCalls ------------------------------
(***************************************************************************)
(* Constants for TLC: the processes are "a" and "b".                       *)
(***************************************************************************)
EXTENDS Calls

MCOutcome1 == {[code |-> "SOK", payload |-> "value"]}
MCOutcome2 == {[code |-> "SOK", payload |-> "value"], [code |-> "SOK", payload |-> "none"]}

MCHome == [t \in Client |-> "b"]
=============================================================================
