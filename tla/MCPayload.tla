----------------------------- MODULE MCPayload -----------------------------
(***************************************************************************)
(* Constants for TLC.  Three bytes are a text of two and its zero, one of  *)
(* three without, and one with a zero inside; the lengths go from less     *)
(* than nothing to one more than that.                                     *)
(***************************************************************************)
EXTENDS Payload

MCLength == -1 .. 4
=============================================================================
