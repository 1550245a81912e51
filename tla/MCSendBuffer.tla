---------------------------- MODULE MCSendBuffer ----------------------------
(***************************************************************************)
(* Instances of SendBuffer for TLC.                                        *)
(***************************************************************************)
EXTENDS SendBuffer, Bitwise

BitwiseAnd(a, b) == a & b
=============================================================================
