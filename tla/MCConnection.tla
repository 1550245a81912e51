---------------------------- MODULE MCConnection ----------------------------
(***************************************************************************)
(* Instances of Connection for TLC.                                        *)
(***************************************************************************)
EXTENDS Connection

(* The safety properties speak of behaviours short of the Limits, and one  *)
(* that was met stays met: what follows it need not be explored for them.  *)
ShortOfLimits == met = {}
=============================================================================
