------------------------------ MODULE MCVector ------------------------------
(***************************************************************************)
(* Two vectors and two values, in batches of three: five elements take a   *)
(* block through both branches of vector_inc(), and a copy of five through *)
(* the loop of vector_copy() three times.                                  *)
(***************************************************************************)
EXTENDS Vector

CONSTANTS pending_funcs, local_funcs, f, g
=============================================================================
