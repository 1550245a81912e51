------------------------------ MODULE MCPoller ------------------------------
(***************************************************************************)
(* Instances of Poller for TLC.  Descriptors 3 and 35 share a chain and a  *)
(* cache slot, 11 shares only the slot.                                    *)
(***************************************************************************)
EXTENDS Poller, TLC

CONSTANTS c1, c2, c3, n1, n2, n3

(* Three channels of different descriptors ...                             *)
FdCollide == c1 :> 3 @@ c2 :> 35 @@ c3 :> 11

(* ... and two generations of connections on the same one.                 *)
FdReused == c1 :> 3 @@ c2 :> 35 @@ c3 :> 3

Symmetry == Permutations(Nodes)
=============================================================================
