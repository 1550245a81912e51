---------------------------- MODULE MCTimerQueue ----------------------------
(***************************************************************************)
(* Instances of TimerQueue for TLC.                                        *)
(***************************************************************************)
EXTENDS TimerQueue, TLC

CONSTANTS t1, t2, t3

(* One delay that overflowed into the past and two others.                 *)
DelaysLost == {-1, 1, 2}

Symmetry == Permutations(Timers)
=============================================================================
