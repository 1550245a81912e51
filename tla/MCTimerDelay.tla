---------------------------- MODULE MCTimerDelay ----------------------------
(***************************************************************************)
(* Instances of TimerDelay for TLC.  The readings of the clock are the     *)
(* ends of a second and the one from which the least delay ends it.        *)
(***************************************************************************)
EXTENDS TimerDelay

SomeClocks == {0, Second - MinimalInterval, Second - 1}
=============================================================================
