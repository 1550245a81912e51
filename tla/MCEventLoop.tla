----------------------------- MODULE MCEventLoop -----------------------------
(***************************************************************************)
(* Instances of EventLoop for TLC.                                         *)
(***************************************************************************)
EXTENDS EventLoop, TLC

CONSTANTS t1, t2, timer, event

(* event_loop_init() registers the timerfd before the eventfd.             *)
MCPosition == [c \in Channels |-> IF c = event THEN 1 ELSE 0]

Symmetry == Permutations(Threads)
=============================================================================
