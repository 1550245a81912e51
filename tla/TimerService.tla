---------------------------- MODULE TimerService ----------------------------
(***************************************************************************)
(* What a timer queue promises: a timer that was set is called back once,  *)
(* not before its time, and not before one that is due earlier or, when    *)
(* due at the same time, was set earlier; when the service is over, the    *)
(* timers left are given up, and no other ever is.                         *)
(***************************************************************************)
EXTENDS Naturals

CONSTANTS Timers, Delays, Orders

VARIABLES
  now,
  pending,  \* the timers that are set: [timer, due, order]
  over

vars == <<now, pending, over>>

Init == now = 0 /\ pending = {} /\ over = FALSE

(* A timer is set, anew if it was set already.                             *)
Set(t, d) ==
  \E n \in Orders :
    LET others == {p \in pending : p.timer # t}
    IN  /\ ~over
        /\ \A p \in pending : p.order < n
        /\ pending' = others \cup {[timer |-> t, due |-> now + d, order |-> n]}
        /\ UNCHANGED <<now, over>>

Precedes(p, q) ==
  \/ p.due < q.due
  \/ p.due = q.due /\ p.order < q.order

Fire(p) ==
  /\ p \in pending
  /\ p.due <= now
  /\ \A q \in pending \ {p} : Precedes(p, q)
  /\ pending' = pending \ {p}
  /\ UNCHANGED <<now, over>>

End ==
  /\ ~over
  /\ over' = TRUE
  /\ pending' = {}
  /\ UNCHANGED now

Tick == now' = now + 1 /\ UNCHANGED <<pending, over>>

Next ==
  \/ \E t \in Timers, d \in Delays : Set(t, d)
  \/ \E p \in pending : Fire(p)
  \/ End
  \/ Tick

Spec == Init /\ [][Next]_vars
=============================================================================
