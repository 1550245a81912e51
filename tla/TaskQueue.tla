----------------------------- MODULE TaskQueue -----------------------------
(***************************************************************************)
(* What the event loop promises about the functions that other threads     *)
(* hand to it: they wait in one line, the owner thread takes them from the *)
(* front of the line one at a time, and once the loop has returned nothing *)
(* more is run.                                                            *)
(***************************************************************************)
EXTENDS Sequences

CONSTANT Func

VARIABLES
  queue,    \* functions handed over and not yet run
  ran,      \* functions run, in the order they were run
  returned  \* the loop has returned

vars == <<queue, ran, returned>>

TypeOK ==
  /\ queue \in Seq(Func)
  /\ ran \in Seq(Func)
  /\ returned \in BOOLEAN

Init == queue = <<>> /\ ran = <<>> /\ returned = FALSE

Post(f) ==
  /\ queue' = Append(queue, f)
  /\ UNCHANGED <<ran, returned>>

Run ==
  /\ ~returned
  /\ queue # <<>>
  /\ ran' = Append(ran, Head(queue))
  /\ queue' = Tail(queue)
  /\ UNCHANGED returned

Return ==
  /\ returned' = TRUE
  /\ UNCHANGED <<queue, ran>>

Next == Run \/ Return \/ \E f \in Func : Post(f)

Spec == Init /\ [][Next]_vars
=============================================================================
