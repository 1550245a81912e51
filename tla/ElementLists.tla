---------------------------- MODULE ElementLists ----------------------------
(***************************************************************************)
(* What the vectors promise to the event loop and the poller: each holds a *)
(* list, and every operation changes exactly the lists it is given.  The   *)
(* other modules of this project use vectors as such lists.                *)
(***************************************************************************)
EXTENDS Integers, Sequences

CONSTANTS Vector, Value

VARIABLE lists

TypeOK == lists \in [Vector -> Seq(Value)]

Init == lists = [v \in Vector |-> <<>>]

Push(v, e) == lists' = [lists EXCEPT ![v] = Append(@, e)]

(* The last element takes the place of the deleted one.                    *)
Delete(v, k) ==
  lists' = [lists EXCEPT ![v] =
    [i \in 1 .. Len(@) - 1 |-> IF i = k THEN @[Len(@)] ELSE @[i]]]

Clear(v) == lists' = [lists EXCEPT ![v] = <<>>]

Exchange(v, w) == lists' = [lists EXCEPT ![v] = lists[w], ![w] = lists[v]]

Copy(v, w) == lists[v] = <<>> /\ lists' = [lists EXCEPT ![v] = lists[w]]

Next ==
  \E v \in Vector :
    \/ \E e \in Value : Push(v, e)
    \/ \E k \in 1 .. Len(lists[v]) : Delete(v, k)
    \/ Clear(v)
    \/ \E w \in Vector \ {v} : Exchange(v, w) \/ Copy(v, w)

Spec == Init /\ [][Next]_lists
=============================================================================
