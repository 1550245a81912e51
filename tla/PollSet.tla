------------------------------ MODULE PollSet ------------------------------
(***************************************************************************)
(* What a poller promises to its channels: poll() is asked, for every      *)
(* channel, for the events that channel registered, and an operation on    *)
(* one channel says nothing about any other.                               *)
(***************************************************************************)
CONSTANTS Channel, Event, NONE

VARIABLE asked   \* the events poll() is asked for, or NONE

TypeOK == asked \in [Channel -> (SUBSET Event) \cup {NONE}]

Init == asked = [c \in Channel |-> NONE]

Ask(c, events) == asked' = [asked EXCEPT ![c] = events]

Drop(c) == asked[c] # NONE /\ asked' = [asked EXCEPT ![c] = NONE]

Next == \E c \in Channel : Drop(c) \/ \E e \in SUBSET Event : Ask(c, e)

Spec == Init /\ [][Next]_asked
=============================================================================
