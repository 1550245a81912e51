----------------------------- MODULE TimerDelay -----------------------------
(***************************************************************************)
(* The arithmetic on a delay, from el_run_after(ms) (eventloop.c) or a     *)
(* call of tq_add_timer(sec, ms) to the expiry that timer_set_value()      *)
(* (timer_queue.c) stores.  An int has 32 bits and its multiplication      *)
(* wraps around.                                                           *)
(*                                                                         *)
(* Nanoseconds are counted in units of 512: the product is a multiple of   *)
(* 2^13, a second of 2^9.                                                  *)
(***************************************************************************)
EXTENDS Integers

CONSTANTS
  MaxMs,    \* bound: milliseconds that are asked for
  MaxSecs,  \* bound: seconds that are asked for
  Clocks    \* readings of the clock's tv_nsec, in units

Second == 1953125                         \* units
MINIMAL_INTERVAL == 128                   \* ms
MinimalInterval == 250000                 \* units
IntRange == 8388608                       \* units in 2^32 ns

ASSUME DelayAssumption ==
  /\ MaxMs \in Nat /\ MaxMs <= 1000000
  /\ MaxSecs \in Nat
  /\ Clocks \subseteq 0 .. Second - 1

VARIABLES
  pc,
  caller,  \* "el_run_after" or "tq_add_timer"
  asked,   \* what it asked for: [secs, ms]
  secs, ms,
  clock,   \* the reading's tv_nsec; its tv_sec is 0
  expire   \* now in timer_set_value(), and the timer's expire in the end

vars == <<pc, caller, asked, secs, ms, clock, expire>>

Init ==
  /\ asked \in [secs : 0 .. MaxSecs, ms : 0 .. MaxMs]
  /\ \/ caller = "el_run_after" /\ pc = "RunAfter" /\ asked.secs = 0
     \/ caller = "tq_add_timer" /\ pc = "AddTimer"
  /\ secs = asked.secs
  /\ ms = asked.ms
  /\ clock \in Clocks
  /\ expire = [sec |-> 0, nsec |-> clock]

(* The int that has the value v modulo 2^32, in units.                     *)
Wrapped(v) ==
  LET low == v % IntRange
  IN  IF low < IntRange \div 2 THEN low ELSE low - IntRange

(* el_run_after().                                                         *)
RunAfter ==
  /\ pc = "RunAfter"
  /\ ms' = IF ms < 128 THEN 128 ELSE ms
  /\ pc' = "Split"
  /\ UNCHANGED <<caller, asked, secs, clock, expire>>

(* A slip: the seconds stay in the milliseconds.                            *)
SplitKeepsMs ==
  /\ pc = "Split"
  /\ secs' = ms \div 1024
  /\ pc' = "AddTimer"
  /\ UNCHANGED <<caller, asked, ms, clock, expire>>

(* eL_add_timer(): ms >> 10 and ms & ~(1 << 10).                           *)
Split ==
  /\ pc = "Split"
  /\ secs' = ms \div 1024
  /\ ms' = IF (ms \div 1024) % 2 = 1 THEN ms - 1024 ELSE ms
  /\ pc' = "AddTimer"
  /\ UNCHANGED <<caller, asked, clock, expire>>

(* tq_add_timer() refuses a delay of nothing.                              *)
AddTimer ==
  /\ pc = "AddTimer"
  /\ pc' = IF secs = 0 /\ ms = 0 THEN "Refused" ELSE "Align"
  /\ UNCHANGED <<caller, asked, secs, ms, clock, expire>>

(* A slip: rounded down.                                                    *)
AlignDown ==
  /\ pc = "Align"
  /\ ms' = (ms \div MINIMAL_INTERVAL) * MINIMAL_INTERVAL
  /\ pc' = "Add"
  /\ UNCHANGED <<caller, asked, secs, clock, expire>>

(* timer_set_value(): the milliseconds are rounded up ...                  *)
Align ==
  /\ pc = "Align"
  /\ ms' = ((ms + MINIMAL_INTERVAL - 1) \div MINIMAL_INTERVAL)
             * MINIMAL_INTERVAL
  /\ pc' = "Add"
  /\ UNCHANGED <<caller, asked, secs, clock, expire>>

(* ... multiplied as an int, added ...                                     *)
Add ==
  /\ pc = "Add"
  /\ expire' = [sec |-> expire.sec + secs,
                nsec |-> expire.nsec
                  + Wrapped((ms \div MINIMAL_INTERVAL) * MinimalInterval)]
  /\ pc' = "Normalise"
  /\ UNCHANGED <<caller, asked, secs, ms, clock>>

(* ... and whole seconds carried.                                          *)
Carry ==
  /\ pc = "Normalise"
  /\ expire.nsec >= Second
  /\ expire' = [sec |-> expire.sec + 1, nsec |-> expire.nsec - Second]
  /\ UNCHANGED <<pc, caller, asked, secs, ms, clock>>

SetValue ==
  /\ pc = "Normalise"
  /\ expire.nsec < Second
  /\ pc' = "Set"
  /\ UNCHANGED <<caller, asked, secs, ms, clock, expire>>

Next == RunAfter \/ Split \/ AddTimer \/ Align \/ Add \/ Carry \/ SetValue

Spec == Init /\ [][Next]_vars

-----------------------------------------------------------------------------
(* Properties.                                                             *)

(* The delay that was set, in units.                                       *)
delay == expire.sec * Second + expire.nsec - clock

(* The product in timer_set_value() is that of its factors: they came to    *)
(* less than 2^31 ns.                                                      *)
fits == ms <= 2147

(* "At least 128ms from 'now'" (MINIMAL_INTERVAL in timer_queue.h), for    *)
(* whatever is asked, and no fraction of a second that the kernel refuses, *)
(* as long as the product fits: 2049 ms are rounded up to more.            *)
AtLeastMinimal ==
  pc = "Set" /\ fits => delay >= MinimalInterval /\ expire.nsec \in 0 .. Second - 1

(* A delay is longer than asked for by less than MINIMAL_INTERVAL, and     *)
(* shorter only as el_run_after() takes 1024 ms for a second and, where    *)
(* one bit is cleared for ten, longer by the seconds that stay in its      *)
(* milliseconds.  If the product does not fit, and only then, it lacks a   *)
(* multiple of 2^32 ns, one at most for every 2148 ms: the expiry may be   *)
(* gone by when it is set.                                                 *)
(* (A second is 1000 ms, a unit 8/15625 ms.)                               *)
DelayIsClose ==
  pc = "Set" =>
    LET ask == 1000 * asked.secs + asked.ms
        lost == IF caller = "el_run_after" THEN 24 * secs ELSE 0
        twice == IF caller = "el_run_after" /\ secs > 1
                 THEN 1024 * (secs - (secs % 2)) ELSE 0
    IN  \E k \in 0 .. ms \div 2148 :
          LET due == delay + k * IntRange
          IN  /\ k = 0 <=> fits
              /\ 8 * due >= 15625 * (ask + twice - lost)
              /\ 8 * due < 15625 * (IF ask < 128 THEN 256 ELSE ask + twice + 128)
=============================================================================
