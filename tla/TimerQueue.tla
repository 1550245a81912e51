----------------------------- MODULE TimerQueue -----------------------------
(***************************************************************************)
(* The timer queue of src/src/core/timer_queue.c: timers sorted by expiry, *)
(* a list of used ones to take the next from, and one timerfd that is set, *)
(* in absolute time, for the head of the queue.  Everything runs in the    *)
(* owner thread of the loop; the clock and the timerfd do not wait for it. *)
(*                                                                         *)
(* A unit of time is at most the 128 ms to which delays are rounded up.    *)
(* Yet an expiry may be no later than the clock: when nothing is added to  *)
(* it, or less, as `ms * 1000000' in timer_set_value() is an int and       *)
(* overflows from 2148 ms on (TimerDelay).                                 *)
(***************************************************************************)
EXTENDS Integers, Sequences, FiniteSets

CONSTANTS
  Timers,      \* the memory that malloc() can hand out for a timer
  Delays,      \* what timer_set_value() adds to the clock
  Intervals,   \* what the uninitialized it_interval.tv_sec may be
  Uses,        \* what callers also do: "RefreshFired" and "FreeQueued" timers
  MaxTime,     \* bound: the clock stops here, no expiry is later
  MaxOps,      \* bound: calls of tq_add_timer() and tq_refresh_timer()
  NONE

ASSUME TimerAssumption ==
  /\ Delays \subseteq Int
  /\ Intervals \subseteq Nat
  /\ Uses \subseteq {"RefreshFired", "FreeQueued"}
  /\ MaxTime \in Nat
  /\ MaxOps \in Nat
  /\ NONE \notin Int \cup Timers

VARIABLES
  now,          \* CLOCK_MONOTONIC
  alarm,        \* when the timerfd goes off or went off, or NONE
  interval,     \* and then again every so often, unless 0
  queue,        \* single_timer_q
  free,         \* free_timer
  node,         \* tq_node of each timer: linked, empty, or list_del()'s poison
  expire,       \* of each timer
  next_expire,
  ret,          \* history: the result of timerfd_settime(), which is not used
  at,           \* where the owner is
  now_,         \* tq_do_expiration()'s reading of the clock
  current,      \* the timer whose callback runs
  listed,       \* times the timerfd's channel still is on the active list
  ops,
  order,        \* history: of each timer, the call that set it last
  early,        \* history: timers that call set no later than its clock
  pass          \* history: ops when tq_do_expiration() began

world == <<now, alarm, interval, ret>>
lists == <<queue, free, node, expire, next_expire, order, early>>
vars == <<world, lists, at, now_, current, listed, ops, pass>>

Init ==
  /\ now = 0
  /\ alarm = NONE
  /\ interval = 0
  /\ queue = <<>>
  /\ free = <<>>
  /\ node = [t \in Timers |-> "unallocated"]
  /\ expire = [t \in Timers |-> 0]
  /\ next_expire = NONE
  /\ ret = 0
  /\ at = "Idle"
  /\ now_ = 0
  /\ current = NONE
  /\ listed = 0
  /\ ops = 0
  /\ order = [t \in Timers |-> 0]
  /\ early = {}
  /\ pass = 0

-----------------------------------------------------------------------------
(* The timerfd.                                                            *)

Readable == alarm # NONE /\ alarm <= now

(* timerfd_settime(TFD_TIMER_ABSTIME): CLOCK_MONOTONIC, which the code     *)
(* passes for the flags, has the same value.  It refuses an expiry that    *)
(* overflowed (TimerDelay), or the it_interval.tv_sec that is on the stack.*)
SetTime(e) ==
  \/ ret' = 0 /\ alarm' = e /\ interval' \in Intervals
  \/ ret' = -1 /\ UNCHANGED <<alarm, interval>>

(* tq_update_expiration() with q the queue and e the expiries.             *)
UpdateExpiration(q, e) ==
  IF q = <<>>
  THEN UNCHANGED <<alarm, interval, ret, next_expire>>
  ELSE SetTime(e[Head(q)]) /\ next_expire' = e[Head(q)]

(* A slip: only a later expiry sets the timerfd.                            *)
UpdateIfLater(q, e) ==
  IF next_expire = NONE \/ e[Head(q)] > next_expire
  THEN UpdateExpiration(q, e)
  ELSE UNCHANGED <<alarm, interval, ret, next_expire>>

(* tq_need_update_expiration() before it.                                  *)
UpdateIfNeeded(q, e) ==
  IF q # <<>> /\ e[Head(q)] # next_expire
  THEN UpdateExpiration(q, e)
  ELSE UNCHANGED <<alarm, interval, ret, next_expire>>

(* A slip: before a timer that expires at the same time.                    *)
PlaceBeforeEqual(q, t, e) ==
  CHOOSE k \in 1 .. Len(q) + 1 :
    /\ \A j \in 1 .. k - 1 : e[q[j]] < e[t]
    /\ k <= Len(q) => e[q[k]] >= e[t]

(* The place of an unlinked timer: before the first that expires later.    *)
Place(q, t, e) ==
  CHOOSE k \in 1 .. Len(q) + 1 :
    /\ \A j \in 1 .. k - 1 : e[q[j]] <= e[t]
    /\ k <= Len(q) => e[q[k]] > e[t]

Insert(q, t, e) ==
  LET k == Place(q, t, e)
  IN  SubSeq(q, 1, k - 1) \o <<t>> \o SubSeq(q, k, Len(q))

(* list_del_init() of a timer that is in q.                                *)
Without(q, t) ==
  LET k == CHOOSE k \in DOMAIN q : q[k] = t
  IN  SubSeq(q, 1, k - 1) \o SubSeq(q, k + 1, Len(q))

(* timer_set_value() and tq_insert_timer().                                *)
SetAndInsert(t, d, q) ==
  LET e == [expire EXCEPT ![t] = now + d]
  IN  /\ expire' = e
      /\ queue' = Insert(q, t, e)
      /\ node' = [node EXCEPT ![t] = "linked"]
      /\ order' = [order EXCEPT ![t] = ops + 1]
      /\ early' = IF d > 0 THEN early \ {t} ELSE early \cup {t}
      /\ UpdateIfNeeded(queue', e)

-----------------------------------------------------------------------------
(* What callers do, in a timer's callback or elsewhere in the owner.       *)

MayCall(d) ==
  /\ at \in {"Idle", "Callback"}
  /\ ops < MaxOps
  /\ now + d <= MaxTime
  /\ ops' = ops + 1

(* A slip: the timer stays on the free list.                                *)
AllocTimerLinked(t) ==
  IF free # <<>>
  THEN t = Head(free) /\ UNCHANGED free
  ELSE node[t] = "unallocated" /\ UNCHANGED free

(* tq_alloc_timer(): the timer freed last is used again.                   *)
AllocTimer(t) ==
  IF free # <<>>
  THEN t = Head(free) /\ free' = Tail(free)
  ELSE node[t] = "unallocated" /\ UNCHANGED free

AddTimer(d) ==
  /\ MayCall(d)
  /\ \E t \in Timers : AllocTimer(t) /\ SetAndInsert(t, d, queue)
  /\ UNCHANGED <<now, at, now_, current, listed, pass>>

(* tq_refresh_timer() of a timer that is in the queue ...                  *)
RefreshTimer(t, d) ==
  /\ MayCall(d)
  /\ \E k \in DOMAIN queue : queue[k] = t
  /\ SetAndInsert(t, d, Without(queue, t))
  /\ UNCHANGED <<free, now, at, now_, current, listed, pass>>

(* ... or has fired: list_del_init() follows list_del()'s poison.          *)
RefreshFiredTimer(t, d) ==
  /\ "RefreshFired" \in Uses
  /\ MayCall(d)
  /\ node[t] = "poison"
  /\ at' = "Dead"
  /\ UNCHANGED <<world, lists, now_, current, listed, pass>>

(* tq_free_timer() of a timer that was called back and whose user did not  *)
(* free it there.                                                          *)
FreeTimer(t) ==
  /\ at \in {"Idle", "Callback"}
  /\ node[t] = "poison"
  /\ t # current
  /\ free' = <<t>> \o free
  /\ node' = [node EXCEPT ![t] = "free"]
  /\ UNCHANGED <<world, queue, expire, next_expire, at, now_, current, listed,
                 ops, order, early, pass>>

(* tq_free_timer() of a timer in the queue: its neighbours there still     *)
(* point to it, and it to the free list.  What follows is not modelled.    *)
FreeQueuedTimer(t) ==
  /\ "FreeQueued" \in Uses
  /\ at \in {"Idle", "Callback"}
  /\ node[t] = "linked"
  /\ free' = <<t>> \o free
  /\ node' = [node EXCEPT ![t] = "free"]
  /\ at' = "Dead"
  /\ UNCHANGED <<world, queue, expire, next_expire, now_, current, listed,
                 ops, order, early, pass>>

UserOp ==
  \E d \in Delays :
    \/ AddTimer(d)
    \/ \E t \in Timers : RefreshTimer(t, d) \/ RefreshFiredTimer(t, d)

-----------------------------------------------------------------------------
(* The loop and the timerfd's channel.                                     *)

(* poller_poll() lists the channel once for every ready channel.           *)
PollReturn ==
  /\ at = "Idle"
  /\ listed = 0
  /\ Readable
  /\ listed' \in 1 .. 2
  /\ UNCHANGED <<world, lists, at, now_, current, ops, pass>>

Dispatch ==
  /\ at = "Idle"
  /\ listed > 0
  /\ listed' = listed - 1
  /\ at' = "Read"
  /\ UNCHANGED <<world, lists, now_, current, ops, pass>>

(* The first instant after now at which a periodic timerfd goes off again. *)
NextAlarm(a, n) == a + n * (((now - a) \div n) + 1)

(* tq_read_timerfd(): a read that fails is not repeated, the errors it is  *)
(* compared with being negative.                                           *)
ReadTimerfd ==
  /\ at = "Read"
  /\ IF Readable
     THEN alarm' = IF interval = 0 THEN NONE ELSE NextAlarm(alarm, interval)
     ELSE UNCHANGED alarm
  /\ at' = "Clock"
  /\ UNCHANGED <<now, interval, ret, lists, now_, current, listed, ops, pass>>

(* tq_do_expiration() reads the clock once ...                             *)
ReadClock ==
  /\ at = "Clock"
  /\ now_' = now
  /\ pass' = ops
  /\ at' = "Expire"
  /\ UNCHANGED <<world, lists, current, listed, ops>>

(* A slip: the clock is read again for every timer.                         *)
ExpireByNow ==
  /\ at = "Expire"
  /\ queue # <<>>
  /\ expire[Head(queue)] <= now
  /\ current' = Head(queue)
  /\ queue' = Tail(queue)
  /\ node' = [node EXCEPT ![Head(queue)] = "poison"]
  /\ at' = "Callback"
  /\ UNCHANGED <<world, free, expire, next_expire, now_, listed, ops,
                 order, early, pass>>

(* ... takes the timers due by then off the queue and calls them back ...  *)
Expire ==
  /\ at = "Expire"
  /\ queue # <<>>
  /\ expire[Head(queue)] <= now_
  /\ current' = Head(queue)
  /\ queue' = Tail(queue)
  /\ node' = [node EXCEPT ![Head(queue)] = "poison"]
  /\ at' = "Callback"
  /\ UNCHANGED <<world, free, expire, next_expire, now_, listed, ops,
                 order, early, pass>>

(* A slip: the callback's timer is kept.                                    *)
EndForwardAgain ==
  /\ at = "Callback"
  /\ free' = <<current>> \o free
  /\ node' = [node EXCEPT ![current] = "free"]
  /\ at' = "Expire"
  /\ UNCHANGED <<world, queue, expire, next_expire, now_, current, listed,
                 ops, order, early, pass>>

(* The histories of a timer end with its callback.                         *)
Forget(t) == order' = [order EXCEPT ![t] = 0] /\ early' = early \ {t}

(* ... where el_forward_timer() frees the timer, other callbacks may not.  *)
EndForward ==
  /\ at = "Callback"
  /\ free' = <<current>> \o free
  /\ node' = [node EXCEPT ![current] = "free"]
  /\ current' = NONE
  /\ Forget(current)
  /\ at' = "Expire"
  /\ UNCHANGED <<world, queue, expire, next_expire, now_, listed, ops, pass>>

EndCallback ==
  /\ at = "Callback"
  /\ current' = NONE
  /\ Forget(current)
  /\ at' = "Expire"
  /\ UNCHANGED <<world, queue, free, node, expire, next_expire, now_, listed,
                 ops, pass>>

(* A slip: the timerfd is not set again.                                    *)
EndExpirationUnset ==
  /\ at = "Expire"
  /\ queue # <<>> => expire[Head(queue)] > now_
  /\ at' = "Idle"
  /\ now_' = 0
  /\ pass' = 0
  /\ UNCHANGED <<world, lists, current, listed, ops>>

(* The tq_update_expiration() that ends tq_callback_for_channel().         *)
EndExpiration ==
  /\ at = "Expire"
  /\ queue # <<>> => expire[Head(queue)] > now_
  /\ UpdateExpiration(queue, expire)
  /\ at' = "Idle"
  /\ now_' = 0
  /\ pass' = 0
  /\ UNCHANGED <<now, queue, free, node, expire, current, listed, ops,
                 order, early>>

(* timer_queue_destroy(), after the loop has returned: the timers on both  *)
(* lists are freed, those that were called back and not freed are lost.    *)
TimerQueueDestroy ==
  /\ at = "Idle"
  /\ listed = 0
  /\ alarm' = NONE
  /\ queue' = <<>>
  /\ free' = <<>>
  /\ node' = [t \in Timers |-> IF node[t] = "poison" THEN node[t] ELSE "unallocated"]
  /\ at' = "Destroyed"
  /\ UNCHANGED <<now, interval, ret, expire, next_expire, now_, current, listed,
                 ops, order, early, pass>>

Tick ==
  /\ now < MaxTime
  /\ now' = now + 1
  /\ UNCHANGED <<alarm, interval, ret, lists, at, now_, current, listed,
                 ops, pass>>

LoopStep ==
  \/ PollReturn \/ Dispatch \/ ReadTimerfd \/ ReadClock \/ Expire
  \/ EndForward \/ EndCallback \/ EndExpiration

Next ==
  \/ LoopStep
  \/ Tick
  \/ UserOp
  \/ \E t \in Timers : FreeTimer(t) \/ FreeQueuedTimer(t)
  \/ TimerQueueDestroy

Spec == Init /\ [][Next]_vars

(* The loop goes round and time passes.                                    *)
FairSpec == Spec /\ WF_vars(LoopStep) /\ WF_vars(Tick)

-----------------------------------------------------------------------------
(* Properties.                                                             *)

TimerType ==
  /\ node \in [Timers -> {"unallocated", "linked", "poison", "free"}]
  /\ expire \in [Timers -> Int]

TimerQueueType ==
  /\ queue \in Seq(Timers)
  /\ free \in Seq(Timers)
  /\ next_expire \in Int \cup {NONE}

TypeOK ==
  /\ now \in 0 .. MaxTime
  /\ alarm \in Int \cup {NONE}
  /\ interval \in Intervals \cup {0}
  /\ TimerType
  /\ TimerQueueType
  /\ ret \in {0, -1}
  /\ at \in {"Idle", "Read", "Clock", "Expire", "Callback", "Dead",
             "Destroyed"}
  /\ now_ \in 0 .. now
  /\ current \in Timers \cup {NONE}
  /\ at # "Dead" => (at = "Callback" <=> current # NONE)
  /\ listed \in 0 .. 2
  /\ ops \in 0 .. MaxOps
  /\ order \in [Timers -> 0 .. MaxOps]
  /\ early \subseteq Timers
  /\ pass \in 0 .. ops

(* The timer to be called next was in the past when it was set.            *)
HeadEarly == queue # <<>> /\ Head(queue) \in early

(* Whenever the loop may go to sleep in poll(), the timerfd is set for the *)
(* head of the queue, although a read of it, a callback's insertion or a   *)
(* refreshment came between (tq_update_expiration() and next_expire, which *)
(* decides whether it is called), unless the kernel refused just that or   *)
(* the head is early: it may expire just when an earlier head did, and     *)
(* next_expire, which still says so, keeps the timerfd from being set.     *)
HeadArmed ==
  at = "Idle" /\ queue # <<>> =>
    /\ next_expire = expire[Head(queue)]
    /\ ret = 0 /\ ~HeadEarly => alarm = expire[Head(queue)]

(* The lists share tq_node: a timer is at most once on one of queue and    *)
(* free, on the one its node says, and the one called back on neither.     *)
TimersApart ==
  at # "Dead" =>
    /\ \A t \in Timers :
         /\ Cardinality({k \in DOMAIN queue : queue[k] = t})
              = IF node[t] = "linked" THEN 1 ELSE 0
         /\ Cardinality({k \in DOMAIN free : free[k] = t})
              = IF node[t] = "free" THEN 1 ELSE 0
    /\ current # NONE => node[current] = "poison"

(* timer_queue.h:15 has it that timers must not recurse without end: one   *)
(* that is set while tq_do_expiration() runs, for a time still to come, is *)
(* never called back by that run.  One whose delay overflowed into the     *)
(* past is, and a callback that sets it so again makes the run endless.    *)
PassIsFinite ==
  [][at = "Expire" /\ at' = "Callback" =>
       order[current'] <= pass \/ current' \in early]_vars

(* The queue calls timers back once, in time and in order, until it is     *)
(* destroyed, and gives up none before that.                               *)
pending ==
  {[timer |-> queue[k], due |-> expire[queue[k]], order |-> order[queue[k]]]
     : k \in DOMAIN queue}

Service == INSTANCE TimerService WITH
             Orders <- 1 .. MaxOps,
             over <- at = "Destroyed"

ServiceSpec == Service!Init /\ [][Service!Next]_(Service!vars)

(* Every timer in the queue is called back, unless a refusal leaves the    *)
(* timerfd as it was, an early timer at the head keeps it from being set,  *)
(* a caller's misuse ends it all, or the queue is destroyed.               *)
EveryTimerFires ==
  \A t \in Timers :
    (node[t] = "linked")
      ~> (node[t] # "linked" \/ ret # 0 \/ HeadEarly \/ at = "Dead")
=============================================================================
