-------------------------- MODULE TimerQueueProofs --------------------------
(***************************************************************************)
(* Proofs about TimerQueue, for any set of timers, any delays and any      *)
(* number of calls, and whatever the timerfd does between them.            *)
(***************************************************************************)
EXTENDS TimerQueue, ListLemmas, FiniteSetTheorems

-----------------------------------------------------------------------------
(* The operators on the queue.                                             *)

(* The place to insert at exists, whether or not a timer expires later.    *)
LEMMA PlaceProperties ==
  ASSUME NEW q \in Seq(Timers), NEW e \in [Timers -> Int], NEW t \in Timers
  PROVE  /\ Place(q, t, e) \in 1 .. Len(q) + 1
         /\ \A j \in 1 .. Place(q, t, e) - 1 : e[q[j]] <= e[t]
         /\ Place(q, t, e) <= Len(q) => e[q[Place(q, t, e)]] > e[t]
<1> DEFINE Fits(k) == /\ \A j \in 1 .. k - 1 : e[q[j]] <= e[t]
                      /\ k <= Len(q) => e[q[k]] > e[t]
           later == {k \in 1 .. Len(q) : e[q[k]] > e[t]}
<1>1. /\ Len(q) \in Nat /\ DOMAIN q = 1 .. Len(q)
      /\ \A k \in 1 .. Len(q) : q[k] \in Timers /\ e[q[k]] \in Int
      /\ e[t] \in Int
  OBVIOUS
<1>2. \E k \in 1 .. Len(q) + 1 : Fits(k)
  <2>1. CASE later = {}
    <3>1. Fits(Len(q) + 1) /\ Len(q) + 1 \in 1 .. Len(q) + 1
      BY <1>1, <2>1
    <3>2. QED
      BY <3>1
  <2>2. CASE later # {}
    <3>1. later \in SUBSET Nat
      BY <1>1
    <3>2. PICK k \in later : \A l \in later : k <= l
      BY <2>2, <3>1, LeastNat
    <3>3. ASSUME NEW l \in 1 .. k - 1
          PROVE  e[q[l]] <= e[t]
      <4>1. l \in 1 .. Len(q) /\ l < k
        BY <1>1, <3>2
      <4>2. l \notin later
        BY <3>2, <4>1
      <4>3. QED
        BY <1>1, <4>1, <4>2
    <3>4. Fits(k)
      BY <1>1, <3>2, <3>3
    <3>5. QED
      BY <1>1, <3>4
  <2>3. QED
    BY <2>1, <2>2
<1>3. Place(q, t, e) = CHOOSE k \in 1 .. Len(q) + 1 : Fits(k)
  BY DEF Place
<1> HIDE DEF Fits
<1>4. Place(q, t, e) \in 1 .. Len(q) + 1 /\ Fits(Place(q, t, e))
  BY <1>2, <1>3
<1>5. QED
  BY <1>4 DEF Fits

LEMMA InsertIsInserted ==
  ASSUME NEW q \in Seq(Timers), NEW e \in [Timers -> Int], NEW t \in Timers
  PROVE  /\ Insert(q, t, e) \in Seq(Timers)
         /\ InsertedAt(q, Place(q, t, e), t, Insert(q, t, e))
<1> DEFINE k == Place(q, t, e)
           a == SubSeq(q, 1, k - 1)
           b == SubSeq(q, k, Len(q))
<1>1. Len(q) \in Nat /\ k \in 1 .. Len(q) + 1
  BY PlaceProperties
<1>2. Insert(q, t, e) = (a \o <<t>>) \o b
  BY DEF Insert
<1> HIDE DEF k
<1>3. /\ a \in Seq(Timers) /\ Len(a) = k - 1
      /\ \A l \in 1 .. k - 1 : a[l] = q[l]
  <2>1. \A l \in 1 .. k - 1 : q[l] \in Timers
    BY <1>1
  <2>2. 1 \in Int /\ k - 1 \in Int
    BY <1>1
  <2>3. /\ a \in Seq(Timers)
        /\ Len(a) = IF 1 <= k - 1 THEN (k - 1) - 1 + 1 ELSE 0
        /\ \A l \in 1 .. (k - 1) - 1 + 1 : a[l] = q[1 + l - 1]
    BY <2>1, <2>2, SubSeqProperties
  <2>4. QED
    BY <1>1, <2>3
<1>4. /\ b \in Seq(Timers) /\ Len(b) = Len(q) - k + 1
      /\ \A l \in 1 .. Len(q) - k + 1 : b[l] = q[k + l - 1]
  <2>1. \A l \in k .. Len(q) : q[l] \in Timers
    BY <1>1
  <2>2. k \in Int /\ Len(q) \in Int
    BY <1>1
  <2>3. /\ b \in Seq(Timers)
        /\ Len(b) = IF k <= Len(q) THEN Len(q) - k + 1 ELSE 0
        /\ \A l \in 1 .. Len(q) - k + 1 : b[l] = q[k + l - 1]
    BY <2>1, <2>2, SubSeqProperties
  <2>4. QED
    BY <1>1, <2>3
<1>5. <<t>> \in Seq(Timers) /\ Len(<<t>>) = 1 /\ <<t>>[1] = t
  OBVIOUS
<1> DEFINE c == a \o <<t>>
<1>6. /\ c \in Seq(Timers) /\ Len(c) = k
      /\ \A l \in 1 .. k : c[l] = IF l < k THEN q[l] ELSE t
  <2>1. /\ c \in Seq(Timers) /\ Len(c) = Len(a) + 1
        /\ \A l \in 1 .. Len(a) + 1 :
             c[l] = IF l <= Len(a) THEN a[l] ELSE <<t>>[l - Len(a)]
    BY <1>3, <1>5, ConcatProperties
  <2>2. QED
    BY <1>1, <1>3, <1>5, <2>1
<1> DEFINE u == c \o b
<1>7. /\ u \in Seq(Timers) /\ Len(u) = Len(c) + Len(b)
      /\ \A l \in 1 .. Len(c) + Len(b) :
           u[l] = IF l <= Len(c) THEN c[l] ELSE b[l - Len(c)]
  <2> HIDE DEF b, c
  <2>1. QED
    BY <1>4, <1>6, ConcatProperties
<1> HIDE DEF a, b, c
<1>8. Len(u) = Len(q) + 1
  BY <1>1, <1>4, <1>6, <1>7
<1>9. ASSUME NEW l \in 1 .. Len(q) + 1
      PROVE  u[l] = IF l < k THEN q[l] ELSE IF l = k THEN t ELSE q[l - 1]
  <2>1. CASE l <= k
    BY <1>1, <1>4, <1>6, <1>7, <2>1
  <2>2. CASE l > k
    <3>0. /\ l \in 1 .. Len(c) + Len(b) /\ ~(l <= Len(c)) /\ Len(c) = k
          /\ l - k \in 1 .. Len(q) - k + 1
      BY <1>1, <1>4, <1>6, <1>9, <2>2
    <3>1. l - k \in 1 .. Len(q) - k + 1 /\ u[l] = b[l - k]
      BY <1>7, <3>0
    <3>2. b[l - k] = q[k + (l - k) - 1] /\ k + (l - k) - 1 = l - 1
      BY <1>1, <1>4, <3>1
    <3>3. QED
      BY <1>1, <2>2, <3>1, <3>2
  <2>3. l <= k \/ l > k
    BY <1>1, <1>9
  <2>4. QED
    BY <2>1, <2>2, <2>3
<1>10. InsertedAt(q, k, t, u)
  BY <1>8, <1>9 DEF InsertedAt
<1>11. QED
  BY <1>2, <1>7, <1>10 DEF c, k

LEMMA WithoutIsDeleted ==
  ASSUME NEW q \in Seq(Timers), NEW t \in Elements(q)
  PROVE  /\ Without(q, t) \in Seq(Timers)
         /\ \E k \in DOMAIN q : q[k] = t /\ DeletedAt(q, k, Without(q, t))
<1> DEFINE k == CHOOSE l \in DOMAIN q : q[l] = t
           a == SubSeq(q, 1, k - 1)
           b == SubSeq(q, k + 1, Len(q))
           u == a \o b
<1>1. k \in DOMAIN q /\ q[k] = t
  BY DEF Elements
<1>2. Without(q, t) = u
  BY DEF Without
<1> HIDE DEF k
<1>3. Len(q) \in Nat /\ k \in 1 .. Len(q)
  BY <1>1
<1>4. /\ a \in Seq(Timers) /\ Len(a) = k - 1
      /\ \A l \in 1 .. k - 1 : a[l] = q[l]
  <2>1. \A l \in 1 .. k - 1 : q[l] \in Timers
    BY <1>3
  <2>2. 1 \in Int /\ k - 1 \in Int
    BY <1>3
  <2>3. /\ a \in Seq(Timers)
        /\ Len(a) = IF 1 <= k - 1 THEN (k - 1) - 1 + 1 ELSE 0
        /\ \A l \in 1 .. (k - 1) - 1 + 1 : a[l] = q[1 + l - 1]
    BY <2>1, <2>2, SubSeqProperties
  <2>4. QED
    BY <1>3, <2>3
<1>5. /\ b \in Seq(Timers) /\ Len(b) = Len(q) - k
      /\ \A l \in 1 .. Len(q) - k : b[l] = q[k + l]
  <2>1. \A l \in k + 1 .. Len(q) : q[l] \in Timers
    BY <1>3
  <2>2. k + 1 \in Int /\ Len(q) \in Int
    BY <1>3
  <2>3. /\ b \in Seq(Timers)
        /\ Len(b) = IF k + 1 <= Len(q) THEN Len(q) - (k + 1) + 1 ELSE 0
        /\ \A l \in 1 .. Len(q) - (k + 1) + 1 : b[l] = q[(k + 1) + l - 1]
    BY <2>1, <2>2, SubSeqProperties
  <2>4. QED
    BY <1>3, <2>3
<1>6. /\ u \in Seq(Timers) /\ Len(u) = Len(a) + Len(b)
      /\ \A l \in 1 .. Len(a) + Len(b) :
           u[l] = IF l <= Len(a) THEN a[l] ELSE b[l - Len(a)]
  <2> HIDE DEF a, b
  <2>1. QED
    BY <1>4, <1>5, ConcatProperties
<1> HIDE DEF a, b, u
<1>7. Len(u) = Len(q) - 1
  BY <1>3, <1>4, <1>5, <1>6
<1>8. ASSUME NEW l \in 1 .. Len(q) - 1
      PROVE  u[l] = IF l < k THEN q[l] ELSE q[l + 1]
  <2>1. CASE l < k
    <3>1. l \in 1 .. Len(a) + Len(b) /\ l <= Len(a) /\ l \in 1 .. k - 1
      BY <1>3, <1>4, <1>5, <1>8, <2>1
    <3>2. QED
      BY <1>4, <1>6, <2>1, <3>1
  <2>2. CASE ~(l < k)
    <3>0. /\ l \in 1 .. Len(a) + Len(b) /\ ~(l <= Len(a)) /\ Len(a) = k - 1
          /\ l - (k - 1) \in 1 .. Len(q) - k
      BY <1>3, <1>4, <1>5, <1>8, <2>2
    <3>1. l - (k - 1) \in 1 .. Len(q) - k /\ u[l] = b[l - (k - 1)]
      BY <1>6, <3>0
    <3>2. b[l - (k - 1)] = q[k + (l - (k - 1))] /\ k + (l - (k - 1)) = l + 1
      BY <1>3, <1>5, <3>1
    <3>3. QED
      BY <2>2, <3>1, <3>2
  <2>3. QED
    BY <2>1, <2>2
<1>9. DeletedAt(q, k, u)
  BY <1>7, <1>8 DEF DeletedAt
<1>10. QED
  BY <1>1, <1>2, <1>6, <1>9

-----------------------------------------------------------------------------
(* The inductive invariant.                                                *)

NodeStates == {"unallocated", "linked", "poison", "free"}

Linked == {t \in Timers : node[t] = "linked"}

Freed == {t \in Timers : node[t] = "free"}

(* The order in which timers are to be called back.                        *)
Before(e, o) ==
  {p \in Timers \X Timers :
     e[p[1]] < e[p[2]] \/ (e[p[1]] = e[p[2]] /\ o[p[1]] < o[p[2]])}

QueueInv ==
  /\ Injective(queue) /\ Elements(queue) = Linked
  /\ Injective(free) /\ Elements(free) = Freed
  /\ current # NONE => node[current] = "poison"
  /\ SortedBy(Before(expire, order), queue)
  /\ \A t \in Linked : order[t] \in 1 .. ops

(* What next_expire is worth, in each part of a round: the expiry of the   *)
(* head, or of a time gone by when the queue is empty.                     *)
NextIsHead == next_expire = expire[Head(queue)]

GoneBy(time) == next_expire = NONE \/ next_expire <= time

HeadInv ==
  /\ at \in {"Idle", "Read", "Clock"} =>
       IF queue = <<>> THEN GoneBy(now) ELSE NextIsHead
  /\ at = "Idle" /\ queue # <<>> /\ ret = 0 /\ Head(queue) \notin early =>
       alarm = next_expire

(* An early timer's time has come; a timer set after it, for a time still  *)
(* to come, expires later than it.                                         *)
EarlyInv ==
  \A t \in Linked \cap early :
    /\ expire[t] <= now
    /\ \A s \in Linked \ early : order[t] < order[s] => expire[t] < expire[s]

(* During tq_do_expiration(): timers that its callbacks set are not due    *)
(* by its reading of the clock unless they are early, and next_expire is   *)
(* the head's or that of a timer called back.                              *)
Fresh == {t \in Linked \ early : order[t] > pass}

PassInv ==
  at \in {"Expire", "Callback"} =>
    /\ \A t \in Fresh : expire[t] > now_
    /\ GoneBy(now_) \/ (queue # <<>> /\ NextIsHead)

TimerInv ==
  TypeOK /\ (at # "Dead" => QueueInv /\ EarlyInv /\ HeadInv /\ PassInv)

(* The parts of TypeOK, for the proofs that look at one of them.           *)
LEMMA TypeFacts ==
  ASSUME TypeOK
  PROVE  /\ now \in Nat /\ now_ \in Nat /\ now_ <= now
         /\ ops \in Nat /\ pass \in Nat /\ pass <= ops
         /\ queue \in Seq(Timers) /\ free \in Seq(Timers)
         /\ expire \in [Timers -> Int]
         /\ order \in [Timers -> Nat]
         /\ node \in [Timers -> NodeStates]
BY TimerAssumption DEF TypeOK, TimerType, TimerQueueType, NodeStates

(* What is set is set for the head.                                        *)
LEMMA UpdateArms ==
  ASSUME TypeOK, NEW q \in Seq(Timers), q # <<>>, NEW e \in [Timers -> Int]
  PROVE  /\ UpdateIfNeeded(q, e) =>
              /\ next_expire' = e[Head(q)]
              /\ \/ UNCHANGED <<alarm, interval, ret, next_expire>>
                 \/ /\ next_expire' # next_expire
                    /\ ret' = 0 => alarm' = next_expire'
         /\ UpdateExpiration(q, e) =>
              /\ next_expire' = e[Head(q)]
              /\ ret' = 0 => alarm' = next_expire'
         /\ UpdateIfNeeded(q, e) \/ UpdateExpiration(q, e) =>
              /\ alarm' \in Int \cup {NONE}
              /\ interval' \in Intervals \cup {0}
              /\ ret' \in {0, -1}
              /\ next_expire' \in Int
<1>1. Head(q) \in Timers /\ e[Head(q)] \in Int
  OBVIOUS
<1>2. /\ alarm \in Int \cup {NONE} /\ interval \in Intervals \cup {0}
      /\ ret \in {0, -1}
  BY DEF TypeOK
<1>3. UpdateExpiration(q, e) =>
        /\ next_expire' = e[Head(q)]
        /\ ret' = 0 => alarm' = next_expire'
        /\ alarm' \in Int \cup {NONE}
        /\ interval' \in Intervals \cup {0}
        /\ ret' \in {0, -1}
  BY <1>1, <1>2 DEF UpdateExpiration, SetTime
<1>4. UpdateIfNeeded(q, e) =>
        \/ e[Head(q)] # next_expire /\ UpdateExpiration(q, e)
        \/ /\ e[Head(q)] = next_expire
           /\ UNCHANGED <<alarm, interval, ret, next_expire>>
  BY DEF UpdateIfNeeded
<1>5. QED
  BY <1>1, <1>2, <1>3, <1>4

(* Setting a timer that is not in the queue q.                             *)
LEMMA SetAndInsertKeeps ==
  ASSUME TypeOK, NEW q \in Seq(Timers), Injective(q),
         SortedBy(Before(expire, order), q),
         NEW t \in Timers, t \notin Elements(q),
         \A s \in Elements(q) : order[s] <= ops,
         NEW d \in Delays, ops < MaxOps,
         SetAndInsert(t, d, q)
  PROVE  /\ queue' \in Seq(Timers) /\ queue' # <<>>
         /\ Injective(queue') /\ Elements(queue') = Elements(q) \cup {t}
         /\ SortedBy(Before(expire', order'), queue')
         /\ expire' \in [Timers -> Int] /\ expire'[t] = now + d
         /\ order' \in [Timers -> 0 .. MaxOps] /\ order'[t] = ops + 1
         /\ node' = [node EXCEPT ![t] = "linked"]
         /\ \A s \in Timers \ {t} : expire'[s] = expire[s] /\ order'[s] = order[s]
         /\ early' = IF d > 0 THEN early \ {t} ELSE early \cup {t}
         /\ UpdateIfNeeded(queue', expire')
<1> DEFINE e == [expire EXCEPT ![t] = now + d]
           k == Place(q, t, e)
<1>1. /\ expire' = e /\ queue' = Insert(q, t, e)
      /\ node' = [node EXCEPT ![t] = "linked"]
      /\ order' = [order EXCEPT ![t] = ops + 1]
      /\ early' = IF d > 0 THEN early \ {t} ELSE early \cup {t}
      /\ UpdateIfNeeded(queue', expire')
  BY DEF SetAndInsert
<1>2. d \in Int /\ MaxOps \in Nat
  BY TimerAssumption
<1>3. /\ e \in [Timers -> Int] /\ e[t] = now + d
      /\ \A s \in Timers \ {t} : e[s] = expire[s]
  BY <1>2, TypeFacts
<1>4. /\ order' \in [Timers -> 0 .. MaxOps] /\ order'[t] = ops + 1
      /\ \A s \in Timers \ {t} : order'[s] = order[s]
  BY <1>1, <1>2 DEF TypeOK
<1>5. queue' \in Seq(Timers) /\ InsertedAt(q, k, t, queue')
  BY <1>1, <1>3, InsertIsInserted
<1>6. /\ k \in 1 .. Len(q) + 1
      /\ \A l \in 1 .. k - 1 : e[q[l]] <= e[t]
      /\ k <= Len(q) => e[q[k]] > e[t]
  BY <1>3, PlaceProperties
<1> HIDE DEF k, e
<1>7. Injective(queue') /\ Elements(queue') = Elements(q) \cup {t}
  BY <1>5, <1>6, InsertionProperties
<1>8. queue' # <<>>
  <2>1. Elements(<<>>) = {}
    BY DEF Elements
  <2>2. QED
    BY <1>7, <2>1
<1> DEFINE R == Before(expire', order')
<1>9. \A l \in DOMAIN q : /\ q[l] \in Timers \ {t}
                          /\ e[q[l]] \in Int /\ e[t] \in Int
                          /\ order'[q[l]] \in Nat
                          /\ order'[q[l]] < order'[t]
  <2>1. ASSUME NEW l \in DOMAIN q
        PROVE  q[l] \in Timers \ {t} /\ order[q[l]] <= ops
    BY DEF Elements
  <2>2. QED
    BY <1>3, <1>4, <2>1, TypeFacts
<1>10. SortedBy(R, q)
  <2>1. ASSUME NEW l \in DOMAIN q, NEW m \in DOMAIN q, l < m
        PROVE  <<q[l], q[m]>> \in R
    <3>1. <<q[l], q[m]>> \in Before(expire, order)
      BY <2>1 DEF SortedBy
    <3>2. /\ expire'[q[l]] = expire[q[l]] /\ expire'[q[m]] = expire[q[m]]
          /\ order'[q[l]] = order[q[l]] /\ order'[q[m]] = order[q[m]]
      BY <1>1, <1>3, <1>4, <1>9
    <3>3. QED
      BY <1>9, <3>1, <3>2 DEF Before
  <2>2. QED
    BY <2>1 DEF SortedBy
<1>11. FitsBetween(R, q, k, t)
  <2>1. ASSUME NEW l \in 1 .. Len(q), l < k
        PROVE  <<q[l], t>> \in R
    <3>1. l \in 1 .. k - 1 /\ l \in DOMAIN q
      BY <1>6, <2>1
    <3>2. e[q[l]] <= e[t] /\ order'[q[l]] < order'[t]
      BY <1>6, <1>9, <3>1
    <3>3. QED
      BY <1>1, <1>9, <3>1, <3>2 DEF Before
  <2>2. ASSUME NEW l \in 1 .. Len(q), ~(l < k)
        PROVE  <<t, q[l]>> \in R
    <3>1. /\ k \in DOMAIN q /\ l \in DOMAIN q /\ k \in Nat /\ l \in Nat
          /\ e[q[k]] > e[t]
      BY <1>6, <2>2
    <3>2. e[q[k]] <= e[q[l]]
      <4>1. CASE l = k
        BY <1>9, <3>1, <4>1
      <4>2. CASE l # k
        <5>1. <<q[k], q[l]>> \in R
          BY <1>10, <2>2, <3>1, <4>2 DEF SortedBy
        <5>2. QED
          BY <1>1, <1>9, <3>1, <5>1 DEF Before
      <4>3. QED
        BY <4>1, <4>2
    <3>3. e[t] < e[q[l]]
      BY <1>9, <3>1, <3>2
    <3>4. QED
      BY <1>1, <1>9, <3>1, <3>3 DEF Before
  <2>3. QED
    BY <2>1, <2>2 DEF FitsBetween
<1>12. SortedBy(R, queue')
  <2> HIDE DEF R
  <2>1. QED
    BY <1>5, <1>6, <1>10, <1>11, InsertionSorts
<1>13. QED
  BY <1>1, <1>3, <1>4, <1>5, <1>7, <1>8, <1>12

-----------------------------------------------------------------------------
(* What each step does to the invariant, and to the service it stands for. *)

Entries(q, e, o) ==
  {[timer |-> t, due |-> e[t], order |-> o[t]] : t \in Elements(q)}

LEMMA PendingAreEntries ==
  /\ pending = Entries(queue, expire, order)
  /\ pending' = Entries(queue', expire', order')
<1>1. pending = Entries(queue, expire, order)
  BY DEF pending, Entries, Elements
<1>2. pending' = Entries(queue', expire', order')
  BY DEF pending, Entries, Elements
<1>3. QED
  BY <1>1, <1>2

ServiceStep == [Service!Next]_(Service!vars)

(* Steps that call nobody and set nothing.                                 *)
LEMMA ServiceStutters ==
  ASSUME UNCHANGED <<now, queue, expire>>,
         \A t \in Elements(queue) : order'[t] = order[t],
         at' = at \/ (at # "Destroyed" /\ at' # "Destroyed")
  PROVE  ServiceStep
<1>1. pending' = pending
  BY PendingAreEntries DEF Entries
<1>2. (at' = "Destroyed") = (at = "Destroyed")
  OBVIOUS
<1>3. Service!vars' = Service!vars
  BY <1>1, <1>2 DEF Service!vars
<1>4. QED
  BY <1>3 DEF ServiceStep

(* The order of the queue is that of its own timers.                       *)
LEMMA SameSorted ==
  ASSUME SortedBy(Before(expire, order), queue), UNCHANGED <<queue, expire>>,
         \A t \in Elements(queue) : order'[t] = order[t]
  PROVE  SortedBy(Before(expire, order), queue)'
<1>1. ASSUME NEW k \in DOMAIN queue, NEW l \in DOMAIN queue, k < l
      PROVE  <<queue[k], queue[l]>> \in Before(expire', order')
  <2>1. <<queue[k], queue[l]>> \in Before(expire, order)
    BY <1>1 DEF SortedBy
  <2>2. queue[k] \in Elements(queue) /\ queue[l] \in Elements(queue)
    BY DEF Elements
  <2>3. QED
    BY <2>1, <2>2 DEF Before
<1>2. QED
  BY <1>1 DEF SortedBy

(* A timer is set that is not in the queue, or not any more.               *)
LEMMA SetKeeps ==
  ASSUME TimerInv, NEW d \in Delays, MayCall(d),
         NEW t \in Timers, node[t] # "poison",
         NEW q \in Seq(Timers), Injective(q), Elements(q) = Linked \ {t},
         SortedBy(Before(expire, order), q),
         free' \in Seq(Timers), Injective(free'), Elements(free') = Freed \ {t},
         SetAndInsert(t, d, q),
         UNCHANGED <<now, at, now_, current, listed, pass>>
  PROVE  TimerInv' /\ ServiceStep
<1>1. /\ at \in {"Idle", "Callback"} /\ ops < MaxOps /\ ops' = ops + 1
      /\ QueueInv /\ EarlyInv /\ HeadInv /\ PassInv /\ TypeOK
      /\ d \in Int /\ MaxOps \in Nat /\ NONE \notin Int
  BY TimerAssumption DEF MayCall, TimerInv
<1>2. \A s \in Linked : order[s] <= ops
  BY <1>1 DEF QueueInv
<1>3. /\ queue' \in Seq(Timers) /\ queue' # <<>>
      /\ Injective(queue') /\ Elements(queue') = Elements(q) \cup {t}
      /\ SortedBy(Before(expire', order'), queue')
      /\ expire' \in [Timers -> Int] /\ expire'[t] = now + d
      /\ order' \in [Timers -> 0 .. MaxOps] /\ order'[t] = ops + 1
      /\ node' = [node EXCEPT ![t] = "linked"]
      /\ \A s \in Timers \ {t} : expire'[s] = expire[s] /\ order'[s] = order[s]
      /\ early' = IF d > 0 THEN early \ {t} ELSE early \cup {t}
      /\ UpdateIfNeeded(queue', expire')
  <2>1. t \notin Elements(q) /\ \A s \in Elements(q) : order[s] <= ops
    BY <1>2
  <2>2. QED
    BY <1>1, <2>1, SetAndInsertKeeps
<1>4. /\ next_expire' = expire'[Head(queue')]
      /\ \/ UNCHANGED <<alarm, interval, ret, next_expire>>
         \/ ret' = 0 => alarm' = next_expire'
      /\ alarm' \in Int \cup {NONE}
      /\ interval' \in Intervals \cup {0}
      /\ ret' \in {0, -1}
      /\ next_expire' \in Int
  BY <1>1, <1>3, UpdateArms
<1>5. /\ now \in Nat /\ now_ \in Nat /\ now_ <= now
      /\ ops \in Nat /\ pass \in Nat /\ pass <= ops
      /\ queue \in Seq(Timers) /\ expire \in [Timers -> Int]
      /\ order \in [Timers -> Nat] /\ node \in [Timers -> NodeStates]
  BY <1>1, TypeFacts
<1>6. TypeOK'
  <2>1. node' \in [Timers -> {"unallocated", "linked", "poison", "free"}]
    BY <1>3, <1>5 DEF NodeStates
  <2>2. ops' \in 0 .. MaxOps /\ pass' \in 0 .. ops'
    BY <1>1, <1>5
  <2>3. /\ now' \in 0 .. MaxTime /\ now_' \in 0 .. now'
        /\ at' \in {"Idle", "Read", "Clock", "Expire", "Callback", "Dead",
                    "Destroyed"}
        /\ current' \in Timers \cup {NONE}
        /\ at' # "Dead" => (at' = "Callback" <=> current' # NONE)
        /\ listed' \in 0 .. 2 /\ early' \subseteq Timers
    BY <1>1, <1>3 DEF TypeOK
  <2>4. QED
    BY <1>3, <1>4, <2>1, <2>2, <2>3 DEF TypeOK, TimerType, TimerQueueType
<1>7. /\ Linked' = Linked \cup {t}
      /\ Freed' = Freed \ {t}
      /\ node'[t] = "linked" /\ \A s \in Timers \ {t} : node'[s] = node[s]
  BY <1>3, <1>5 DEF Linked, Freed
<1>8. QueueInv'
  <2>1. current' # NONE => node'[current'] = "poison"
    BY <1>1, <1>7 DEF QueueInv, TypeOK
  <2>2. ASSUME NEW s \in Linked'
        PROVE  order'[s] \in 1 .. ops'
    <3>1. CASE s = t
      BY <1>1, <1>3, <1>5, <3>1
    <3>2. CASE s # t
      <4>1. s \in Linked /\ s \in Timers \ {t}
        BY <1>7, <2>2, <3>2 DEF Linked
      <4>2. order'[s] = order[s] /\ order[s] \in 1 .. ops
        BY <1>1, <1>3, <4>1 DEF QueueInv
      <4>3. QED
        BY <1>1, <1>5, <4>2
    <3>3. QED
      BY <3>1, <3>2
  <2>3. SortedBy(Before(expire, order), queue)'
    BY <1>3 DEF Before, SortedBy
  <2>4. Elements(queue') = Linked' /\ Elements(free') = Freed'
    BY <1>3, <1>7
  <2>5. QED
    BY <1>3, <2>1, <2>2, <2>3, <2>4 DEF QueueInv, Injective, Elements
<1>9. \A s \in Linked' \ {t} :
         /\ s \in Linked /\ s \in Timers \ {t}
         /\ expire'[s] = expire[s] /\ order'[s] = order[s]
         /\ order[s] \in 1 .. ops /\ expire[s] \in Int
         /\ s \in early' <=> s \in early
  BY <1>1, <1>3, <1>5, <1>7 DEF QueueInv, Linked
<1>10. /\ expire'[t] = now + d /\ order'[t] = ops + 1
       /\ t \in early' <=> d <= 0
  BY <1>1, <1>3
<1>11. EarlyInv'
  <2>1. ASSUME NEW h \in Linked' \cap early', NEW u \in Linked' \ early',
               order'[h] < order'[u]
        PROVE  expire'[h] < expire'[u]
    <3>1. CASE h = t
      <4>1. u \in Linked' \ {t}
        BY <2>1, <3>1
      <4>2. order'[u] \in 1 .. ops /\ order'[h] = ops + 1
        BY <1>9, <1>10, <3>1, <4>1
      <4>3. QED
        BY <1>5, <2>1, <4>2
    <3>2. CASE h # t /\ u = t
      BY <1>1, <1>5, <1>9, <1>10, <2>1, <3>2 DEF EarlyInv
    <3>3. CASE h # t /\ u # t
      BY <1>1, <1>9, <2>1, <3>3 DEF EarlyInv
    <3>4. QED
      BY <3>1, <3>2, <3>3
  <2>2. ASSUME NEW h \in Linked' \cap early'
        PROVE  expire'[h] <= now'
    <3>1. CASE h = t
      BY <1>1, <1>5, <1>10, <2>2, <3>1
    <3>2. CASE h # t
      BY <1>1, <1>9, <2>2, <3>2 DEF EarlyInv
    <3>3. QED
      BY <3>1, <3>2
  <2>3. QED
    BY <2>1, <2>2 DEF EarlyInv
<1>12. HeadInv'
  <2> DEFINE n == Head(queue')
             h == Head(queue)
  <2>1. n \in Linked' /\ next_expire' = expire'[n]
    <3>1. n \in Elements(queue')
      BY <1>3, TailIsDeleted DEF Elements
    <3>2. QED
      BY <1>3, <1>4, <1>7, <3>1
  <2>2. ASSUME at = "Idle", UNCHANGED <<alarm, ret, next_expire>>, ret' = 0,
               n \notin early'
        PROVE  alarm' = next_expire'
    <3>1. queue # <<>>
      <4>1. SUFFICES ASSUME queue = <<>>
                     PROVE  FALSE
        OBVIOUS
      <4>2. Linked = {}
        BY <1>1, <4>1 DEF QueueInv, Elements
      <4>3. next_expire = now + d /\ d > 0
        <5>1. n = t
          BY <1>7, <2>1, <4>2
        <5>2. next_expire = expire'[t] /\ t \notin early'
          BY <2>1, <2>2, <5>1
        <5>3. QED
          BY <1>1, <1>10, <5>2
      <4>4. next_expire = NONE \/ next_expire <= now
        BY <1>1, <2>2, <4>1 DEF HeadInv, GoneBy
      <4>5. QED
        BY <1>1, <1>5, <4>3, <4>4
    <3>2. next_expire = expire[h] /\ 1 \in DOMAIN queue /\ queue[1] = h
      BY <1>1, <1>5, <2>2, <3>1, TailIsDeleted DEF HeadInv, NextIsHead
    <3>3. h \in Linked
      BY <1>1, <3>2 DEF QueueInv, Elements
    <3> HIDE DEF n, h
    <3>4. CASE h \notin early
      BY <1>1, <2>2, <3>1, <3>4 DEF HeadInv, h
    <3>5. CASE h \in early
      <4>1. expire[h] <= now /\ expire[h] \in Int
        BY <1>1, <1>5, <3>3, <3>5 DEF EarlyInv, Linked
      <4>2. n # t
        <5>1. SUFFICES ASSUME n = t
                       PROVE  FALSE
          OBVIOUS
        <5>2. now + d = expire[h] /\ ~(d <= 0)
          BY <1>10, <2>1, <2>2, <3>2, <5>1
        <5>3. QED
          BY <1>1, <1>5, <4>1, <5>2
      <4>3. n \in Linked \ early /\ expire[n] = expire[h] /\ n # h
        BY <1>9, <2>1, <2>2, <3>2, <3>5, <4>2
      <4>4. PICK k \in DOMAIN queue : queue[k] = n
        BY <1>1, <4>3 DEF QueueInv, Elements
      <4>5. 1 < k
        BY <1>5, <3>2, <4>3, <4>4
      <4>6. <<h, n>> \in Before(expire, order)
        BY <1>1, <3>2, <4>4, <4>5 DEF QueueInv, SortedBy
      <4>7. order[h] < order[n]
        BY <4>1, <4>3, <4>6 DEF Before
      <4>8. expire[h] < expire[n]
        BY <1>1, <3>3, <3>5, <4>3, <4>7 DEF EarlyInv
      <4>9. QED
        BY <4>1, <4>3, <4>8
    <3>6. QED
      BY <3>4, <3>5
  <2>3. at' = "Idle" /\ ret' = 0 /\ n \notin early' => alarm' = next_expire'
    BY <1>1, <1>4, <2>2
  <2>4. QED
    BY <1>3, <1>4, <2>3 DEF HeadInv, NextIsHead
<1>13. PassInv'
  <2>1. ASSUME at = "Callback", NEW s \in Fresh'
        PROVE  expire'[s] > now_'
    <3>1. CASE s = t
      BY <1>1, <1>5, <1>10, <2>1, <3>1 DEF Fresh
    <3>2. CASE s # t
      <4>1. s \in Linked' \ {t} /\ order'[s] > pass /\ s \notin early'
        BY <2>1, <3>2 DEF Fresh
      <4>2. s \in Fresh /\ expire'[s] = expire[s]
        BY <1>9, <4>1 DEF Fresh
      <4>3. QED
        BY <1>1, <2>1, <4>2 DEF PassInv
    <3>3. QED
      BY <3>1, <3>2
  <2>2. queue' # <<>> /\ NextIsHead'
    BY <1>3, <1>4 DEF NextIsHead
  <2>3. QED
    BY <1>1, <2>1, <2>2 DEF PassInv
<1>14. ServiceStep
  <2> DEFINE new == [timer |-> t, due |-> now + d, order |-> ops + 1]
             others == {p \in pending : p.timer # t}
  <2>1. pending = {[timer |-> s, due |-> expire[s], order |-> order[s]] : s \in Linked}
    BY <1>1, PendingAreEntries DEF Entries, QueueInv
  <2>2. others = {[timer |-> s, due |-> expire[s], order |-> order[s]]
                    : s \in Linked \ {t}}
    BY <2>1
  <2>3. \A s \in Linked \ {t} : s \in Timers \ {t}
    BY DEF Linked
  <2>4. pending' = {[timer |-> s, due |-> expire'[s], order |-> order'[s]]
                      : s \in (Linked \ {t}) \cup {t}}
    BY <1>3, PendingAreEntries DEF Entries
  <2>5. pending' = others \cup {new}
    <3>1. \A s \in Linked \ {t} :
            [timer |-> s, due |-> expire'[s], order |-> order'[s]]
              = [timer |-> s, due |-> expire[s], order |-> order[s]]
      BY <1>3, <2>3
    <3>2. [timer |-> t, due |-> expire'[t], order |-> order'[t]] = new
      BY <1>3
    <3> HIDE DEF new, others
    <3>3. pending' \subseteq others \cup {new}
      BY <2>2, <2>4, <3>1, <3>2
    <3>4. others \subseteq pending'
      BY <2>2, <2>4, <3>1
    <3>5. new \in pending'
      BY <2>4, <3>2
    <3>6. QED
      BY <3>3, <3>4, <3>5
  <2>6. \A p \in pending : p.order < ops + 1
    BY <1>1, <1>5, <2>1 DEF QueueInv
  <2>7. ops + 1 \in 1 .. MaxOps
    BY <1>1, <1>5
  <2>8. at # "Destroyed" /\ (at' = "Destroyed") = (at = "Destroyed")
    BY <1>1
  <2>9. Service!Set(t, d)
    BY <2>5, <2>6, <2>7, <2>8 DEF Service!Set
  <2>10. QED
    BY <2>9 DEF ServiceStep, Service!Next
<1>15. QED
  BY <1>6, <1>8, <1>11, <1>12, <1>13, <1>14 DEF TimerInv

LEMMA AddTimerKeeps ==
  ASSUME TimerInv, NEW d \in Delays, AddTimer(d)
  PROVE  TimerInv' /\ ServiceStep
<1>1. PICK t \in Timers : AllocTimer(t) /\ SetAndInsert(t, d, queue)
  BY DEF AddTimer
<1>2. /\ MayCall(d) /\ at \in {"Idle", "Callback"}
      /\ UNCHANGED <<now, at, now_, current, listed, pass>>
  BY DEF AddTimer, MayCall
<1>3. TypeOK /\ QueueInv /\ queue \in Seq(Timers) /\ free \in Seq(Timers)
  BY <1>2, TypeFacts DEF TimerInv
<1>4. /\ free' \in Seq(Timers) /\ Injective(free')
      /\ Elements(free') = Freed \ {t}
      /\ node[t] \in {"free", "unallocated"}
  <2>1. CASE free # <<>>
    <3>1. t = Head(free) /\ free' = Tail(free)
      BY <1>1, <2>1 DEF AllocTimer
    <3>3. /\ Tail(free) \in Seq(Timers) /\ Injective(Tail(free))
          /\ Elements(Tail(free)) = Elements(free) \ {t}
      <4>1. Injective(free)
        BY <1>3 DEF QueueInv
      <4>2. QED
        BY <1>3, <2>1, <3>1, <4>1, TailProperties
    <3>4. t \in Elements(free)
      BY <1>3, <2>1, <3>1, TailProperties DEF QueueInv
    <3>5. QED
      BY <1>3, <3>1, <3>3, <3>4 DEF QueueInv, Freed
  <2>2. CASE free = <<>>
    <3>1. node[t] = "unallocated" /\ free' = free
      BY <1>1, <2>2 DEF AllocTimer
    <3>2. QED
      BY <1>3, <3>1 DEF QueueInv, Freed
  <2>3. QED
    BY <2>1, <2>2
<1>5. Elements(queue) = Linked \ {t}
  BY <1>3, <1>4 DEF QueueInv, Linked
<1>6. QED
  BY <1>1, <1>2, <1>3, <1>4, <1>5, SetKeeps DEF QueueInv

LEMMA RefreshTimerKeeps ==
  ASSUME TimerInv, NEW d \in Delays, NEW t \in Timers, RefreshTimer(t, d)
  PROVE  TimerInv' /\ ServiceStep
<1> DEFINE q == Without(queue, t)
<1>1. /\ MayCall(d) /\ at \in {"Idle", "Callback"}
      /\ SetAndInsert(t, d, q)
      /\ UNCHANGED <<free, now, at, now_, current, listed, pass>>
      /\ t \in Elements(queue)
  BY DEF RefreshTimer, MayCall, Elements
<1>2. TypeOK /\ QueueInv /\ queue \in Seq(Timers) /\ free \in Seq(Timers)
  BY <1>1, TypeFacts DEF TimerInv
<1>3. q \in Seq(Timers)
  BY <1>1, <1>2, WithoutIsDeleted
<1>4. PICK k \in DOMAIN queue : queue[k] = t /\ DeletedAt(queue, k, q)
  BY <1>1, <1>2, WithoutIsDeleted
<1> HIDE DEF q
<1>5. Injective(q) /\ Elements(q) = Linked \ {t}
  BY <1>2, <1>3, <1>4, DeletionProperties DEF QueueInv
<1>6. SortedBy(Before(expire, order), q)
  BY <1>2, <1>3, <1>4, DeletionSorts DEF QueueInv
<1>7. node[t] = "linked"
  BY <1>1, <1>2 DEF QueueInv, Linked
<1>8. /\ free' \in Seq(Timers) /\ Injective(free')
      /\ Elements(free') = Freed \ {t}
  BY <1>1, <1>2, <1>7 DEF QueueInv, Freed
<1>9. QED
  BY <1>1, <1>3, <1>5, <1>6, <1>7, <1>8, SetKeeps

(* A node in an undefined list, or in two: the model ends there.           *)
LEMMA MisuseKeeps ==
  ASSUME TimerInv, NEW t \in Timers,
         FreeQueuedTimer(t) \/ \E d \in Delays : RefreshFiredTimer(t, d)
  PROVE  TimerInv' /\ ServiceStep
<1>1. /\ at \in {"Idle", "Callback"} /\ at' = "Dead"
      /\ UNCHANGED <<world, queue, expire, next_expire, order, early, now_,
                     current, listed, pass>>
      /\ ops' = ops \/ (ops' = ops + 1 /\ ops < MaxOps)
      /\ \/ free' = <<t>> \o free /\ node' = [node EXCEPT ![t] = "free"]
         \/ UNCHANGED <<free, node>>
  BY DEF FreeQueuedTimer, RefreshFiredTimer, MayCall, lists
<1>2. TypeOK
  BY DEF TimerInv
<1>3. ops' \in 0 .. MaxOps /\ pass' \in 0 .. ops'
  BY <1>1, <1>2, TimerAssumption DEF TypeOK
<1>4. free' \in Seq(Timers)
  <2>1. free \in Seq(Timers)
    BY <1>2 DEF TypeOK, TimerQueueType
  <2>2. <<t>> \o free \in Seq(Timers)
    BY <2>1, PushedIsInserted
  <2>3. QED
    BY <1>1, <2>1, <2>2
<1>5. node' \in [Timers -> {"unallocated", "linked", "poison", "free"}]
  BY <1>1, <1>2 DEF TypeOK, TimerType
<1>6. TypeOK'
  BY <1>1, <1>2, <1>3, <1>4, <1>5
     DEF TypeOK, TimerType, TimerQueueType, world
<1>7. ServiceStep
  BY <1>1, ServiceStutters DEF world
<1>8. QED
  BY <1>1, <1>6, <1>7 DEF TimerInv

(* Steps that leave the timers on the lists as they are.                   *)
SameHistory(t) == order'[t] = order[t] /\ (t \in early' <=> t \in early)

LEMMA QueueKeeps ==
  ASSUME QueueInv, UNCHANGED <<queue, free, node, expire, ops>>,
         \A t \in Linked : order'[t] = order[t],
         current' \in {current, NONE}
  PROVE  QueueInv'
<1>1. Linked' = Linked /\ Freed' = Freed
  BY DEF Linked, Freed
<1>2. SortedBy(Before(expire, order), queue)'
  BY SameSorted DEF QueueInv
<1>3. QED
  BY <1>1, <1>2 DEF QueueInv, Injective, Elements

LEMMA EarlyKeeps ==
  ASSUME TypeOK, EarlyInv, Linked' \subseteq Linked, UNCHANGED expire,
         now' \in {now, now + 1}, \A t \in Linked' : SameHistory(t)
  PROVE  EarlyInv'
<1>1. now \in Nat /\ \A t \in Linked : expire[t] \in Int
  BY TypeFacts DEF Linked
<1>2. QED
  BY <1>1 DEF EarlyInv, SameHistory

(* A timer that was called back is put on the list of free ones.           *)
LEMMA FreeKeeps ==
  ASSUME TypeOK, QueueInv, NEW t \in Timers,
         node[t] = "poison",
         free' = <<t>> \o free,
         node' = [node EXCEPT ![t] = "free"],
         UNCHANGED <<queue, expire, ops>>,
         \A s \in Linked : order'[s] = order[s],
         current' = NONE \/ (current' = current /\ t # current)
  PROVE  /\ free' \in Seq(Timers)
         /\ node' \in [Timers -> {"unallocated", "linked", "poison", "free"}]
         /\ Linked' = Linked
         /\ QueueInv'
<1>1. /\ node \in [Timers -> NodeStates] /\ free \in Seq(Timers)
      /\ current \in Timers \cup {NONE}
  BY TypeFacts DEF TypeOK
<1>2. /\ node' \in [Timers -> NodeStates]
      /\ node'[t] = "free" /\ \A s \in Timers \ {t} : node'[s] = node[s]
  BY <1>1 DEF NodeStates
<1>3. Linked' = Linked /\ Freed' = Freed \cup {t} /\ t \notin Freed
  BY <1>2 DEF Linked, Freed
<1>4. Injective(free) /\ t \notin Elements(free)
  BY <1>3 DEF QueueInv
<1>5. /\ free' \in Seq(Timers)
      /\ Injective(free') /\ Elements(free') = Elements(free) \cup {t}
  BY <1>1, <1>4, PushProperties
<1>6. current' # NONE => node'[current'] = "poison"
  BY <1>1, <1>2 DEF QueueInv
<1>7. QueueInv'
  <2>1. /\ Injective(queue)' /\ Elements(queue)' = Linked'
        /\ SortedBy(Before(expire, order), queue)'
        /\ (\A s \in Linked : order[s] \in 1 .. ops)'
    BY <1>3, SameSorted DEF QueueInv, Injective, Elements
  <2>2. Injective(free)' /\ Elements(free)' = Freed'
    BY <1>3, <1>5 DEF QueueInv, Injective, Elements
  <2>3. QED
    BY <1>6, <2>1, <2>2 DEF QueueInv
<1>8. QED
  BY <1>2, <1>3, <1>5, <1>7 DEF NodeStates

LEMMA FreeTimerKeeps ==
  ASSUME TimerInv, NEW t \in Timers, FreeTimer(t)
  PROVE  TimerInv' /\ ServiceStep
<1>1. /\ at \in {"Idle", "Callback"} /\ node[t] = "poison" /\ t # current
      /\ free' = <<t>> \o free
      /\ node' = [node EXCEPT ![t] = "free"]
      /\ UNCHANGED <<now, alarm, interval, ret, queue, expire, next_expire, at,
                     now_, current, listed, ops, order, early, pass>>
  BY DEF FreeTimer, world
<1>2. TypeOK /\ QueueInv /\ EarlyInv /\ HeadInv /\ PassInv
  BY <1>1 DEF TimerInv
<1>3. /\ free' \in Seq(Timers)
      /\ node' \in [Timers -> {"unallocated", "linked", "poison", "free"}]
      /\ Linked' = Linked
      /\ QueueInv'
  BY <1>1, <1>2, FreeKeeps
<1>4. TypeOK'
  BY <1>1, <1>2, <1>3 DEF TypeOK, TimerType, TimerQueueType
<1>5. EarlyInv' /\ HeadInv' /\ PassInv'
  BY <1>1, <1>2, <1>3, EarlyKeeps
     DEF HeadInv, GoneBy, NextIsHead, PassInv, Fresh, SameHistory
<1>6. ServiceStep
  BY <1>1, ServiceStutters
<1>7. QED
  BY <1>3, <1>4, <1>5, <1>6 DEF TimerInv

(* From poll() to the reading of the clock.                                *)
LEMMA WakeKeeps ==
  ASSUME TimerInv, PollReturn \/ Dispatch
  PROVE  TimerInv' /\ ServiceStep
<1>1. /\ at = "Idle" /\ at' \in {"Idle", "Read"} /\ listed' \in 0 .. 2
      /\ UNCHANGED <<now, alarm, interval, ret, queue, free, node, expire,
                     next_expire, order, early, now_, current, ops, pass>>
  <2>1. CASE PollReturn
    BY <2>1 DEF PollReturn, world, lists
  <2>2. CASE Dispatch
    BY <2>2 DEF Dispatch, world, lists, TimerInv, TypeOK
  <2>3. QED
    BY <2>1, <2>2
<1>2. TypeOK /\ QueueInv /\ EarlyInv /\ HeadInv
  BY <1>1 DEF TimerInv
<1>3. TypeOK'
  BY <1>1, <1>2 DEF TypeOK, TimerType, TimerQueueType
<1>4. QueueInv'
  BY <1>1, <1>2, QueueKeeps
<1>5. EarlyInv' /\ HeadInv' /\ PassInv'
  BY <1>1, <1>2, EarlyKeeps
     DEF HeadInv, GoneBy, NextIsHead, PassInv, Linked, SameHistory
<1>6. ServiceStep
  BY <1>1, ServiceStutters
<1>7. QED
  BY <1>3, <1>4, <1>5, <1>6 DEF TimerInv

LEMMA ReadTimerfdKeeps ==
  ASSUME TimerInv, ReadTimerfd
  PROVE  TimerInv' /\ ServiceStep
<1>1. /\ at = "Read" /\ at' = "Clock"
      /\ alarm' \in {alarm, NONE}
           \/ /\ Readable /\ interval # 0
              /\ alarm' = NextAlarm(alarm, interval)
      /\ UNCHANGED <<now, interval, ret, queue, free, node, expire,
                     next_expire, order, early, now_, current, listed, ops,
                     pass>>
  BY DEF ReadTimerfd, lists
<1>2. TypeOK /\ QueueInv /\ EarlyInv /\ HeadInv
  BY <1>1 DEF TimerInv
<1>3. alarm' \in Int \cup {NONE}
  <2>1. CASE alarm' \in {alarm, NONE}
    BY <1>2, <2>1 DEF TypeOK
  <2>2. CASE /\ Readable /\ interval # 0
             /\ alarm' = NextAlarm(alarm, interval)
    <3>1. /\ alarm \in Int /\ now \in Nat /\ alarm <= now
          /\ interval \in Nat /\ interval > 0
      BY <1>2, <2>2, TimerAssumption, TypeFacts DEF Readable, TypeOK
    <3>2. now - alarm \in Nat
      BY <3>1
    <3>3. (now - alarm) \div interval \in Nat
      BY <3>1, <3>2
    <3>4. ASSUME NEW a \in Nat, NEW b \in Nat
          PROVE  a * b \in Nat
      OBVIOUS
    <3>5. interval * (((now - alarm) \div interval) + 1) \in Nat
      BY <3>1, <3>3, <3>4
    <3>6. QED
      BY <2>2, <3>1, <3>5 DEF NextAlarm
  <2>3. QED
    BY <1>1, <2>1, <2>2
<1>4. TypeOK'
  BY <1>1, <1>2, <1>3 DEF TypeOK, TimerType, TimerQueueType
<1>5. QueueInv'
  BY <1>1, <1>2, QueueKeeps
<1>6. EarlyInv' /\ HeadInv' /\ PassInv'
  BY <1>1, <1>2, EarlyKeeps
     DEF HeadInv, GoneBy, NextIsHead, PassInv, Linked, SameHistory
<1>7. ServiceStep
  BY <1>1, ServiceStutters
<1>8. QED
  BY <1>4, <1>5, <1>6, <1>7 DEF TimerInv

LEMMA ReadClockKeeps ==
  ASSUME TimerInv, ReadClock
  PROVE  TimerInv' /\ ServiceStep
<1>1. /\ at = "Clock" /\ at' = "Expire" /\ now_' = now /\ pass' = ops
      /\ UNCHANGED <<now, alarm, interval, ret, queue, free, node, expire,
                     next_expire, order, early, current, listed, ops>>
  BY DEF ReadClock, world, lists
<1>2. TypeOK /\ QueueInv /\ EarlyInv /\ HeadInv
  BY <1>1 DEF TimerInv
<1>3. now \in Nat /\ ops \in Nat
  BY <1>2, TypeFacts
<1>4. TypeOK'
  <2>1. now_' \in 0 .. now' /\ pass' \in 0 .. ops'
    BY <1>1, <1>3
  <2>2. QED
    BY <1>1, <1>2, <2>1 DEF TypeOK, TimerType, TimerQueueType
<1>5. QueueInv'
  BY <1>1, <1>2, QueueKeeps
<1>6. Fresh' = {}
  <2>1. \A t \in Linked : order[t] <= ops /\ order[t] \in Nat
    BY <1>2, <1>3 DEF QueueInv
  <2>2. QED
    BY <1>1, <1>3, <2>1 DEF Fresh, Linked
<1>7. EarlyInv' /\ HeadInv' /\ PassInv'
  BY <1>1, <1>2, <1>6, EarlyKeeps
     DEF HeadInv, GoneBy, NextIsHead, PassInv, Linked, SameHistory
<1>8. ServiceStep
  BY <1>1, ServiceStutters
<1>9. QED
  BY <1>4, <1>5, <1>7, <1>8 DEF TimerInv

(* The head is called back: nothing in the queue is to go before it.       *)
LEMMA ExpireKeeps ==
  ASSUME TimerInv, Expire
  PROVE  /\ TimerInv' /\ ServiceStep
         /\ order[current'] <= pass \/ current' \in early
<1> DEFINE t == Head(queue)
<1>1. /\ at = "Expire" /\ at' = "Callback" /\ queue # <<>>
      /\ expire[t] <= now_ /\ current' = t /\ queue' = Tail(queue)
      /\ node' = [node EXCEPT ![t] = "poison"]
      /\ UNCHANGED <<now, alarm, interval, ret, free, expire, next_expire,
                     now_, listed, ops, order, early, pass>>
  BY DEF Expire, world
<1>2. TypeOK /\ QueueInv /\ EarlyInv /\ HeadInv /\ PassInv
  BY <1>1 DEF TimerInv
<1>3. /\ now \in Nat /\ now_ \in Nat /\ now_ <= now /\ pass \in Nat
      /\ queue \in Seq(Timers)
      /\ expire \in [Timers -> Int] /\ order \in [Timers -> Nat]
      /\ node \in [Timers -> NodeStates]
  BY <1>2, TypeFacts
<1>4. /\ queue' \in Seq(Timers) /\ Injective(queue')
      /\ Elements(queue') = Elements(queue) \ {t}
      /\ t \in Elements(queue)
      /\ \A R : SortedBy(R, queue) => SortedBy(R, queue')
  <2>1. Injective(queue)
    BY <1>2 DEF QueueInv
  <2>2. QED
    BY <1>1, <1>3, <2>1, TailProperties
<1>5. 1 \in DOMAIN queue /\ queue[1] = t
  BY <1>1, <1>3, TailIsDeleted
<1> HIDE DEF t
<1>6. t \in Timers /\ t \in Linked /\ node[t] = "linked" /\ t # NONE
  BY <1>2, <1>4, TimerAssumption DEF QueueInv, Linked
<1>7. /\ node' \in [Timers -> NodeStates]
      /\ node'[t] = "poison" /\ \A s \in Timers \ {t} : node'[s] = node[s]
  BY <1>1, <1>3, <1>6 DEF NodeStates
<1>8. Linked' = Linked \ {t} /\ Freed' = Freed
  BY <1>6, <1>7 DEF Linked, Freed
<1>9. TypeOK'
  <2>1. node' \in [Timers -> {"unallocated", "linked", "poison", "free"}]
    BY <1>7 DEF NodeStates
  <2>2. current' \in Timers \cup {NONE} /\ (at' = "Callback" <=> current' # NONE)
    BY <1>1, <1>6
  <2>3. QED
    BY <1>1, <1>2, <1>4, <2>1, <2>2 DEF TypeOK, TimerType, TimerQueueType
<1>10. QueueInv'
  <2>1. Elements(queue') = Linked' /\ Elements(free') = Freed'
    BY <1>1, <1>2, <1>4, <1>8 DEF QueueInv
  <2>2. SortedBy(Before(expire, order), queue')
    BY <1>2, <1>4 DEF QueueInv
  <2>3. Injective(free')
    BY <1>1, <1>2 DEF QueueInv
  <2>4. current' # NONE => node'[current'] = "poison"
    BY <1>1, <1>7
  <2>5. \A s \in Linked' : order'[s] \in 1 .. ops'
    BY <1>1, <1>2, <1>8 DEF QueueInv
  <2>6. SortedBy(Before(expire', order'), queue')
    BY <1>1, <2>2
  <2>7. QED
    BY <1>4, <2>1, <2>3, <2>4, <2>5, <2>6
       DEF QueueInv, Injective, Elements, SortedBy, Before
<1>11. order[t] <= pass \/ t \in early
  <2>1. t \notin Fresh
    BY <1>1, <1>2, <1>3, <1>6 DEF PassInv
  <2>2. QED
    BY <1>3, <1>6, <2>1 DEF Fresh
<1>12. Fresh' \subseteq Fresh
  BY <1>1, <1>8 DEF Fresh
<1>13. GoneBy(now_)
  <2>1. NextIsHead => next_expire = expire[t]
    BY DEF NextIsHead, t
  <2>2. QED
    BY <1>1, <1>2, <2>1 DEF PassInv, GoneBy
<1>14. EarlyInv' /\ HeadInv' /\ PassInv'
  BY <1>1, <1>2, <1>8, <1>12, <1>13, EarlyKeeps
     DEF HeadInv, PassInv, GoneBy, SameHistory
<1>15. ServiceStep
  <2> DEFINE entry(s) == [timer |-> s, due |-> expire[s], order |-> order[s]]
             p == entry(t)
  <2>1. pending = {entry(s) : s \in Linked}
    BY <1>2, PendingAreEntries DEF Entries, QueueInv
  <2>2. pending' = {entry(s) : s \in Linked \ {t}}
    BY <1>1, <1>2, <1>4, PendingAreEntries DEF Entries, QueueInv
  <2>3. \A s \in Linked : p = entry(s) => s = t
    OBVIOUS
  <2>4. p \in pending /\ pending' = pending \ {p}
    <3> HIDE DEF entry, p
    <3>1. p = entry(t)
      BY DEF p
    <3>2. QED
      BY <1>6, <2>1, <2>2, <2>3, <3>1
  <2>5. p.due <= now
    BY <1>1, <1>3, <1>6
  <2>6. ASSUME NEW q \in pending \ {p}
        PROVE  Service!Precedes(p, q)
    <3>1. PICK s \in Linked : q = entry(s)
      BY <2>1
    <3>2. s # t /\ s \in Elements(queue) /\ s \in Timers
      BY <1>2, <2>6, <3>1 DEF QueueInv, Linked
    <3>3. PICK k \in DOMAIN queue : queue[k] = s
      BY <3>2 DEF Elements
    <3>4. 1 < k
      BY <1>3, <1>5, <3>2, <3>3
    <3>5. <<t, s>> \in Before(expire, order)
      BY <1>2, <1>5, <3>3, <3>4 DEF QueueInv, SortedBy
    <3>6. expire[t] < expire[s] \/ (expire[t] = expire[s] /\ order[t] < order[s])
      BY <3>5 DEF Before
    <3>7. QED
      BY <3>1, <3>6 DEF Service!Precedes
  <2>7. now' = now /\ (at' = "Destroyed") = (at = "Destroyed")
    BY <1>1
  <2> HIDE DEF p
  <2>8. Service!Fire(p)
    BY <2>4, <2>5, <2>6, <2>7 DEF Service!Fire
  <2>9. QED
    BY <2>4, <2>8 DEF ServiceStep, Service!Next
<1>16. QED
  BY <1>1, <1>9, <1>10, <1>11, <1>14, <1>15 DEF TimerInv

(* The end of a callback, whether or not the timer was freed in it.        *)
HistoryType ==
  order \in [Timers -> 0 .. MaxOps] /\ early \subseteq Timers

LEMMA ForgetKeeps ==
  ASSUME TypeOK, QueueInv, at = "Callback", Forget(current)
  PROVE  /\ current \in Timers /\ node[current] = "poison"
         /\ HistoryType'
         /\ \A s \in Linked : SameHistory(s)
<1>1. current \in Timers /\ node[current] = "poison"
  BY DEF TypeOK, QueueInv
<1>2. HistoryType'
  BY TimerAssumption DEF TypeOK, Forget, HistoryType
<1>3. \A s \in Linked : s \in Timers /\ s # current
  BY <1>1 DEF Linked
<1>4. QED
  BY <1>1, <1>2, <1>3 DEF Forget, SameHistory, TypeOK

LEMMA CallbackEndKeeps ==
  ASSUME PassInv, at = "Callback", at' = "Expire",
         Linked' = Linked, \A s \in Linked : SameHistory(s),
         UNCHANGED <<queue, expire, next_expire, now_, pass>>
  PROVE  HeadInv' /\ PassInv'
<1>1. Fresh' = Fresh
  BY DEF Fresh, SameHistory
<1>2. QED
  BY <1>1 DEF HeadInv, PassInv, GoneBy, NextIsHead

LEMMA EndForwardKeeps ==
  ASSUME TimerInv, EndForward
  PROVE  TimerInv' /\ ServiceStep
<1>1. /\ at = "Callback" /\ at' = "Expire" /\ current' = NONE
      /\ free' = <<current>> \o free
      /\ node' = [node EXCEPT ![current] = "free"]
      /\ Forget(current)
      /\ UNCHANGED <<now, alarm, interval, ret, queue, expire, next_expire,
                     now_, listed, ops, pass>>
  BY DEF EndForward, world
<1>2. TypeOK /\ QueueInv /\ EarlyInv /\ HeadInv /\ PassInv
  BY <1>1 DEF TimerInv
<1>3. /\ current \in Timers /\ node[current] = "poison"
      /\ TypeOK /\ HistoryType' /\ \A s \in Linked : SameHistory(s)
  BY <1>1, <1>2, ForgetKeeps
<1>4. /\ free' \in Seq(Timers)
      /\ node' \in [Timers -> {"unallocated", "linked", "poison", "free"}]
      /\ Linked' = Linked
      /\ QueueInv'
  BY <1>1, <1>2, <1>3, FreeKeeps DEF SameHistory
<1>5. TypeOK'
  BY <1>1, <1>2, <1>3, <1>4 DEF TypeOK, TimerType, TimerQueueType, HistoryType
<1>6. EarlyInv' /\ HeadInv' /\ PassInv'
  BY <1>1, <1>2, <1>3, <1>4, EarlyKeeps, CallbackEndKeeps
<1>7. ServiceStep
  BY <1>1, <1>2, <1>3, ServiceStutters DEF QueueInv, SameHistory
<1>8. QED
  BY <1>4, <1>5, <1>6, <1>7 DEF TimerInv

LEMMA EndCallbackKeeps ==
  ASSUME TimerInv, EndCallback
  PROVE  TimerInv' /\ ServiceStep
<1>1. /\ at = "Callback" /\ at' = "Expire" /\ current' = NONE
      /\ Forget(current)
      /\ UNCHANGED <<now, alarm, interval, ret, queue, free, node, expire,
                     next_expire, now_, listed, ops, pass>>
  BY DEF EndCallback, world
<1>2. TypeOK /\ QueueInv /\ EarlyInv /\ HeadInv /\ PassInv
  BY <1>1 DEF TimerInv
<1>3. /\ HistoryType' /\ \A s \in Linked : SameHistory(s)
      /\ Linked' = Linked
  BY <1>1, <1>2, ForgetKeeps DEF Linked
<1>4. TypeOK'
  BY <1>1, <1>2, <1>3 DEF TypeOK, TimerType, TimerQueueType, HistoryType
<1>5. QueueInv'
  BY <1>1, <1>2, <1>3, QueueKeeps DEF SameHistory
<1>6. EarlyInv' /\ HeadInv' /\ PassInv'
  BY <1>1, <1>2, <1>3, EarlyKeeps, CallbackEndKeeps
<1>7. ServiceStep
  BY <1>1, <1>2, <1>3, ServiceStutters DEF QueueInv, SameHistory
<1>8. QED
  BY <1>4, <1>5, <1>6, <1>7 DEF TimerInv

(* The timerfd is set again for the head that is left, if one is.          *)
LEMMA EndExpirationKeeps ==
  ASSUME TimerInv, EndExpiration
  PROVE  TimerInv' /\ ServiceStep
<1>1. /\ at = "Expire" /\ at' = "Idle"
      /\ UpdateExpiration(queue, expire)
      /\ now_' = 0 /\ pass' = 0
      /\ UNCHANGED <<now, queue, free, node, expire, current, listed, ops,
                     order, early>>
  BY DEF EndExpiration
<1>2. TypeOK /\ QueueInv /\ EarlyInv /\ HeadInv /\ PassInv
  BY <1>1 DEF TimerInv
<1>3. /\ now \in Nat /\ now_ \in Nat /\ now_ <= now /\ ops \in Nat
      /\ queue \in Seq(Timers) /\ expire \in [Timers -> Int]
  BY <1>2, TypeFacts
<1>4. /\ alarm' \in Int \cup {NONE}
      /\ interval' \in Intervals \cup {0}
      /\ ret' \in {0, -1}
      /\ next_expire' \in Int \cup {NONE}
      /\ queue = <<>> => GoneBy(now)'
      /\ queue # <<>> => /\ next_expire' = expire[Head(queue)]
                         /\ ret' = 0 => alarm' = next_expire'
  <2>1. CASE queue = <<>>
    <3>1. UNCHANGED <<alarm, interval, ret, next_expire>>
      BY <1>1, <2>1 DEF UpdateExpiration
    <3>2. GoneBy(now_) /\ next_expire \in Int \cup {NONE}
      BY <1>1, <1>2, <2>1 DEF PassInv, TypeOK, TimerQueueType
    <3>3. GoneBy(now)'
      BY <1>1, <1>3, <3>1, <3>2 DEF GoneBy
    <3>4. QED
      BY <1>2, <2>1, <3>1, <3>2, <3>3 DEF TypeOK
  <2>2. CASE queue # <<>>
    BY <1>1, <1>2, <1>3, <2>2, UpdateArms
  <2>3. QED
    BY <2>1, <2>2
<1>5. TypeOK'
  <2>1. now_' \in 0 .. now' /\ pass' \in 0 .. ops'
    BY <1>1, <1>3
  <2>2. QED
    BY <1>1, <1>2, <1>4, <2>1 DEF TypeOK, TimerType, TimerQueueType
<1>6. QueueInv'
  BY <1>1, <1>2, QueueKeeps
<1>7. EarlyInv' /\ HeadInv' /\ PassInv'
  BY <1>1, <1>2, <1>4, EarlyKeeps
     DEF HeadInv, GoneBy, NextIsHead, PassInv, Linked, SameHistory
<1>8. ServiceStep
  BY <1>1, ServiceStutters
<1>9. QED
  BY <1>5, <1>6, <1>7, <1>8 DEF TimerInv

LEMMA DestroyKeeps ==
  ASSUME TimerInv, TimerQueueDestroy
  PROVE  TimerInv' /\ ServiceStep
<1>1. /\ at = "Idle" /\ at' = "Destroyed" /\ alarm' = NONE
      /\ queue' = <<>> /\ free' = <<>>
      /\ node' = [t \in Timers |->
                    IF node[t] = "poison" THEN node[t] ELSE "unallocated"]
      /\ UNCHANGED <<now, interval, ret, expire, next_expire, now_, current,
                     listed, ops, order, early, pass>>
  BY DEF TimerQueueDestroy
<1>2. TypeOK /\ QueueInv
  BY <1>1 DEF TimerInv
<1>3. TypeOK'
  <2>1. node' \in [Timers -> {"unallocated", "linked", "poison", "free"}]
    BY <1>1
  <2>2. <<>> \in Seq(Timers)
    OBVIOUS
  <2>3. QED
    BY <1>1, <1>2, <2>1, <2>2 DEF TypeOK, TimerType, TimerQueueType
<1>4. Linked' = {} /\ Freed' = {}
  BY <1>1 DEF Linked, Freed
<1>5. current' = NONE
  BY <1>1, <1>2 DEF TypeOK
<1>6. QueueInv'
  BY <1>1, <1>4, <1>5 DEF QueueInv, Injective, Elements, SortedBy
<1>7. EarlyInv' /\ HeadInv' /\ PassInv'
  BY <1>1, <1>4 DEF EarlyInv, HeadInv, PassInv
<1>8. ServiceStep
  <2>1. pending' = {}
    BY <1>1 DEF pending
  <2>2. Service!End
    BY <1>1, <2>1 DEF Service!End
  <2>3. QED
    BY <2>2 DEF ServiceStep, Service!Next
<1>9. QED
  BY <1>3, <1>6, <1>7, <1>8 DEF TimerInv

LEMMA TickKeeps ==
  ASSUME TimerInv, Tick
  PROVE  TimerInv' /\ ServiceStep
<1>1. /\ now < MaxTime /\ now' = now + 1
      /\ UNCHANGED <<alarm, interval, ret, queue, free, node, expire,
                     next_expire, order, early, at, now_, current, listed, ops,
                     pass>>
  BY DEF Tick, lists
<1>2. TypeOK /\ now \in Nat /\ now_ \in Nat /\ now_ <= now
  BY TypeFacts DEF TimerInv
<1>3. TypeOK'
  <2>1. now' \in 0 .. MaxTime /\ now_' \in 0 .. now'
    BY <1>1, <1>2, TimerAssumption
  <2>2. QED
    BY <1>1, <1>2, <2>1 DEF TypeOK, TimerType, TimerQueueType
<1>4. ASSUME at # "Dead"
      PROVE  QueueInv' /\ EarlyInv' /\ HeadInv' /\ PassInv'
  <2>1. QueueInv /\ EarlyInv /\ HeadInv /\ PassInv
    BY <1>4 DEF TimerInv
  <2>2. QueueInv'
    BY <1>1, <2>1, QueueKeeps
  <2>3. GoneBy(now) => GoneBy(now)'
    BY <1>1, <1>2 DEF GoneBy, TypeOK, TimerQueueType
  <2>4. HeadInv'
    BY <1>1, <2>1, <2>3 DEF HeadInv, NextIsHead
  <2>5. PassInv'
    BY <1>1, <2>1 DEF PassInv, GoneBy, NextIsHead, Fresh, Linked
  <2>6. EarlyInv'
    BY <1>1, <1>2, <2>1, EarlyKeeps DEF Linked, SameHistory
  <2>7. QED
    BY <2>2, <2>4, <2>5, <2>6
<1>5. ServiceStep
  <2>1. pending' = pending
    BY <1>1 DEF pending
  <2>2. Service!Tick
    BY <1>1, <2>1 DEF Service!Tick
  <2>3. QED
    BY <2>2 DEF ServiceStep, Service!Next
<1>6. QED
  BY <1>1, <1>3, <1>4, <1>5 DEF TimerInv

LEMMA StutterKeeps ==
  ASSUME TimerInv, UNCHANGED vars
  PROVE  TimerInv' /\ ServiceStep
<1>1. UNCHANGED <<now, alarm, interval, ret, queue, free, node, expire,
                  next_expire, order, early, at, now_, current, listed, ops,
                  pass>>
  BY DEF vars, world, lists
<1>2. TypeOK'
  BY <1>1 DEF TimerInv, TypeOK, TimerType, TimerQueueType
<1>3. ASSUME at # "Dead"
      PROVE  QueueInv' /\ EarlyInv' /\ HeadInv' /\ PassInv'
  <2>1. QueueInv /\ EarlyInv /\ HeadInv /\ PassInv
    BY <1>3 DEF TimerInv
  <2>2. QueueInv'
    BY <1>1, <2>1, QueueKeeps
  <2>3. EarlyInv' /\ HeadInv' /\ PassInv'
    BY <1>1, <2>1
       DEF EarlyInv, HeadInv, PassInv, GoneBy, NextIsHead, Fresh, Linked
  <2>4. QED
    BY <2>2, <2>3
<1>4. ServiceStep
  BY <1>1, ServiceStutters
<1>5. QED
  BY <1>1, <1>2, <1>3, <1>4 DEF TimerInv

-----------------------------------------------------------------------------
(* The theorems.                                                           *)

LEMMA InitEstablishes ==
  ASSUME Init
  PROVE  TimerInv /\ Service!Init
<1>1. <<>> \in Seq(Timers)
  OBVIOUS
<1>2. TypeOK
  <2>1. TimerType /\ TimerQueueType
    BY <1>1 DEF Init, TimerType, TimerQueueType
  <2>2. /\ 0 \in 0 .. MaxTime /\ 0 \in 0 .. 0 /\ 0 \in 0 .. MaxOps
        /\ 0 \in 0 .. 2
    BY TimerAssumption
  <2>3. QED
    BY <2>1, <2>2 DEF Init, TypeOK
<1>3. Linked = {} /\ Freed = {}
  BY DEF Init, Linked, Freed
<1>4. QueueInv
  BY <1>3 DEF Init, QueueInv, Injective, Elements, SortedBy
<1>5. EarlyInv /\ HeadInv /\ PassInv
  BY <1>3 DEF Init, EarlyInv, HeadInv, PassInv, GoneBy
<1>6. Service!Init
  BY DEF Init, pending, Service!Init
<1>7. QED
  BY <1>2, <1>4, <1>5, <1>6 DEF TimerInv

LEMMA StepKeeps ==
  ASSUME TimerInv, [Next]_vars
  PROVE  /\ TimerInv' /\ ServiceStep
         /\ at = "Expire" /\ at' = "Callback" =>
              order[current'] <= pass \/ current' \in early
<1>1. CASE Expire
  BY <1>1, ExpireKeeps
<1>2. ASSUME ~Expire
      PROVE  /\ TimerInv' /\ ServiceStep
             /\ ~(at = "Expire" /\ at' = "Callback")
  <2>1. CASE PollReturn \/ Dispatch
    BY <2>1, WakeKeeps DEF PollReturn, Dispatch
  <2>2. CASE ReadTimerfd
    BY <2>2, ReadTimerfdKeeps DEF ReadTimerfd
  <2>3. CASE ReadClock
    BY <2>3, ReadClockKeeps DEF ReadClock
  <2>4. CASE EndForward
    BY <2>4, EndForwardKeeps DEF EndForward
  <2>5. CASE EndCallback
    BY <2>5, EndCallbackKeeps DEF EndCallback
  <2>6. CASE EndExpiration
    BY <2>6, EndExpirationKeeps DEF EndExpiration
  <2>7. CASE Tick
    BY <2>7, TickKeeps DEF Tick
  <2>8. ASSUME NEW d \in Delays, AddTimer(d)
        PROVE  TimerInv' /\ ServiceStep /\ at # "Expire"
    BY <2>8, AddTimerKeeps DEF AddTimer, MayCall
  <2>9. ASSUME NEW d \in Delays, NEW t \in Timers, RefreshTimer(t, d)
        PROVE  TimerInv' /\ ServiceStep /\ at # "Expire"
    BY <2>9, RefreshTimerKeeps DEF RefreshTimer, MayCall
  <2>10. ASSUME NEW d \in Delays, NEW t \in Timers, RefreshFiredTimer(t, d)
         PROVE  TimerInv' /\ ServiceStep /\ at # "Expire"
    BY <2>10, MisuseKeeps DEF RefreshFiredTimer, MayCall
  <2>11. ASSUME NEW t \in Timers, FreeTimer(t)
         PROVE  TimerInv' /\ ServiceStep /\ at # "Expire"
    BY <2>11, FreeTimerKeeps DEF FreeTimer
  <2>12. ASSUME NEW t \in Timers, FreeQueuedTimer(t)
         PROVE  TimerInv' /\ ServiceStep /\ at # "Expire"
    BY <2>12, MisuseKeeps DEF FreeQueuedTimer
  <2>13. CASE TimerQueueDestroy
    BY <2>13, DestroyKeeps DEF TimerQueueDestroy
  <2>14. CASE UNCHANGED vars
    BY <2>14, StutterKeeps DEF vars
  <2>15. QED
    BY <1>2, <2>1, <2>2, <2>3, <2>4, <2>5, <2>6, <2>7, <2>8, <2>9, <2>10,
       <2>11, <2>12, <2>13, <2>14
       DEF Next, LoopStep, UserOp
<1>3. QED
  BY <1>1, <1>2

LEMMA Invariance == Spec => []TimerInv
<1>1. Init => TimerInv
  BY InitEstablishes
<1>2. TimerInv /\ [Next]_vars => TimerInv'
  BY StepKeeps
<1>3. QED
  BY <1>1, <1>2, PTL DEF Spec

(* Types, and that the owner is in a callback exactly while a timer is     *)
(* being called back.                                                      *)
THEOREM TypeSafety == Spec => []TypeOK
<1>1. TimerInv => TypeOK
  BY DEF TimerInv
<1>2. QED
  BY <1>1, Invariance, PTL

(* However often an element is in a sequence without repetitions.          *)
LEMMA Occurrences ==
  ASSUME NEW S, NEW s \in Seq(S), Injective(s), NEW x
  PROVE  Cardinality({k \in DOMAIN s : s[k] = x})
           = IF x \in Elements(s) THEN 1 ELSE 0
<1> DEFINE places == {k \in DOMAIN s : s[k] = x}
<1>1. CASE x \in Elements(s)
  <2>1. PICK k \in DOMAIN s : s[k] = x
    BY <1>1 DEF Elements
  <2>2. places = {k}
    BY <2>1 DEF Injective
  <2>3. QED
    BY <1>1, <2>2, FS_Singleton
<1>2. CASE x \notin Elements(s)
  <2>1. places = {}
    BY <1>2 DEF Elements
  <2>2. QED
    BY <1>2, <2>1, FS_EmptySet
<1>3. QED
  BY <1>1, <1>2

(* tq_node puts a timer on one list at most, for as many timers as there   *)
(* are: neither an allocation nor a refreshment loses or doubles one.      *)
THEOREM ListsApart == Spec => []TimersApart
<1>1. ASSUME TimerInv
      PROVE  TimersApart
  <2>1. SUFFICES ASSUME at # "Dead"
                 PROVE  /\ \A t \in Timers :
                             /\ Cardinality({k \in DOMAIN queue : queue[k] = t})
                                  = IF node[t] = "linked" THEN 1 ELSE 0
                             /\ Cardinality({k \in DOMAIN free : free[k] = t})
                                  = IF node[t] = "free" THEN 1 ELSE 0
                        /\ current # NONE => node[current] = "poison"
    BY DEF TimersApart
  <2>2. QueueInv /\ queue \in Seq(Timers) /\ free \in Seq(Timers)
    BY <1>1, <2>1, TypeFacts DEF TimerInv
  <2>3. /\ Injective(queue) /\ Injective(free)
        /\ current # NONE => node[current] = "poison"
    BY <2>2 DEF QueueInv
  <2>4. ASSUME NEW t \in Timers
        PROVE  /\ Cardinality({k \in DOMAIN queue : queue[k] = t})
                    = IF node[t] = "linked" THEN 1 ELSE 0
               /\ Cardinality({k \in DOMAIN free : free[k] = t})
                    = IF node[t] = "free" THEN 1 ELSE 0
    <3>1. /\ (t \in Elements(queue)) = (node[t] = "linked")
          /\ (t \in Elements(free)) = (node[t] = "free")
      BY <2>2 DEF QueueInv, Linked, Freed
    <3>2. /\ Cardinality({k \in DOMAIN queue : queue[k] = t})
               = IF t \in Elements(queue) THEN 1 ELSE 0
          /\ Cardinality({k \in DOMAIN free : free[k] = t})
               = IF t \in Elements(free) THEN 1 ELSE 0
      BY <2>2, <2>3, Occurrences
    <3>3. QED
      BY <3>1, <3>2
  <2>5. QED
    BY <2>3, <2>4
<1>2. QED
  BY <1>1, Invariance, PTL

(* The loop never sleeps with a timerfd that is set for anything but the   *)
(* head of the queue, unless the kernel refused that or the head was set   *)
(* for a time gone by.                                                     *)
THEOREM HeadIsArmed == Spec => []HeadArmed
<1>1. ASSUME TimerInv
      PROVE  HeadArmed
  BY <1>1 DEF TimerInv, HeadInv, NextIsHead, HeadArmed, HeadEarly
<1>2. QED
  BY <1>1, Invariance, PTL

(* A timer that a callback sets for a time to come waits for the next      *)
(* expiration of the timerfd, however short its delay: only one whose      *)
(* delay overflowed into the past is called back by the same run.          *)
THEOREM PassesEnd == Spec => PassIsFinite
<1>1. TimerInv /\ [Next]_vars
        => [at = "Expire" /\ at' = "Callback" =>
              order[current'] <= pass \/ current' \in early]_vars
  BY StepKeeps
<1>2. QED
  BY <1>1, Invariance, PTL DEF Spec, PassIsFinite

(* The queue, its free list and its timerfd implement TimerService: a      *)
(* timer is called back once, not before its time, and in order.           *)
THEOREM QueueRefinesService == Spec => ServiceSpec
<1>1. Init => Service!Init
  BY InitEstablishes
<1>2. TimerInv /\ [Next]_vars => [Service!Next]_(Service!vars)
  BY StepKeeps DEF ServiceStep
<1>3. QED
  BY <1>1, <1>2, Invariance, PTL DEF Spec, ServiceSpec
=============================================================================
