-------------------------- MODULE TimerDelayProofs --------------------------
(***************************************************************************)
(* Proofs about TimerDelay, for any bounds on what is asked for and any    *)
(* readings of the clock.                                                  *)
(***************************************************************************)
EXTENDS TimerDelay, TLAPS

-----------------------------------------------------------------------------
(* The operators.                                                          *)

(* The product of timer_set_value() is an int if it is less than 2^31 ns.  *)
LEMMA WrappedFits ==
  ASSUME NEW v \in Nat, v < 4194304
  PROVE  Wrapped(v) = v
<1>1. v % 8388608 = v
  BY SMT
<1>2. 8388608 \div 2 = 4194304
  BY SMT
<1>3. QED
  BY <1>1, <1>2, SMT DEF Wrapped, IntRange

LEMMA WrappedType ==
  ASSUME NEW v \in Int
  PROVE  Wrapped(v) \in Int
BY SMT DEF Wrapped, IntRange

(* The product v lacks k times 2^32 ns, and nothing only if it fits.       *)
Loses(v, k) ==
  /\ v = Wrapped(v) + k * IntRange
  /\ k = 0 <=> v < 4194304
  /\ k * IntRange <= v + 4194304

LEMMA WrappedLoses ==
  ASSUME NEW v \in Nat
  PROVE  \E k \in Nat : Loses(v, k)
<1> DEFINE q == v \div IntRange
           low == v % IntRange
<1>0. q \in Nat
  BY SMT DEF IntRange
<1>1. /\ q \in Nat /\ low \in Nat /\ low < 8388608
      /\ v = q * 8388608 + low
  BY SMT DEF IntRange
<1>2. IntRange \div 2 = 4194304
  BY SMT DEF IntRange
<1>3. Wrapped(v) = IF low < 4194304 THEN low ELSE low - 8388608
  BY <1>2, SMT DEF Wrapped, IntRange
<1> HIDE DEF q, low
<1>4. CASE low < 4194304
  <2>1. Loses(v, q)
    BY <1>1, <1>3, <1>4, SMT DEF Loses, IntRange
  <2>2. QED
    BY <1>0, <2>1
<1>5. CASE ~(low < 4194304)
  <2>1. q + 1 \in Nat /\ Loses(v, q + 1)
    BY <1>1, <1>3, <1>5, SMT DEF Loses, IntRange
  <2>2. QED
    BY <2>1
<1>6. QED
  BY <1>4, <1>5, SMT

(* Milliseconds are rounded up to the next multiple of MINIMAL_INTERVAL.   *)
LEMMA RoundedUp ==
  ASSUME NEW m \in Nat,
         NEW r, r = ((m + MINIMAL_INTERVAL - 1) \div MINIMAL_INTERVAL)
                      * MINIMAL_INTERVAL
  PROVE  /\ r \in Nat /\ r >= m /\ r < m + 128
         /\ m > 0 => r >= 128
         /\ r = 128 * (r \div MINIMAL_INTERVAL)
<1> DEFINE n == (m + 127) \div 128
<1>1. /\ n \in Nat /\ 128 * n <= m + 127 /\ m + 127 < 128 * n + 128
  OBVIOUS
<1>2. r = n * 128
  BY DEF MINIMAL_INTERVAL
<1> HIDE DEF n
<1>3. r \div 128 = n
  BY <1>1, <1>2
<1>4. r \in Nat /\ r >= m /\ r < m + 128 /\ (m > 0 => r >= 128)
  BY <1>1, <1>2
<1>5. r = 128 * (r \div 128)
  BY <1>1, <1>2, <1>3
<1>6. QED
  BY <1>4, <1>5 DEF MINIMAL_INTERVAL

-----------------------------------------------------------------------------
(* The inductive invariant.                                                *)

DelayTypes ==
  /\ caller \in {"el_run_after", "tq_add_timer"}
  /\ asked \in [secs : Nat, ms : Nat]
  /\ caller = "el_run_after" => asked.secs = 0
  /\ secs \in Nat
  /\ ms \in Nat
  /\ clock \in 0 .. Second - 1
  /\ expire \in [sec : Nat, nsec : Int]

(* What was asked for, in ms, and what el_run_after() loses of it or adds  *)
(* to it.                                                                  *)
Ask == 1000 * asked.secs + asked.ms

Lost == IF caller = "el_run_after" THEN 24 * secs ELSE 0

Twice == IF caller = "el_run_after" /\ secs > 1
         THEN 1024 * (secs - (secs % 2)) ELSE 0

(* The delay in ms, as tq_add_timer() is given it ...                      *)
Given ==
  IF caller = "el_run_after" /\ Ask < 128
  THEN secs = 0 /\ ms = 128
  ELSE 1000 * secs + ms = Ask + Twice - Lost

(* ... and as timer_set_value() adds it to the time.                       *)
Rounded ==
  /\ ms = 128 * (ms \div MINIMAL_INTERVAL)
  /\ 1000 * secs + ms >= Ask + Twice - Lost
  /\ 1000 * secs + ms < IF Ask < 128 THEN 256 ELSE Ask + Twice + 128
  /\ 1000 * secs + ms >= 128

(* The delay that was set lacks k times 2^32 ns.                           *)
Lacks(k) ==
  /\ k = 0 <=> fits
  /\ 8 * (delay + k * IntRange) = 15625 * (1000 * secs + ms)

Added ==
  /\ \E k \in 0 .. ms \div 2148 : Lacks(k)
  /\ fits => expire.nsec >= 0

DelayInv ==
  /\ DelayTypes
  /\ pc \in {"RunAfter", "Split", "AddTimer", "Align", "Add"} =>
       expire = [sec |-> 0, nsec |-> clock]
  /\ pc = "RunAfter" =>
       caller = "el_run_after" /\ secs = 0 /\ ms = asked.ms
  /\ pc = "Split" =>
       /\ caller = "el_run_after" /\ secs = 0
       /\ ms = IF asked.ms < 128 THEN 128 ELSE asked.ms
  /\ pc \in {"AddTimer", "Align"} => Given
  /\ pc = "Align" => ~(secs = 0 /\ ms = 0)
  /\ pc \in {"Add", "Normalise", "Set"} => Rounded
  /\ pc \in {"Normalise", "Set"} => Added
  /\ pc = "Set" => expire.nsec < Second

LEMMA TypeFacts ==
  ASSUME DelayTypes
  PROVE  /\ asked.secs \in Nat /\ asked.ms \in Nat
         /\ secs \in Nat /\ ms \in Nat
         /\ clock \in 0 .. Second - 1
         /\ expire.sec \in Nat /\ expire.nsec \in Int
BY DEF DelayTypes

LEMMA SecondType == Second \in Nat \ {0}
BY SMT DEF Second

LEMMA ClockFacts ==
  ASSUME DelayTypes
  PROVE  clock \in Nat
<1>1. clock \in 0 .. Second - 1
  BY TypeFacts
<1>2. QED
  BY <1>1, SecondType

LEMMA InitEstablishes == Init => DelayInv
<1>1. SUFFICES ASSUME Init
               PROVE  DelayInv
  OBVIOUS
<1>2. /\ asked \in [secs : 0 .. MaxSecs, ms : 0 .. MaxMs]
      /\ secs = asked.secs /\ ms = asked.ms
      /\ clock \in Clocks
      /\ expire = [sec |-> 0, nsec |-> clock]
      /\ \/ caller = "el_run_after" /\ pc = "RunAfter" /\ asked.secs = 0
         \/ caller = "tq_add_timer" /\ pc = "AddTimer"
  BY <1>1 DEF Init
<1>3. DelayTypes
  <2>1. /\ asked.secs \in Nat /\ asked.ms \in Nat
        /\ asked = [secs |-> asked.secs, ms |-> asked.ms]
    <3>1. 0 .. MaxSecs \subseteq Nat /\ 0 .. MaxMs \subseteq Nat
      BY DelayAssumption, SMT
    <3>2. QED
      BY <1>2, <3>1
  <2>2. Clocks \subseteq 0 .. Second - 1
    BY DelayAssumption, SMT
  <2>3. clock \in 0 .. Second - 1 /\ clock \in Int
    BY <1>2, <2>2
  <2>4. QED
    BY <1>2, <2>1, <2>3 DEF DelayTypes
<1>4. pc = "AddTimer" => Given
  BY <1>2, <1>3 DEF DelayTypes, Given, Ask, Twice, Lost
<1>5. QED
  BY <1>2, <1>3, <1>4 DEF DelayInv

LEMMA RunAfterKeeps ==
  ASSUME DelayInv, RunAfter
  PROVE  DelayInv'
BY DEF RunAfter, DelayInv, DelayTypes

LEMMA SplitKeeps ==
  ASSUME DelayInv, Split
  PROVE  DelayInv'
<1> DEFINE s == ms \div 1024
<1>1. /\ pc = "Split" /\ pc' = "AddTimer"
      /\ secs' = s /\ ms' = IF s % 2 = 1 THEN ms - 1024 ELSE ms
      /\ UNCHANGED <<caller, asked, clock, expire>>
  BY DEF Split
<1>2. /\ DelayTypes
      /\ caller = "el_run_after"
      /\ expire = [sec |-> 0, nsec |-> clock]
      /\ ms = IF asked.ms < 128 THEN 128 ELSE asked.ms
  BY <1>1 DEF DelayInv
<1>3. /\ asked.secs = 0 /\ asked.ms \in Nat /\ ms \in Nat
  BY <1>2 DEF DelayTypes
<1>4. /\ s \in Nat /\ 1024 * s <= ms /\ ms < 1024 * s + 1024
  BY <1>3
<1> HIDE DEF s
<1>5. /\ s % 2 \in {0, 1}
      /\ s % 2 = 1 => s >= 1
      /\ ~(s > 1) => s = s % 2
  BY <1>4
<1>6. ms' \in Nat
  BY <1>1, <1>3, <1>4, <1>5
<1>7. DelayTypes'
  BY <1>1, <1>2, <1>4, <1>6 DEF DelayTypes
<1>8. Given'
  <2>1. CASE asked.ms < 128
    <3>1. s = 0
      BY <1>2, <1>4, <2>1
    <3>2. QED
      BY <1>1, <1>2, <1>3, <1>5, <2>1, <3>1 DEF Given, Ask
  <2>2. CASE ~(asked.ms < 128)
    <3>1. Ask' = ms /\ Lost' = 24 * s
          /\ Twice' = IF s > 1 THEN 1024 * (s - (s % 2)) ELSE 0
      BY <1>1, <1>2, <1>3, <2>2 DEF Ask, Lost, Twice
    <3>2. Twice' = 1024 * (s - (s % 2))
      BY <1>4, <1>5, <3>1
    <3>3. 1000 * secs' + ms' = ms + Twice' - 24 * s
      BY <1>1, <1>3, <1>4, <1>5, <3>2
    <3>4. ~(Ask' < 128)
      BY <1>2, <1>3, <2>2, <3>1
    <3>5. QED
      BY <3>1, <3>3, <3>4 DEF Given
  <2>3. QED
    BY <2>1, <2>2
<1>9. QED
  BY <1>1, <1>2, <1>7, <1>8 DEF DelayInv

LEMMA AddTimerKeeps ==
  ASSUME DelayInv, AddTimer
  PROVE  DelayInv'
<1>1. /\ pc = "AddTimer"
      /\ pc' = IF secs = 0 /\ ms = 0 THEN "Refused" ELSE "Align"
      /\ UNCHANGED <<caller, asked, secs, ms, clock, expire>>
  BY DEF AddTimer
<1>2. DelayTypes /\ Given /\ expire = [sec |-> 0, nsec |-> clock]
  BY <1>1 DEF DelayInv
<1>3. DelayTypes' /\ Given'
  BY <1>1, <1>2 DEF DelayTypes, Given, Ask, Lost, Twice
<1>4. QED
  BY <1>1, <1>2, <1>3 DEF DelayInv

LEMMA AlignKeeps ==
  ASSUME DelayInv, Align
  PROVE  DelayInv'
<1>1. /\ pc = "Align" /\ pc' = "Add"
      /\ ms' = ((ms + MINIMAL_INTERVAL - 1) \div MINIMAL_INTERVAL)
                 * MINIMAL_INTERVAL
      /\ UNCHANGED <<caller, asked, secs, clock, expire>>
  BY DEF Align
<1>2. /\ DelayTypes /\ Given /\ expire = [sec |-> 0, nsec |-> clock]
      /\ ~(secs = 0 /\ ms = 0)
  BY <1>1 DEF DelayInv
<1>3. /\ asked.secs \in Nat /\ asked.ms \in Nat
      /\ secs \in Nat /\ ms \in Nat
      /\ caller = "el_run_after" => asked.secs = 0
  BY <1>2 DEF DelayTypes
<1>4. /\ ms' \in Nat /\ ms' >= ms /\ ms' < ms + 128
      /\ ms > 0 => ms' >= 128
  BY <1>1, <1>3, RoundedUp
<1>7. ms' = 128 * (ms' \div MINIMAL_INTERVAL)
  BY <1>1, <1>3, RoundedUp
<1>5. DelayTypes'
  BY <1>1, <1>2, <1>4 DEF DelayTypes
<1>6. /\ Ask' = Ask /\ Lost' = Lost /\ Twice' = Twice
      /\ Ask \in Nat /\ Lost \in Nat /\ Twice \in Nat
  BY <1>1, <1>3 DEF Ask, Lost, Twice
<1>8. Rounded'
  <2>1. CASE caller = "el_run_after" /\ Ask < 128
    <3>1. secs = 0 /\ ms = 128
      BY <1>2, <2>1 DEF Given
    <3>2. Twice = 0 /\ Lost = 0
      BY <3>1 DEF Twice, Lost
    <3>3. QED
      BY <1>1, <1>3, <1>4, <1>6, <1>7, <2>1, <3>1, <3>2 DEF Rounded
  <2>2. CASE ~(caller = "el_run_after" /\ Ask < 128)
    <3>1. 1000 * secs + ms = Ask + Twice - Lost
      BY <1>2, <2>2 DEF Given
    <3>2. secs = 0 => ms' >= 128
      BY <1>2, <1>3, <1>4
    <3>3. Ask < 128 => Twice = 0 /\ Lost = 0
      BY <2>2 DEF Twice, Lost
    <3>4. /\ 1000 * secs + ms' >= Ask + Twice - Lost
          /\ 1000 * secs + ms' < IF Ask < 128 THEN 256 ELSE Ask + Twice + 128
          /\ 1000 * secs + ms' >= 128
      <4> DEFINE x == 1000 * secs
                 r == ms'
                 g == Ask + Twice - Lost
                 h == Ask + Twice
      <4>1. /\ ms \in Nat /\ r \in Nat
            /\ r >= ms /\ r < ms + 128
        BY <1>3, <1>4
      <4>2. x \in Nat /\ (x >= 1000 \/ r >= 128)
        BY <1>3, <3>2
      <4>3. g \in Int /\ h \in Int /\ g <= h
        BY <1>6
      <4>4. Ask < 128 => g < 128
        BY <1>6, <3>3
      <4>5. x + ms = g
        BY <3>1
      <4> HIDE DEF x, r, g, h
      <4>6. /\ x + r >= g /\ x + r < h + 128
            /\ g < 128 => x + r < 256
            /\ x + r >= 128
        BY <4>1, <4>2, <4>3, <4>5
      <4>7. Ask < 128 => x + r < 256
        BY <4>4, <4>6
      <4>8. QED
        BY <4>6, <4>7 DEF x, r, g, h
    <3>5. QED
      BY <1>1, <1>7, <1>6, <3>4 DEF Rounded
  <2>3. QED
    BY <2>1, <2>2
<1>9. QED
  BY <1>1, <1>2, <1>5, <1>8 DEF DelayInv

LEMMA AddKeeps ==
  ASSUME DelayInv, Add
  PROVE  DelayInv'
<1> DEFINE k == ms \div MINIMAL_INTERVAL
<1>1. /\ pc = "Add" /\ pc' = "Normalise"
      /\ expire' = [sec |-> expire.sec + secs,
                    nsec |-> expire.nsec + Wrapped(k * MinimalInterval)]
      /\ UNCHANGED <<caller, asked, secs, ms, clock>>
  BY DEF Add
<1>2. /\ DelayTypes /\ Rounded /\ expire = [sec |-> 0, nsec |-> clock]
  BY <1>1 DEF DelayInv
<1>3. secs \in Nat /\ ms \in Nat /\ clock \in Nat
  BY <1>2, TypeFacts, ClockFacts
<1>4. k \in Nat /\ ms = 128 * k
  <2>1. ms = 128 * k
    BY <1>2 DEF Rounded
  <2>2. ms \div 128 \in Nat
    BY <1>3
  <2>3. QED
    BY <2>1, <2>2 DEF MINIMAL_INTERVAL
<1> HIDE DEF k
<1>5. k * MinimalInterval = 250000 * k /\ 250000 * k \in Nat
  BY <1>4, SMT DEF MinimalInterval
<1>6. expire'.sec = secs /\ expire'.nsec = clock + Wrapped(250000 * k)
  BY <1>1, <1>2, <1>3, <1>5, SMT
<1>7. Wrapped(250000 * k) \in Int
  BY <1>5, WrappedType, SMT
<1>8. DelayTypes'
  <2>1. expire.sec + secs \in Nat
    BY <1>2, <1>3, SMT
  <2>2. expire.nsec + Wrapped(k * MinimalInterval) \in Int
    BY <1>2, <1>3, <1>5, <1>7, SMT
  <2>3. expire' \in [sec : Nat, nsec : Int]
    BY <1>1, <2>1, <2>2, SMT
  <2>4. QED
    BY <1>1, <1>2, <2>3 DEF DelayTypes
<1>9. Rounded'
  BY <1>1, <1>2 DEF Rounded, Ask, Lost, Twice
<1>10. fits' <=> 250000 * k < 4194304
  BY <1>1, <1>3, <1>4, SMT DEF fits
<1>11. PICK n \in Nat : Loses(250000 * k, n)
  BY <1>5, WrappedLoses, SMT
<1>12. /\ 250000 * k = Wrapped(250000 * k) + n * 8388608
       /\ n = 0 <=> 250000 * k < 4194304
       /\ n * 8388608 <= 250000 * k + 4194304
  BY <1>11, SMT DEF Loses, IntRange
<1>13. n \in 0 .. ms' \div 2148
  <2>1. 2148 * n <= 128 * k
    BY <1>4, <1>12, SMT
  <2>2. n <= (128 * k) \div 2148
    BY <1>4, <2>1, SMT
  <2>3. QED
    BY <1>1, <1>4, <2>2, SMT
<1>14. Lacks(n)'
  <2>1. delay' = secs * 1953125 + (clock + Wrapped(250000 * k)) - clock
    BY <1>1, <1>6, SMT DEF delay, Second
  <2>2. delay' + n * 8388608 = secs * 1953125 + 250000 * k
    BY <1>3, <1>4, <1>7, <1>12, <2>1, SMT
  <2>3. 8 * (delay' + n * 8388608) = 15625 * (1000 * secs' + ms')
    BY <1>1, <1>3, <1>4, <2>2, SMT
  <2>4. QED
    BY <1>10, <1>12, <2>3, SMT DEF Lacks, IntRange
<1>15. ASSUME fits'
       PROVE  expire'.nsec >= 0
  <2>1. Wrapped(250000 * k) = 250000 * k
    BY <1>5, <1>10, <1>15, WrappedFits, SMT
  <2>2. QED
    BY <1>3, <1>5, <1>6, <2>1, SMT
<1>16. QED
  BY <1>1, <1>8, <1>9, <1>13, <1>14, <1>15 DEF DelayInv, Added

LEMMA CarryKeeps ==
  ASSUME DelayInv, Carry
  PROVE  DelayInv'
<1>1. /\ pc = "Normalise" /\ pc' = "Normalise"
      /\ expire.nsec >= Second
      /\ expire' = [sec |-> expire.sec + 1, nsec |-> expire.nsec - Second]
      /\ UNCHANGED <<caller, asked, secs, ms, clock>>
  BY DEF Carry
<1>2. DelayTypes /\ Rounded /\ Added
  BY <1>1 DEF DelayInv
<1>3. /\ expire.sec \in Nat /\ expire.nsec \in Int /\ clock \in Nat
      /\ expire'.sec = expire.sec + 1 /\ expire'.nsec = expire.nsec - Second
  BY <1>1, <1>2, TypeFacts, ClockFacts
<1>4. DelayTypes'
  <2>1. expire' \in [sec : Nat, nsec : Int]
    BY <1>1, <1>3, SecondType
  <2>2. QED
    BY <1>1, <1>2, <2>1 DEF DelayTypes
<1>5. Rounded'
  BY <1>1, <1>2 DEF Rounded, Ask, Lost, Twice
<1>6. Added'
  <2>1. delay' = delay
    <3>1. delay' = expire'.sec * 1953125 + expire'.nsec - clock
      BY <1>1, SMT DEF delay, Second
    <3>2. delay = expire.sec * 1953125 + expire.nsec - clock
      BY SMT DEF delay, Second
    <3>3. expire'.nsec = expire.nsec - 1953125
      BY <1>3, SMT DEF Second
    <3>4. QED
      BY <1>3, <3>1, <3>2, <3>3, SMT
  <2>2. expire'.nsec >= 0
    BY <1>1, <1>3, SecondType
  <2>3. fits' = fits
    BY <1>1 DEF fits
  <2>4. QED
    BY <1>1, <1>2, <2>1, <2>2, <2>3 DEF Added, Lacks
<1>7. QED
  BY <1>1, <1>4, <1>5, <1>6 DEF DelayInv

LEMMA SetValueKeeps ==
  ASSUME DelayInv, SetValue
  PROVE  DelayInv'
<1>1. /\ pc = "Normalise" /\ pc' = "Set" /\ expire.nsec < Second
      /\ UNCHANGED <<caller, asked, secs, ms, clock, expire>>
  BY DEF SetValue
<1>2. DelayTypes /\ Rounded /\ Added
  BY <1>1 DEF DelayInv
<1>3. DelayTypes' /\ Rounded' /\ Added'
  BY <1>1, <1>2
     DEF DelayTypes, Rounded, Ask, Lost, Twice, Added, Lacks, delay, fits
<1>4. QED
  BY <1>1, <1>3 DEF DelayInv

-----------------------------------------------------------------------------
(* The theorems.                                                           *)

LEMMA Invariance == Spec => []DelayInv
<1>1. DelayInv /\ [Next]_vars => DelayInv'
  <2>1. ASSUME DelayInv, UNCHANGED vars
        PROVE  DelayInv'
    BY <2>1 DEF vars, DelayInv, DelayTypes, Given, Rounded, Ask, Lost, Twice,
                Added, Lacks, delay, fits
  <2>2. QED
    BY <2>1, RunAfterKeeps, SplitKeeps, AddTimerKeeps, AlignKeeps, AddKeeps,
       CarryKeeps, SetValueKeeps
       DEF Next
<1>2. QED
  BY <1>1, InitEstablishes, PTL DEF Spec

(* No timer that is set for less than 2^31 ns is closer than               *)
(* MINIMAL_INTERVAL, whatever was asked for and whatever the clock says.   *)
THEOREM NeverTooSoon == Spec => []AtLeastMinimal
<1>1. ASSUME DelayInv, pc = "Set", fits
      PROVE  delay >= MinimalInterval /\ expire.nsec \in 0 .. Second - 1
  <2>1. DelayTypes /\ Rounded /\ Added /\ expire.nsec < Second
    BY <1>1 DEF DelayInv
  <2>2. /\ 8 * delay = 15625 * (1000 * secs + ms)
        /\ 1000 * secs + ms >= 128
        /\ expire.nsec >= 0
    <3>1. 8 * (delay + 0 * IntRange) = 15625 * (1000 * secs + ms)
      <4>1. PICK k \in 0 .. ms \div 2148 : Lacks(k)
        BY <2>1 DEF Added
      <4>2. k = 0
        BY <1>1, <4>1 DEF Lacks
      <4>3. QED
        BY <4>1, <4>2 DEF Lacks
    <3>2. delay + 0 * IntRange = delay
      <4>1. expire.sec \in Nat /\ expire.nsec \in Int /\ clock \in Nat
        BY <2>1, TypeFacts, ClockFacts
      <4>2. expire.sec * 1953125 + expire.nsec - clock \in Int
        BY <4>1, SMT
      <4>3. QED
        BY <4>2, SMT DEF delay, Second, IntRange
    <3>3. QED
      BY <1>1, <2>1, <3>1, <3>2 DEF Added, Rounded
  <2>3. /\ secs \in Nat /\ ms \in Nat /\ expire.nsec \in Int /\ delay \in Int
    <3>1. /\ expire.sec \in Nat /\ expire.nsec \in Int /\ clock \in Nat
      BY <2>1, TypeFacts, ClockFacts
    <3>2. delay = expire.sec * 1953125 + expire.nsec - clock
      BY SMT DEF delay, Second
    <3>3. delay \in Int
      BY <3>1, <3>2, SMT
    <3>4. QED
      BY <2>1, <3>3, TypeFacts
  <2>4. delay >= 250000
    BY <2>2, <2>3, SMT
  <2>5. expire.nsec \in 0 .. Second - 1
    BY <2>1, <2>2, <2>3, SecondType
  <2>6. delay >= MinimalInterval
    BY <2>4, SMT DEF MinimalInterval
  <2>7. QED
    BY <2>5, <2>6
<1>2. DelayInv => AtLeastMinimal
  BY <1>1 DEF AtLeastMinimal
<1>3. QED
  BY <1>2, Invariance, PTL

(* How far a delay is from what was asked for, on each way to the queue:   *)
(* as far as the product fits, and short of it by what the int loses.      *)
THEOREM DelaysAreClose == Spec => []DelayIsClose
<1>1. ASSUME DelayInv, pc = "Set"
      PROVE  \E k \in 0 .. ms \div 2148 :
               /\ k = 0 <=> fits
               /\ 8 * (delay + k * IntRange) >= 15625 * (Ask + Twice - Lost)
               /\ 8 * (delay + k * IntRange)
                    < 15625 * (IF Ask < 128 THEN 256 ELSE Ask + Twice + 128)
  <2>1. DelayTypes /\ Rounded /\ Added
    BY <1>1 DEF DelayInv
  <2>2. PICK k \in 0 .. ms \div 2148 : Lacks(k)
    BY <2>1 DEF Added
  <2>3. /\ 1000 * secs + ms >= Ask + Twice - Lost
        /\ 1000 * secs + ms < IF Ask < 128 THEN 256 ELSE Ask + Twice + 128
    BY <2>1 DEF Rounded
  <2>4. /\ secs \in Nat /\ ms \in Nat
        /\ Ask \in Nat /\ Lost \in Nat /\ Twice \in Nat
    BY <2>1 DEF DelayTypes, Ask, Lost, Twice
  <2> DEFINE due == delay + k * IntRange
  <2>5. 8 * due = 15625 * (1000 * secs + ms)
    BY <2>2 DEF Lacks
  <2> HIDE DEF due
  <2>6. /\ 8 * due >= 15625 * (Ask + Twice - Lost)
        /\ 8 * due < 15625 * (IF Ask < 128 THEN 256 ELSE Ask + Twice + 128)
    BY <2>3, <2>4, <2>5, SMT
  <2>7. QED
    BY <2>2, <2>6 DEF Lacks, due
<1>2. DelayInv => DelayIsClose
  BY <1>1 DEF DelayIsClose, Ask, Twice, Lost
<1>3. QED
  BY <1>2, Invariance, PTL
=============================================================================
