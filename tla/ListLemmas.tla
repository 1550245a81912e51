----------------------------- MODULE ListLemmas -----------------------------
(***************************************************************************)
(* Facts about lists of things each of which is on the list once: what a   *)
(* deletion and an insertion at some place make of them.  The proofs about *)
(* the poller, the timer queue and the connections rest on them.           *)
(***************************************************************************)
EXTENDS Integers, SequenceTheorems, WellFoundedInduction, TLAPS

Elements(s) == {s[k] : k \in DOMAIN s}

Injective(s) == \A k, l \in DOMAIN s : s[k] = s[l] => k = l

(* R is a set of pairs.                                                    *)
SortedBy(R, s) == \A k, l \in DOMAIN s : k < l => <<s[k], s[l]>> \in R

(* u is s without its k-th element, or with n put in as its k-th.          *)
DeletedAt(s, k, u) ==
  /\ Len(u) = Len(s) - 1
  /\ \A l \in 1 .. Len(s) - 1 : u[l] = IF l < k THEN s[l] ELSE s[l + 1]

InsertedAt(s, k, n, u) ==
  /\ Len(u) = Len(s) + 1
  /\ \A l \in 1 .. Len(s) + 1 :
       u[l] = IF l < k THEN s[l] ELSE IF l = k THEN n ELSE s[l - 1]

(* n may be the k-th of what R sorts.                                      *)
FitsBetween(R, s, k, n) ==
  \A l \in 1 .. Len(s) : /\ l < k => <<s[l], n>> \in R
                         /\ ~(l < k) => <<n, s[l]>> \in R

(* Every set of numbers has a least.                                       *)
LEMMA LeastNat ==
  ASSUME NEW T \in SUBSET Nat, T # {}
  PROVE  \E x \in T : \A y \in T : x <= y
<1>1. PICK x \in T : \A y \in T : ~ (<<y, x>> \in OpToRel(<, Nat))
  BY NatLessThanWellFounded, WFMin
<1>2. \A y \in T : y \in Nat /\ x \in Nat /\ ~(y < x)
  BY <1>1 DEF OpToRel
<1>3. QED
  BY <1>2

LEMMA DeletionProperties ==
  ASSUME NEW S, NEW s \in Seq(S), Injective(s), NEW k \in DOMAIN s,
         NEW u \in Seq(S), DeletedAt(s, k, u)
  PROVE  /\ Injective(u)
         /\ Elements(u) = Elements(s) \ {s[k]}
<1> DEFINE From(l) == IF l < k THEN l ELSE l + 1
<1>1. DOMAIN u = 1 .. Len(s) - 1 /\ DOMAIN s = 1 .. Len(s) /\ Len(s) \in Nat
  BY DEF DeletedAt
<1>2. \A l \in DOMAIN u :
        From(l) \in DOMAIN s /\ From(l) # k /\ u[l] = s[From(l)]
  BY <1>1 DEF DeletedAt
<1>3. \A l, m \in DOMAIN u : From(l) = From(m) => l = m
  BY <1>1
<1> HIDE DEF From
<1>4. Injective(u)
  BY <1>2, <1>3 DEF Injective
<1>5. Elements(u) \subseteq Elements(s) \ {s[k]}
  BY <1>2 DEF Injective, Elements
<1>6. ASSUME NEW m \in Elements(s) \ {s[k]}
      PROVE  m \in Elements(u)
  <2>1. PICK l \in DOMAIN s : s[l] = m
    BY DEF Elements
  <2>2. CASE l < k
    <3>1. l \in DOMAIN u /\ u[l] = s[l]
      BY <1>1, <2>2 DEF DeletedAt
    <3>2. QED
      BY <2>1, <3>1 DEF Elements
  <2>3. CASE l > k
    <3>1. l - 1 \in DOMAIN u /\ u[l - 1] = s[l]
      BY <1>1, <2>3 DEF DeletedAt
    <3>2. QED
      BY <2>1, <3>1 DEF Elements
  <2>4. QED
    BY <1>1, <1>6, <2>1, <2>2, <2>3
<1>7. QED
  BY <1>4, <1>5, <1>6

LEMMA DeletionSorts ==
  ASSUME NEW S, NEW s \in Seq(S), NEW k \in DOMAIN s,
         NEW u \in Seq(S), DeletedAt(s, k, u), NEW R, SortedBy(R, s)
  PROVE  SortedBy(R, u)
<1> DEFINE From(l) == IF l < k THEN l ELSE l + 1
<1>1. DOMAIN u = 1 .. Len(s) - 1 /\ DOMAIN s = 1 .. Len(s) /\ Len(s) \in Nat
  BY DEF DeletedAt
<1>2. \A l \in DOMAIN u : From(l) \in DOMAIN s /\ u[l] = s[From(l)]
  BY <1>1 DEF DeletedAt
<1>3. \A l, m \in DOMAIN u : l < m => From(l) < From(m)
  BY <1>1
<1> HIDE DEF From
<1>4. ASSUME NEW l \in DOMAIN u, NEW m \in DOMAIN u, l < m
      PROVE  <<u[l], u[m]>> \in R
  <2>1. /\ From(l) \in DOMAIN s /\ From(m) \in DOMAIN s
        /\ From(l) < From(m)
        /\ u[l] = s[From(l)] /\ u[m] = s[From(m)]
    BY <1>2, <1>3, <1>4
  <2>2. QED
    BY <2>1 DEF SortedBy
<1>5. QED
  BY <1>4 DEF SortedBy

LEMMA InsertionProperties ==
  ASSUME NEW S, NEW s \in Seq(S), Injective(s), NEW k \in 1 .. Len(s) + 1,
         NEW n \in S, n \notin Elements(s),
         NEW u \in Seq(S), InsertedAt(s, k, n, u)
  PROVE  /\ Injective(u)
         /\ Elements(u) = Elements(s) \cup {n}
<1> DEFINE From(l) == IF l < k THEN l ELSE l - 1
<1>1. /\ DOMAIN u = 1 .. Len(s) + 1 /\ DOMAIN s = 1 .. Len(s)
      /\ Len(s) \in Nat /\ k \in DOMAIN u
  BY DEF InsertedAt
<1>2. /\ u[k] = n
      /\ \A l \in DOMAIN u \ {k} : From(l) \in DOMAIN s /\ u[l] = s[From(l)]
  BY <1>1 DEF InsertedAt
<1>3. \A l, m \in DOMAIN u \ {k} : From(l) = From(m) => l = m
  BY <1>1
<1> HIDE DEF From
<1>5. \A l \in DOMAIN u \ {k} : u[l] \in Elements(s)
  BY <1>2 DEF Elements
<1>6. Injective(u)
  BY <1>2, <1>3, <1>5 DEF Injective
<1>7. Elements(u) \subseteq Elements(s) \cup {n}
  BY <1>2, <1>5 DEF Elements
<1>8. n \in Elements(u)
  BY <1>1, <1>2 DEF Elements
<1>9. ASSUME NEW m \in Elements(s)
      PROVE  m \in Elements(u)
  <2>1. PICK l \in DOMAIN s : s[l] = m
    BY DEF Elements
  <2>2. CASE l < k
    <3>1. l \in DOMAIN u /\ u[l] = s[l]
      BY <1>1, <2>2 DEF InsertedAt
    <3>2. QED
      BY <2>1, <3>1 DEF Elements
  <2>3. CASE ~(l < k)
    <3>1. l + 1 \in DOMAIN u /\ u[l + 1] = s[l]
      BY <1>1, <2>3 DEF InsertedAt
    <3>2. QED
      BY <2>1, <3>1 DEF Elements
  <2>4. QED
    BY <2>2, <2>3
<1>10. QED
  BY <1>6, <1>7, <1>8, <1>9

LEMMA InsertionSorts ==
  ASSUME NEW S, NEW s \in Seq(S), NEW k \in 1 .. Len(s) + 1, NEW n \in S,
         NEW u \in Seq(S), InsertedAt(s, k, n, u),
         NEW R, SortedBy(R, s), FitsBetween(R, s, k, n)
  PROVE  SortedBy(R, u)
<1> DEFINE From(l) == IF l < k THEN l ELSE l - 1
<1>1. /\ DOMAIN u = 1 .. Len(s) + 1 /\ DOMAIN s = 1 .. Len(s)
      /\ Len(s) \in Nat /\ k \in DOMAIN u
  BY DEF InsertedAt
<1>2. /\ u[k] = n
      /\ \A l \in DOMAIN u \ {k} : From(l) \in DOMAIN s /\ u[l] = s[From(l)]
  BY <1>1 DEF InsertedAt
<1>3. \A l, m \in DOMAIN u \ {k} : l < m => From(l) < From(m)
  BY <1>1
<1>4. \A l \in DOMAIN u \ {k} : l > k => ~(From(l) < k)
  BY <1>1
<1>5. \A l \in DOMAIN u \ {k} : l < k => From(l) < k
  BY <1>1
<1> HIDE DEF From
<1>6. ASSUME NEW l \in DOMAIN u, NEW m \in DOMAIN u, l < m
      PROVE  <<u[l], u[m]>> \in R
  <2>1. CASE l # k /\ m # k
    <3>1. /\ From(l) \in DOMAIN s /\ From(m) \in DOMAIN s
          /\ From(l) < From(m)
          /\ u[l] = s[From(l)] /\ u[m] = s[From(m)]
      BY <1>2, <1>3, <1>6, <2>1
    <3>2. QED
      BY <3>1 DEF SortedBy
  <2>2. CASE l = k /\ m # k
    <3>1. m \in DOMAIN u \ {k} /\ m > k
      BY <1>1, <1>6, <2>2
    <3>2. ~(From(m) < k)
      BY <1>4, <3>1
    <3>3. From(m) \in 1 .. Len(s) /\ u[m] = s[From(m)] /\ u[l] = n
      BY <1>1, <1>2, <2>2, <3>1
    <3>4. QED
      BY <3>2, <3>3 DEF FitsBetween
  <2>3. CASE l # k /\ m = k
    <3>1. l \in DOMAIN u \ {k} /\ l < k
      BY <1>6, <2>3
    <3>2. From(l) < k
      BY <1>5, <3>1
    <3>3. From(l) \in 1 .. Len(s) /\ u[l] = s[From(l)] /\ u[m] = n
      BY <1>1, <1>2, <2>3, <3>1
    <3>4. QED
      BY <3>2, <3>3 DEF FitsBetween
  <2>4. QED
    BY <1>1, <1>6, <2>1, <2>2, <2>3
<1>7. QED
  BY <1>6 DEF SortedBy

LEMMA PushedIsInserted ==
  ASSUME NEW S, NEW s \in Seq(S), NEW n \in S
  PROVE  /\ <<n>> \o s \in Seq(S)
         /\ InsertedAt(s, 1, n, <<n>> \o s)
         /\ 1 \in 1 .. Len(s) + 1
<1>1. <<n>> \in Seq(S) /\ Len(<<n>>) = 1 /\ <<n>>[1] = n
  OBVIOUS
<1>2. /\ <<n>> \o s \in Seq(S)
      /\ Len(<<n>> \o s) = 1 + Len(s)
      /\ \A l \in 1 .. 1 + Len(s) :
           (<<n>> \o s)[l] = IF l <= 1 THEN <<n>>[l] ELSE s[l - 1]
  BY <1>1, ConcatProperties
<1>3. Len(s) \in Nat
  OBVIOUS
<1>4. QED
  BY <1>1, <1>2, <1>3 DEF InsertedAt

(* Something new put in front.                                             *)
LEMMA PushProperties ==
  ASSUME NEW S, NEW s \in Seq(S), Injective(s), NEW n \in S, n \notin Elements(s)
  PROVE  /\ <<n>> \o s \in Seq(S)
         /\ Injective(<<n>> \o s)
         /\ Elements(<<n>> \o s) = Elements(s) \cup {n}
<1> DEFINE u == <<n>> \o s
<1>1. u \in Seq(S) /\ InsertedAt(s, 1, n, u) /\ 1 \in 1 .. Len(s) + 1
  BY PushedIsInserted
<1> HIDE DEF u
<1>2. Injective(u) /\ Elements(u) = Elements(s) \cup {n}
  BY <1>1, InsertionProperties
<1>3. QED
  BY <1>1, <1>2 DEF u

(* Taking the head off.                                                    *)
LEMMA TailIsDeleted ==
  ASSUME NEW S, NEW s \in Seq(S), s # <<>>
  PROVE  /\ Tail(s) \in Seq(S)
         /\ DeletedAt(s, 1, Tail(s))
         /\ 1 \in DOMAIN s /\ s[1] = Head(s)
<1>1. /\ Tail(s) \in Seq(S)
      /\ Len(Tail(s)) = Len(s) - 1
      /\ \A i \in 1 .. Len(Tail(s)) : Tail(s)[i] = s[i + 1]
  BY HeadTailProperties
<1>2. Len(s) \in Nat \ {0} /\ DOMAIN s = 1 .. Len(s) /\ s[1] = Head(s)
  OBVIOUS
<1>3. QED
  BY <1>1, <1>2 DEF DeletedAt

LEMMA TailProperties ==
  ASSUME NEW S, NEW s \in Seq(S), s # <<>>, Injective(s)
  PROVE  /\ Tail(s) \in Seq(S)
         /\ Injective(Tail(s))
         /\ Elements(Tail(s)) = Elements(s) \ {Head(s)}
         /\ Head(s) \in Elements(s)
         /\ \A R : SortedBy(R, s) => SortedBy(R, Tail(s))
<1> DEFINE u == Tail(s)
<1>1. /\ u \in Seq(S) /\ DeletedAt(s, 1, u)
      /\ 1 \in DOMAIN s /\ s[1] = Head(s)
  BY TailIsDeleted
<1>2. Head(s) \in Elements(s)
  BY <1>1 DEF Elements
<1> HIDE DEF u
<1>3. Injective(u) /\ Elements(u) = Elements(s) \ {s[1]}
  BY <1>1, DeletionProperties
<1>4. ASSUME NEW R, SortedBy(R, s)
      PROVE  SortedBy(R, u)
  BY <1>1, <1>4, DeletionSorts
<1>5. QED
  BY <1>1, <1>2, <1>3, <1>4 DEF u
=============================================================================
