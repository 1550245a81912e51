---------------------------- MODULE PollerProofs ----------------------------
(***************************************************************************)
(* Proofs about Poller, for any finite set of channels, any descriptors    *)
(* that they may share one after the other, and any number of operations.  *)
(***************************************************************************)
EXTENDS Poller, ListLemmas, FiniteSetTheorems

Buckets == 0 .. FD_MAP_NR_HASH - 1

Slots == 0 .. FD_MAP_CACHE_ENTRY - 1

Caches == [Slots -> Nodes \cup {NULL}]

-----------------------------------------------------------------------------
(* The two ways to delete from a sequence.                                 *)

LEMMA WithoutElementProperties ==
  ASSUME NEW S, NEW s \in Seq(S), NEW k \in DOMAIN s
  PROVE  /\ WithoutElement(s, k) \in Seq(S)
         /\ Len(WithoutElement(s, k)) = Len(s) - 1
         /\ \A l \in 1 .. Len(s) - 1 :
              WithoutElement(s, k)[l] = IF l < k THEN s[l] ELSE s[l + 1]
<1>1. Len(s) - 1 \in Nat
  OBVIOUS
<1>2. \A l \in 1 .. Len(s) - 1 : (IF l < k THEN s[l] ELSE s[l + 1]) \in S
  OBVIOUS
<1>3. QED
  BY <1>1, <1>2 DEF WithoutElement

LEMMA SwapDeleteProperties ==
  ASSUME NEW S, NEW s \in Seq(S), NEW k \in DOMAIN s
  PROVE  /\ SwapDelete(s, k) \in Seq(S)
         /\ Len(SwapDelete(s, k)) = Len(s) - 1
         /\ \A l \in 1 .. Len(s) - 1 :
              SwapDelete(s, k)[l] = IF l = k THEN s[Len(s)] ELSE s[l]
<1>1. Len(s) - 1 \in Nat
  OBVIOUS
<1>2. \A l \in 1 .. Len(s) - 1 : (IF l = k THEN s[Len(s)] ELSE s[l]) \in S
  OBVIOUS
<1>3. QED
  BY <1>1, <1>2 DEF SwapDelete

(* Unlinking takes out just the one node, from a chain that has it once.   *)
LEMMA UnlinkProperties ==
  ASSUME NEW S, NEW s \in Seq(S), Injective(s), NEW n \in Elements(s)
  PROVE  /\ Unlink(s, n) \in Seq(S)
         /\ Injective(Unlink(s, n))
         /\ Elements(Unlink(s, n)) = Elements(s) \ {n}
<1> DEFINE k == CHOOSE l \in DOMAIN s : s[l] = n
           u == WithoutElement(s, k)
<1>1. k \in DOMAIN s /\ s[k] = n
  BY DEF Elements
<1>2. Unlink(s, n) = u
  BY DEF Unlink
<1>3. u \in Seq(S) /\ DeletedAt(s, k, u)
  BY <1>1, WithoutElementProperties DEF DeletedAt
<1> HIDE DEF u, k
<1>4. QED
  BY <1>1, <1>2, <1>3, DeletionProperties

LEMMA HashTypes ==
  ASSUME NEW fd \in Nat
  PROVE  Bucket(fd) \in Buckets /\ Slot(fd) \in Slots
BY DEF Bucket, Slot, Buckets, Slots, FD_MAP_NR_HASH, FD_MAP_CACHE_ENTRY

-----------------------------------------------------------------------------
(* The inductive invariant, first the part about the tables.               *)

TableTypes ==
  /\ heap \in [Nodes -> FdMap \cup {FREED}]
  /\ map \in [Buckets -> Seq(Nodes)]
  /\ cache \in Caches
  /\ poll_list \in Seq(Pollfd)
  /\ channel \in [Channels -> Channel]
  /\ open \in SUBSET Channels

(* No two channels in use have the same descriptor.                        *)
Users == Registered \cup open

FdsApart == \A c, d \in Users : Fd[c] = Fd[d] => c = d

(* A channel knows its entry, and every entry has its channel.             *)
HasEntry(c) ==
  /\ channel[c].index \in DOMAIN poll_list
  /\ poll_list[channel[c].index].fd = Fd[c]

EntriesAgree ==
  /\ \A c \in Registered : HasEntry(c)
  /\ \A k \in DOMAIN poll_list : \E c \in Registered : channel[c].index = k

(* What EventsAgree says of one channel.                                   *)
HearsRight(c) ==
  /\ poll_list[channel[c].index].events \subseteq channel[c].events
  /\ channel[c].events \ poll_list[channel[c].index].events \subseteq Unheard(c)

(* A node in use is one registered channel's, and such a channel has one.  *)
IsNodeOf(n, c) == n \in Nodes /\ heap[n] = [fd |-> Fd[c], ch |-> c]

NodesAgree ==
  /\ \A n \in Live : \E c \in Registered : IsNodeOf(n, c)
  /\ \A c \in Registered : \E n \in Live : IsNodeOf(n, c)
  /\ \A m, n \in Live : heap[m].ch = heap[n].ch => m = n

(* A chain has the nodes of its descriptors, each once.                    *)
LiveIn(b) == {n \in Live : Bucket(heap[n].fd) = b}

ChainsAgree ==
  \A b \in Buckets : Injective(map[b]) /\ Elements(map[b]) = LiveIn(b)

TableInv ==
  /\ TableTypes
  /\ FdsApart
  /\ EntriesAgree
  /\ NodesAgree
  /\ ChainsAgree
  /\ EventsAgree
  /\ ReadyIsRegistered

(* What follows from it at once.                                           *)
LEMMA TableFacts ==
  ASSUME TableInv
  PROVE  /\ Registered \subseteq Channels
         /\ \A c \in Channels : Fd[c] \in Nat
         /\ \A c \in Channels : channel[c].index \in Nat
         /\ \A c \in Registered : channel[c].index \in 1 .. Len(poll_list)
         /\ \A c, d \in Registered : channel[c].index = channel[d].index => c = d
         /\ \A n \in Live, c \in Channels :
              IsNodeOf(n, c) => heap[n] # FREED /\ heap[n].fd = Fd[c] /\ heap[n].ch = c
<1>1. Registered \subseteq Channels
  BY DEF Registered
<1>2. \A c \in Channels : Fd[c] \in Nat /\ channel[c].index \in Nat
  BY PollerAssumption DEF TableInv, TableTypes, Channel
<1>3. \A c \in Registered : HasEntry(c)
  BY DEF TableInv, EntriesAgree
<1>4. \A c \in Registered : channel[c].index \in 1 .. Len(poll_list)
  BY <1>3 DEF TableInv, TableTypes, HasEntry
<1>5. \A c, d \in Registered : channel[c].index = channel[d].index => c = d
  BY <1>3 DEF HasEntry, TableInv, FdsApart, Users
<1>6. \A n \in Live, c \in Channels :
        IsNodeOf(n, c) => heap[n] # FREED /\ heap[n].fd = Fd[c] /\ heap[n].ch = c
  BY DEF IsNodeOf, Live
<1>7. QED
  BY <1>1, <1>2, <1>4, <1>5, <1>6

(* A registered channel's descriptor leads to its node, through whatever   *)
(* the cache holds.                                                        *)
LEMMA FindRight ==
  ASSUME TableInv, NEW ch \in Caches, NEW c \in Registered
  PROVE  /\ Find(ch, Fd[c]) \in Live
         /\ IsNodeOf(Find(ch, Fd[c]), c)
<1> DEFINE fd == Fd[c]
<1>1. PICK n \in Live : IsNodeOf(n, c)
  BY DEF TableInv, NodesAgree
<1>2. c \in Channels /\ fd \in Nat /\ Slot(fd) \in Slots /\ Bucket(fd) \in Buckets
  BY TableFacts, HashTypes
<1>3. heap[n] # FREED /\ heap[n].fd = fd /\ heap[n].ch = c
  BY <1>1, <1>2, TableFacts
<1>4. ASSUME NEW m \in Nodes, Holds(m, fd)
      PROVE  m = n
  <2>1. m \in Live /\ heap[m].fd = fd
    BY <1>4 DEF Holds, Live
  <2>2. PICK d \in Registered : IsNodeOf(m, d)
    BY <2>1 DEF TableInv, NodesAgree
  <2>3. heap[m].ch = d /\ Fd[d] = fd
    BY <2>1, <2>2, TableFacts
  <2>4. d = c
    BY <2>3 DEF TableInv, FdsApart, Users
  <2>5. QED
    BY <1>3, <2>1, <2>3, <2>4 DEF TableInv, NodesAgree
<1>5. CASE CacheHit(ch, fd)
  <2>1. ch[Slot(fd)] \in Nodes /\ Holds(ch[Slot(fd)], fd)
    BY <1>2, <1>5 DEF CacheHit, Caches
  <2>2. QED
    BY <1>1, <1>4, <1>5, <2>1 DEF Find
<1>6. CASE ~CacheHit(ch, fd)
  <2> DEFINE chain == map[Bucket(fd)]
             hits == {k \in DOMAIN chain : Holds(chain[k], fd)}
  <2>1. chain \in Seq(Nodes) /\ Injective(chain) /\ n \in Elements(chain)
    BY <1>2, <1>3 DEF TableInv, TableTypes, ChainsAgree, LiveIn
  <2>2. PICK k \in DOMAIN chain : chain[k] = n
    BY <2>1 DEF Elements
  <2>3. Holds(n, fd)
    BY <1>3 DEF Holds
  <2>4. \A l \in DOMAIN chain : chain[l] \in Nodes /\ l \in Nat
    BY <2>1
  <2>5. hits = {k}
    BY <1>4, <2>1, <2>2, <2>3, <2>4 DEF Injective
  <2>6. (CHOOSE x \in hits : \A y \in hits : x <= y) = k
    BY <2>4, <2>5
  <2>7. CheckMap(fd) = n
    BY <2>2, <2>5, <2>6 DEF CheckMap
  <2>8. QED
    BY <1>1, <1>6, <2>7 DEF Find
<1>7. QED
  BY <1>5, <1>6

-----------------------------------------------------------------------------
(* What an operation on the tables leaves alone: the condition on a        *)
(* channel and the one in its entry,                                       *)
RevsKept ==
  \A d \in Channels :
    channel'[d].revents # {} =>
      /\ channel'[d].revents = channel[d].revents
      /\ poll_list'[channel'[d].index].revents =
           poll_list[channel[d].index].revents

(* and what is asked for every other channel.                              *)
AskedFor(d) ==
  IF channel[d].index = 0 THEN NULL ELSE poll_list[channel[d].index].events

OthersKept(c) == \A d \in Channels \ {c} : AskedFor(d)' = AskedFor(d)

(* Entering a channel in the tables.                                       *)
LEMMA RegisterKeeps ==
  ASSUME TableInv, NEW c \in open, NEW e \in SUBSET Events, Register(c, e),
         UNCHANGED open
  PROVE  /\ TableInv'
         /\ Registered' = Registered \cup {c}
         /\ RevsKept
         /\ OthersKept(c) /\ AskedFor(c)' = e
<1> DEFINE len == Len(poll_list)
           x == [fd |-> Fd[c], events |-> e, revents |-> {}]
<1>1. /\ c \in Channels /\ Fd[c] \in Nat /\ len \in Nat
      /\ Bucket(Fd[c]) \in Buckets /\ Slot(Fd[c]) \in Slots
      /\ c \notin Registered /\ channel[c].index = 0
  BY TableFacts, HashTypes DEF TableInv, TableTypes, Register, Registered
<1>2. PICK n \in Nodes :
        /\ heap[n] = FREED
        /\ heap' = [heap EXCEPT ![n] = [fd |-> Fd[c], ch |-> c]]
        /\ map' = [map EXCEPT ![Bucket(Fd[c])] = <<n>> \o @]
        /\ cache' = [cache EXCEPT ![Slot(Fd[c])] = n]
  BY DEF Register
<1>3. /\ heap' \in [Nodes -> FdMap \cup {FREED}]
      /\ heap'[n] = [fd |-> Fd[c], ch |-> c] /\ heap'[n] # FREED
      /\ \A m \in Nodes \ {n} : heap'[m] = heap[m]
  BY <1>1, <1>2, PollerAssumption DEF TableInv, TableTypes, FdMap
<1>4. /\ poll_list' = Append(poll_list, x) /\ x \in Pollfd
      /\ poll_list' \in Seq(Pollfd) /\ Len(poll_list') = len + 1
      /\ poll_list'[len + 1] = x
      /\ \A k \in 1 .. len : poll_list'[k] = poll_list[k]
  BY <1>1 DEF Register, TableInv, TableTypes, Pollfd
<1>5. /\ channel' \in [Channels -> Channel]
      /\ channel'[c].index = len + 1 /\ channel'[c].events = e
      /\ channel'[c].revents = channel[c].revents
      /\ \A d \in Channels \ {c} : channel'[d] = channel[d]
  BY <1>1 DEF Register, TableInv, TableTypes, Channel
<1>6. Registered' = Registered \cup {c}
  BY <1>1, <1>5 DEF Registered
<1>7. Users' = Users
  BY <1>6 DEF Users
<1>8. FdsApart'
  BY <1>7 DEF TableInv, FdsApart
<1>9. EntriesAgree'
  <2>1. ASSUME NEW d \in Registered'
        PROVE  HasEntry(d)'
    <3>1. CASE d = c
      BY <1>1, <1>4, <1>5, <3>1 DEF HasEntry
    <3>2. CASE d # c
      <4>1. d \in Registered /\ d \in Channels \ {c}
        BY <1>6, <2>1, <3>2, TableFacts
      <4>2. channel'[d].index = channel[d].index /\ channel[d].index \in 1 .. len
        BY <1>5, <4>1, TableFacts
      <4>3. poll_list[channel[d].index].fd = Fd[d]
        BY <4>1 DEF TableInv, EntriesAgree, HasEntry
      <4>4. QED
        BY <1>1, <1>4, <4>2, <4>3 DEF HasEntry
    <3>3. QED
      BY <3>1, <3>2
  <2>2. ASSUME NEW k \in DOMAIN poll_list'
        PROVE  \E d \in Registered' : channel'[d].index = k
    <3>1. CASE k = len + 1
      BY <1>5, <1>6, <3>1
    <3>2. CASE k # len + 1
      <4>1. k \in DOMAIN poll_list
        BY <1>1, <1>4, <2>2, <3>2
      <4>2. PICK d \in Registered : channel[d].index = k
        BY <4>1 DEF TableInv, EntriesAgree
      <4>3. d # c /\ d \in Channels
        BY <1>1, <4>2, TableFacts
      <4>4. QED
        BY <1>5, <1>6, <4>2, <4>3
    <3>3. QED
      BY <3>1, <3>2
  <2>3. QED
    BY <2>1, <2>2 DEF EntriesAgree
<1>10. /\ Live' = Live \cup {n} /\ n \notin Live
       /\ \A m \in Live : m # n /\ heap'[m] = heap[m]
  BY <1>2, <1>3 DEF Live
<1>11. NodesAgree'
  <2>1. IsNodeOf(n, c)' /\ heap'[n].ch = c
    BY <1>3 DEF IsNodeOf
  <2>2. \A m \in Live, d \in Channels : IsNodeOf(m, d) => IsNodeOf(m, d)'
    BY <1>10 DEF IsNodeOf
  <2>3. \A m \in Live' : \E d \in Registered' : IsNodeOf(m, d)'
    BY <1>6, <1>10, <2>1, <2>2, TableFacts DEF TableInv, NodesAgree
  <2>4. \A d \in Registered' : \E m \in Live' : IsNodeOf(m, d)'
    BY <1>6, <1>10, <2>1, <2>2, TableFacts DEF TableInv, NodesAgree
  <2>5. \A m \in Live : heap'[m].ch = heap[m].ch /\ heap[m].ch \in Registered
    BY <1>10, TableFacts DEF TableInv, NodesAgree
  <2>6. \A l, m \in Live' : heap'[l].ch = heap'[m].ch => l = m
    BY <1>1, <1>10, <2>1, <2>5 DEF TableInv, NodesAgree
  <2>7. QED
    BY <2>3, <2>4, <2>6 DEF NodesAgree
<1>12. /\ map' \in [Buckets -> Seq(Nodes)]
       /\ ChainsAgree'
  <2> DEFINE b0 == Bucket(Fd[c])
  <2>1. /\ map[b0] \in Seq(Nodes) /\ Injective(map[b0])
        /\ Elements(map[b0]) = LiveIn(b0) /\ n \notin Elements(map[b0])
    BY <1>1, <1>10 DEF TableInv, TableTypes, ChainsAgree, LiveIn
  <2>2. /\ <<n>> \o map[b0] \in Seq(Nodes)
        /\ Injective(<<n>> \o map[b0])
        /\ Elements(<<n>> \o map[b0]) = LiveIn(b0) \cup {n}
    BY <2>1, PushProperties
  <2>3. /\ map' \in [Buckets -> Seq(Nodes)]
        /\ map'[b0] = <<n>> \o map[b0]
        /\ \A b \in Buckets \ {b0} : map'[b] = map[b]
    BY <1>1, <1>2, <2>2 DEF TableInv, TableTypes
  <2>4. LiveIn(b0)' = LiveIn(b0) \cup {n}
    BY <1>3, <1>10 DEF LiveIn
  <2>5. \A b \in Buckets \ {b0} : LiveIn(b)' = LiveIn(b)
    BY <1>3, <1>10 DEF LiveIn
  <2>6. ASSUME NEW b \in Buckets
        PROVE  Injective(map'[b]) /\ Elements(map'[b]) = LiveIn(b)'
    <3>1. CASE b = b0
      BY <2>2, <2>3, <2>4, <3>1
    <3>2. CASE b # b0
      BY <2>3, <2>5, <3>2 DEF TableInv, ChainsAgree
    <3>3. QED
      BY <3>1, <3>2
  <2>7. QED
    BY <2>3, <2>6 DEF ChainsAgree
<1>13. \A d \in Registered :
         /\ d \in Channels \ {c} /\ channel'[d] = channel[d]
         /\ poll_list'[channel'[d].index] = poll_list[channel[d].index]
  BY <1>1, <1>4, <1>5, TableFacts
<1>14. EventsAgree'
  <2>1. poll_list'[channel'[c].index].events = channel'[c].events
    BY <1>4, <1>5
  <2>2. \A d \in Registered : HearsRight(d)'
    BY <1>13 DEF TableInv, EventsAgree, HearsRight, Unheard
  <2>3. HearsRight(c)'
    BY <2>1 DEF HearsRight
  <2>4. QED
    BY <1>6, <2>2, <2>3 DEF EventsAgree, HearsRight
<1>15. ReadyIsRegistered'
  BY <1>5, <1>6 DEF TableInv, ReadyIsRegistered
<1>16. cache' \in Caches
  BY <1>1, <1>2 DEF TableInv, TableTypes, Caches
<1>17. TableInv'
  BY <1>3, <1>4, <1>5, <1>8, <1>9, <1>11, <1>12, <1>14, <1>15, <1>16
     DEF TableInv, TableTypes
<1>18. RevsKept
  BY <1>1, <1>5, <1>13 DEF RevsKept, TableInv, ReadyIsRegistered
<1>19. OthersKept(c)
  <2>1. ASSUME NEW d \in Channels \ {c}
        PROVE  AskedFor(d)' = AskedFor(d)
    <3>1. CASE d \in Registered
      BY <1>13, <3>1 DEF AskedFor
    <3>2. CASE d \notin Registered
      BY <1>5, <2>1, <3>2 DEF AskedFor, Registered
    <3>3. QED
      BY <3>1, <3>2
  <2>2. QED
    BY <2>1 DEF OthersKept
<1>20. AskedFor(c)' = e
  BY <1>1, <1>4, <1>5 DEF AskedFor
<1>21. QED
  BY <1>6, <1>17, <1>18, <1>19, <1>20

(* Changing what an entry asks for.                                        *)
LEMMA ChangeKeeps ==
  ASSUME TableInv, NEW c \in open, NEW e \in SUBSET Events, Change(c, e),
         UNCHANGED open
  PROVE  /\ TableInv'
         /\ Registered' = Registered
         /\ asserted = FALSE => asserted' = FALSE
         /\ RevsKept
         /\ OthersKept(c) /\ AskedFor(c)' = e
<1> DEFINE len == Len(poll_list)
           k == channel[c].index
<1>1. /\ c \in Channels /\ c \in Registered /\ len \in Nat /\ k \in 1 .. len
      /\ poll_list[k].fd = Fd[c] /\ k # 0
  BY TableFacts DEF TableInv, TableTypes, Change, Registered, EntriesAgree,
                    HasEntry
<1>2. asserted = FALSE => asserted' = FALSE
  <2>1. asserted' = (asserted \/ poll_list[k].fd # Fd[c])
    BY DEF Change, BUG_ON
  <2>2. QED
    BY <1>1, <2>1
<1>3. /\ poll_list' \in Seq(Pollfd) /\ Len(poll_list') = len
      /\ poll_list'[k].events = e
      /\ \A l \in 1 .. len : /\ poll_list'[l].fd = poll_list[l].fd
                             /\ poll_list'[l].revents = poll_list[l].revents
      /\ \A l \in 1 .. len : l # k => poll_list'[l] = poll_list[l]
  <2>1. /\ poll_list' = [poll_list EXCEPT ![k].events = e]
        /\ poll_list[k] \in Pollfd
    BY <1>1 DEF Change, TableInv, TableTypes
  <2>2. [poll_list[k] EXCEPT !.events = e] \in Pollfd
    BY <2>1 DEF Pollfd
  <2>3. poll_list' \in Seq(Pollfd) /\ Len(poll_list') = len
    BY <1>1, <2>1, <2>2, ExceptSeq DEF TableInv, TableTypes
  <2>4. DOMAIN poll_list = 1 .. len
    BY DEF TableInv, TableTypes
  <2>5. QED
    BY <1>1, <2>1, <2>3, <2>4 DEF Pollfd
<1>4. /\ channel' \in [Channels -> Channel]
      /\ channel'[c].index = k /\ channel'[c].events = e
      /\ channel'[c].revents = channel[c].revents
      /\ \A d \in Channels \ {c} : channel'[d] = channel[d]
  BY <1>1 DEF Change, TableInv, TableTypes, Channel
<1>5. \A d \in Channels : channel'[d].index = channel[d].index
                          /\ channel'[d].revents = channel[d].revents
  BY <1>4
<1>6. Registered' = Registered /\ Users' = Users
  BY <1>5 DEF Registered, Users
<1>7. UNCHANGED <<heap, map, cache>>
  BY DEF Change
<1>8. DOMAIN poll_list' = DOMAIN poll_list /\ DOMAIN poll_list = 1 .. len
  BY <1>3 DEF TableInv, TableTypes
<1>9. FdsApart' /\ EntriesAgree'
  <2>1. FdsApart'
    BY <1>6 DEF TableInv, FdsApart
  <2>2. \A d \in Registered : HasEntry(d)'
    BY <1>3, <1>5, <1>8, TableFacts DEF TableInv, EntriesAgree, HasEntry
  <2>3. \A l \in DOMAIN poll_list' : \E d \in Registered : channel'[d].index = l
    BY <1>5, <1>8, TableFacts DEF TableInv, EntriesAgree
  <2>4. QED
    BY <1>6, <2>1, <2>2, <2>3 DEF EntriesAgree
<1>10. NodesAgree' /\ ChainsAgree'
  BY <1>6, <1>7 DEF TableInv, NodesAgree, ChainsAgree, Live, IsNodeOf, LiveIn
<1>11. \A d \in Registered : d # c =>
         /\ channel'[d] = channel[d]
         /\ poll_list'[channel'[d].index] = poll_list[channel[d].index]
  BY <1>1, <1>3, <1>4, TableFacts
<1>12. EventsAgree'
  <2>1. poll_list'[channel'[c].index].events = channel'[c].events
    BY <1>3, <1>4
  <2>2. \A d \in Registered : d # c => HearsRight(d)'
    BY <1>11 DEF TableInv, EventsAgree, HearsRight, Unheard
  <2>3. HearsRight(c)'
    BY <2>1 DEF HearsRight
  <2>4. QED
    BY <1>6, <2>2, <2>3 DEF EventsAgree, HearsRight
<1>13. ReadyIsRegistered'
  BY <1>5, <1>6 DEF TableInv, ReadyIsRegistered
<1>14. TableInv'
  BY <1>3, <1>4, <1>7, <1>9, <1>10, <1>12, <1>13 DEF TableInv, TableTypes
<1>15. RevsKept
  <2>1. ASSUME NEW d \in Channels, channel'[d].revents # {}
        PROVE  poll_list'[channel'[d].index].revents =
                 poll_list[channel[d].index].revents
    <3>1. d \in Registered
      BY <1>5, <2>1 DEF TableInv, ReadyIsRegistered
    <3>2. QED
      BY <1>3, <1>5, <3>1, TableFacts
  <2>2. QED
    BY <1>5, <2>1 DEF RevsKept
<1>16. OthersKept(c)
  <2>1. ASSUME NEW d \in Channels \ {c}
        PROVE  AskedFor(d)' = AskedFor(d)
    <3>1. CASE d \in Registered
      BY <1>11, <3>1 DEF AskedFor
    <3>2. CASE d \notin Registered
      BY <1>5, <2>1, <3>2 DEF AskedFor, Registered
    <3>3. QED
      BY <3>1, <3>2
  <2>2. QED
    BY <2>1 DEF OthersKept
<1>17. AskedFor(c)' = e
  BY <1>1, <1>3, <1>4 DEF AskedFor
<1>18. QED
  BY <1>2, <1>6, <1>14, <1>15, <1>16, <1>17

(* Removing a channel, wherever its entry is: its node is freed, the entry *)
(* at the end of poll_list takes the place of its own, and so does the     *)
(* index of that entry's channel.                                          *)
Removal(c) ==
  \E n \in Live, d \in Registered :
    /\ IsNodeOf(n, c)
    /\ channel[d].index = Len(poll_list)
    /\ heap' = [heap EXCEPT ![n] = FREED]
    /\ map' = [map EXCEPT ![Bucket(Fd[c])] = Unlink(@, n)]
    /\ cache' \in Caches
    /\ poll_list' = SwapDelete(poll_list, channel[c].index)
    /\ channel' = [channel EXCEPT ![d].index = channel[c].index,
                                  ![c] = NoEvents]

LEMMA RemoveIsRemoval ==
  ASSUME TableInv, NEW c \in Channels, RemoveLast(c) \/ RemoveInside(c)
  PROVE  /\ c \in Registered
         /\ Removal(c)
         /\ asserted = FALSE => asserted' = FALSE
<1> DEFINE len == Len(poll_list)
           k == channel[c].index
           last == poll_list[len].fd
<1>1. c \in Registered /\ k \in 1 .. len /\ len \in Nat /\ Fd[c] \in Nat
  BY TableFacts DEF RemoveLast, RemoveInside, Registered, TableInv, TableTypes
<1>2. PICK d \in Registered : channel[d].index = len
  <2>1. len \in DOMAIN poll_list
    BY <1>1 DEF TableInv, TableTypes
  <2>2. QED
    BY <2>1 DEF TableInv, EntriesAgree
<1>3. d \in Channels /\ last = Fd[d]
  BY <1>2, TableFacts DEF TableInv, EntriesAgree, HasEntry
<1>4. /\ channel \in [Channels -> Channel]
      /\ cache \in Caches
      /\ NULL \notin Nodes /\ Live \subseteq Nodes
  BY PollerAssumption DEF TableInv, TableTypes, Live
<1>5. CASE RemoveLast(c)
  <2> DEFINE n == Find(cache, Fd[c])
  <2>1. n \in Live /\ IsNodeOf(n, c) /\ n # NULL
    BY <1>1, <1>4, FindRight
  <2>2. /\ last = Fd[c]
        /\ poll_list' = SwapDelete(poll_list, k)
        /\ DelFdmap(cache, Fd[c])
        /\ channel' = [channel EXCEPT ![c] = NoEvents]
        /\ asserted' = (asserted \/ n = NULL)
        /\ cache' = cache
    BY <1>5 DEF RemoveLast, BUG_ON
  <2>3. d = c
    BY <1>1, <1>3, <2>2 DEF TableInv, FdsApart, Users
  <2>4. [channel EXCEPT ![d].index = k, ![c] = NoEvents]
          = [channel EXCEPT ![c] = NoEvents]
    BY <1>4, <2>3
  <2>5. /\ heap' = [heap EXCEPT ![n] = FREED]
        /\ map' = [map EXCEPT ![Bucket(Fd[c])] = Unlink(@, n)]
    BY <2>1, <2>2 DEF DelFdmap
  <2>6. Removal(c)
    BY <1>2, <1>4, <2>1, <2>2, <2>4, <2>5 DEF Removal
  <2>7. asserted = FALSE => asserted' = FALSE
    BY <2>1, <2>2
  <2>8. QED
    BY <1>1, <2>6, <2>7
<1>6. CASE RemoveInside(c)
  <2> DEFINE m == Find(cache, last)
             n == Find(CacheFound(last), Fd[c])
  <2>1. m \in Live /\ IsNodeOf(m, d) /\ m # NULL /\ heap[m].ch = d
    BY <1>2, <1>3, <1>4, FindRight, TableFacts
  <2>2. CacheFound(last) \in Caches
    BY <1>4, <2>1 DEF CacheFound, Caches
  <2>3. n \in Live /\ IsNodeOf(n, c) /\ n # NULL
    BY <1>1, <1>4, <2>2, FindRight
  <2>4. /\ last # Fd[c]
        /\ cache' = CacheFound(last)
        /\ poll_list' = SwapDelete(poll_list, k)
        /\ channel' = [channel EXCEPT ![heap[m].ch].index = k,
                                      ![c] = NoEvents]
        /\ DelFdmap(CacheFound(last), Fd[c])
        /\ asserted' = (asserted \/ n = NULL)
    BY <1>6, <2>1 DEF RemoveInside, BUG_ON
  <2>5. channel' = [channel EXCEPT ![d].index = k, ![c] = NoEvents]
    BY <2>1, <2>4
  <2>6. /\ heap' = [heap EXCEPT ![n] = FREED]
        /\ map' = [map EXCEPT ![Bucket(Fd[c])] = Unlink(@, n)]
    BY <2>3, <2>4 DEF DelFdmap
  <2>7. Removal(c)
    BY <1>2, <2>2, <2>3, <2>4, <2>5, <2>6 DEF Removal
  <2>8. asserted = FALSE => asserted' = FALSE
    BY <2>3, <2>4
  <2>9. QED
    BY <1>1, <2>7, <2>8
<1>7. QED
  BY <1>5, <1>6

LEMMA RemovalKeeps ==
  ASSUME TableInv, NEW c \in Registered, Removal(c), UNCHANGED open
  PROVE  /\ TableInv'
         /\ Registered' = Registered \ {c}
         /\ RevsKept
         /\ OthersKept(c) /\ AskedFor(c) # NULL /\ AskedFor(c)' = NULL
<1> DEFINE len == Len(poll_list)
           k == channel[c].index
<1>1. /\ c \in Channels /\ Fd[c] \in Nat /\ len \in Nat /\ k \in 1 .. len
      /\ Bucket(Fd[c]) \in Buckets /\ k # 0
      /\ DOMAIN poll_list = 1 .. len
  BY TableFacts, HashTypes DEF TableInv, TableTypes, Registered
<1>2. PICK n \in Live, d \in Registered :
        /\ IsNodeOf(n, c)
        /\ channel[d].index = len
        /\ heap' = [heap EXCEPT ![n] = FREED]
        /\ map' = [map EXCEPT ![Bucket(Fd[c])] = Unlink(@, n)]
        /\ cache' \in Caches
        /\ poll_list' = SwapDelete(poll_list, k)
        /\ channel' = [channel EXCEPT ![d].index = k, ![c] = NoEvents]
  BY DEF Removal
<1>3. /\ heap' \in [Nodes -> FdMap \cup {FREED}]
      /\ n \in Nodes /\ heap'[n] = FREED
      /\ \A m \in Nodes \ {n} : heap'[m] = heap[m]
      /\ heap[n] # FREED /\ heap[n].fd = Fd[c] /\ heap[n].ch = c
  BY <1>1, <1>2, TableFacts DEF TableInv, TableTypes, Live
<1>4. /\ poll_list' \in Seq(Pollfd) /\ Len(poll_list') = len - 1
      /\ DOMAIN poll_list' = 1 .. len - 1
      /\ \A l \in 1 .. len - 1 :
           poll_list'[l] = IF l = k THEN poll_list[len] ELSE poll_list[l]
  <2>1. poll_list \in Seq(Pollfd) /\ k \in DOMAIN poll_list
    BY <1>1 DEF TableInv, TableTypes
  <2>2. QED
    BY <1>2, <2>1, SwapDeleteProperties
<1>5. /\ channel' \in [Channels -> Channel]
      /\ channel'[c] = NoEvents
      /\ d # c => /\ channel'[d].index = k
                  /\ channel'[d].events = channel[d].events
                  /\ channel'[d].revents = channel[d].revents
      /\ \A x \in Channels \ {c, d} : channel'[x] = channel[x]
  <2>1. d \in Channels /\ channel \in [Channels -> Channel] /\ k \in Nat
    BY <1>1, TableFacts DEF TableInv, TableTypes
  <2>2. NoEvents \in Channel
    BY DEF NoEvents, Channel
  <2>3. [channel[d] EXCEPT !.index = k] \in Channel
    BY <2>1 DEF Channel
  <2>4. QED
    BY <1>1, <1>2, <2>1, <2>2, <2>3 DEF Channel
<1>6. NoEvents.index = 0 /\ NoEvents.revents = {}
  BY DEF NoEvents
<1>7. /\ Registered' = Registered \ {c}
      /\ \A x \in Registered : x \in Channels
  <2>1. \A x \in Channels \ {c} :
          channel'[x].index # 0 <=> channel[x].index # 0
    BY <1>1, <1>2, <1>5 DEF Registered
  <2>2. QED
    BY <1>5, <1>6, <2>1, TableFacts DEF Registered
<1>8. ASSUME NEW x \in Registered \ {c}
      PROVE  /\ channel'[x].events = channel[x].events
             /\ channel'[x].revents = channel[x].revents
             /\ channel'[x].index \in 1 .. len - 1
             /\ poll_list'[channel'[x].index] = poll_list[channel[x].index]
  <2>1. channel[x].index \in 1 .. len /\ channel[x].index # k
    BY <1>8, TableFacts
  <2>2. CASE x = d
    BY <1>1, <1>2, <1>4, <1>5, <1>8, <2>1, <2>2
  <2>3. CASE x # d
    <3>1. channel'[x] = channel[x] /\ channel[x].index # len
      BY <1>2, <1>5, <1>7, <1>8, <2>3, TableFacts
    <3>2. QED
      BY <1>1, <1>4, <2>1, <3>1
  <2>4. QED
    BY <2>2, <2>3
<1>9. FdsApart'
  BY <1>7 DEF TableInv, FdsApart, Users
<1>10. EntriesAgree'
  <2>1. \A x \in Registered \ {c} : HasEntry(x)'
    BY <1>4, <1>8 DEF TableInv, EntriesAgree, HasEntry
  <2>2. ASSUME NEW l \in 1 .. len - 1
        PROVE  \E x \in Registered \ {c} : channel'[x].index = l
    <3>1. CASE l = k
      <4>1. channel[d].index # channel[c].index
        BY <1>1, <1>2, <2>2, <3>1
      <4>2. d \in Registered \ {c} /\ channel'[d].index = l
        BY <1>2, <1>5, <3>1, <4>1
      <4>3. QED
        BY <4>2
    <3>2. CASE l # k
      <4>0. l \in DOMAIN poll_list
        BY <1>1, <2>2
      <4>1. PICK x \in Registered : channel[x].index = l
        BY <4>0 DEF TableInv, EntriesAgree
      <4>2. x # c /\ x # d /\ x \in Channels
        BY <1>1, <1>2, <1>7, <2>2, <3>2, <4>1
      <4>3. QED
        BY <1>5, <4>1, <4>2
    <3>3. QED
      BY <3>1, <3>2
  <2>3. QED
    BY <1>4, <1>7, <2>1, <2>2 DEF EntriesAgree
<1>11. /\ Live' = Live \ {n}
       /\ \A m \in Live' : heap'[m] = heap[m]
       /\ \A m \in Live' : m \in Live /\ m # n
  BY <1>3 DEF Live
<1>12. NodesAgree'
  <2>1. \A m \in Live', x \in Channels : IsNodeOf(m, x) <=> IsNodeOf(m, x)'
    BY <1>11 DEF IsNodeOf
  <2>2. \A m \in Live' : heap[m].ch # c
    BY <1>3, <1>11 DEF TableInv, NodesAgree
  <2>3. ASSUME NEW m \in Live'
        PROVE  \E x \in Registered' : IsNodeOf(m, x)'
    <3>1. PICK x \in Registered : IsNodeOf(m, x)
      BY <1>11 DEF TableInv, NodesAgree
    <3>2. x # c /\ x \in Channels
      BY <1>7, <1>11, <2>2, <3>1, TableFacts
    <3>3. QED
      BY <1>7, <2>1, <3>1, <3>2
  <2>4. ASSUME NEW x \in Registered'
        PROVE  \E m \in Live' : IsNodeOf(m, x)'
    <3>1. x \in Registered /\ x # c /\ x \in Channels
      BY <1>7
    <3>2. PICK m \in Live : IsNodeOf(m, x)
      BY <3>1 DEF TableInv, NodesAgree
    <3>3. heap[m].ch = x
      BY <3>1, <3>2, TableFacts
    <3>4. QED
      BY <1>3, <1>11, <2>1, <3>1, <3>2, <3>3
  <2>5. \A l, m \in Live' : heap'[l].ch = heap'[m].ch => l = m
    BY <1>11 DEF TableInv, NodesAgree
  <2>6. QED
    BY <2>3, <2>4, <2>5 DEF NodesAgree
<1>13. /\ map' \in [Buckets -> Seq(Nodes)]
       /\ ChainsAgree'
  <2> DEFINE b0 == Bucket(Fd[c])
  <2>1. /\ map[b0] \in Seq(Nodes) /\ Injective(map[b0])
        /\ Elements(map[b0]) = LiveIn(b0) /\ n \in Elements(map[b0])
    BY <1>1, <1>3 DEF TableInv, TableTypes, ChainsAgree, LiveIn
  <2>2. /\ Unlink(map[b0], n) \in Seq(Nodes)
        /\ Injective(Unlink(map[b0], n))
        /\ Elements(Unlink(map[b0], n)) = LiveIn(b0) \ {n}
    BY <2>1, UnlinkProperties
  <2>3. /\ map' \in [Buckets -> Seq(Nodes)]
        /\ map'[b0] = Unlink(map[b0], n)
        /\ \A b \in Buckets \ {b0} : map'[b] = map[b]
    BY <1>1, <1>2, <2>2 DEF TableInv, TableTypes
  <2>4. LiveIn(b0)' = LiveIn(b0) \ {n}
    BY <1>3, <1>11 DEF LiveIn
  <2>5. \A b \in Buckets \ {b0} : LiveIn(b)' = LiveIn(b)
    BY <1>3, <1>11 DEF LiveIn
  <2>6. ASSUME NEW b \in Buckets
        PROVE  Injective(map'[b]) /\ Elements(map'[b]) = LiveIn(b)'
    <3>1. CASE b = b0
      BY <2>2, <2>3, <2>4, <3>1
    <3>2. CASE b # b0
      BY <2>3, <2>5, <3>2 DEF TableInv, ChainsAgree
    <3>3. QED
      BY <3>1, <3>2
  <2>7. QED
    BY <2>3, <2>6 DEF ChainsAgree
<1>14. EventsAgree'
  BY <1>7, <1>8 DEF TableInv, EventsAgree, Unheard
<1>15. \A x \in Channels :
         channel'[x].revents # {} =>
           x \in Registered \ {c} /\ channel[x].revents # {}
  <2>1. \A x \in Channels \ {c} : channel'[x].revents = channel[x].revents
    BY <1>5
  <2>2. QED
    BY <1>5, <1>6, <2>1 DEF TableInv, ReadyIsRegistered
<1>16. ReadyIsRegistered'
  BY <1>7, <1>15 DEF ReadyIsRegistered
<1>17. TableInv'
  BY <1>2, <1>3, <1>4, <1>5, <1>9, <1>10, <1>12, <1>13, <1>14, <1>16
     DEF TableInv, TableTypes
<1>18. RevsKept
  BY <1>8, <1>15 DEF RevsKept
<1>19. OthersKept(c)
  <2>1. ASSUME NEW x \in Channels \ {c}
        PROVE  AskedFor(x)' = AskedFor(x)
    <3>1. CASE x \in Registered
      <4>1. channel'[x].index # 0 /\ channel[x].index # 0
        BY <1>8, <2>1, <3>1 DEF Registered
      <4>2. QED
        BY <1>8, <2>1, <3>1, <4>1 DEF AskedFor
    <3>2. CASE x \notin Registered
      <4>1. channel'[x] = channel[x] /\ channel[x].index = 0
        BY <1>5, <2>1, <3>2 DEF Registered
      <4>2. QED
        BY <4>1 DEF AskedFor
    <3>3. QED
      BY <3>1, <3>2
  <2>2. QED
    BY <2>1 DEF OthersKept
<1>20. AskedFor(c) # NULL /\ AskedFor(c)' = NULL
  <2>1. poll_list[k] \in Pollfd
    BY <1>1 DEF TableInv, TableTypes
  <2>2. poll_list[k].events \in SUBSET Events
    BY <2>1 DEF Pollfd
  <2>3. QED
    BY <1>1, <1>5, <1>6, <2>2, PollerAssumption DEF AskedFor
<1>21. QED
  BY <1>7, <1>17, <1>18, <1>19, <1>20

(* A change of one channel that the poller does not see, or of the         *)
(* channels that are open.                                                 *)
LEMMA QuietKeeps ==
  ASSUME TableInv, NEW c \in Channels, NEW x \in Channel,
         channel' = [channel EXCEPT ![c] = x],
         x.index = channel[c].index,
         x.revents \in {{}, channel[c].revents},
         c \in Registered => /\ channel[c].events \subseteq x.events
                             /\ x.events \ channel[c].events \subseteq Unheard(c),
         open' \in SUBSET Channels,
         \A a, b \in Registered \cup open' : Fd[a] = Fd[b] => a = b,
         UNCHANGED <<heap, map, cache, poll_list>>
  PROVE  /\ TableInv'
         /\ Registered' = Registered
         /\ RevsKept
         /\ \A d \in Channels : AskedFor(d)' = AskedFor(d)
<1>1. /\ channel' \in [Channels -> Channel]
      /\ channel'[c] = x
      /\ \A d \in Channels \ {c} : channel'[d] = channel[d]
  BY DEF TableInv, TableTypes
<1>2. \A d \in Channels : /\ channel'[d].index = channel[d].index
                          /\ channel'[d].revents \in {{}, channel[d].revents}
  BY <1>1
<1>3. Registered' = Registered
  BY <1>2 DEF Registered
<1>4. TableTypes'
  BY <1>1 DEF TableInv, TableTypes
<1>5. FdsApart'
  BY <1>3 DEF FdsApart, Users
<1>6. EntriesAgree'
  <2>1. \A d \in Registered : channel'[d].index = channel[d].index
    BY <1>2, TableFacts
  <2>2. QED
    BY <1>3, <2>1 DEF TableInv, EntriesAgree, HasEntry
<1>7. NodesAgree' /\ ChainsAgree'
  BY <1>3 DEF TableInv, NodesAgree, ChainsAgree, Live, IsNodeOf, LiveIn
<1>8. EventsAgree'
  <2>1. \A d \in Registered :
          /\ channel'[d].index = channel[d].index
          /\ channel[d].events \subseteq channel'[d].events
          /\ channel'[d].events \ channel[d].events \subseteq Unheard(d)
    BY <1>1, TableFacts
  <2>2. \A d \in Registered : HearsRight(d)
    BY DEF TableInv, EventsAgree, HearsRight
  <2>3. \A d \in Registered : HearsRight(d)'
    BY <2>1, <2>2 DEF HearsRight, Unheard
  <2>4. QED
    BY <1>3, <2>3 DEF EventsAgree, HearsRight
<1>9. ReadyIsRegistered'
  BY <1>2, <1>3 DEF TableInv, ReadyIsRegistered
<1>10. RevsKept
  BY <1>2 DEF RevsKept
<1>11. \A d \in Channels : AskedFor(d)' = AskedFor(d)
  BY <1>2 DEF AskedFor
<1>12. QED
  BY <1>3, <1>4, <1>5, <1>6, <1>7, <1>8, <1>9, <1>10, <1>11 DEF TableInv

(* The two operations on the poller that the rest is made of.              *)
LEMMA UpdateKeeps ==
  ASSUME TableInv, NEW c \in open, NEW e \in SUBSET Events,
         UpdateChannel(c, e), UNCHANGED open
  PROVE  /\ TableInv'
         /\ Registered' \subseteq Registered \cup {c}
         /\ asserted = FALSE => asserted' = FALSE
         /\ RevsKept
         /\ OthersKept(c) /\ AskedFor(c)' = e
<1>1. CASE Register(c, e)
  <2>1. asserted' = asserted
    BY <1>1 DEF Register
  <2>2. QED
    BY <1>1, <2>1, RegisterKeeps
<1>2. CASE Change(c, e)
  BY <1>2, ChangeKeeps
<1>3. QED
  BY <1>1, <1>2 DEF UpdateChannel

LEMMA InvalidateKeeps ==
  ASSUME TableInv, NEW c \in Channels, Invalidate(c), UNCHANGED open
  PROVE  /\ TableInv'
         /\ Registered' = Registered \ {c}
         /\ asserted = FALSE => asserted' = FALSE
         /\ RevsKept
         /\ OthersKept(c) /\ AskedFor(c)' = NULL
         /\ AskedFor(c) # NULL \/ AskedFor(c)' = AskedFor(c)
<1>1. CASE RemoveLast(c) \/ RemoveInside(c)
  BY <1>1, RemoveIsRemoval, RemovalKeeps
<1>2. CASE Forget(c)
  <2>1. /\ channel' = [channel EXCEPT ![c] = NoEvents]
        /\ channel[c].index = 0
        /\ UNCHANGED <<heap, map, cache, poll_list, asserted>>
    BY <1>2 DEF Forget
  <2>2. /\ NoEvents \in Channel
        /\ NoEvents.index = 0
        /\ NoEvents.revents = {}
    BY DEF NoEvents, Channel
  <2>3. c \notin Registered
    BY <2>1 DEF Registered
  <2>4. \A a, b \in Registered \cup open' : Fd[a] = Fd[b] => a = b
    BY DEF TableInv, FdsApart, Users
  <2>5. open' \in SUBSET Channels
    BY DEF TableInv, TableTypes
  <2>6. /\ TableInv'
        /\ Registered' = Registered
        /\ RevsKept
        /\ \A d \in Channels : AskedFor(d)' = AskedFor(d)
    BY <2>1, <2>2, <2>3, <2>4, <2>5, QuietKeeps
  <2>7. AskedFor(c) = NULL
    BY <2>1 DEF AskedFor
  <2>8. QED
    BY <2>1, <2>3, <2>6, <2>7 DEF OthersKept
<1>3. QED
  BY <1>1, <1>2 DEF Invalidate

-----------------------------------------------------------------------------
(* The part of the invariant about the owner and its lists.                *)

Places == {"Run", "Scan", "Next", "Error", "InError", "Hup", "InHup", "Read",
           "InRead", "Write", "InWrite"}

ControlTypes ==
  /\ asserted = FALSE
  /\ at \in Places
  /\ count \in Nat
  /\ j \in Nat \ {0}
  /\ active \in Seq(Channels)
  /\ cur \in Nat \ {0}
  /\ ops \in 0 .. MaxOps
  /\ at = "Scan" => j <= Len(poll_list) /\ count > 0
  /\ at \notin {"Run", "Scan", "Next"} => cur <= Len(active)

(* A registered channel is open, unless its own error or close callback    *)
(* has closed it and channel_handler() is about to invalidate it.          *)
RegisteredOpen ==
  \A c \in Registered :
    c \in open \/ (at \in {"InError", "InHup"} /\ c = active[cur])

(* HandlesWhatPollReported, from the entry on that lists the channel.      *)
ListedAgrees ==
  at # "Run" =>
    \A k \in DOMAIN active :
      channel[active[k]].revents # {} =>
        poll_list[channel[active[k]].index].revents = channel[active[k]].revents

PollerInv == TableInv /\ ControlTypes /\ RegisteredOpen /\ ListedAgrees

LEMMA PollerInit == Init => PollerInv
<1> SUFFICES ASSUME Init
             PROVE  PollerInv
  OBVIOUS
<1>1. /\ heap \in [Nodes -> FdMap \cup {FREED}]
      /\ \A n \in Nodes : heap[n] = FREED
  BY DEF Init
<1>2. /\ map \in [Buckets -> Seq(Nodes)]
      /\ \A b \in Buckets : map[b] = <<>>
  BY DEF Init, Buckets
<1>3. cache \in Caches
  BY DEF Init, Caches, Slots
<1>4. poll_list \in Seq(Pollfd) /\ DOMAIN poll_list = {}
  BY DEF Init
<1>5. /\ channel \in [Channels -> Channel]
      /\ \A c \in Channels : channel[c].index = 0 /\ channel[c].revents = {}
  BY DEF Init, NoEvents, Channel
<1>6. Registered = {} /\ Live = {} /\ open = {} /\ Users = {}
  BY <1>1, <1>5 DEF Registered, Live, Users, Init
<1>7. ChainsAgree
  <2>1. ASSUME NEW b \in Buckets
        PROVE  Injective(map[b]) /\ Elements(map[b]) = LiveIn(b)
    <3>1. DOMAIN map[b] = {}
      BY <1>2
    <3>2. QED
      BY <1>6, <3>1 DEF Injective, Elements, LiveIn
  <2>2. QED
    BY <2>1 DEF ChainsAgree
<1>8. TableInv
  BY <1>1, <1>2, <1>3, <1>4, <1>5, <1>6, <1>7
     DEF TableInv, TableTypes, FdsApart, EntriesAgree, NodesAgree, EventsAgree,
         ReadyIsRegistered
<1>9. ControlTypes
  <2>1. ops \in 0 .. MaxOps
    BY PollerAssumption DEF Init
  <2>2. QED
    BY <2>1 DEF ControlTypes, Init, Places
<1>10. RegisteredOpen /\ ListedAgrees
  BY <1>6 DEF RegisteredOpen, ListedAgrees, Init
<1>11. QED
  BY <1>8, <1>9, <1>10 DEF PollerInv

(* An operation of the upper layers stays within the invariant if it       *)
(* leaves the tables in order.                                             *)
LEMMA OpKeeps ==
  ASSUME PollerInv, TableInv', RevsKept, asserted' = FALSE,
         at = "Run" \/ InCallback, UNCHANGED control,
         ops' \in 0 .. MaxOps,
         RegisteredOpen'
  PROVE  PollerInv'
<1>1. at' = at /\ count' = count /\ j' = j /\ active' = active /\ cur' = cur
  BY DEF control
<1>2. at # "Scan"
  BY DEF InCallback
<1>3. ControlTypes'
  BY <1>1, <1>2 DEF PollerInv, ControlTypes
<1>4. ListedAgrees'
  <2>1. ASSUME at # "Run", NEW k \in DOMAIN active,
               channel'[active[k]].revents # {}
        PROVE  poll_list'[channel'[active[k]].index].revents
                 = channel'[active[k]].revents
    <3>1. active[k] \in Channels
      BY <2>1 DEF PollerInv, ControlTypes
    <3>2. QED
      BY <2>1, <3>1 DEF PollerInv, ListedAgrees, RevsKept
  <2>2. QED
    BY <1>1, <2>1 DEF ListedAgrees
<1>5. QED
  BY <1>3, <1>4 DEF PollerInv

(* What a step may do to the table that AskedSpec speaks of.               *)
AskedStep ==
  \/ \A d \in Channels : AskedFor(d)' = AskedFor(d)
  \/ \E c \in Channels :
       /\ OthersKept(c)
       /\ \/ AskedFor(c)' \in SUBSET Events
          \/ AskedFor(c) # NULL /\ AskedFor(c)' = NULL

(* Operations that tell the poller ...                                     *)
LEMMA OpUpdates ==
  ASSUME PollerInv, NEW c \in Channels, Op(c), NEW e \in SUBSET Events,
         UpdateChannel(c, e)
  PROVE  PollerInv' /\ AskedStep
<1>1. /\ at = "Run" \/ InCallback
      /\ c \in open /\ UNCHANGED open /\ UNCHANGED control
      /\ ops < MaxOps /\ ops' = ops + 1
  BY DEF Op
<1>2. ops' \in 0 .. MaxOps
  BY <1>1, PollerAssumption DEF PollerInv, ControlTypes
<1>3. /\ TableInv'
      /\ Registered' \subseteq Registered \cup {c}
      /\ asserted' = FALSE
      /\ RevsKept
      /\ OthersKept(c) /\ AskedFor(c)' = e
  BY <1>1, UpdateKeeps DEF PollerInv, ControlTypes
<1>4. RegisteredOpen'
  BY <1>1, <1>3 DEF PollerInv, RegisteredOpen, control
<1>5. PollerInv'
  BY <1>1, <1>2, <1>3, <1>4, OpKeeps
<1>6. AskedStep
  BY <1>3 DEF AskedStep
<1>7. QED
  BY <1>5, <1>6

(* ... those that do not always, ...                                       *)
LEMMA OpEnables ==
  ASSUME PollerInv, NEW c \in Channels, NEW f \in SUBSET Events, NEW told \in BOOLEAN,
         Op(c), Enable(c, channel[c].events \cup f, told),
         told \/ f \subseteq Unheard(c)
  PROVE  PollerInv' /\ AskedStep
<1> DEFINE e == channel[c].events \cup f
           x == [channel[c] EXCEPT !.events = e]
<1>1. e \in SUBSET Events /\ x \in Channel /\ channel \in [Channels -> Channel]
  BY DEF PollerInv, TableInv, TableTypes, Channel
<1>2. CASE told
  BY <1>1, <1>2, OpUpdates DEF Enable
<1>3. CASE ~told
  <2>1. /\ channel' = [channel EXCEPT ![c] = x]
        /\ UNCHANGED <<heap, map, cache, poll_list, asserted>>
    BY <1>3 DEF Enable
  <2>2. /\ at = "Run" \/ InCallback
        /\ UNCHANGED open /\ UNCHANGED control
        /\ ops < MaxOps /\ ops' = ops + 1
    BY DEF Op
  <2>3. /\ x.index = channel[c].index /\ x.revents = channel[c].revents
        /\ channel[c].events \subseteq x.events
        /\ x.events \ channel[c].events \subseteq Unheard(c)
    BY <1>1, <1>3 DEF Channel
  <2>4. /\ open' \in SUBSET Channels
        /\ \A a, b \in Registered \cup open' : Fd[a] = Fd[b] => a = b
    BY <2>2 DEF PollerInv, TableInv, TableTypes, FdsApart, Users
  <2>5. /\ TableInv'
        /\ Registered' = Registered
        /\ RevsKept
        /\ \A d \in Channels : AskedFor(d)' = AskedFor(d)
    BY <1>1, <2>1, <2>3, <2>4, QuietKeeps DEF PollerInv
  <2>6. ops' \in 0 .. MaxOps /\ asserted' = FALSE
    BY <2>1, <2>2, PollerAssumption DEF PollerInv, ControlTypes
  <2>7. RegisteredOpen'
    BY <2>2, <2>5 DEF PollerInv, RegisteredOpen, control
  <2>8. PollerInv'
    BY <2>2, <2>5, <2>6, <2>7, OpKeeps
  <2>9. QED
    BY <2>5, <2>8 DEF AskedStep
<1>4. QED
  BY <1>2, <1>3

(* ... one that ends the registration, ...                                 *)
LEMMA OpInvalidates ==
  ASSUME PollerInv, NEW c \in Channels, InvalidateChannel(c)
  PROVE  PollerInv' /\ AskedStep
<1>1. /\ at = "Run" \/ InCallback
      /\ UNCHANGED open /\ UNCHANGED control
      /\ ops < MaxOps /\ ops' = ops + 1
      /\ Invalidate(c)
  BY DEF InvalidateChannel, Op
<1>2. /\ TableInv'
      /\ Registered' = Registered \ {c}
      /\ asserted' = FALSE
      /\ RevsKept
      /\ OthersKept(c) /\ AskedFor(c)' = NULL
      /\ AskedFor(c) # NULL \/ AskedFor(c)' = AskedFor(c)
  BY <1>1, InvalidateKeeps DEF PollerInv, ControlTypes
<1>3. ops' \in 0 .. MaxOps
  BY <1>1, PollerAssumption DEF PollerInv, ControlTypes
<1>4. RegisteredOpen'
  BY <1>1, <1>2 DEF PollerInv, RegisteredOpen, control
<1>5. PollerInv'
  BY <1>1, <1>2, <1>3, <1>4, OpKeeps
<1>6. AskedStep
  BY <1>2 DEF AskedStep, OthersKept
<1>7. QED
  BY <1>5, <1>6

(* ... and those on the descriptor itself.                                 *)
LEMMA OpOpens ==
  ASSUME PollerInv, NEW c \in Channels, OpenChannel(c)
  PROVE  PollerInv' /\ AskedStep
<1>1. /\ at \in {"Run", "InRead"}
      /\ c \notin open
      /\ \A d \in open : Fd[d] # Fd[c]
      /\ open' = open \cup {c}
      /\ channel' = [channel EXCEPT ![c] = NoEvents]
      /\ UNCHANGED <<heap, map, cache, poll_list, asserted, ops>>
      /\ UNCHANGED control
  BY DEF OpenChannel
<1>2. Registered \subseteq open /\ open \subseteq Channels
  BY <1>1 DEF PollerInv, RegisteredOpen, TableInv, TableTypes
<1>3. c \notin Registered /\ channel[c].index = 0
  BY <1>1, <1>2 DEF Registered
<1>4. NoEvents \in Channel /\ NoEvents.index = 0 /\ NoEvents.revents = {}
  BY DEF NoEvents, Channel
<1>5. \A a, b \in Registered \cup open' : Fd[a] = Fd[b] => a = b
  BY <1>1, <1>2 DEF PollerInv, TableInv, FdsApart, Users
<1>6. open' \in SUBSET Channels
  BY <1>1, <1>2
<1>7. /\ TableInv'
      /\ Registered' = Registered
      /\ RevsKept
      /\ \A d \in Channels : AskedFor(d)' = AskedFor(d)
  BY <1>1, <1>3, <1>4, <1>5, <1>6, QuietKeeps DEF PollerInv
<1>8. RegisteredOpen'
  BY <1>1, <1>2, <1>7 DEF RegisteredOpen
<1>9. ops' \in 0 .. MaxOps /\ asserted' = FALSE
  BY <1>1 DEF PollerInv, ControlTypes
<1>10. at = "Run" \/ InCallback
  BY <1>1 DEF InCallback
<1>11. PollerInv'
  BY <1>1, <1>7, <1>8, <1>9, <1>10, OpKeeps
<1>12. QED
  BY <1>7, <1>11 DEF AskedStep

LEMMA OpCloses ==
  ASSUME PollerInv, NEW c \in Channels, CloseChannel(c)
  PROVE  PollerInv' /\ AskedStep
<1>1. /\ at = "Run" \/ InCallback
      /\ \/ channel[c].index = 0
         \/ at \in {"InError", "InHup"} /\ c = active[cur]
      /\ open' = open \ {c}
      /\ UNCHANGED <<heap, map, cache, poll_list, channel, asserted, ops>>
      /\ UNCHANGED control
  BY DEF CloseChannel, tables
<1>2. Registered' = Registered
  BY <1>1 DEF Registered
<1>3. /\ TableInv'
      /\ RevsKept
      /\ \A d \in Channels : AskedFor(d)' = AskedFor(d)
  <2>1. channel' = [channel EXCEPT ![c] = channel[c]] /\ channel[c] \in Channel
    BY <1>1 DEF PollerInv, TableInv, TableTypes
  <2>2. open' \in SUBSET Channels
    BY <1>1 DEF PollerInv, TableInv, TableTypes
  <2>3. \A a, b \in Registered \cup open' : Fd[a] = Fd[b] => a = b
    BY <1>1 DEF PollerInv, TableInv, FdsApart, Users
  <2>4. QED
    BY <1>1, <2>1, <2>2, <2>3, QuietKeeps DEF PollerInv
<1>4. RegisteredOpen'
  BY <1>1, <1>2 DEF PollerInv, RegisteredOpen, Registered, control
<1>5. ops' \in 0 .. MaxOps /\ asserted' = FALSE
  BY <1>1 DEF PollerInv, ControlTypes
<1>6. PollerInv'
  BY <1>1, <1>3, <1>4, <1>5, OpKeeps
<1>7. QED
  BY <1>3, <1>6 DEF AskedStep

LEMMA UserOpKeeps ==
  ASSUME PollerInv, UserOp
  PROVE  PollerInv' /\ AskedStep
<1>1. PICK c \in Channels :
        \/ EnableRead(c) \/ EnableUrgent(c) \/ DisableRead(c)
        \/ EnableWrite(c) \/ DisableWrite(c) \/ EnableRw(c) \/ DisableRw(c)
        \/ InvalidateChannel(c) \/ OpenChannel(c) \/ CloseChannel(c)
  BY DEF UserOp
<1>2. channel[c].events \subseteq Events
  BY DEF PollerInv, TableInv, TableTypes, Channel
<1>3. Read \subseteq Events /\ "PRI" \in Events
  BY DEF Events, Read
<1>4. CASE EnableRead(c)
  <2>1. /\ Op(c) /\ Enable(c, channel[c].events \cup Read, c \in Readers)
        /\ Read \in SUBSET Events /\ (c \in Readers) \in BOOLEAN
    BY <1>3, <1>4 DEF EnableRead
  <2>2. c \in Readers \/ Read \subseteq Unheard(c)
    BY DEF Unheard
  <2>3. QED
    BY <2>1, <2>2, OpEnables
<1>5. CASE EnableUrgent(c)
  BY <1>2, <1>3, <1>5, OpUpdates DEF EnableUrgent
<1>6. CASE DisableRead(c)
  BY <1>2, <1>6, OpUpdates DEF DisableRead
<1>7. CASE EnableWrite(c)
  <2>1. /\ Op(c) /\ Enable(c, channel[c].events \cup {"OUT"}, c \in Writers)
        /\ {"OUT"} \in SUBSET Events /\ (c \in Writers) \in BOOLEAN
    BY <1>7 DEF EnableWrite, Events
  <2>2. c \in Writers \/ {"OUT"} \subseteq Unheard(c)
    BY DEF Unheard
  <2>3. QED
    BY <2>1, <2>2, OpEnables
<1>8. CASE DisableWrite(c)
  BY <1>2, <1>8, OpUpdates DEF DisableWrite
<1>9. CASE EnableRw(c)
  BY <1>9, OpUpdates DEF EnableRw
<1>10. CASE DisableRw(c)
  BY <1>10, OpUpdates DEF DisableRw
<1>11. CASE InvalidateChannel(c)
  BY <1>11, OpInvalidates
<1>12. CASE OpenChannel(c)
  BY <1>12, OpOpens
<1>13. CASE CloseChannel(c)
  BY <1>13, OpCloses
<1>14. QED
  BY <1>1, <1>4, <1>5, <1>6, <1>7, <1>8, <1>9, <1>10, <1>11, <1>12, <1>13

-----------------------------------------------------------------------------
(* The steps of the owner.                                                 *)

LEMMA PollReturnKeeps ==
  ASSUME PollerInv, PollReturn
  PROVE  PollerInv' /\ AskedStep
<1> DEFINE len == Len(poll_list)
<1>1. PICK r \in [DOMAIN poll_list -> SUBSET Reports] :
        /\ poll_list' = [k \in DOMAIN poll_list |->
                           [poll_list[k] EXCEPT !.revents = r[k]]]
        /\ count' = Cardinality({k \in DOMAIN poll_list : r[k] # {}})
        /\ at' = IF {k \in DOMAIN poll_list : r[k] # {}} = {}
                 THEN "Next" ELSE "Scan"
  BY DEF PollReturn
<1>2. /\ at = "Run" /\ j' = 1 /\ active' = <<>> /\ cur' = 1 /\ ops' = 0
      /\ UNCHANGED <<heap, map, cache, channel, asserted, open>>
  BY DEF PollReturn
<1>3. DOMAIN poll_list = 1 .. len /\ len \in Nat
  BY DEF PollerInv, TableInv, TableTypes
<1>4. ASSUME NEW k \in 1 .. len
      PROVE  /\ poll_list'[k] \in Pollfd
             /\ poll_list'[k].fd = poll_list[k].fd
             /\ poll_list'[k].events = poll_list[k].events
  <2>1. poll_list[k] \in Pollfd
    BY <1>3 DEF PollerInv, TableInv, TableTypes
  <2>2. r[k] \in SUBSET Conditions
    BY <1>3, PollerAssumption
  <2>3. poll_list'[k] = [poll_list[k] EXCEPT !.revents = r[k]]
    BY <1>1, <1>3
  <2>4. QED
    BY <2>1, <2>2, <2>3 DEF Pollfd
<1>5. poll_list' \in Seq(Pollfd) /\ DOMAIN poll_list' = 1 .. len /\ Len(poll_list') = len
  <2>1. poll_list' \in [1 .. len -> Pollfd]
    BY <1>1, <1>3, <1>4
  <2>2. QED
    BY <1>3, <2>1
<1>6. Registered' = Registered /\ Users' = Users
  BY <1>2 DEF Registered, Users
<1>7. \A c \in Registered : channel[c].index \in 1 .. len
  BY TableFacts DEF PollerInv
<1>8. FdsApart'
  BY <1>6 DEF PollerInv, TableInv, FdsApart
<1>9. EntriesAgree'
  BY <1>2, <1>3, <1>4, <1>5, <1>6
     DEF PollerInv, TableInv, EntriesAgree, HasEntry
<1>10. NodesAgree' /\ ChainsAgree'
  BY <1>2, <1>6
     DEF PollerInv, TableInv, NodesAgree, ChainsAgree, Live, IsNodeOf, LiveIn
<1>11. EventsAgree'
  BY <1>2, <1>4, <1>6, <1>7 DEF PollerInv, TableInv, EventsAgree, Unheard
<1>12. ReadyIsRegistered'
  BY <1>2, <1>6 DEF PollerInv, TableInv, ReadyIsRegistered
<1>13. TableInv'
  BY <1>2, <1>5, <1>8, <1>9, <1>10, <1>11, <1>12
     DEF PollerInv, TableInv, TableTypes
<1>14. ControlTypes'
  <2> DEFINE ready == {k \in DOMAIN poll_list : r[k] # {}}
  <2>1. IsFiniteSet(1 .. len) /\ ready \subseteq 1 .. len
    BY <1>3, FS_Interval
  <2>2. IsFiniteSet(ready)
    BY <2>1, FS_Subset
  <2>3. Cardinality(ready) \in Nat /\ (Cardinality(ready) = 0 <=> ready = {})
    BY <2>2, FS_CardinalityType, FS_EmptySet
  <2>4. at' = "Scan" => 1 <= len /\ count' > 0
    BY <1>1, <1>3, <2>1, <2>3
  <2>5. asserted' = FALSE /\ ops' \in 0 .. MaxOps
    BY <1>2, PollerAssumption DEF PollerInv, ControlTypes
  <2>6. at' \in {"Next", "Scan"} /\ count' \in Nat
    BY <1>1, <2>3
  <2>7. QED
    BY <1>2, <1>5, <2>4, <2>5, <2>6 DEF ControlTypes, Places
<1>15. RegisteredOpen' /\ ListedAgrees'
  BY <1>2, <1>6 DEF PollerInv, RegisteredOpen, ListedAgrees
<1>16. AskedStep
  <2>1. ASSUME NEW d \in Channels
        PROVE  AskedFor(d)' = AskedFor(d)
    <3>1. CASE d \in Registered
      BY <1>2, <1>4, <1>7, <3>1 DEF AskedFor
    <3>2. CASE d \notin Registered
      BY <1>2, <3>2 DEF AskedFor, Registered
    <3>3. QED
      BY <3>1, <3>2
  <2>2. QED
    BY <2>1 DEF AskedStep
<1>17. QED
  BY <1>13, <1>14, <1>15, <1>16 DEF PollerInv

(* The cursor of poller_poll() stays inside poll_list.                     *)
LEMMA NextEntryTypes ==
  ASSUME PollerInv, at = "Scan", NextEntry
  PROVE  /\ at' \in {"Scan", "Next"}
         /\ count' \in Nat /\ j' \in Nat \ {0}
         /\ at' = "Scan" => j' <= Len(poll_list) /\ count' > 0
<1>1. /\ j \in Nat \ {0} /\ j <= Len(poll_list) /\ Len(poll_list) \in Nat
      /\ count \in Nat /\ count > 0
  BY DEF PollerInv, ControlTypes, TableInv, TableTypes
<1>2. CASE j < Len(poll_list)
  BY <1>1, <1>2 DEF NextEntry
<1>3. CASE ~(j < Len(poll_list))
  BY <1>1, <1>3 DEF NextEntry
<1>4. QED
  BY <1>2, <1>3

(* Steps that leave the tables alone.                                      *)
LEMMA MoveKeeps ==
  ASSUME PollerInv, UNCHANGED <<tables, open, active, ops>>,
         at \notin {"Run", "InError", "InHup"},
         ControlTypes'
  PROVE  PollerInv' /\ AskedStep
<1>1. UNCHANGED <<heap, map, cache, poll_list, channel, asserted, open, active>>
  BY DEF tables
<1>2. TableInv'
  BY <1>1
     DEF PollerInv, TableInv, TableTypes, FdsApart, Users, Registered,
         EntriesAgree, HasEntry, NodesAgree, Live, IsNodeOf, ChainsAgree,
         LiveIn, EventsAgree, Unheard, ReadyIsRegistered
<1>3. RegisteredOpen' /\ ListedAgrees'
  BY <1>1 DEF PollerInv, RegisteredOpen, ListedAgrees, Registered
<1>4. AskedStep
  BY <1>1 DEF AskedStep, AskedFor
<1>5. QED
  BY <1>2, <1>3, <1>4 DEF PollerInv

LEMMA ScanIdleKeeps ==
  ASSUME PollerInv, ScanIdle
  PROVE  PollerInv' /\ AskedStep
<1>1. /\ at = "Scan" /\ NextEntry
      /\ UNCHANGED <<tables, open, active, cur, ops>>
  BY DEF ScanIdle
<1>2. /\ at' \in {"Scan", "Next"}
      /\ count' \in Nat /\ j' \in Nat \ {0}
      /\ at' = "Scan" => j' <= Len(poll_list) /\ count' > 0
  BY <1>1, NextEntryTypes
<1>3. ControlTypes'
  BY <1>1, <1>2 DEF PollerInv, ControlTypes, Places, tables
<1>4. QED
  BY <1>1, <1>3, MoveKeeps

(* get_channel() leads to the channel whose entry is looked at.            *)
LEMMA ScanReadyKeeps ==
  ASSUME PollerInv, ScanReady
  PROVE  PollerInv' /\ AskedStep
<1> DEFINE fd == poll_list[j].fd
           n == Find(cache, fd)
           len == Len(poll_list)
<1>1. /\ at = "Scan" /\ j \in 1 .. len /\ len \in Nat
      /\ DOMAIN poll_list = 1 .. len
      /\ UNCHANGED <<heap, map, poll_list, open, cur, ops>>
  BY DEF PollerInv, ControlTypes, TableInv, TableTypes, ScanReady
<1>2. PICK d \in Registered : channel[d].index = j
  BY <1>1 DEF PollerInv, TableInv, EntriesAgree
<1>3. d \in Channels /\ Fd[d] = fd /\ fd \in Nat
  BY <1>2, TableFacts DEF PollerInv, TableInv, EntriesAgree, HasEntry
<1>4. n \in Live /\ n \in Nodes /\ n # NULL /\ heap[n].ch = d
  <2>1. n \in Live /\ IsNodeOf(n, d)
    BY <1>2, <1>3, FindRight DEF PollerInv, TableInv, TableTypes
  <2>2. QED
    BY <1>3, <2>1, TableFacts, PollerAssumption DEF Live, PollerInv
<1> DEFINE revs == poll_list[j].revents
<1>5. /\ cache' = CacheFound(fd)
      /\ channel' = [channel EXCEPT ![d].revents = revs]
      /\ active' = Append(active, d)
      /\ asserted' = (asserted \/ Fd[d] # fd)
      /\ NextEntry
  BY <1>4 DEF ScanReady, BUG_ON
<1>6. revs \in SUBSET Conditions
  <2>1. poll_list[j] \in Pollfd
    BY <1>1 DEF PollerInv, TableInv, TableTypes
  <2>2. QED
    BY <2>1 DEF Pollfd
<1>7. /\ channel' \in [Channels -> Channel]
      /\ channel'[d].revents = revs
      /\ \A c \in Channels \ {d} : channel'[c] = channel[c]
      /\ \A c \in Channels : /\ channel'[c].index = channel[c].index
                             /\ channel'[c].events = channel[c].events
  <2>1. channel \in [Channels -> Channel] /\ channel[d] \in Channel
    BY <1>3 DEF PollerInv, TableInv, TableTypes
  <2>2. [channel[d] EXCEPT !.revents = revs] \in Channel
    BY <1>6, <2>1 DEF Channel
  <2>3. QED
    BY <1>3, <1>5, <2>1, <2>2 DEF Channel
<1>8. cache' \in Caches
  BY <1>3, <1>4, <1>5 DEF CacheFound, Caches, PollerInv, TableInv, TableTypes
<1>9. Registered' = Registered /\ Users' = Users
  BY <1>1, <1>7 DEF Registered, Users
<1>10. TableInv'
  <2>1. FdsApart'
    BY <1>9 DEF PollerInv, TableInv, FdsApart
  <2>2. \A c \in Registered : channel'[c].index = channel[c].index
    BY <1>7, TableFacts DEF PollerInv
  <2>3. EntriesAgree'
    BY <1>1, <1>9, <2>2 DEF PollerInv, TableInv, EntriesAgree, HasEntry
  <2>4. NodesAgree' /\ ChainsAgree'
    BY <1>1, <1>9
       DEF PollerInv, TableInv, NodesAgree, ChainsAgree, Live, IsNodeOf, LiveIn
  <2>5. \A c \in Registered : channel'[c].events = channel[c].events
    BY <1>7, TableFacts DEF PollerInv
  <2>6. EventsAgree'
    BY <1>1, <1>9, <2>2, <2>5 DEF PollerInv, TableInv, EventsAgree, Unheard
  <2>7. ReadyIsRegistered'
    BY <1>2, <1>7, <1>9 DEF PollerInv, TableInv, ReadyIsRegistered
  <2>8. TableTypes'
    BY <1>1, <1>7, <1>8 DEF PollerInv, TableInv, TableTypes
  <2>9. QED
    BY <2>1, <2>3, <2>4, <2>6, <2>7, <2>8 DEF TableInv
<1>11. /\ at' \in {"Scan", "Next"}
       /\ count' \in Nat /\ j' \in Nat \ {0}
       /\ at' = "Scan" => j' <= len /\ count' > 0
  BY <1>1, <1>5, NextEntryTypes
<1>12. /\ active' \in Seq(Channels) /\ active \in Seq(Channels)
       /\ Len(active') = Len(active) + 1
       /\ active'[Len(active) + 1] = d
       /\ \A k \in 1 .. Len(active) : active'[k] = active[k]
  BY <1>3, <1>5 DEF PollerInv, ControlTypes
<1>13. ControlTypes'
  <2>1. asserted' = FALSE
    BY <1>3, <1>5 DEF PollerInv, ControlTypes
  <2>2. QED
    BY <1>1, <1>11, <1>12, <2>1 DEF PollerInv, ControlTypes, Places
<1>14. RegisteredOpen'
  BY <1>1, <1>9 DEF PollerInv, RegisteredOpen
<1>15. ASSUME NEW k \in DOMAIN active', channel'[active'[k]].revents # {}
       PROVE  poll_list'[channel'[active'[k]].index].revents
                = channel'[active'[k]].revents
  <2>1. CASE active'[k] = d
    BY <1>1, <1>2, <1>3, <1>7, <2>1
  <2>2. CASE active'[k] # d
    <3>1. /\ k \in DOMAIN active /\ active'[k] = active[k]
          /\ active[k] \in Channels \ {d}
      BY <1>12, <1>15, <2>2
    <3>2. QED
      BY <1>1, <1>7, <1>15, <3>1 DEF PollerInv, ListedAgrees
  <2>3. QED
    BY <2>1, <2>2
<1>16. ListedAgrees'
  BY <1>15 DEF ListedAgrees
<1>17. AskedStep
  BY <1>1, <1>7 DEF AskedStep, AskedFor
<1>18. QED
  BY <1>10, <1>13, <1>14, <1>16, <1>17 DEF PollerInv

(* The end of an error or close callback.                                  *)
LEMMA EndKeeps ==
  ASSUME PollerInv, at \in {"InError", "InHup"}, Invalidate(Handled),
         at' \in {"Hup", "Read"}, UNCHANGED <<open, count, j, active, cur, ops>>
  PROVE  PollerInv' /\ AskedStep
<1>1. PICK c \in Channels : c = Handled
  BY DEF PollerInv, ControlTypes, Handled
<1>2. /\ TableInv'
      /\ Registered' = Registered \ {c}
      /\ asserted' = FALSE
      /\ RevsKept
      /\ OthersKept(c) /\ AskedFor(c)' = NULL
      /\ AskedFor(c) # NULL \/ AskedFor(c)' = AskedFor(c)
  BY <1>1, InvalidateKeeps DEF PollerInv, ControlTypes
<1>3. ControlTypes'
  BY <1>2 DEF PollerInv, ControlTypes, Places
<1>4. RegisteredOpen'
  BY <1>1, <1>2 DEF PollerInv, RegisteredOpen, Handled
<1>5. ListedAgrees'
  <2>1. ASSUME NEW k \in DOMAIN active, channel'[active[k]].revents # {}
        PROVE  poll_list'[channel'[active[k]].index].revents
                 = channel'[active[k]].revents
    <3>1. active[k] \in Channels
      BY <2>1 DEF PollerInv, ControlTypes
    <3>2. QED
      BY <1>2, <2>1, <3>1 DEF PollerInv, ListedAgrees, RevsKept
  <2>2. QED
    BY <2>1 DEF ListedAgrees
<1>6. AskedStep
  BY <1>1, <1>2 DEF AskedStep, OthersKept
<1>7. QED
  BY <1>2, <1>3, <1>4, <1>5, <1>6 DEF PollerInv

LEMMA LoopStepKeeps ==
  ASSUME PollerInv, LoopStep
  PROVE  PollerInv' /\ AskedStep
<1>1. CASE PollReturn
  BY <1>1, PollReturnKeeps
<1>2. CASE ScanIdle
  BY <1>2, ScanIdleKeeps
<1>3. CASE ScanReady
  BY <1>3, ScanReadyKeeps
<1>4. CASE BeginHandler
  <2>1. /\ at = "Next" /\ UNCHANGED <<tables, open, count, j, active, ops, cur>>
        /\ at' = IF cur <= Len(active) THEN "Error" ELSE "Run"
    BY <1>4 DEF BeginHandler, Goto
  <2>2. ControlTypes'
    BY <2>1 DEF PollerInv, ControlTypes, Places, tables
  <2>3. QED
    BY <2>1, <2>2, MoveKeeps
<1>5. CASE HandleError \/ HandleHup \/ HandleRead
  <2>1. /\ at \in {"Error", "Hup", "Read"}
        /\ UNCHANGED <<tables, open, count, j, active, ops, cur>>
        /\ at' \in {"InError", "Hup", "InHup", "Read", "InRead", "Write"}
    BY <1>5 DEF HandleError, HandleHup, HandleRead, Goto
  <2>2. ControlTypes'
    BY <2>1 DEF PollerInv, ControlTypes, Places, tables
  <2>3. QED
    BY <2>1, <2>2, MoveKeeps
<1>6. CASE EndReadCallback \/ HandleWrite \/ EndWriteCallback
  <2>1. /\ at \in {"InRead", "Write", "InWrite"}
        /\ UNCHANGED <<tables, open, count, j, active, ops>>
        /\ \/ at' \in {"Write", "InWrite"} /\ cur' = cur
           \/ at' = "Next" /\ cur' = cur + 1
    BY <1>6 DEF EndReadCallback, HandleWrite, EndWriteCallback, Goto
  <2>2. ControlTypes'
    BY <2>1 DEF PollerInv, ControlTypes, Places, tables
  <2>3. QED
    BY <2>1, <2>2, MoveKeeps
<1>7. CASE EndErrorCallback \/ EndCloseCallback
  BY <1>7, EndKeeps DEF EndErrorCallback, EndCloseCallback, Goto
<1>8. QED
  BY <1>1, <1>2, <1>3, <1>4, <1>5, <1>6, <1>7 DEF LoopStep

LEMMA StutterKeeps ==
  ASSUME PollerInv, UNCHANGED vars
  PROVE  PollerInv' /\ AskedStep
<1>1. /\ UNCHANGED <<heap, map, cache, poll_list, channel, asserted, open>>
      /\ UNCHANGED <<at, count, j, active, cur, ops>>
  BY DEF vars, tables, control
<1>2. TableInv'
  BY <1>1
     DEF PollerInv, TableInv, TableTypes, FdsApart, Users, Registered,
         EntriesAgree, HasEntry, NodesAgree, Live, IsNodeOf, ChainsAgree,
         LiveIn, EventsAgree, Unheard, ReadyIsRegistered
<1>3. ControlTypes' /\ RegisteredOpen' /\ ListedAgrees'
  BY <1>1 DEF PollerInv, ControlTypes, RegisteredOpen, ListedAgrees, Registered
<1>4. AskedStep
  BY <1>1 DEF AskedStep, AskedFor
<1>5. QED
  BY <1>2, <1>3, <1>4 DEF PollerInv

LEMMA StepKeeps ==
  ASSUME PollerInv, [Next]_vars
  PROVE  PollerInv' /\ AskedStep
BY UserOpKeeps, LoopStepKeeps, StutterKeeps DEF Next

-----------------------------------------------------------------------------
(* The theorems.                                                           *)

LEMMA Invariance == Spec => []PollerInv
BY PollerInit, StepKeeps, PTL DEF Spec

(* Types, and the cursors stay inside the lists they run over.             *)
THEOREM TypeSafety == Spec => []TypeOK
<1>1. ASSUME PollerInv
      PROVE  TypeOK
  <2>1. asserted \in BOOLEAN
    BY <1>1 DEF PollerInv, ControlTypes
  <2>2. QED
    BY <1>1, <2>1
       DEF PollerInv, TableInv, TableTypes, ControlTypes, TypeOK, Places,
           Buckets, Slots, Caches
<1>2. QED
  BY <1>1, Invariance, PTL

(* Through every swap deletion, each entry of poll_list is the one of      *)
(* exactly one channel, which knows its position.                          *)
THEOREM IndicesAgree == Spec => []IndexAgrees
<1>1. ASSUME PollerInv
      PROVE  IndexAgrees
  <2>1. \A c \in Registered :
          /\ channel[c].index <= Len(poll_list)
          /\ poll_list[channel[c].index].fd = Fd[c]
    BY <1>1, TableFacts DEF PollerInv, TableInv, EntriesAgree, HasEntry
  <2>2. \A k \in DOMAIN poll_list : \E c \in Registered : channel[c].index = k
    BY <1>1 DEF PollerInv, TableInv, EntriesAgree
  <2>3. QED
    BY <1>1, <2>1, <2>2, TableFacts DEF PollerInv, IndexAgrees
<1>2. QED
  BY <1>1, Invariance, PTL

(* The fd_maps in use are the linked ones, one for each registered         *)
(* channel: none leaks and none is freed in its chain.                     *)
THEOREM NodesAreLinked == Spec => []MapAgrees
<1>1. ASSUME PollerInv
      PROVE  MapAgrees
  <2>1. TableInv /\ NodesAgree
    BY <1>1 DEF PollerInv, TableInv
  <2>2. ASSUME NEW n \in Live
        PROVE  \E c \in Registered : heap[n] = [fd |-> Fd[c], ch |-> c]
    BY <2>1 DEF NodesAgree, IsNodeOf
  <2>3. ASSUME NEW c \in Registered
        PROVE  \E n \in Live : /\ heap[n].ch = c
                               /\ \A m \in Live \ {n} : heap[m].ch # c
    <3>1. PICK n \in Live : IsNodeOf(n, c)
      BY <2>1 DEF NodesAgree
    <3>2. heap[n].ch = c
      BY <2>1, <3>1, TableFacts
    <3>3. QED
      BY <2>1, <3>2 DEF NodesAgree
  <2>4. ASSUME NEW b \in DOMAIN map
        PROVE  {map[b][k] : k \in DOMAIN map[b]}
                 = {n \in Live : Bucket(heap[n].fd) = b}
    <3>1. b \in Buckets
      BY <2>1 DEF TableInv, TableTypes
    <3>2. QED
      BY <2>1, <3>1 DEF TableInv, ChainsAgree, Elements, LiveIn
  <2>5. QED
    BY <2>2, <2>3, <2>4 DEF MapAgrees
<1>2. QED
  BY <1>1, Invariance, PTL

(* Whatever stale pointers the cache holds, a registered channel's         *)
(* descriptor leads to that channel.                                       *)
THEOREM LookupFinds == Spec => []LookupRight
<1>1. ASSUME PollerInv
      PROVE  LookupRight
  <2>1. ASSUME NEW c \in Registered
        PROVE  /\ Find(cache, Fd[c]) # NULL
               /\ heap[Find(cache, Fd[c])].ch = c
    <3>1. /\ Find(cache, Fd[c]) \in Live
          /\ IsNodeOf(Find(cache, Fd[c]), c)
      BY <1>1, FindRight DEF PollerInv, TableInv, TableTypes
    <3>2. QED
      BY <1>1, <3>1, TableFacts, PollerAssumption DEF PollerInv, Live
  <2>2. QED
    BY <2>1 DEF LookupRight
<1>2. QED
  BY <1>1, Invariance, PTL

(* So get_channel() never exits the program, and no BUG_ON prints.         *)
THEOREM NoAssertion == Spec => []NeverAsserts
<1>1. ASSUME PollerInv
      PROVE  NeverAsserts
  BY <1>1 DEF PollerInv, ControlTypes, NeverAsserts
<1>2. QED
  BY <1>1, Invariance, PTL

(* poll() is asked for what the owner of a channel asked for, but events   *)
(* that it has no callback for, which may be kept from the poller.         *)
THEOREM PollAskedRight == Spec => []EventsAgree
<1>1. ASSUME PollerInv
      PROVE  EventsAgree
  BY <1>1 DEF PollerInv, TableInv
<1>2. QED
  BY <1>1, Invariance, PTL

(* A channel taken out of the poller is called back no more.               *)
THEOREM RemovedIsSilent == Spec => []ReadyIsRegistered
<1>1. ASSUME PollerInv
      PROVE  ReadyIsRegistered
  BY <1>1 DEF PollerInv, TableInv
<1>2. QED
  BY <1>1, Invariance, PTL

(* The callbacks of a round answer what that round's poll() reported,      *)
(* though callbacks move the entries of poll_list.                         *)
THEOREM HandlesReported == Spec => []HandlesWhatPollReported
<1>1. ASSUME PollerInv
      PROVE  HandlesWhatPollReported
  BY <1>1 DEF PollerInv, ListedAgrees, HandlesWhatPollReported
<1>2. QED
  BY <1>1, Invariance, PTL

(* Each operation changes what is asked for the one channel it is called   *)
(* for: the poller implements PollSet.                                     *)
THEOREM PollerRefinesPollSet == Spec => AskedSpec
<1> DEFINE asked == [c \in Channels |->
                       IF channel[c].index = 0 THEN NULL
                       ELSE poll_list[channel[c].index].events]
<1>1. ASSUME Init
      PROVE  Asked!Init
  <2>1. \A c \in Channels : channel[c].index = 0
    BY <1>1 DEF Init, NoEvents
  <2>2. QED
    BY <2>1 DEF Asked!Init
<1>2. ASSUME PollerInv, [Next]_vars
      PROVE  [Asked!Next]_asked
  <2>1. \A c \in Channels : asked[c] = AskedFor(c) /\ asked'[c] = AskedFor(c)'
    BY DEF AskedFor
  <2>2. CASE \A d \in Channels : AskedFor(d)' = AskedFor(d)
    <3>1. \A d \in Channels : asked'[d] = asked[d]
      BY <2>1, <2>2
    <3>2. asked' = asked
      BY <3>1
    <3>3. QED
      BY <3>2
  <2>3. ASSUME NEW c \in Channels, OthersKept(c),
               \/ AskedFor(c)' \in SUBSET Events
               \/ AskedFor(c) # NULL /\ AskedFor(c)' = NULL
        PROVE  Asked!Next
    <3>0. /\ asked'[c] = AskedFor(c)'
          /\ \A d \in Channels \ {c} : asked'[d] = asked[d]
      BY <2>1, <2>3 DEF OthersKept
    <3>1. asked' = [asked EXCEPT ![c] = AskedFor(c)']
      <4> DEFINE f == asked
                 g == asked'
      <4>1. /\ f = [d \in Channels |-> f[d]]
            /\ g = [d \in Channels |-> g[d]]
        OBVIOUS
      <4>2. /\ g[c] = AskedFor(c)'
            /\ \A d \in Channels \ {c} : g[d] = f[d]
        BY <3>0
      <4> HIDE DEF f, g
      <4>3. g = [f EXCEPT ![c] = AskedFor(c)']
        BY <4>1, <4>2
      <4>4. QED
        BY <4>3 DEF f, g
    <3>2. CASE AskedFor(c)' \in SUBSET Events
      BY <3>1, <3>2 DEF Asked!Next, Asked!Ask
    <3>3. CASE AskedFor(c) # NULL /\ AskedFor(c)' = NULL
      BY <2>1, <3>1, <3>3 DEF Asked!Next, Asked!Drop
    <3>4. QED
      BY <2>3, <3>2, <3>3
  <2>4. QED
    BY <1>2, <2>2, <2>3, StepKeeps DEF AskedStep
<1>3. QED
  BY <1>1, <1>2, Invariance, PTL DEF Spec, AskedSpec, Asked!Spec
=============================================================================
