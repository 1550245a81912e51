-------------------------- MODULE ConnectionProofs --------------------------
(***************************************************************************)
(* Proofs about Connection: types, and that the tables of the kernel, the  *)
(* poller and the connections agree as long as none of the Limits is met.  *)
(***************************************************************************)
EXTENDS Connection, ListLemmas, FiniteSetTheorems, FunctionTheorems

Made == 1 .. accepted

(* The connection that conn_close() is at work on, and whose channel is    *)
(* removed when it is through.                                             *)
Closing ==
  IF then \in {"Invalidate", "Teardown"} THEN {who} \cap closed ELSE {}

Watched == Open \cup Closing

Registered == {c \in Conns : index[c] # 0}

(* Only connections that were made have a descriptor, and are anywhere.    *)
MadeInv ==
  /\ \A c \in Conns :
       IF c \in Made THEN fd[c] \in Fds
       ELSE /\ fd[c] = NONE /\ index[c] = 0
            /\ revents[c] = {} /\ t_buf[c] = "NULL"
  /\ Elements(map) \cup known \cup closed \subseteq Made
  /\ who \in Made \cup {NONE}

(* What follows a callback is set while one runs.                          *)
ThenInv ==
  /\ at \in {"Run", "Handle", "Write", "InConn", "InTimer"} => then = "Loop"
  /\ at \in {"Teardown", "Done"} => then = "Teardown"
  /\ at = "InError" => then \in {"Invalidate", "Write", "Handle"}
  /\ at = "InClose" => then # "Loop"
  /\ at \in {"InError", "InClose"} /\ then # "Teardown" => active # <<>>

TypeInv == TypeOK /\ MadeInv /\ ThenInv

SocketsInv ==
  /\ \A c \in Made : c \in Open <=> file[fd[c]] = c
  /\ \A d \in Fds : file[d] # NONE => file[d] \in Made /\ fd[file[d]] = d
  /\ \A c \in Closing : file[fd[c]] = NONE
  /\ Open \subseteq known
  /\ harm = {}

ControlInv ==
  /\ then \in {"Loop", "Invalidate", "Teardown"}
  /\ at = "InError" => who \in Open
  /\ at = "InClose" => who \in closed \ known /\ t_buf[who] # "freed"
  /\ \A c \in Conns : revents[c] # {} => c \in Watched
  /\ at = "Run" \/ then = "Teardown" => \A c \in Conns : revents[c] = {}

RingInv ==
  \A c \in Conns :
    /\ t_buf[c] = "freed" => c \in closed
    /\ t_buf[c] = "held" /\ c \in closed => c = who /\ at \in {"InClose", "Dead"}

EntriesInv ==
  /\ \A c \in Registered :
       /\ index[c] \in DOMAIN poll_list
       /\ poll_list[index[c]] = [fd |-> fd[c], events |-> events[c]]
  /\ \A c, d \in Registered : index[c] = index[d] => c = d
  /\ \A k \in DOMAIN poll_list : \E c \in Registered : index[c] = k

TablesInv ==
  /\ EntriesInv
  /\ IF then = "Teardown" THEN Open \subseteq Registered
                          ELSE Registered = Watched
  /\ Injective(map)
  /\ Elements(map) = Watched

Agree == SocketsInv /\ ControlInv /\ RingInv /\ TablesInv

AgreeInv == met = {} => Agree

-----------------------------------------------------------------------------
(* Types.                                                                  *)

Entry == [fd : Fds, events : SUBSET Events]

Listed == Conns \cup {LISTENER, TIMER}

LEMMA TypeFacts ==
  ASSUME TypeInv
  PROVE  /\ Conns \subseteq Nat /\ Made \subseteq Conns
         /\ NONE \notin Conns /\ LISTENER \notin Conns /\ TIMER \notin Conns
         /\ NONE \notin Fds
         /\ Open \subseteq Made
         /\ \A c \in Made : fd[c] \in Fds /\ Socket(c) \in Conns \cup {NONE}
         /\ \A c \in Conns \ Made : revents[c] = {} /\ index[c] = 0
<1>1. /\ Conns \subseteq Nat /\ Made \subseteq Conns
  BY ConnectionAssumption DEF Conns, Made, TypeInv, TypeOK
<1>2. /\ NONE \notin Conns /\ LISTENER \notin Conns /\ TIMER \notin Conns
      /\ NONE \notin Fds
  BY <1>1, ConnectionAssumption
<1>3. Open \subseteq Made
  BY DEF Open, Made
<1>4. \A c \in Made : fd[c] \in Fds /\ Socket(c) \in Conns \cup {NONE}
  BY <1>1 DEF TypeInv, MadeInv, TypeOK, Socket
<1>5. \A c \in Conns \ Made : revents[c] = {} /\ index[c] = 0
  BY DEF TypeInv, MadeInv
<1>6. QED
  BY <1>1, <1>2, <1>3, <1>4, <1>5

(* The chains with a node unlinked.                                        *)
LEMMA UnlinkType ==
  ASSUME NEW S, S \subseteq Nat, NEW chain \in Seq(S), NEW c
  PROVE  /\ Unlink(chain, c) \in Seq(S)
         /\ Elements(Unlink(chain, c)) \subseteq Elements(chain)
         /\ c \notin Elements(chain) => Unlink(chain, c) = chain
         /\ Injective(chain) /\ c \in Elements(chain) =>
              /\ Injective(Unlink(chain, c))
              /\ Elements(Unlink(chain, c)) = Elements(chain) \ {c}
<1> DEFINE nodes == {k \in DOMAIN chain : chain[k] = c}
           first == CHOOSE k \in nodes : \A l \in nodes : k <= l
           u == [l \in 1 .. Len(chain) - 1 |->
                   IF l < first THEN chain[l] ELSE chain[l + 1]]
<1>1. CASE nodes = {}
  <2>1. Unlink(chain, c) = chain /\ c \notin Elements(chain)
    BY <1>1 DEF Unlink, Elements
  <2>2. QED
    BY <2>1
<1>2. CASE nodes # {}
  <2>1. Unlink(chain, c) = u
    BY <1>2 DEF Unlink
  <2>2. \E k \in nodes : \A l \in nodes : k <= l
    <3>1. nodes \in SUBSET Nat
      OBVIOUS
    <3> HIDE DEF nodes
    <3>2. QED
      BY <1>2, <3>1, LeastNat
  <2>3. first \in nodes
    BY <2>2
  <2>4. first \in DOMAIN chain /\ chain[first] = c
    BY <2>3
  <2> HIDE DEF first, nodes
  <2>5. DOMAIN chain = 1 .. Len(chain) /\ Len(chain) \in Nat \ {0} /\ first \in Nat
    BY <2>4
  <2>6. u \in Seq(S) /\ Len(u) = Len(chain) - 1
    BY <2>5
  <2>7. DeletedAt(chain, first, u)
    BY <2>6 DEF DeletedAt
  <2>8. Elements(u) \subseteq Elements(chain)
    <3>1. \A l \in DOMAIN u : \E k \in DOMAIN chain : u[l] = chain[k]
      BY <2>5
    <3>2. QED
      BY <3>1 DEF Elements
  <2>9. c \in Elements(chain)
    BY <2>4 DEF Elements
  <2> HIDE DEF u
  <2>10. Injective(chain) => /\ Injective(u)
                             /\ Elements(u) = Elements(chain) \ {c}
    BY <2>4, <2>6, <2>7, DeletionProperties
  <2>11. QED
    BY <2>1, <2>6, <2>8, <2>9, <2>10
<1>3. QED
  BY <1>1, <1>2

LEMMA SwapDeleteType ==
  ASSUME NEW S, NEW s \in Seq(S), NEW k \in DOMAIN s
  PROVE  /\ SwapDelete(s, k) \in Seq(S)
         /\ Len(SwapDelete(s, k)) = Len(s) - 1
         /\ \A l \in 1 .. Len(s) - 1 :
              SwapDelete(s, k)[l] = IF l = k THEN s[Len(s)] ELSE s[l]
  BY DEF SwapDelete

(* What get_channel() returns is in the chains and has the descriptor.     *)
LEMMA FindType ==
  ASSUME NEW S, S \subseteq Nat, NEW chain \in Seq(S), NEW d, NONE \notin S
  PROVE  /\ Find(chain, d) \in Elements(chain) \cup {NONE}
         /\ Find(chain, d) # NONE => fd[Find(chain, d)] = d
         /\ (\E c \in Elements(chain) : fd[c] = d) => Find(chain, d) # NONE
<1> DEFINE hits == {k \in DOMAIN chain : fd[chain[k]] = d}
           first == CHOOSE k \in hits : \A l \in hits : k <= l
<1>1. CASE hits = {}
  <2>1. Find(chain, d) = NONE
    BY <1>1 DEF Find
  <2>2. ~ \E c \in Elements(chain) : fd[c] = d
    BY <1>1 DEF Elements
  <2>3. QED
    BY <2>1, <2>2
<1>2. CASE hits # {}
  <2>1. Find(chain, d) = chain[first]
    BY <1>2 DEF Find
  <2>2. \E k \in hits : \A l \in hits : k <= l
    <3>1. hits \in SUBSET Nat
      OBVIOUS
    <3> HIDE DEF hits
    <3>2. QED
      BY <1>2, <3>1, LeastNat
  <2>3. first \in hits
    BY <2>2
  <2>4. first \in DOMAIN chain /\ fd[chain[first]] = d
    BY <2>3
  <2> HIDE DEF first, hits
  <2>5. chain[first] \in Elements(chain) /\ chain[first] \in S
    BY <2>4 DEF Elements
  <2>6. QED
    BY <2>1, <2>4, <2>5
<1>3. QED
  BY <1>1, <1>2

(* What the operations on the tables leave.                                *)
TableTypes ==
  /\ events \in [Conns -> SUBSET Events]
  /\ revents \in [Conns -> SUBSET Conditions]
  /\ index \in [Conns -> Nat]
  /\ poll_list \in Seq(Entry)
  /\ map \in Seq(Conns)

LEMMA TablesTyped ==
  ASSUME TypeInv
  PROVE  TableTypes
  BY DEF TypeInv, TypeOK, TableTypes, Entry

LEMMA UpdateType ==
  ASSUME TableTypes, NEW c \in Conns, NEW d \in Fds, NEW e \in SUBSET Events,
         NEW next, UpdateChannel(c, d, e, next), UNCHANGED revents,
         NONE \notin Conns
  PROVE  /\ TableTypes'
         /\ \A x \in Conns \ {c} : index'[x] = index[x]
         /\ Elements(map') \subseteq Elements(map) \cup {c}
         /\ at' \in {next, "Dead"}
<1> DEFINE x == [fd |-> d, events |-> e]
           len == Len(poll_list)
<1>1. x \in Entry /\ len \in Nat
  BY DEF Entry, TableTypes
<1>2. events' \in [Conns -> SUBSET Events] /\ revents' \in [Conns -> SUBSET Conditions]
  BY DEF UpdateChannel, TableTypes
<1>3. at' \in {next, "Dead"}
  BY DEF UpdateChannel
<1>4. CASE index[c] = 0
  <2>1. /\ map' = <<c>> \o map
        /\ poll_list' = Append(poll_list, x)
        /\ index' = [index EXCEPT ![c] = len + 1]
    BY <1>4 DEF UpdateChannel
  <2>2. map' \in Seq(Conns) /\ InsertedAt(map, 1, c, map') /\ map \in Seq(Conns)
    BY <2>1, PushedIsInserted DEF TableTypes
  <2>3. Elements(map') \subseteq Elements(map) \cup {c}
    <3>1. \A l \in DOMAIN map' : l # 1 => l - 1 \in DOMAIN map /\ map'[l] = map[l - 1]
      BY <2>2 DEF InsertedAt
    <3>2. 1 \in DOMAIN map' /\ map'[1] = c
      BY <2>2 DEF InsertedAt
    <3>3. QED
      BY <3>1, <3>2 DEF Elements
  <2>4. poll_list' \in Seq(Entry)
    BY <1>1, <2>1 DEF TableTypes
  <2>5. index' \in [Conns -> Nat] /\ \A y \in Conns \ {c} : index'[y] = index[y]
    BY <1>1, <2>1 DEF TableTypes
  <2>6. QED
    BY <1>2, <1>3, <2>2, <2>3, <2>4, <2>5 DEF TableTypes
<1>5. CASE index[c] # 0
  <2>1. /\ poll_list' = IF Outside(c) THEN poll_list
                        ELSE [poll_list EXCEPT ![index[c]].events = e]
        /\ UNCHANGED <<map, index>>
    BY <1>5 DEF UpdateChannel
  <2>2. poll_list' \in Seq(Entry)
    <3>1. CASE Outside(c)
      BY <2>1, <3>1 DEF TableTypes
    <3>2. CASE ~Outside(c)
      <4>1. index[c] \in DOMAIN poll_list
        BY <1>5, <3>2 DEF TableTypes, Outside
      <4>2. poll_list[index[c]] \in Entry
        BY <4>1 DEF TableTypes
      <4>3. [poll_list[index[c]] EXCEPT !.events = e] \in Entry
        BY <4>2 DEF Entry
      <4>4. poll_list' = [poll_list EXCEPT ![index[c]] =
                            [poll_list[index[c]] EXCEPT !.events = e]]
        BY <2>1, <3>2
      <4>5. QED
        BY <4>1, <4>3, <4>4 DEF TableTypes
    <3>3. QED
      BY <3>1, <3>2
  <2>3. QED
    BY <1>2, <1>3, <2>1, <2>2 DEF TableTypes
<1>6. QED
  BY <1>4, <1>5

LEMMA InvalidateType ==
  ASSUME TableTypes, NEW c \in Conns, NEW next, Invalidate(c, next),
         Conns \subseteq Nat, NONE \notin Conns
  PROVE  /\ TableTypes'
         /\ \A x \in Conns : revents'[x] # {} => revents[x] # {}
         /\ \A x \in Conns : index'[x] # 0 => index[x] # 0 \/ x \in Elements(map)
         /\ Elements(map') \subseteq Elements(map)
         /\ at' \in {next, "Dead"}
<1>1. CASE Astray(c)
  BY <1>1 DEF Invalidate, TableTypes, poller
<1>2. CASE ~Astray(c)
  <2>1. /\ RemoveChannel(c)
        /\ events' = [events EXCEPT ![c] = {}]
        /\ revents' = [revents EXCEPT ![c] = {}]
        /\ at' = next
    BY <1>2 DEF Invalidate
  <2>2. CASE index[c] = 0
    BY <2>1, <2>2 DEF RemoveChannel, TableTypes
  <2>3. CASE index[c] # 0
    <3> DEFINE last == Find(map, LastFd)
    <3>1. index[c] \in DOMAIN poll_list
      BY <1>2, <2>3 DEF Astray, Outside, TableTypes
    <3>2. poll_list' = SwapDelete(poll_list, index[c]) /\ poll_list' \in Seq(Entry)
      BY <2>1, <2>3, <3>1, SwapDeleteType DEF RemoveChannel, TableTypes
    <3>3. map' = Unlink(map, Find(map, fd[c])) /\ map \in Seq(Conns)
      BY <2>1, <2>3 DEF RemoveChannel, TableTypes
    <3>4. map' \in Seq(Conns) /\ Elements(map') \subseteq Elements(map)
      BY <3>3, UnlinkType
    <3>5. last \in Elements(map) \cup {NONE} /\ Elements(map) \subseteq Conns
      <4>1. last \in Elements(map) \cup {NONE}
        BY <3>3, FindType
      <4>2. Elements(map) \subseteq Conns
        BY <3>3 DEF Elements
      <4>3. QED
        BY <4>1, <4>2
    <3>6. LastFd # fd[c] => last \in Conns /\ last \in Elements(map)
      BY <1>2, <2>3, <3>5 DEF Astray
    <3>7. /\ index' \in [Conns -> Nat]
          /\ \A x \in Conns : index'[x] # 0 => index[x] # 0 \/ x \in Elements(map)
      <4> HIDE DEF last
      <4>1. index \in [Conns -> Nat] /\ index[c] \in Nat
        BY DEF TableTypes
      <4>2. CASE LastFd = fd[c]
        <5>1. index' = [index EXCEPT ![c] = 0]
          BY <2>1, <2>3, <4>2 DEF RemoveChannel
        <5>2. QED
          BY <4>1, <5>1
      <4>3. CASE LastFd # fd[c]
        <5>1. index' = [index EXCEPT ![last] = index[c], ![c] = 0]
          BY <2>1, <2>3, <4>3 DEF RemoveChannel, last
        <5>2. last \in Conns /\ last \in Elements(map)
          BY <3>6, <4>3
        <5>3. QED
          BY <4>1, <5>1, <5>2
      <4>4. QED
        BY <4>2, <4>3
    <3>8. QED
      BY <2>1, <3>2, <3>4, <3>7 DEF TableTypes
  <2>4. QED
    BY <2>2, <2>3
<1>3. QED
  BY <1>1, <1>2

KernelTypes ==
  /\ file \in [Fds -> Conns \cup {NONE}]
  /\ input \in [Conns -> 0 .. MaxInput]
  /\ peer \in [Conns -> {"up", "fin", "rst", "gone"}]

LEMMA CloseType ==
  ASSUME TypeInv, NEW c \in Made, Close(c)
  PROVE  /\ KernelTypes'
         /\ closed' = closed \cup {c} /\ closed' \subseteq Made
<1>1. KernelTypes /\ fd[c] \in Fds /\ closed \subseteq Made
  <2>1. KernelTypes
    BY DEF TypeInv, TypeOK, KernelTypes
  <2>2. fd[c] \in Fds
    BY TypeFacts
  <2>3. closed \subseteq Made
    BY DEF TypeInv, MadeInv
  <2>4. QED
    BY <2>1, <2>2, <2>3
<1>2. Socket(c) \in Conns \cup {NONE}
  BY TypeFacts
<1>3. file' \in [Fds -> Conns \cup {NONE}] /\ closed' = closed \cup {c}
  BY <1>1 DEF Close, KernelTypes
<1>4. 0 \in 0 .. MaxInput
  BY ConnectionAssumption
<1>5. CASE Socket(c) = NONE
  BY <1>1, <1>3, <1>5 DEF Close, KernelTypes
<1>6. CASE Socket(c) # NONE
  <2>1. /\ input' = [input EXCEPT ![Socket(c)] = 0]
        /\ peer' = [peer EXCEPT ![Socket(c)] = "gone"]
    BY <1>6 DEF Close
  <2>2. QED
    BY <1>1, <1>2, <1>3, <1>4, <1>6, <2>1 DEF KernelTypes
<1>7. QED
  BY <1>5, <1>6

LEMMA DestroyType ==
  ASSUME TypeInv, NEW c \in Conns, Destroy(c)
  PROVE  /\ t_buf' \in [Conns -> {"NULL", "held", "freed"}]
         /\ \A x \in Conns \ {c} : t_buf'[x] = t_buf[x]
         /\ t_buf[c] = "NULL" => t_buf'[c] = "NULL"
         /\ t_buf'[c] # "held"
  BY DEF Destroy, TypeInv, TypeOK

LEMMA HarmTypes ==
  ASSUME NEW c
  PROVE  /\ Misses(c) \subseteq Harms
         /\ Frees(c) \subseteq Harms
         /\ Uses(c) \subseteq Harms
  BY DEF Misses, Frees, Uses, Harms

(* The type invariant by the parts of the state that an action may change. *)
TablePart ==
  /\ TableTypes
  /\ fd \in [Conns -> Fds \cup {NONE}] /\ accepted \in 0 .. MaxConns
  /\ t_buf \in [Conns -> {"NULL", "held", "freed"}]
  /\ MadeInv
  /\ closed \subseteq Conns /\ known \subseteq Conns
  /\ who \in Conns \cup {NONE}

ControlPart ==
  /\ at \in {"Run", "Handle", "Write", "InConn", "InError", "InClose",
             "InTimer", "Teardown", "Done", "Dead"}
  /\ then \in {"Loop", "Invalidate", "Write", "Handle", "Teardown"}
  /\ at # "Dead" => (who # NONE <=> at \in {"InConn", "InError", "InClose"})
  /\ at \in {"Write", "InConn", "InTimer"} => active # <<>>
  /\ active \in Seq(Listed)
  /\ ThenInv

HistoryPart ==
  /\ ops \in 0 .. MaxOps
  /\ harm \subseteq Harms
  /\ met \subseteq Limits

LEMMA TypeParts ==
  TypeInv <=> KernelTypes /\ TablePart /\ ControlPart /\ HistoryPart
<1>1. TypeInv => KernelTypes /\ TablePart /\ ControlPart /\ HistoryPart
  BY DEF TypeInv, TypeOK, KernelTypes, TablePart, TableTypes, Entry,
         ControlPart, HistoryPart, Listed
<1>2. KernelTypes /\ TablePart /\ ControlPart /\ HistoryPart => TypeInv
  BY DEF TypeInv, TypeOK, KernelTypes, TablePart, TableTypes, Entry,
         ControlPart, HistoryPart, Listed
<1>3. QED
  BY <1>1, <1>2


LEMMA TypePartsNext ==
  ASSUME KernelTypes', TablePart', ControlPart', HistoryPart'
  PROVE  TypeInv'
  BY DEF TypeInv, TypeOK, KernelTypes, TablePart, TableTypes, Entry,
         ControlPart, HistoryPart, Listed

(* The type invariant holds at first.                                      *)
LEMMA TypeInit ==
  ASSUME Init
  PROVE  TypeInv
<1>1. KernelTypes
  BY ConnectionAssumption DEF Init, KernelTypes
<1>2. TablePart
  <2>1. Elements(map) = {} /\ map \in Seq(Conns) /\ poll_list \in Seq(Entry)
    BY DEF Init, Elements
  <2>2. MadeInv
    BY <2>1, ConnectionAssumption DEF Init, MadeInv, Made, Conns
  <2>3. QED
    BY <2>1, <2>2, ConnectionAssumption DEF Init, TablePart, TableTypes
<1>3. ControlPart
  BY DEF Init, ControlPart, ThenInv
<1>4. HistoryPart
  BY ConnectionAssumption DEF Init, HistoryPart
<1>5. QED
  BY <1>1, <1>2, <1>3, <1>4, TypeParts

(* What the peers do.                                                      *)
LEMMA PeerTypes ==
  ASSUME TypeInv, PeerStep
  PROVE  TypeInv'
<1>1. PICK c \in Conns : PeerSends(c) \/ PeerEnds(c) \/ PeerResets(c)
  BY DEF PeerStep
<1>2. KernelTypes
  BY TypeParts
<1>3. KernelTypes'
  BY <1>1, <1>2, ConnectionAssumption
     DEF PeerSends, PeerEnds, PeerResets, KernelTypes
<1>4. TablePart'
  <2>1. TablePart
    BY TypeParts
  <2>2. QED
    BY <2>1 DEF PeerStep, TablePart, TableTypes, MadeInv, Made, channels, poller,
                callback, history, Elements
<1>5. ControlPart' /\ HistoryPart'
  BY TypeParts DEF PeerStep, ControlPart, HistoryPart, ThenInv, callback, history
<1>6. QED
  BY <1>3, <1>4, <1>5, TypePartsNext


LEMMA ControlStays ==
  ASSUME TypeInv, at' \in {at, "Dead"}, UNCHANGED <<who, then, active>>
  PROVE  ControlPart'
  BY TypeParts DEF ControlPart, ThenInv

LEMMA TablesMove ==
  ASSUME TypeInv, TableTypes', UNCHANGED <<accepted, fd>>,
         t_buf' \in [Conns -> {"NULL", "held", "freed"}],
         Elements(map') \subseteq Made, known' \subseteq Made,
         closed' \subseteq Made, who' \in Made \cup {NONE},
         \A x \in Conns \ Made :
           index'[x] = 0 /\ revents'[x] = {} /\ t_buf'[x] = "NULL"
  PROVE  TablePart'
<1>1. TablePart /\ Made \subseteq Conns
  BY TypeParts, TypeFacts
<1>2. Made' = Made
  BY DEF Made
<1>3. \A x \in Conns : IF x \in Made THEN fd[x] \in Fds ELSE fd[x] = NONE
  BY DEF TypeInv, MadeInv
<1>4. MadeInv'
  BY <1>2, <1>3 DEF MadeInv
<1>5. QED
  BY <1>1, <1>4 DEF TablePart

(* The parts of MadeInv.                                                   *)
LEMMA MadeFacts ==
  ASSUME TypeInv
  PROVE  /\ Elements(map) \subseteq Made /\ known \subseteq Made
         /\ closed \subseteq Made /\ who \in Made \cup {NONE}
         /\ \A x \in Conns \ Made :
              /\ fd[x] = NONE /\ index[x] = 0 /\ revents[x] = {}
              /\ t_buf[x] = "NULL"
         /\ t_buf \in [Conns -> {"NULL", "held", "freed"}]
         /\ TableTypes
  BY TablesTyped DEF TypeInv, TypeOK, MadeInv

LEMMA UserClosesType ==
  ASSUME TypeInv, NEW c \in Conns, UserCloses(c)
  PROVE  TypeInv'
<1>1. /\ c \in Made /\ ops < MaxOps /\ ops' = ops + 1 /\ c \in Conns
      /\ UNCHANGED <<accepted, fd, active, who, then>>
  BY MadeFacts DEF UserCloses, MayCall, callback
<1>2. /\ TableTypes'
      /\ \A x \in Conns : revents'[x] # {} => revents[x] # {}
      /\ \A x \in Conns : index'[x] # 0 => index[x] # 0 \/ x \in Elements(map)
      /\ Elements(map') \subseteq Elements(map)
      /\ at' \in {at, "Dead"}
  BY <1>1, InvalidateType, TablesTyped, TypeFacts DEF UserCloses, ConnectionClose
<1>3. KernelTypes' /\ closed' \subseteq Made
  BY <1>1, CloseType DEF UserCloses, ConnectionClose
<1>4. /\ t_buf' \in [Conns -> {"NULL", "held", "freed"}]
      /\ \A x \in Conns \ {c} : t_buf'[x] = t_buf[x]
  BY <1>1, DestroyType DEF UserCloses, ConnectionClose
<1>5. TablePart'
  <2>1. known' \subseteq Made /\ who' \in Made \cup {NONE}
    BY <1>1, MadeFacts DEF UserCloses
  <2>2. \A x \in Conns \ Made :
          index'[x] = 0 /\ revents'[x] = {} /\ t_buf'[x] = "NULL"
    BY <1>1, <1>2, <1>4, MadeFacts
  <2>3. Elements(map') \subseteq Made
    BY <1>2, MadeFacts
  <2>4. QED
    BY <1>1, <1>2, <1>3, <1>4, <2>1, <2>2, <2>3, TablesMove
<1>6. ControlPart'
  BY <1>1, <1>2, ControlStays
<1>7. HistoryPart'
  <2>1. harm' \subseteq Harms
    BY HarmTypes DEF UserCloses, ConnectionClose, TypeInv, TypeOK
  <2>2. met' \subseteq Limits
    BY DEF UserCloses, Limits, TypeInv, TypeOK
  <2>3. ops' \in 0 .. MaxOps
    BY <1>1, ConnectionAssumption DEF TypeInv, TypeOK
  <2>4. QED
    BY <2>1, <2>2, <2>3 DEF HistoryPart
<1>8. QED
  BY <1>3, <1>5, <1>6, <1>7, TypePartsNext


(* A call of the user that does not close.                                 *)
LEMMA CallType ==
  ASSUME TypeInv, NEW c \in Conns, MayCall(c), MeetCall(c), KernelTypes',
         TableTypes', UNCHANGED <<revents, known, closed>>,
         \A x \in Conns \ {c} : index'[x] = index[x] /\ t_buf'[x] = t_buf[x],
         t_buf' \in [Conns -> {"NULL", "held", "freed"}],
         Elements(map') \subseteq Elements(map) \cup {c},
         at' \in {at, "Dead"}, harm' \subseteq Harms
  PROVE  TypeInv'
<1>1. /\ c \in Made /\ ops < MaxOps /\ ops' = ops + 1
      /\ UNCHANGED <<accepted, fd, active, who, then>>
  BY MadeFacts DEF MayCall, callback
<1>2. TablePart'
  <2>1. known' \subseteq Made /\ who' \in Made \cup {NONE} /\ closed' \subseteq Made
    BY <1>1, MadeFacts
  <2>2. \A x \in Conns \ Made :
          index'[x] = 0 /\ revents'[x] = {} /\ t_buf'[x] = "NULL"
    BY <1>1, MadeFacts
  <2>3. Elements(map') \subseteq Made
    BY <1>1, MadeFacts
  <2>4. QED
    BY <1>1, <2>1, <2>2, <2>3, TablesMove
<1>3. ControlPart'
  BY <1>1, ControlStays
<1>4. HistoryPart'
  <2>1. met' \subseteq Limits
    BY DEF MeetCall, Meet, Limits, TypeInv, TypeOK
  <2>2. ops' \in 0 .. MaxOps
    BY <1>1, ConnectionAssumption DEF TypeInv, TypeOK
  <2>3. QED
    BY <2>1, <2>2 DEF HistoryPart
<1>5. QED
  BY <1>2, <1>3, <1>4, TypePartsNext

LEMMA UserCallType ==
  ASSUME TypeInv, NEW c \in Conns,
         \/ UserWrites(c) \/ UserWriteFails(c) \/ UserWriteKills(c)
         \/ UserPauses(c) \/ UserResumes(c)
  PROVE  TypeInv'
<1>1. /\ c \in Made /\ fd[c] \in Fds /\ NONE \notin Conns
      /\ Socket(c) \in Conns \cup {NONE} /\ events[c] \subseteq Events
  BY MadeFacts, TypeFacts
     DEF UserWrites, UserWriteFails, UserWriteKills, UserPauses, UserResumes,
         MayCall, TableTypes
<1>2. KernelTypes /\ TableTypes
      /\ t_buf \in [Conns -> {"NULL", "held", "freed"}] /\ harm \subseteq Harms
  BY TypeParts, MadeFacts DEF HistoryPart
<1>3. CASE UserWrites(c)
  <2>1. KernelTypes'
    BY <1>2, <1>3 DEF UserWrites, kernel, KernelTypes
  <2>2. /\ TableTypes'
        /\ \A x \in Conns \ {c} : index'[x] = index[x]
        /\ Elements(map') \subseteq Elements(map) \cup {c}
        /\ at' \in {at, "Dead"}
    <3>1. events[c] \cup {"OUT"} \in SUBSET Events
      BY <1>1 DEF Events
    <3>2. QED
      BY <1>1, <1>2, <1>3, <3>1, UpdateType DEF UserWrites
  <2>3. /\ t_buf' \in [Conns -> {"NULL", "held", "freed"}]
        /\ \A x \in Conns \ {c} : t_buf'[x] = t_buf[x]
    BY <1>2, <1>3 DEF UserWrites
  <2>4. harm' \subseteq Harms
    BY <1>2, <1>3, HarmTypes DEF UserWrites
  <2>5. MayCall(c) /\ MeetCall(c) /\ UNCHANGED <<revents, known, closed>>
    BY <1>3 DEF UserWrites
  <2>6. QED
    BY <2>1, <2>2, <2>3, <2>4, <2>5, CallType
<1>4. CASE UserWriteFails(c)
  <2>1. KernelTypes'
    BY <1>1, <1>2, <1>4 DEF UserWriteFails, KernelTypes
  <2>2. TableTypes' /\ Elements(map') = Elements(map)
    BY <1>2, <1>4 DEF UserWriteFails, TableTypes, poller
  <2>3. harm' \subseteq Harms
    BY <1>2, <1>4, HarmTypes DEF UserWriteFails
  <2>4. /\ MayCall(c) /\ MeetCall(c)
        /\ UNCHANGED <<revents, known, closed, index, t_buf, at>>
    BY <1>4 DEF UserWriteFails
  <2>5. QED
    BY <1>2, <2>1, <2>2, <2>3, <2>4, CallType
<1>5. CASE UserWriteKills(c)
  <2>1. KernelTypes'
    BY <1>2, <1>5 DEF UserWriteKills, kernel, KernelTypes
  <2>2. TableTypes' /\ Elements(map') = Elements(map)
    BY <1>2, <1>5 DEF UserWriteKills, TableTypes, poller
  <2>3. /\ MayCall(c) /\ MeetCall(c) /\ at' = "Dead"
        /\ UNCHANGED <<revents, known, closed, index, t_buf, harm>>
    BY <1>5 DEF UserWriteKills
  <2>4. QED
    BY <1>2, <2>1, <2>2, <2>3, CallType
<1>6. CASE UserPauses(c) \/ UserResumes(c)
  <2>1. KernelTypes'
    BY <1>2, <1>6 DEF UserPauses, UserResumes, kernel, KernelTypes
  <2>2. PICK e \in SUBSET Events : UpdateChannel(c, fd[c], e, at)
    BY <1>1, <1>6 DEF UserPauses, UserResumes, Events
  <2>3. /\ MayCall(c) /\ MeetCall(c)
        /\ UNCHANGED <<revents, known, closed, t_buf, harm>>
    BY <1>6 DEF UserPauses, UserResumes
  <2>4. /\ TableTypes'
        /\ \A x \in Conns \ {c} : index'[x] = index[x]
        /\ Elements(map') \subseteq Elements(map) \cup {c}
        /\ at' \in {at, "Dead"}
    BY <1>1, <1>2, <2>2, <2>3, UpdateType
  <2>5. QED
    BY <1>2, <2>1, <2>3, <2>4, CallType
<1>7. QED
  BY <1>3, <1>4, <1>5, <1>6


-----------------------------------------------------------------------------
(* poll() and the round over what it found.                                *)

LEMMA InOrderType ==
  ASSUME NEW n \in Nat, NEW places \in SUBSET (1 .. n), NEW s \in InOrder(places)
  PROVE  s \in Seq(places)
<1>1. IsFiniteSet(places)
  <2>1. IsFiniteSet(1 .. n)
    BY FS_Interval
  <2>2. QED
    BY <2>1, FS_Subset
<1>2. Cardinality(places) \in Nat
  BY <1>1, FS_CardinalityType
<1>3. QED
  BY <1>2 DEF InOrder

LEMMA RepeatedType ==
  ASSUME NEW S, NEW s \in Seq(S)
  PROVE  Repeated(s) \in Seq(S)
<1> DEFINE n == Len(s)
<1>1. n \in Nat /\ \A k \in 1 .. n : s[k] \in S
  OBVIOUS
<1>2. n * n \in Nat
  BY <1>1
<1>3. ASSUME NEW k \in 1 .. n * n
      PROVE  ((k - 1) % n) + 1 \in 1 .. n
  <2> HIDE DEF n
  <2>1. n # 0
    BY <1>1
  <2>2. n \in Nat /\ n > 0 /\ k - 1 \in Nat
    BY <1>1, <1>2, <2>1
  <2>3. (k - 1) % n \in 0 .. n - 1
    BY <2>2
  <2>4. QED
    BY <2>2, <2>3
<1>4. Repeated(s) = [k \in 1 .. n * n |-> s[((k - 1) % n) + 1]]
  BY DEF Repeated
<1>5. \A k \in 1 .. n * n : s[((k - 1) % n) + 1] \in S
  BY <1>1, <1>3
<1> HIDE DEF n
<1>6. QED
  BY <1>2, <1>4, <1>5

LEMMA ReportType ==
  ASSUME NEW entry, NEW writable
  PROVE  Report(entry, writable) \in SUBSET Conditions
  BY DEF Report, Conditions, Events

(* What poller_poll() leaves.                                              *)
LEMMA PollType ==
  ASSUME TypeInv, PollReturn
  PROVE  /\ revents' \in [Conns -> SUBSET Conditions]
         /\ active' \in Seq(Listed)
         /\ at' \in {"Handle", "Dead"}
         /\ \A c \in Conns :
              revents'[c] # {} => revents[c] # {} \/ c \in Elements(map)
         /\ at' = "Dead" =>
              \E k \in DOMAIN poll_list : Find(map, poll_list[k].fd) = NONE
<1>1. /\ map \in Seq(Conns) /\ poll_list \in Seq(Entry)
      /\ Conns \subseteq Nat /\ NONE \notin Conns
      /\ revents \in [Conns -> SUBSET Conditions] /\ active \in Seq(Listed)
  BY TypeFacts, TypeParts DEF TablePart, TableTypes, ControlPart
<1>2. PICK others \in {<<>>, <<TIMER>>, <<LISTENER>>, <<TIMER, LISTENER>>},
           writable \in BOOLEAN :
        LET r == [k \in DOMAIN poll_list |-> Report(poll_list[k], writable)]
        IN  \E ready \in InOrder({k \in DOMAIN poll_list : r[k] # {}}) :
              LET found == [k \in DOMAIN ready |->
                              Find(map, poll_list[ready[k]].fd)]
                  listed == others \o found
              IN  /\ listed # <<>>
                  /\ IF \E k \in DOMAIN found : found[k] = NONE
                     THEN at' = "Dead" /\ UNCHANGED <<revents, active>>
                     ELSE /\ active' = Repeated(listed)
                          /\ revents' = [c \in Conns |->
                               IF \E k \in DOMAIN found : found[k] = c
                               THEN r[ready[CHOOSE k \in DOMAIN found :
                                              found[k] = c]]
                               ELSE revents[c]]
                          /\ at' = "Handle"
  BY Zenon DEF PollReturn
<1> DEFINE r == [k \in DOMAIN poll_list |-> Report(poll_list[k], writable)]
           places == {k \in DOMAIN poll_list : r[k] # {}}
<1>10. PICK ready \in InOrder(places) :
         LET found == [k \in DOMAIN ready |-> Find(map, poll_list[ready[k]].fd)]
         IN  IF \E k \in DOMAIN found : found[k] = NONE
             THEN at' = "Dead" /\ UNCHANGED <<revents, active>>
             ELSE /\ active' = Repeated(others \o found)
                  /\ revents' = [c \in Conns |->
                       IF \E k \in DOMAIN found : found[k] = c
                       THEN r[ready[CHOOSE k \in DOMAIN found : found[k] = c]]
                       ELSE revents[c]]
                  /\ at' = "Handle"
  BY <1>2
<1> DEFINE found == [k \in DOMAIN ready |-> Find(map, poll_list[ready[k]].fd)]
<1>3. \A k \in DOMAIN poll_list : r[k] \in SUBSET Conditions
  BY ReportType
<1>4. ready \in Seq(places) /\ places \subseteq DOMAIN poll_list
  <2>1. DOMAIN poll_list = 1 .. Len(poll_list) /\ Len(poll_list) \in Nat
    BY <1>1
  <2>2. places \in SUBSET (1 .. Len(poll_list)) /\ ready \in InOrder(places)
    BY <2>1
  <2> HIDE DEF places
  <2>3. QED
    BY <2>1, <2>2, InOrderType
<1>5. \A k \in DOMAIN ready : ready[k] \in DOMAIN poll_list
  BY <1>4
<1>6. \A k \in DOMAIN found : found[k] \in Elements(map) \cup {NONE}
  BY <1>1, FindType
<1>7. CASE \E k \in DOMAIN found : found[k] = NONE
  BY <1>1, <1>10, <1>5, <1>7
<1>8. CASE ~ \E k \in DOMAIN found : found[k] = NONE
  <2>1. /\ active' = Repeated(others \o found) /\ at' = "Handle"
        /\ revents' = [c \in Conns |->
             IF \E k \in DOMAIN found : found[k] = c
             THEN r[ready[CHOOSE k \in DOMAIN found : found[k] = c]]
             ELSE revents[c]]
    BY <1>10, <1>8
  <2>2. found \in Seq(Conns) /\ \A k \in DOMAIN found : found[k] \in Elements(map)
    <3>1. \A k \in DOMAIN found : found[k] \in Elements(map)
      BY <1>6, <1>8
    <3>2. Elements(map) \subseteq Conns
      BY <1>1 DEF Elements
    <3>3. DOMAIN found = 1 .. Len(ready) /\ Len(ready) \in Nat
      BY <1>4
    <3>4. QED
      BY <3>1, <3>2, <3>3
  <2>3. active' \in Seq(Listed)
    <3> HIDE DEF found
    <3>1. others \in Seq(Listed)
      <4>1. TIMER \in Listed /\ LISTENER \in Listed
        BY DEF Listed
      <4>2. /\ <<>> \in Seq(Listed) /\ <<TIMER>> \in Seq(Listed)
            /\ <<LISTENER>> \in Seq(Listed) /\ <<TIMER, LISTENER>> \in Seq(Listed)
        BY <4>1
      <4>3. QED
        BY <4>2
    <3>3. found \in Seq(Listed)
      BY <2>2 DEF Listed
    <3>2. others \o found \in Seq(Listed)
      BY <3>1, <3>3
    <3>4. QED
      BY <2>1, <3>2, RepeatedType
  <2>4. ASSUME NEW c \in Conns
        PROVE  /\ revents'[c] \in SUBSET Conditions
               /\ revents'[c] # {} => revents[c] # {} \/ c \in Elements(map)
    <3>1. CASE \E k \in DOMAIN found : found[k] = c
      <4> DEFINE k == CHOOSE l \in DOMAIN found : found[l] = c
      <4>1. k \in DOMAIN ready /\ found[k] = c
        BY <3>1
      <4>2. revents'[c] = r[ready[k]]
        BY <2>1, <3>1
      <4>3. QED
        BY <1>3, <1>5, <2>2, <4>1, <4>2
    <3>2. CASE ~ \E k \in DOMAIN found : found[k] = c
      BY <1>1, <2>1, <3>2
    <3>3. QED
      BY <3>1, <3>2
  <2>5. revents' \in [Conns -> SUBSET Conditions]
    BY <2>1, <2>4
  <2>6. QED
    BY <2>1, <2>3, <2>4, <2>5
<1>9. QED
  BY <1>7, <1>8


(* The tables are left alone.                                              *)
LEMMA TablesStay ==
  ASSUME TypeInv, UNCHANGED <<channels, t_buf, poller, closed>>,
         known' \subseteq Made, who' \in Made \cup {NONE}
  PROVE  TablePart'
<1>1. UNCHANGED <<accepted, fd, events, revents, index, t_buf, poll_list, map,
                  closed>>
  BY DEF channels, poller
<1>2. TableTypes'
  BY <1>1, MadeFacts DEF TableTypes
<1>3. Elements(map') \subseteq Made /\ closed' \subseteq Made
  BY <1>1, MadeFacts
<1>4. \A x \in Conns \ Made :
        index'[x] = 0 /\ revents'[x] = {} /\ t_buf'[x] = "NULL"
  BY <1>1, MadeFacts
<1>5. t_buf' \in [Conns -> {"NULL", "held", "freed"}]
  BY <1>1, MadeFacts
<1>6. QED
  BY <1>1, <1>2, <1>3, <1>4, <1>5, TablesMove

LEMMA KernelStays ==
  ASSUME TypeInv, UNCHANGED kernel
  PROVE  KernelTypes'
  BY TypeParts DEF KernelTypes, kernel

LEMMA HistoryStays ==
  ASSUME TypeInv, UNCHANGED ops, harm' \subseteq Harms, met' \subseteq Limits
  PROVE  HistoryPart'
  BY TypeParts DEF HistoryPart

LEMMA HistoryFacts ==
  ASSUME TypeInv
  PROVE  harm \subseteq Harms /\ met \subseteq Limits
  BY DEF TypeInv, TypeOK

LEMMA ActiveFacts ==
  ASSUME TypeInv
  PROVE  /\ active \in Seq(Listed)
         /\ active # <<>> => /\ Tail(active) \in Seq(Listed)
                             /\ Head(active) \in Listed
  BY TypeParts DEF ControlPart

(* Of what the owner does with the list of active channels.                *)
LEMMA RoundType ==
  ASSUME TypeInv, \/ PollReturn \/ EndRound \/ EndAccept \/ AcceptFails
                  \/ BeginTimers \/ EndTimers
  PROVE  TypeInv'
<1>1. UNCHANGED kernel /\ UNCHANGED ops /\ UNCHANGED <<harm, met>>
  BY DEF PollReturn, EndRound, EndAccept, AcceptFails, BeginTimers, EndTimers,
         history
<1>2. KernelTypes' /\ HistoryPart'
  BY <1>1, KernelStays, HistoryStays, HistoryFacts
<1>3. CASE PollReturn
  <2>1. UNCHANGED <<accepted, fd, events, index, t_buf, poll_list, map, closed,
                    known, who, then>>
    BY <1>3, ZenonT(40) DEF PollReturn, poller, callback, history
  <2>2. /\ revents' \in [Conns -> SUBSET Conditions]
        /\ active' \in Seq(Listed)
        /\ at' \in {"Handle", "Dead"} /\ at = "Run"
        /\ \A c \in Conns :
             revents'[c] # {} => revents[c] # {} \/ c \in Elements(map)
    BY <1>3, PollType, ZenonT(20) DEF PollReturn
  <2>3. TablePart'
    <3>1. TableTypes'
      BY <2>1, <2>2, MadeFacts DEF TableTypes
    <3>2. \A x \in Conns \ Made :
            index'[x] = 0 /\ revents'[x] = {} /\ t_buf'[x] = "NULL"
      BY <2>1, <2>2, MadeFacts
    <3>3. QED
      BY <2>1, <3>1, <3>2, MadeFacts, TablesMove
  <2>4. ControlPart'
    BY <2>1, <2>2, TypeParts, SMTT(30) DEF ControlPart, ThenInv
  <2>5. QED
    BY <1>2, <2>3, <2>4, TypePartsNext
<1>4. CASE EndRound
  <2>1. UNCHANGED <<accepted, fd, events, index, t_buf, poll_list, map, closed,
                    known, who, then, active>>
    BY <1>4 DEF EndRound, poller, callback, history
  <2>2. /\ revents' = [c \in Conns |-> {}]
        /\ at = "Handle" /\ at' = "Run"
    BY <1>4 DEF EndRound
  <2>3. TablePart'
    <3>1. TableTypes'
      BY <2>1, <2>2, MadeFacts DEF TableTypes
    <3>2. \A x \in Conns \ Made :
            index'[x] = 0 /\ revents'[x] = {} /\ t_buf'[x] = "NULL"
      BY <2>1, <2>2, MadeFacts
    <3>3. QED
      BY <2>1, <3>1, <3>2, MadeFacts, TablesMove
  <2>4. ControlPart'
    BY <2>1, <2>2, TypeParts DEF ControlPart, ThenInv
  <2>5. QED
    BY <1>2, <2>3, <2>4, TypePartsNext
<1>5. CASE EndAccept \/ AcceptFails \/ BeginTimers \/ EndTimers
  <2>1. /\ UNCHANGED <<channels, t_buf, poller, closed, known, then>>
        /\ who' \in {who, NONE}
    BY <1>5 DEF EndAccept, AcceptFails, BeginTimers, EndTimers, callback, history
  <2>2. TablePart'
    BY <2>1, MadeFacts, TablesStay
  <2>3. /\ at = "InConn" => active # <<>> /\ then = "Loop"
        /\ at = "InTimer" => active # <<>> /\ then = "Loop"
        /\ at = "Handle" => then = "Loop" /\ who = NONE
        /\ at = "InTimer" => who = NONE
        /\ then \in {"Loop", "Invalidate", "Write", "Handle", "Teardown"}
    BY TypeParts DEF ControlPart, ThenInv
  <2>4. CASE EndAccept \/ AcceptFails \/ EndTimers
    <3>1. /\ active' = Tail(active) /\ at' = "Handle" /\ active # <<>>
          /\ then' = "Loop" /\ who' = NONE
      BY <2>1, <2>3, <2>4
         DEF EndAccept, AcceptFails, EndTimers, NextChannel, Handles, callback
    <3>2. active' \in Seq(Listed)
      BY <3>1, ActiveFacts
    <3>3. QED
      BY <1>2, <2>2, <3>1, <3>2, TypePartsNext DEF ControlPart, ThenInv
  <2>5. CASE BeginTimers
    <3>1. /\ active' = active /\ at' = "InTimer" /\ active # <<>>
          /\ then' = "Loop" /\ who' = NONE
      BY <2>1, <2>3, <2>5 DEF BeginTimers, Handles, callback
    <3>2. ControlPart'
      BY <3>1, ActiveFacts DEF ControlPart, ThenInv
    <3>3. QED
      BY <1>2, <2>2, <3>2, TypePartsNext
  <2>6. QED
    BY <1>5, <2>4, <2>5
<1>6. QED
  BY <1>3, <1>4, <1>5


(* The descriptor that accept4() returns.                                  *)
LowestFree ==
  LET free == {d \in Fds : file[d] = NONE}
  IN  CHOOSE d \in free : \A e \in free : d <= e

LEMMA AcceptFacts ==
  ASSUME TypeInv, Accept
  PROVE  /\ at = "Handle" /\ active # <<>>
         /\ accepted + 1 \in Conns
         /\ LowestFree \in Fds /\ file[LowestFree] = NONE
         /\ accepted' = accepted + 1
         /\ file' = [file EXCEPT ![LowestFree] = accepted + 1]
         /\ fd' = [fd EXCEPT ![accepted + 1] = LowestFree]
         /\ UpdateChannel(accepted + 1, LowestFree, {"IN"}, "InConn")
         /\ who' = accepted + 1
         /\ known' = known \cup {accepted + 1}
         /\ UNCHANGED <<input, peer, revents, t_buf, active, then, ops, closed,
                        harm, met>>
<1> DEFINE free == {d \in Fds : file[d] = NONE}
<1>1. LowestFree = CHOOSE d \in free : \A e \in free : d <= e
  BY DEF LowestFree
<1>2. free # {} /\ free \in SUBSET Nat
  BY ConnectionAssumption DEF Accept
<1>3. LowestFree \in free
  <2> HIDE DEF free
  <2>1. \E d \in free : \A e \in free : d <= e
    BY <1>2, LeastNat
  <2>2. QED
    BY <1>1, <2>1
<1>4. QED
  BY <1>3 DEF Accept, LowestFree, Handles, history

LEMMA AcceptType ==
  ASSUME TypeInv, Accept
  PROVE  TypeInv'
<1> DEFINE c == accepted + 1
           d == LowestFree
<1>1. /\ at = "Handle" /\ active # <<>>
      /\ c \in Conns /\ d \in Fds
      /\ accepted' = c
      /\ file' = [file EXCEPT ![d] = c]
      /\ fd' = [fd EXCEPT ![c] = d]
      /\ UpdateChannel(c, d, {"IN"}, "InConn")
      /\ who' = c
      /\ known' = known \cup {c}
      /\ UNCHANGED <<input, peer, revents, t_buf, active, then, ops, closed,
                     harm, met>>
  BY AcceptFacts
<1>2. Made' = Made \cup {c} /\ c \notin Made /\ accepted \in 0 .. MaxConns
  BY <1>1, ConnectionAssumption DEF Made, TypeInv, TypeOK
<1> HIDE DEF c, d
<1>3. KernelTypes'
  BY <1>1, TypeParts DEF KernelTypes
<1>4. /\ TableTypes'
      /\ \A x \in Conns \ {c} : index'[x] = index[x]
      /\ Elements(map') \subseteq Elements(map) \cup {c}
      /\ at' \in {"InConn", "Dead"}
  BY <1>1, MadeFacts, TypeFacts, UpdateType DEF Events
<1>5. TablePart'
  <2>1. fd' \in [Conns -> Fds \cup {NONE}]
    BY <1>1 DEF TypeInv, TypeOK
  <2>2. ASSUME NEW x \in Conns
        PROVE  IF x \in Made' THEN fd'[x] \in Fds
               ELSE /\ fd'[x] = NONE /\ index'[x] = 0
                    /\ revents'[x] = {} /\ t_buf'[x] = "NULL"
    <3>1. CASE x = c
      BY <1>1, <1>2, <3>1 DEF TypeInv, TypeOK
    <3>2. CASE x # c
      <4>1. fd'[x] = fd[x] /\ index'[x] = index[x] /\ (x \in Made' <=> x \in Made)
        BY <1>1, <1>2, <1>4, <3>2 DEF TypeInv, TypeOK
      <4>2. QED
        BY <1>1, <4>1, MadeFacts, TypeFacts
    <3>3. QED
      BY <3>1, <3>2
  <2>3. Elements(map') \cup known' \cup closed' \subseteq Made'
    BY <1>1, <1>2, <1>4, MadeFacts
  <2>4. MadeInv'
    BY <1>1, <1>2, <2>2, <2>3 DEF MadeInv
  <2>5. accepted' \in 0 .. MaxConns /\ closed' \subseteq Conns /\ known' \subseteq Conns
    BY <1>1, <1>2, MadeFacts, TypeFacts DEF Conns
  <2>6. QED
    BY <1>1, <1>4, <2>1, <2>4, <2>5, MadeFacts DEF TablePart
<1>6. ControlPart'
  <2>1. c # NONE
    BY <1>1, TypeFacts
  <2>2. QED
    BY <1>1, <1>4, <2>1, ActiveFacts, TypeParts DEF ControlPart, ThenInv
<1>7. HistoryPart'
  BY <1>1, HistoryStays, HistoryFacts
<1>8. QED
  BY <1>3, <1>5, <1>6, <1>7, TypePartsNext


-----------------------------------------------------------------------------
(* Closing.                                                                *)

LEMMA TeardownFacts ==
  ASSUME TypeInv, TeardownNode
  PROVE  /\ at = "Teardown"
         /\ UNCHANGED <<channels, t_buf, poller, active, ops, met>>
         /\ \E c \in Elements(map) : ConnClose(c, "Teardown")
<1> DEFINE Bucket(k) == fd[map[k]] % FD_MAP_NR_HASH
           Before(k, l) == Bucket(k) < Bucket(l) \/ (Bucket(k) = Bucket(l) /\ k <= l)
           first == CHOOSE k \in DOMAIN map : \A l \in DOMAIN map : Before(k, l)
           places == DOMAIN map
<1>1. /\ at = "Teardown" /\ map # <<>> /\ ConnClose(map[first], "Teardown")
      /\ UNCHANGED <<channels, t_buf, poller, active, ops, met>>
  BY DEF TeardownNode
<1>2. map \in Seq(Conns) /\ \A k \in places : map[k] \in Made
  BY MadeFacts DEF TableTypes, Elements
<1>3. places # {} /\ places \in SUBSET Nat
  BY <1>1, <1>2
<1>4. \A k \in places : Bucket(k) \in Nat
  <2>1. \A k \in places : fd[map[k]] \in Nat
    BY <1>2, TypeFacts, ConnectionAssumption
  <2>2. QED
    BY <2>1 DEF FD_MAP_NR_HASH
<1> HIDE DEF Bucket, places
<1>5. PICK a \in places : \A l \in places : Bucket(a) <= Bucket(l)
  <2> DEFINE buckets == {Bucket(k) : k \in places}
  <2>1. buckets # {} /\ buckets \in SUBSET Nat
    BY <1>3, <1>4
  <2> HIDE DEF buckets
  <2>2. PICK b \in buckets : \A e \in buckets : b <= e
    BY <2>1, LeastNat
  <2>3. QED
    BY <2>2 DEF buckets
<1>6. PICK k \in {l \in places : Bucket(l) = Bucket(a)} :
        \A l \in {m \in places : Bucket(m) = Bucket(a)} : k <= l
  <2> DEFINE nodes == {l \in places : Bucket(l) = Bucket(a)}
  <2>1. nodes # {} /\ nodes \in SUBSET Nat
    BY <1>3
  <2> HIDE DEF nodes
  <2>2. \E l \in nodes : \A m \in nodes : l <= m
    BY <2>1, LeastNat
  <2>3. QED
    BY <2>2 DEF nodes
<1>7. \A l \in places : Before(k, l)
  <2> SUFFICES ASSUME NEW l \in places
               PROVE  Before(k, l)
    OBVIOUS
  <2>1. CASE Bucket(l) = Bucket(a)
    BY <1>6, <2>1
  <2>2. CASE Bucket(l) # Bucket(a)
    BY <1>4, <1>5, <1>6, <2>2
  <2>3. QED
    BY <2>1, <2>2
<1>8. first \in places
  <2> HIDE DEF Before
  <2>1. k \in places
    BY <1>6
  <2>2. QED
    BY <1>7, <2>1 DEF places
<1>9. map[first] \in Elements(map)
  BY <1>8 DEF Elements, places
<1> HIDE DEF first
<1>10. QED
  BY <1>1, <1>9

(* conn_close() of any connection.                                         *)
LEMMA ConnCloseType ==
  ASSUME TypeInv, NEW c \in Made, NEW next, ConnClose(c, next),
         UNCHANGED <<channels, t_buf, poller, active, ops, met>>,
         next \in {"Invalidate", "Write", "Handle", "Teardown"},
         next # "Teardown" => active # <<>>
  PROVE  TypeInv'
<1>1. /\ Close(c) /\ at' = "InClose" /\ who' = c /\ then' = next
      /\ known' = known \ {c} /\ harm' = harm \cup Misses(c)
  BY DEF ConnClose
<1>2. /\ KernelTypes' /\ closed' \subseteq Made /\ c # NONE /\ Made' = Made
  BY <1>1, CloseType, TypeFacts DEF channels, Made
<1>3. TablePart'
  <2>1. known' \subseteq Made /\ who' \in Made \cup {NONE}
    BY <1>1, MadeFacts
  <2>2. UNCHANGED <<accepted, fd, events, revents, index, t_buf, poll_list, map>>
    BY DEF channels, poller
  <2>3. /\ TableTypes' /\ Elements(map') \subseteq Made
        /\ t_buf' \in [Conns -> {"NULL", "held", "freed"}]
    BY <2>2, MadeFacts DEF TableTypes
  <2>4. \A x \in Conns \ Made :
          index'[x] = 0 /\ revents'[x] = {} /\ t_buf'[x] = "NULL"
    BY <2>2, MadeFacts
  <2>5. QED
    BY <1>2, <2>1, <2>2, <2>3, <2>4, TablesMove
<1>4. ControlPart'
  BY <1>1, <1>2, ActiveFacts DEF ControlPart, ThenInv
<1>5. HistoryPart'
  BY <1>1, HarmTypes, HistoryStays, HistoryFacts
<1>6. QED
  BY <1>2, <1>3, <1>4, <1>5, TypePartsNext

(* conn_error().                                                           *)
LEMMA ConnErrorType ==
  ASSUME TypeInv, NEW c \in Made, NEW next, ConnError(c, next), KernelTypes',
         UNCHANGED <<channels, t_buf, poller, active, known, ops, closed>>,
         harm' \subseteq Harms, met' \subseteq Limits,
         next \in {"Invalidate", "Write", "Handle"}, active # <<>>
  PROVE  TypeInv'
<1>1. /\ at' = "InError" /\ who' = c /\ then' = next /\ c # NONE
  BY TypeFacts DEF ConnError
<1>2. TablePart'
  BY <1>1, MadeFacts, TablesStay
<1>3. ControlPart'
  BY <1>1, ActiveFacts DEF ControlPart, ThenInv
<1>4. HistoryPart'
  BY HistoryStays
<1>5. QED
  BY <1>2, <1>3, <1>4, TypePartsNext


LEMMA CallbackFacts ==
  ASSUME TypeInv
  PROVE  /\ at \in {"InError", "InClose"} => who \in Made
         /\ at = "InError" =>
              then \in {"Invalidate", "Write", "Handle"} /\ active # <<>>
         /\ at = "InClose" =>
              /\ then \in {"Invalidate", "Write", "Handle", "Teardown"}
              /\ then # "Teardown" => active # <<>>
  BY MadeFacts, TypeFacts, TypeParts DEF ControlPart, ThenInv

LEMMA CallbackEndsType ==
  ASSUME TypeInv,
         \/ EndErrorCallback \/ EndCloseCallback \/ EndTeardownCallback
         \/ TeardownNode \/ EndTeardown \/ LoopReturns
  PROVE  TypeInv'
<1>1. CASE EndErrorCallback
  <2>1. /\ ConnClose(who, then) /\ at = "InError"
        /\ UNCHANGED <<channels, t_buf, poller, active, ops, met>>
    BY <1>1 DEF EndErrorCallback
  <2>2. who \in Made /\ then \in {"Invalidate", "Write", "Handle"} /\ active # <<>>
    BY <2>1, CallbackFacts
  <2>3. QED
    BY <2>1, <2>2, ConnCloseType
<1>2. CASE TeardownNode
  <2>1. PICK c \in Elements(map) : ConnClose(c, "Teardown")
    BY <1>2, TeardownFacts
  <2>2. c \in Made /\ UNCHANGED <<channels, t_buf, poller, active, ops, met>>
    BY <1>2, TeardownFacts, MadeFacts
  <2>3. QED
    BY <2>1, <2>2, ConnCloseType
<1>3. CASE EndCloseCallback
  <2>1. /\ at = "InClose" /\ then \in {"Invalidate", "Write", "Handle"}
        /\ Destroy(who) /\ harm' = harm \cup Frees(who)
        /\ who' = NONE /\ then' = "Loop"
        /\ UNCHANGED <<kernel, accepted, fd, known, ops, closed, met>>
    BY <1>3 DEF EndCloseCallback
  <2>2. /\ who \in Made /\ active # <<>> /\ who \in Conns
        /\ Tail(active) \in Seq(Listed) /\ active \in Seq(Listed)
    BY <2>1, CallbackFacts, ActiveFacts, TypeFacts
  <2>3. /\ TableTypes'
        /\ \A x \in Conns : revents'[x] # {} => revents[x] # {}
        /\ \A x \in Conns : index'[x] # 0 => index[x] # 0 \/ x \in Elements(map)
        /\ Elements(map') \subseteq Elements(map)
        /\ \/ at' = "Write" /\ active' = active
           \/ at' \in {"Handle", "Dead"} /\ active' = Tail(active)
    <3>1. CASE then = "Write"
      <4>1. /\ at' = "Write"
            /\ UNCHANGED <<poll_list, map, events, revents, index, active>>
        BY <1>3, <3>1 DEF EndCloseCallback, poller
      <4>2. QED
        BY <4>1, MadeFacts DEF TableTypes
    <3>2. CASE then = "Invalidate"
      <4>1. Invalidate(who, "Handle") /\ active' = Tail(active)
        BY <1>3, <3>2 DEF EndCloseCallback
      <4>2. QED
        BY <2>2, <4>1, MadeFacts, TypeFacts, InvalidateType
    <3>3. CASE then = "Handle"
      <4>1. /\ at' = "Handle" /\ active' = Tail(active)
            /\ UNCHANGED <<poll_list, map, events, revents, index>>
        BY <1>3, <3>3 DEF EndCloseCallback, poller
      <4>2. QED
        BY <4>1, MadeFacts DEF TableTypes
    <3>4. QED
      BY <2>1, <3>1, <3>2, <3>3
  <2>4. /\ t_buf' \in [Conns -> {"NULL", "held", "freed"}]
        /\ \A x \in Conns \ {who} : t_buf'[x] = t_buf[x]
    BY <2>1, <2>2, DestroyType
  <2>5. TablePart'
    <3>1. known' \subseteq Made /\ who' \in Made \cup {NONE} /\ closed' \subseteq Made
      BY <2>1, MadeFacts
    <3>2. \A x \in Conns \ Made :
            index'[x] = 0 /\ revents'[x] = {} /\ t_buf'[x] = "NULL"
      BY <2>2, <2>3, <2>4, MadeFacts
    <3>3. Elements(map') \subseteq Made
      BY <2>3, MadeFacts
    <3>4. QED
      BY <2>1, <2>3, <2>4, <3>1, <3>2, <3>3, TablesMove
  <2>6. ControlPart'
    BY <2>1, <2>2, <2>3 DEF ControlPart, ThenInv
  <2>7. KernelTypes' /\ HistoryPart'
    BY <2>1, KernelStays, HarmTypes, HistoryStays, HistoryFacts
  <2>8. QED
    BY <2>5, <2>6, <2>7, TypePartsNext
<1>4. CASE EndTeardownCallback
  <2>1. /\ at = "InClose" /\ then = "Teardown"
        /\ Destroy(who) /\ harm' = harm \cup Frees(who)
        /\ map' = Unlink(map, who)
        /\ who' = NONE /\ at' = "Teardown" /\ then' = "Teardown"
        /\ UNCHANGED <<kernel, accepted, fd, events, revents, index, poll_list,
                       active, known, ops, closed, met>>
    BY <1>4 DEF EndTeardownCallback, channels
  <2>2. who \in Made /\ who \in Conns /\ active \in Seq(Listed)
    BY <2>1, CallbackFacts, ActiveFacts, TypeFacts
  <2>3. map' \in Seq(Conns) /\ Elements(map') \subseteq Elements(map)
    <3>1. map \in Seq(Conns) /\ Conns \subseteq Nat
      BY MadeFacts, TypeFacts DEF TableTypes
    <3>2. QED
      BY <2>1, <3>1, UnlinkType
  <2>4. TableTypes'
    BY <2>1, <2>3, MadeFacts DEF TableTypes
  <2>5. /\ t_buf' \in [Conns -> {"NULL", "held", "freed"}]
        /\ \A x \in Conns \ {who} : t_buf'[x] = t_buf[x]
    BY <2>1, <2>2, DestroyType
  <2>6. TablePart'
    <3>1. \A x \in Conns \ Made :
            index'[x] = 0 /\ revents'[x] = {} /\ t_buf'[x] = "NULL"
      BY <2>1, <2>2, <2>5, MadeFacts
    <3>2. QED
      BY <2>1, <2>3, <2>4, <2>5, <3>1, MadeFacts, TablesMove
  <2>7. ControlPart'
    BY <2>1, <2>2 DEF ControlPart, ThenInv
  <2>8. KernelTypes' /\ HistoryPart'
    BY <2>1, KernelStays, HarmTypes, HistoryStays, HistoryFacts
  <2>9. QED
    BY <2>6, <2>7, <2>8, TypePartsNext
<1>5. CASE EndTeardown \/ LoopReturns
  <2>1. /\ UNCHANGED <<kernel, channels, t_buf, poller, active, who, known, ops,
                       closed, harm, met>>
        /\ at \in {"Teardown", "Run"} /\ at' \in {"Teardown", "Done"}
        /\ at = "Run" => then' = "Teardown"
        /\ at = "Teardown" => then' = then
    BY <1>5 DEF EndTeardown, LoopReturns, callback, history
  <2>2. KernelTypes' /\ HistoryPart' /\ TablePart'
    BY <2>1, KernelStays, HistoryStays, HistoryFacts, TablesStay, MadeFacts
  <2>3. ControlPart'
    BY <2>1, ActiveFacts, TypeParts DEF ControlPart, ThenInv
  <2>4. QED
    BY <2>2, <2>3, TypePartsNext
<1>6. QED
  BY <1>1, <1>2, <1>3, <1>4, <1>5


(* A step of channel_handler() on a connection's channel: its conditions   *)
(* were reported, so it was made; none runs while a callback does.         *)
LEMMA HandlerFacts ==
  ASSUME TypeInv, NEW c \in Conns, HandleConn(c)
  PROVE  /\ active # <<>> /\ at \in {"Handle", "Write"}
         /\ then = "Loop" /\ who = NONE
         /\ Tail(active) \in Seq(Listed) /\ active \in Seq(Listed)
         /\ revents[c] # {} => c \in Made
<1>1. active # <<>> /\ at \in {"Handle", "Write"}
  BY DEF HandleConn, HandleError, HandleHup, ReadInput, ReadEnd, ReadFails,
         SkipWrite, WriteAll, WriteSome, WriteFails, WriteKills, Handled, Reads,
         Writes, PastRead
<1>2. then = "Loop" /\ who = NONE
  BY <1>1, TypeParts DEF ControlPart, ThenInv
<1>3. revents[c] # {} => c \in Made
  BY MadeFacts
<1>4. QED
  BY <1>1, <1>2, <1>3, ActiveFacts

(* The step of a handler that goes on, or is done.                         *)
LEMMA HandlerGoesOn ==
  ASSUME TypeInv, NEW c \in Conns, HandleConn(c), KernelTypes', TableTypes',
         UNCHANGED <<accepted, fd, revents, t_buf, callback, known, ops, closed,
                     met>>,
         \A x \in Conns \ Made : index'[x] = 0,
         Elements(map') \subseteq Made, harm' \subseteq Harms,
         \/ at' \in {"Write", "Dead"} /\ active' = active
         \/ at' \in {"Handle", "Dead"} /\ active' = Tail(active)
  PROVE  TypeInv'
<1>1. then' = "Loop" /\ who' = NONE
  BY HandlerFacts DEF callback
<1>2. TablePart'
  <2>1. \A x \in Conns \ Made :
          index'[x] = 0 /\ revents'[x] = {} /\ t_buf'[x] = "NULL"
    BY MadeFacts
  <2>2. QED
    BY <1>1, <2>1, MadeFacts, TablesMove
<1>3. ControlPart'
  BY <1>1, HandlerFacts DEF ControlPart, ThenInv
<1>4. HistoryPart'
  BY HistoryStays, HistoryFacts
<1>5. QED
  BY <1>2, <1>3, <1>4, TypePartsNext

LEMMA HandlerType ==
  ASSUME TypeInv, NEW c \in Conns, HandleConn(c)
  PROVE  TypeInv'
<1>1. /\ active # <<>> /\ at \in {"Handle", "Write"}
      /\ revents[c] # {} => c \in Made
  BY HandlerFacts
<1>2. /\ KernelTypes /\ TableTypes /\ harm \subseteq Harms /\ met \subseteq Limits
      /\ Elements(map) \subseteq Made /\ \A x \in Conns \ Made : index[x] = 0
  BY TypeParts, MadeFacts, HistoryFacts
<1>3. c \in Made => Socket(c) \in Conns \cup {NONE} /\ fd[c] \in Fds
  BY TypeFacts
<1>4. CASE HandleError(c)
  <2>1. /\ ConnError(c, "Invalidate")
        /\ UNCHANGED <<kernel, channels, t_buf, poller, active, known, ops,
                       closed, harm, met>>
        /\ revents[c] # {}
    BY <1>4 DEF HandleError, history, Failed
  <2>2. KernelTypes'
    BY <2>1, KernelStays
  <2>3. QED
    BY <1>1, <1>2, <2>1, <2>2, ConnErrorType
<1>5. CASE HandleHup(c)
  <2>1. /\ ConnClose(c, "Invalidate")
        /\ UNCHANGED <<channels, t_buf, poller, active, ops, met>>
        /\ revents[c] # {}
    BY <1>5 DEF HandleHup, HungUp
  <2>2. QED
    BY <1>1, <2>1, ConnCloseType
<1>6. CASE ReadInput(c)
  <2>1. /\ Socket(c) # NONE /\ input[Socket(c)] > 0
        /\ input' = [input EXCEPT ![Socket(c)] = @ - 1]
        /\ harm' = harm \cup Misses(c) /\ at' = "Write"
        /\ UNCHANGED <<file, peer, events, revents, index, t_buf, poll_list, map,
                       callback, closed, met, accepted, fd, active, known, ops>>
        /\ revents[c] # {}
    BY <1>6 DEF ReadInput, Reads, poller
  <2>2. KernelTypes'
    BY <1>1, <1>2, <1>3, <2>1, ConnectionAssumption DEF KernelTypes
  <2>3. TableTypes' /\ Elements(map') = Elements(map)
    BY <1>2, <2>1 DEF TableTypes
  <2>4. harm' \subseteq Harms
    BY <1>2, <2>1, HarmTypes
  <2>5. QED
    BY <1>2, <2>1, <2>2, <2>3, <2>4, HandlerGoesOn
<1>7. CASE ReadEnd(c)
  <2>1. /\ Invalidate(c, "Write") /\ Close(c) /\ Destroy(c)
        /\ harm' = harm \cup Misses(c) \cup Frees(c)
        /\ UNCHANGED <<accepted, fd, active, known, ops, who, then, met>>
        /\ revents[c] # {}
    BY <1>7 DEF ReadEnd, Reads, ConnectionClose, callback
  <2>2. c \in Made
    BY <1>1, <2>1
  <2>3. /\ TableTypes'
        /\ \A x \in Conns : revents'[x] # {} => revents[x] # {}
        /\ \A x \in Conns : index'[x] # 0 => index[x] # 0 \/ x \in Elements(map)
        /\ Elements(map') \subseteq Elements(map)
        /\ at' \in {"Write", "Dead"}
    BY <1>2, <2>1, TypeFacts, InvalidateType
  <2>4. KernelTypes' /\ closed' \subseteq Made
    BY <2>1, <2>2, CloseType
  <2>5. /\ t_buf' \in [Conns -> {"NULL", "held", "freed"}]
        /\ \A x \in Conns \ {c} : t_buf'[x] = t_buf[x]
    BY <2>1, DestroyType
  <2>6. TablePart'
    <3>1. \A x \in Conns \ Made :
            index'[x] = 0 /\ revents'[x] = {} /\ t_buf'[x] = "NULL"
      BY <2>2, <2>3, <2>5, MadeFacts
    <3>2. QED
      BY <2>1, <2>3, <2>4, <2>5, <3>1, MadeFacts, TablesMove
  <2>7. ControlPart'
    BY <2>1, <2>3, HandlerFacts DEF ControlPart, ThenInv
  <2>8. harm' \subseteq Harms /\ met' \subseteq Limits /\ UNCHANGED ops
    BY <1>2, <2>1, HarmTypes
  <2>9. QED
    BY <2>4, <2>6, <2>7, <2>8, HistoryStays, TypePartsNext
<1>8. CASE ReadFails(c)
  <2>1. /\ ConnError(c, "Write") /\ harm' = harm \cup Misses(c)
        /\ met' = met \cup {"failed"}
        /\ UNCHANGED <<file, input, channels, t_buf, poller, active, known, ops,
                       closed>>
        /\ revents[c] # {}
        /\ \/ UNCHANGED peer
           \/ /\ Socket(c) # NONE
              /\ peer' = [peer EXCEPT ![Socket(c)] = IF @ = "rst" THEN "gone" ELSE @]
    BY <1>8 DEF ReadFails, Reads, channels
  <2>2. KernelTypes'
    BY <1>1, <1>2, <1>3, <2>1 DEF KernelTypes
  <2>3. harm' \subseteq Harms /\ met' \subseteq Limits
    BY <1>2, <2>1, HarmTypes DEF Limits
  <2>4. QED
    BY <1>1, <2>1, <2>2, <2>3, ConnErrorType
<1>9. CASE SkipWrite(c) \/ WriteSome(c) \/ WriteKills(c)
  <2>1. /\ UNCHANGED <<file, input, peer, accepted, fd, events, revents, index,
                       t_buf, poll_list, map, callback, known, ops, closed, met>>
        /\ \/ at' \in {"Write", "Dead"} /\ active' = active
           \/ at' \in {"Handle", "Dead"} /\ active' = Tail(active)
    BY <1>9 DEF SkipWrite, WriteSome, WriteKills, Writes, NextChannel, kernel,
                channels, poller, history
  <2>2. harm' \subseteq Harms
    BY <1>2, <1>9, HarmTypes DEF SkipWrite, WriteSome, WriteKills, history
  <2>3. KernelTypes'
    BY <1>2, <2>1 DEF KernelTypes
  <2>4. TableTypes' /\ Elements(map') = Elements(map)
    BY <1>2, <2>1 DEF TableTypes
  <2>5. QED
    BY <1>2, <2>1, <2>2, <2>3, <2>4, HandlerGoesOn
<1>10. CASE WriteAll(c)
  <2>1. /\ UNCHANGED <<file, input, peer, accepted, fd, revents, t_buf, callback,
                       known, ops, closed, met>>
        /\ active' = Tail(active) /\ revents[c] # {}
        /\ harm' = harm \cup Misses(c) \cup Uses(c)
    BY <1>10 DEF WriteAll, Writes
  <2>2. c \in Made /\ NONE \notin Conns
    BY <1>1, <2>1, TypeFacts
  <2>3. /\ TableTypes'
        /\ \A x \in Conns \ {c} : index'[x] = index[x]
        /\ Elements(map') \subseteq Elements(map) \cup {c}
        /\ at' \in {"Handle", "Dead"}
    <3>1. CASE "OUT" \in events[c]
      <4>1. UpdateChannel(c, fd[c], events[c] \ {"OUT"}, "Handle")
        BY <1>10, <3>1 DEF WriteAll
      <4>2. events[c] \ {"OUT"} \in SUBSET Events
        BY <1>2 DEF TableTypes
      <4>3. QED
        BY <1>2, <1>3, <2>1, <2>2, <4>1, <4>2, UpdateType
    <3>2. CASE "OUT" \notin events[c]
      <4>1. at' = "Handle" /\ UNCHANGED <<events, index, poll_list, map>>
        BY <1>10, <3>2 DEF WriteAll, poller
      <4>2. QED
        BY <1>2, <2>1, <4>1 DEF TableTypes
    <3>3. QED
      BY <3>1, <3>2
  <2>4. KernelTypes'
    BY <1>2, <2>1 DEF KernelTypes
  <2>5. harm' \subseteq Harms
    BY <1>2, <2>1, HarmTypes
  <2>6. \A x \in Conns \ Made : index'[x] = 0
    BY <1>2, <2>2, <2>3
  <2>7. QED
    BY <1>2, <2>1, <2>2, <2>3, <2>4, <2>5, <2>6, HandlerGoesOn
<1>11. CASE WriteFails(c)
  <2>1. /\ ConnError(c, "Handle") /\ harm' = harm \cup Misses(c) \cup Uses(c)
        /\ met' = met \cup {"failed"}
        /\ UNCHANGED <<file, input, channels, t_buf, poller, active, known, ops,
                       closed>>
        /\ revents[c] # {}
        /\ peer' = IF Socket(c) = NONE THEN peer
                   ELSE [peer EXCEPT ![Socket(c)] = "gone"]
    BY <1>11 DEF WriteFails, Writes, channels
  <2>2. KernelTypes'
    BY <1>1, <1>2, <1>3, <2>1 DEF KernelTypes
  <2>3. harm' \subseteq Harms /\ met' \subseteq Limits
    BY <1>2, <2>1, HarmTypes DEF Limits
  <2>4. QED
    BY <1>1, <2>1, <2>2, <2>3, ConnErrorType
<1>12. QED
  BY <1>4, <1>5, <1>6, <1>7, <1>8, <1>9, <1>10, <1>11 DEF HandleConn

LEMMA TypeStep ==
  ASSUME TypeInv, [Next]_vars
  PROVE  TypeInv'
<1>1. CASE UserCall
  BY <1>1, UserClosesType, UserCallType DEF UserCall
<1>2. CASE PeerStep
  BY <1>2, PeerTypes
<1>3. CASE LoopReturns
  BY <1>3, CallbackEndsType
<1>4. CASE OwnerStep
  <2>1. CASE \E c \in Conns : HandleConn(c)
    BY <2>1, HandlerType
  <2>2. CASE Accept
    BY <2>2, AcceptType
  <2>3. CASE \/ PollReturn \/ EndRound \/ EndAccept \/ AcceptFails
             \/ BeginTimers \/ EndTimers
    BY <2>3, RoundType
  <2>4. CASE \/ EndErrorCallback \/ EndCloseCallback \/ EndTeardownCallback
             \/ TeardownNode \/ EndTeardown
    BY <2>4, CallbackEndsType
  <2>5. QED
    BY <1>4, <2>1, <2>2, <2>3, <2>4 DEF OwnerStep
<1>5. CASE UNCHANGED vars
  <2>1. /\ UNCHANGED <<kernel, channels, t_buf, poller, at, active, who, then,
                       known, ops, closed, harm, met>>
    BY <1>5 DEF vars, callback, history
  <2>2. KernelTypes' /\ TablePart' /\ ControlPart' /\ HistoryPart'
    BY <2>1, KernelStays, TablesStay, MadeFacts, ControlStays, HistoryStays,
       HistoryFacts
  <2>3. QED
    BY <2>2, TypePartsNext
<1>6. QED
  BY <1>1, <1>2, <1>3, <1>4, <1>5 DEF Next

(* Types, and where the owner may be when a callback runs.                 *)
LEMMA TypesHold == Spec => []TypeInv
<1>1. Init => TypeInv
  BY TypeInit
<1>2. TypeInv /\ [Next]_vars => TypeInv'
  BY TypeStep
<1>3. QED
  BY <1>1, <1>2, PTL DEF Spec

(* TypeOK: every variable has its type, and a callback runs for a          *)
(* connection just while the owner is in one.                              *)
THEOREM TypeSafety == Spec => []TypeOK
<1>1. TypeInv => TypeOK
  BY DEF TypeInv
<1>2. QED
  BY <1>1, TypesHold, PTL


-----------------------------------------------------------------------------
(* The poller's tables, P being the channels in them.                      *)
Tables(P) ==
  /\ \A c, d \in P : fd[c] = fd[d] => c = d
  /\ Registered = P
  /\ EntriesInv
  /\ Injective(map)
  /\ Elements(map) = P

LEMMA FindRight ==
  ASSUME TypeInv, NEW P, Tables(P), NEW c \in P
  PROVE  Find(map, fd[c]) = c
<1>1. map \in Seq(Conns) /\ Conns \subseteq Nat /\ NONE \notin Conns
  BY MadeFacts, TypeFacts DEF TableTypes
<1>2. \E d \in Elements(map) : fd[d] = fd[c]
  BY DEF Tables
<1>3. Find(map, fd[c]) \in Elements(map) /\ fd[Find(map, fd[c])] = fd[c]
  BY <1>1, <1>2, FindType
<1>4. QED
  BY <1>3 DEF Tables

(* Who has the last entry of poll_list.                                    *)
LEMMA LastRight ==
  ASSUME TypeInv, NEW P, Tables(P), NEW c \in P
  PROVE  /\ Len(poll_list) \in Nat \ {0}
         /\ index[c] \in 1 .. Len(poll_list)
         /\ \E e \in P : index[e] = Len(poll_list) /\ LastFd = fd[e]
         /\ ~Astray(c) /\ ~Outside(c)
<1>1. poll_list \in Seq(Entry) /\ index \in [Conns -> Nat]
  BY MadeFacts DEF TableTypes
<1>2. index[c] \in DOMAIN poll_list
  BY DEF Tables, EntriesInv
<1>3. Len(poll_list) \in Nat \ {0} /\ index[c] \in 1 .. Len(poll_list)
  BY <1>1, <1>2
<1>4. PICK e \in P : index[e] = Len(poll_list)
  <2>1. Len(poll_list) \in DOMAIN poll_list
    BY <1>1, <1>3
  <2>2. QED
    BY <2>1 DEF Tables, EntriesInv
<1>5. LastFd = fd[e]
  <2>1. poll_list[index[e]] = [fd |-> fd[e], events |-> events[e]]
    BY DEF Tables, EntriesInv
  <2>2. QED
    BY <1>4, <2>1 DEF LastFd
<1>6. Find(map, LastFd) # NONE
  <2>1. e \in Conns
    BY <1>4 DEF Tables, Registered
  <2>2. QED
    BY <1>5, <2>1, FindRight, TypeFacts
<1>7. ~Astray(c) /\ ~Outside(c)
  BY <1>3, <1>6 DEF Astray, Outside
<1>8. QED
  BY <1>3, <1>4, <1>5, <1>7

(* Removing a channel: the owner of the last entry is moved.               *)
LEMMA InvalidateRight ==
  ASSUME TypeInv, NEW P, Tables(P), NEW c \in P, NEW next, Invalidate(c, next),
         UNCHANGED fd
  PROVE  /\ Tables(P \ {c})'
         /\ at' = next
         /\ revents' = [revents EXCEPT ![c] = {}]
<1> DEFINE len == Len(poll_list)
           k == index[c]
<1>1. /\ poll_list \in Seq(Entry) /\ index \in [Conns -> Nat]
      /\ events \in [Conns -> SUBSET Events] /\ map \in Seq(Conns)
      /\ Conns \subseteq Nat /\ P \subseteq Conns
  BY MadeFacts, TypeFacts DEF TableTypes, Tables, Registered
<1>2. /\ len \in Nat \ {0} /\ k \in 1 .. len /\ ~Astray(c)
  BY LastRight
<1>3. PICK e \in P : index[e] = len /\ LastFd = fd[e]
  BY LastRight
<1>4. Find(map, LastFd) = e /\ Find(map, fd[c]) = c
  BY <1>3, FindRight
<1>5. /\ RemoveChannel(c) /\ at' = next
      /\ events' = [events EXCEPT ![c] = {}]
      /\ revents' = [revents EXCEPT ![c] = {}]
  BY <1>2 DEF Invalidate
<1>6. /\ poll_list' = SwapDelete(poll_list, k)
      /\ map' = Unlink(map, c)
      /\ index' = IF LastFd = fd[c] THEN [index EXCEPT ![c] = 0]
                  ELSE [index EXCEPT ![e] = k, ![c] = 0]
  BY <1>2, <1>4, <1>5 DEF RemoveChannel
<1>7. LastFd = fd[c] <=> e = c
  BY <1>3 DEF Tables
<1>8. /\ index' \in [Conns -> Nat] /\ index'[c] = 0
      /\ e # c => index'[e] = k
      /\ \A d \in Conns \ {c, e} : index'[d] = index[d]
  BY <1>1, <1>6, <1>7
<1>9. /\ Len(poll_list') = len - 1 /\ poll_list' \in Seq(Entry)
      /\ DOMAIN poll_list' = 1 .. len - 1
      /\ \A l \in 1 .. len - 1 :
           poll_list'[l] = IF l = k THEN poll_list[len] ELSE poll_list[l]
  <2>1. k \in DOMAIN poll_list
    BY <1>1, <1>2
  <2>2. SwapDelete(poll_list, k) \in Seq(Entry)
    BY <1>1, <2>1, SwapDeleteType
  <2>3. /\ Len(poll_list') = len - 1 /\ poll_list' \in Seq(Entry)
        /\ \A l \in 1 .. len - 1 :
             poll_list'[l] = IF l = k THEN poll_list[len] ELSE poll_list[l]
    BY <1>1, <1>6, <2>1, <2>2, SwapDeleteType
  <2>4. QED
    BY <2>3
<1>10. Injective(map') /\ Elements(map') = P \ {c}
  BY <1>1, <1>6, UnlinkType DEF Tables
<1>11. \A d \in P : /\ d \in Conns /\ index[d] # 0 /\ index[d] \in 1 .. len
                    /\ poll_list[index[d]] = [fd |-> fd[d], events |-> events[d]]
  BY <1>1 DEF Tables, EntriesInv, Registered
<1>12. \A d1, d2 \in P : index[d1] = index[d2] => d1 = d2
  BY DEF Tables, EntriesInv
<1>13. \A d \in P \ {c, e} : index[d] # k /\ index[d] # len
  BY <1>3, <1>12
<1>14. e # c => k # len
  BY <1>3, <1>12
<1>15. Registered' = P \ {c}
  <2>1. \A d \in Conns : index[d] # 0 <=> d \in P
    BY DEF Tables, Registered
  <2>2. k # 0
    BY <1>2
  <2>3. QED
    BY <1>1, <1>3, <1>8, <2>1, <2>2 DEF Registered
<1> HIDE DEF k, len
<1>16. \A d \in P \ {c} :
         /\ index'[d] \in 1 .. len - 1
         /\ poll_list'[index'[d]] = [fd |-> fd'[d], events |-> events'[d]]
  <2> SUFFICES ASSUME NEW d \in P \ {c}
               PROVE  /\ index'[d] \in 1 .. len - 1
                      /\ poll_list'[index'[d]] = [fd |-> fd'[d], events |-> events'[d]]
    OBVIOUS
  <2>1. fd'[d] = fd[d] /\ events'[d] = events[d]
    BY <1>1, <1>5
  <2>2. CASE d = e
    <3>1. index'[d] = k /\ k \in 1 .. len - 1
      BY <1>2, <1>8, <1>14, <2>2
    <3>2. poll_list'[k] = poll_list[len]
      BY <1>9, <3>1
    <3>3. poll_list[len] = [fd |-> fd[d], events |-> events[d]]
      BY <1>3, <1>11, <2>2 DEF len
    <3>4. QED
      BY <2>1, <3>1, <3>2, <3>3
  <2>3. CASE d # e
    <3>1. /\ index[d] \in 1 .. len /\ index[d] # k /\ index[d] # len
          /\ index'[d] = index[d]
      BY <1>8, <1>11, <1>13, <2>3
    <3>2. index'[d] = index[d] /\ index[d] \in 1 .. len - 1 /\ index[d] # k
      BY <1>2, <3>1
    <3>3. QED
      BY <1>9, <1>11, <2>1, <3>2
  <2>4. QED
    BY <2>2, <2>3
<1>17. \A d1, d2 \in P \ {c} : index'[d1] = index'[d2] => d1 = d2
  <2> SUFFICES ASSUME NEW d1 \in P \ {c}, NEW d2 \in P \ {c}, index'[d1] = index'[d2]
               PROVE  d1 = d2
    OBVIOUS
  <2>1. d1 # e => index'[d1] = index[d1] /\ index[d1] # k
    BY <1>1, <1>8, <1>13
  <2>2. d2 # e => index'[d2] = index[d2] /\ index[d2] # k
    BY <1>1, <1>8, <1>13
  <2>3. (d1 = e => index'[d1] = k) /\ (d2 = e => index'[d2] = k)
    BY <1>8
  <2>4. QED
    BY <1>12, <2>1, <2>2, <2>3
<1>18. \A l \in 1 .. len - 1 : \E d \in P \ {c} : index'[d] = l
  <2> SUFFICES ASSUME NEW l \in 1 .. len - 1
               PROVE  \E d \in P \ {c} : index'[d] = l
    OBVIOUS
  <2>1. CASE l = k
    <3>1. e # c
      BY <1>2, <1>3, <2>1 DEF k
    <3>2. QED
      BY <1>3, <1>8, <2>1, <3>1
  <2>2. CASE l # k
    <3>1. l \in DOMAIN poll_list /\ l # len
      BY <1>1, <1>2 DEF len
    <3>2. PICK d \in P : index[d] = l
      BY <3>1 DEF Tables, EntriesInv
    <3>3. d # c /\ d # e
      BY <1>3, <2>2, <3>1, <3>2 DEF k
    <3>4. QED
      BY <1>1, <1>8, <3>2, <3>3
  <2>3. QED
    BY <2>1, <2>2
<1>19. EntriesInv'
  BY <1>9, <1>15, <1>16, <1>17, <1>18 DEF EntriesInv
<1>20. \A d1, d2 \in P \ {c} : fd'[d1] = fd'[d2] => d1 = d2
  BY DEF Tables
<1>21. QED
  BY <1>5, <1>10, <1>15, <1>19, <1>20 DEF Tables


(* A channel in the tables is updated where its index says.                *)
LEMMA UpdateRight ==
  ASSUME TypeInv, EntriesInv, NEW c \in Registered, NEW e \in SUBSET Events,
         NEW next, UpdateChannel(c, fd[c], e, next), UNCHANGED fd
  PROVE  /\ EntriesInv'
         /\ UNCHANGED <<index, map>>
         /\ at' = next
<1>1. /\ poll_list \in Seq(Entry) /\ index \in [Conns -> Nat]
      /\ events \in [Conns -> SUBSET Events] /\ c \in Conns
  BY MadeFacts DEF TableTypes, Registered
<1>2. /\ index[c] \in DOMAIN poll_list
      /\ poll_list[index[c]] = [fd |-> fd[c], events |-> events[c]]
  BY DEF EntriesInv
<1>3. ~Outside(c) /\ index[c] # 0
  BY <1>1, <1>2 DEF Outside
<1>4. /\ poll_list' = [poll_list EXCEPT ![index[c]].events = e]
      /\ UNCHANGED <<index, map>> /\ at' = next
      /\ events' = [events EXCEPT ![c] = e]
  BY <1>3 DEF UpdateChannel
<1>5. /\ DOMAIN poll_list' = DOMAIN poll_list
      /\ poll_list'[index[c]] = [fd |-> fd[c], events |-> e]
      /\ \A k \in DOMAIN poll_list \ {index[c]} : poll_list'[k] = poll_list[k]
  <2>1. poll_list' = [poll_list EXCEPT ![index[c]] =
                        [poll_list[index[c]] EXCEPT !.events = e]]
    BY <1>4
  <2>2. [poll_list[index[c]] EXCEPT !.events = e] = [fd |-> fd[c], events |-> e]
    BY <1>2
  <2>3. QED
    BY <1>1, <1>2, <2>1, <2>2
<1>6. Registered' = Registered
  BY <1>4 DEF Registered
<1>7. ASSUME NEW d \in Registered
      PROVE  /\ index'[d] \in DOMAIN poll_list'
             /\ poll_list'[index'[d]] = [fd |-> fd'[d], events |-> events'[d]]
  <2>1. /\ index[d] \in DOMAIN poll_list /\ d \in Conns
        /\ poll_list[index[d]] = [fd |-> fd[d], events |-> events[d]]
    BY DEF EntriesInv, Registered
  <2>2. CASE d = c
    BY <1>1, <1>4, <1>5, <2>1, <2>2
  <2>3. CASE d # c
    <3>1. index[d] # index[c]
      BY <2>3 DEF EntriesInv
    <3>2. QED
      BY <1>1, <1>4, <1>5, <2>1, <2>3, <3>1
  <2>4. QED
    BY <2>2, <2>3
<1>8. EntriesInv'
  BY <1>4, <1>5, <1>6, <1>7 DEF EntriesInv
<1>9. QED
  BY <1>4, <1>8

(* A new channel is put in.                                                *)
LEMMA RegisterRight ==
  ASSUME TypeInv, NEW P, Tables(P), NEW c \in Conns \ P, NEW d \in Fds,
         \A x \in P : fd[x] # d, NEW e \in SUBSET Events, NEW next,
         UpdateChannel(c, d, e, next), fd' = [fd EXCEPT ![c] = d]
  PROVE  Tables(P \cup {c})' /\ at' = next
<1> DEFINE len == Len(poll_list)
           x == [fd |-> d, events |-> e]
<1>1. /\ poll_list \in Seq(Entry) /\ index \in [Conns -> Nat]
      /\ events \in [Conns -> SUBSET Events] /\ map \in Seq(Conns)
      /\ fd \in [Conns -> Fds \cup {NONE}]
      /\ P \subseteq Conns /\ x \in Entry /\ len \in Nat /\ index[c] = 0
  BY MadeFacts DEF TableTypes, Tables, Registered, Entry, TypeInv, TypeOK
<1>2. /\ map' = <<c>> \o map
      /\ poll_list' = Append(poll_list, x)
      /\ index' = [index EXCEPT ![c] = len + 1]
      /\ events' = [events EXCEPT ![c] = e]
      /\ at' = next
  BY <1>1 DEF UpdateChannel, Outside
<1>3. /\ DOMAIN poll_list' = 1 .. len + 1 /\ DOMAIN poll_list = 1 .. len
      /\ poll_list'[len + 1] = x
      /\ \A k \in 1 .. len : poll_list'[k] = poll_list[k]
  BY <1>1, <1>2
<1>4. /\ index'[c] = len + 1 /\ fd'[c] = d /\ events'[c] = e
      /\ \A y \in P : /\ index'[y] = index[y] /\ fd'[y] = fd[y]
                      /\ events'[y] = events[y]
  BY <1>1, <1>2
<1>5. Injective(map') /\ Elements(map') = P \cup {c}
  <2>1. c \notin Elements(map) /\ Injective(map)
    BY DEF Tables
  <2>2. QED
    BY <1>1, <1>2, <2>1, PushProperties DEF Tables
<1>6. Registered' = P \cup {c}
  <2>1. \A y \in Conns : index[y] # 0 <=> y \in P
    BY DEF Tables, Registered
  <2>2. len + 1 # 0
    BY <1>1
  <2>3. QED
    BY <1>1, <1>2, <2>1, <2>2 DEF Registered
<1> HIDE DEF len
<1>7. \A y \in P : /\ index[y] \in 1 .. len
                   /\ poll_list[index[y]] = [fd |-> fd[y], events |-> events[y]]
  BY <1>3 DEF Tables, EntriesInv
<1>8. \A y \in P \cup {c} :
        /\ index'[y] \in 1 .. len + 1
        /\ poll_list'[index'[y]] = [fd |-> fd'[y], events |-> events'[y]]
  <2>1. \A y \in P : /\ index'[y] \in 1 .. len + 1
                     /\ poll_list'[index'[y]] = [fd |-> fd'[y], events |-> events'[y]]
    BY <1>1, <1>3, <1>4, <1>7
  <2>2. /\ index'[c] \in 1 .. len + 1
        /\ poll_list'[index'[c]] = [fd |-> fd'[c], events |-> events'[c]]
    BY <1>1, <1>3, <1>4
  <2>3. QED
    BY <2>1, <2>2
<1>9. \A y, z \in P \cup {c} : index'[y] = index'[z] => y = z
  <2>1. ASSUME NEW y \in P
        PROVE  index'[y] = index[y] /\ index[y] # len + 1
    <3>1. index[y] \in 1 .. len /\ index'[y] = index[y]
      BY <1>4, <1>7
    <3>2. QED
      BY <1>1, <3>1
  <2>2. \A y, z \in P : index[y] = index[z] => y = z
    BY DEF Tables, EntriesInv
  <2>3. QED
    BY <1>4, <2>1, <2>2
<1>10. \A k \in 1 .. len + 1 : \E y \in P \cup {c} : index'[y] = k
  <2> SUFFICES ASSUME NEW k \in 1 .. len + 1
               PROVE  \E y \in P \cup {c} : index'[y] = k
    OBVIOUS
  <2>1. CASE k = len + 1
    BY <1>4, <2>1
  <2>2. CASE k # len + 1
    <3>1. k \in DOMAIN poll_list
      BY <1>1, <1>3, <2>2
    <3>2. PICK y \in P : index[y] = k
      BY <3>1 DEF Tables, EntriesInv
    <3>3. QED
      BY <1>4, <3>2
  <2>3. QED
    BY <2>1, <2>2
<1>11. EntriesInv'
  BY <1>3, <1>6, <1>8, <1>9, <1>10 DEF EntriesInv
<1>12. \A y, z \in P \cup {c} : fd'[y] = fd'[z] => y = z
  <2>1. \A y, z \in P : fd[y] = fd[z] => y = z
    BY DEF Tables
  <2>2. QED
    BY <1>4, <2>1
<1>13. QED
  BY <1>2, <1>5, <1>6, <1>11, <1>12 DEF Tables


-----------------------------------------------------------------------------
(* The tables agree: what that says of one connection.                     *)

LEMMA WatchedFacts ==
  ASSUME TypeInv, Agree
  PROVE  /\ Watched \subseteq Made /\ Open \subseteq Watched
         /\ Closing \subseteq closed /\ Closing \subseteq {who}
         /\ \A c, d \in Watched : fd[c] = fd[d] => c = d
         /\ then # "Teardown" => Tables(Watched)
         /\ then \in {"Loop", "Invalidate", "Teardown"}
         /\ then = "Loop" \/ who = NONE => Closing = {} /\ Watched = Open
<1>1. Open \subseteq Made /\ closed \subseteq Made /\ Open \cap closed = {}
  BY MadeFacts, TypeFacts DEF Open
<1>2. Closing \subseteq closed /\ Closing \subseteq {who}
  BY DEF Closing
<1>3. Watched \subseteq Made /\ Open \subseteq Watched
  BY <1>1, <1>2 DEF Watched
<1>4. \A c, d \in Watched : fd[c] = fd[d] => c = d
  <2>1. \A c \in Open : file[fd[c]] = c /\ c # NONE
    BY <1>1, TypeFacts DEF Agree, SocketsInv
  <2>2. \A c \in Closing : file[fd[c]] = NONE
    BY DEF Agree, SocketsInv
  <2>3. QED
    BY <1>2, <2>1, <2>2 DEF Watched
<1>5. then # "Teardown" => Tables(Watched)
  BY <1>4 DEF Agree, TablesInv, Tables
<1>6. then \in {"Loop", "Invalidate", "Teardown"}
  BY DEF Agree, ControlInv
<1>7. then = "Loop" \/ who = NONE => Closing = {} /\ Watched = Open
  BY <1>1, TypeFacts DEF Closing, Watched
<1>8. QED
  BY <1>1, <1>2, <1>3, <1>4, <1>5, <1>6, <1>7

LEMMA OpenFacts ==
  ASSUME TypeInv, Agree, NEW c \in Open
  PROVE  /\ c \in Made /\ c \in Conns /\ c \notin closed /\ c # NONE
         /\ fd[c] \in Fds /\ Socket(c) = c
         /\ Misses(c) = {} /\ Frees(c) = {} /\ Uses(c) = {}
         /\ c \in Registered /\ c \in known
<1>1. c \in Made /\ c \in Conns /\ c \notin closed /\ c # NONE /\ fd[c] \in Fds
  BY TypeFacts DEF Open
<1>2. Socket(c) = c /\ c \in known
  BY <1>1 DEF Agree, SocketsInv, Socket
<1>3. t_buf[c] # "freed"
  BY <1>1 DEF Agree, RingInv
<1>4. c \in Registered
  BY DEF Agree, TablesInv, Watched
<1>5. QED
  BY <1>1, <1>2, <1>3, <1>4 DEF Misses, Frees, Uses

(* A user that knows of no end calls for an open connection.               *)
LEMMA KnownIsOpen ==
  ASSUME TypeInv, NEW c \in known, c \notin closed
  PROVE  c \in Open
  BY MadeFacts DEF Open, Made

-----------------------------------------------------------------------------
(* Steps that leave what is registered and closed as it is.                *)

LEMMA StaysAgreed ==
  ASSUME TypeInv, Agree,
         UNCHANGED <<file, accepted, fd, events, index, t_buf, poll_list, map,
                     known, closed, harm>>,
         Closing' = Closing, then' = "Teardown" <=> then = "Teardown",
         at \in {"InClose", "Dead"} => at' \in {"InClose", "Dead"} /\ who' = who,
         ControlInv'
  PROVE  Agree'
<1>1. Made' = Made /\ Open' = Open /\ Watched' = Watched /\ Registered' = Registered
  BY DEF Made, Open, Watched, Registered
<1>2. SocketsInv'
  BY <1>1 DEF Agree, SocketsInv
<1>3. RingInv'
  BY DEF Agree, RingInv
<1>4. TablesInv'
  BY <1>1 DEF Agree, TablesInv, EntriesInv, Injective, Elements
<1>5. QED
  BY <1>2, <1>3, <1>4 DEF Agree


(* A step of the loop between callbacks.                                   *)
LEMMA ControlAgrees ==
  ASSUME TypeInv, Agree, UNCHANGED <<accepted, known, closed, t_buf>>,
         then' = then, who' = who, at' \in {at, "Handle", "Write", "InTimer", "Dead"},
         \A c \in Conns : revents'[c] # {} => revents[c] # {} \/ c \in Watched,
         at' = "Run" \/ then = "Teardown" => UNCHANGED revents
  PROVE  ControlInv' /\ Closing' = Closing
<1>1. Closing' = Closing /\ Open' = Open /\ Watched' = Watched
  BY DEF Closing, Open, Watched
<1>2. QED
  BY <1>1 DEF Agree, ControlInv

LEMMA RoundAgrees ==
  ASSUME TypeInv, Agree,
         \/ PeerStep \/ PollReturn \/ EndRound \/ EndAccept \/ AcceptFails
         \/ BeginTimers \/ EndTimers
  PROVE  Agree'
<1>1. UNCHANGED <<file, accepted, fd, events, index, t_buf, poll_list, map, known,
                  closed, harm, then>>
  BY DEF PeerStep, PollReturn, EndRound, EndAccept, AcceptFails, BeginTimers,
         EndTimers, PeerSends, PeerEnds, PeerResets, kernel, channels, poller,
         callback, history
<1>2. CASE PeerStep
  <2>1. UNCHANGED <<at, who, revents>>
    BY <1>2 DEF PeerStep, channels, callback
  <2>2. QED
    BY <1>1, <2>1, ControlAgrees, StaysAgreed
<1>3. CASE PollReturn
  <2>1. /\ UNCHANGED who /\ at = "Run" /\ at' \in {"Handle", "Dead"}
        /\ \A c \in Conns :
             revents'[c] # {} => revents[c] # {} \/ c \in Elements(map)
    BY <1>3, PollType, ZenonT(20) DEF PollReturn, callback
  <2>2. Elements(map) = Watched /\ then # "Teardown"
    BY <2>1, TypeParts, SMTT(30) DEF Agree, TablesInv, ControlPart, ThenInv
  <2>3. QED
    BY <1>1, <2>1, <2>2, ControlAgrees, StaysAgreed
<1>4. CASE EndRound
  <2>1. /\ UNCHANGED who /\ at = "Handle" /\ at' = "Run"
        /\ \A c \in Conns : revents'[c] = {}
    BY <1>4 DEF EndRound, callback
  <2>2. ControlInv' /\ Closing' = Closing
    BY <1>1, <2>1 DEF Agree, ControlInv, Closing
  <2>3. QED
    BY <1>1, <2>1, <2>2, StaysAgreed
<1>5. CASE AcceptFails \/ BeginTimers \/ EndTimers
  <2>1. /\ UNCHANGED <<who, revents>> /\ at \in {"Handle", "InTimer"}
        /\ at' \in {"Handle", "InTimer"}
    BY <1>5 DEF AcceptFails, BeginTimers, EndTimers, Handles, NextChannel,
                channels, callback
  <2>2. QED
    BY <1>1, <2>1, ControlAgrees, StaysAgreed
<1>6. CASE EndAccept
  <2>1. /\ UNCHANGED revents /\ at = "InConn" /\ at' = "Handle"
        /\ then = "Loop" /\ then' = "Loop"
    BY <1>1, <1>6, TypeParts
       DEF EndAccept, NextChannel, channels, ControlPart, ThenInv
  <2>2. Closing' = Closing /\ Open' = Open /\ Watched' = Watched
    BY <1>1, <2>1 DEF Closing, Open, Watched
  <2>3. ControlInv'
    BY <2>1, <2>2 DEF Agree, ControlInv
  <2>4. QED
    BY <1>1, <2>1, <2>2, <2>3, StaysAgreed
<1>7. QED
  BY <1>2, <1>3, <1>4, <1>5, <1>6, SMTT(30)

LEMMA HandlerAgrees ==
  ASSUME TypeInv, Agree, NEW c \in Conns,
         \/ HandleError(c) \/ ReadInput(c) \/ SkipWrite(c) \/ WriteSome(c)
         \/ WriteKills(c)
  PROVE  Agree'
<1>1. /\ at \in {"Handle", "Write"} /\ then = "Loop" /\ who = NONE
      /\ revents[c] # {} => c \in Open
  <2>1. /\ at \in {"Handle", "Write"} /\ then = "Loop" /\ who = NONE
    BY HandlerFacts DEF HandleConn
  <2>2. QED
    BY <2>1, WatchedFacts DEF Agree, ControlInv
<1>2. c \in Open => Misses(c) = {} /\ Uses(c) = {}
  BY OpenFacts
<1>3. CASE HandleError(c)
  <2>1. /\ UNCHANGED <<file, accepted, fd, events, revents, index, t_buf, poll_list,
                       map, known, closed, harm>>
        /\ at' = "InError" /\ who' = c /\ then' = "Invalidate" /\ revents[c] # {}
    BY <1>3 DEF HandleError, ConnError, Failed, kernel, channels, poller, history
  <2>2. c \in Open /\ Closing = {} /\ Closing' = {}
    BY <1>1, <2>1, WatchedFacts, OpenFacts DEF Closing
  <2>3. Open' = Open /\ Watched' = Watched
    BY <2>1, <2>2 DEF Open, Watched
  <2>4. ControlInv'
    BY <1>1, <2>1, <2>2, <2>3 DEF Agree, ControlInv
  <2>5. QED
    BY <1>1, <2>1, <2>2, <2>4, StaysAgreed
<1>4. CASE ReadInput(c) \/ SkipWrite(c) \/ WriteSome(c) \/ WriteKills(c)
  <2>1. /\ UNCHANGED <<file, accepted, fd, events, revents, index, t_buf, poll_list,
                       map, known, closed, who, then>>
        /\ at' \in {"Handle", "Write", "Dead"}
    BY <1>4 DEF ReadInput, SkipWrite, WriteSome, WriteKills, Reads, Writes,
                NextChannel, kernel, channels, poller, callback, history
  <2>2. harm' = harm
    <3>1. CASE SkipWrite(c)
      BY <3>1 DEF SkipWrite, history
    <3>2. CASE ReadInput(c) \/ WriteSome(c) \/ WriteKills(c)
      <4>1. revents[c] # {}
        BY <3>2 DEF ReadInput, WriteSome, WriteKills, Reads, Writes
      <4>2. QED
        BY <1>1, <1>2, <3>2, <4>1 DEF ReadInput, WriteSome, WriteKills
    <3>3. QED
      BY <1>4, <3>1, <3>2
  <2>3. ControlInv' /\ Closing' = Closing
    BY <2>1, ControlAgrees
  <2>4. QED
    BY <1>1, <2>1, <2>2, <2>3, StaysAgreed
<1>5. QED
  BY <1>3, <1>4


-----------------------------------------------------------------------------
(* Calls for an open connection that do not close it.                      *)

LEMMA CallAgrees ==
  ASSUME TypeInv, Agree, NEW c \in Open,
         UNCHANGED <<file, accepted, fd, index, map, known, closed, harm, who,
                     then, revents>>,
         EntriesInv',
         \/ at' \in {at, "Dead"}
         \/ at \in {"Handle", "Write"} /\ at' = "Handle",
         \A x \in Conns : \/ t_buf'[x] = t_buf[x]
                          \/ x = c /\ t_buf'[x] # "freed"
  PROVE  Agree'
<1>1. /\ Closing' = Closing /\ Open' = Open /\ Watched' = Watched
      /\ Made' = Made /\ Registered' = Registered
  BY DEF Closing, Open, Watched, Made, Registered
<1>2. SocketsInv'
  BY <1>1 DEF Agree, SocketsInv
<1>3. ControlInv'
  <2>1. at = "InClose" => who # c
    BY OpenFacts DEF Agree, ControlInv
  <2>2. at = "InClose" => t_buf'[who] = t_buf[who]
    <3>1. at = "InClose" => who \in Conns
      BY TypeFacts, CallbackFacts
    <3>2. QED
      BY <2>1, <3>1
  <2>3. at' \in {"InClose", "InError", "Run"} => at' = at
    OBVIOUS
  <2>4. QED
    BY <1>1, <2>2, <2>3 DEF Agree, ControlInv
<1>4. RingInv'
  <2>1. c \notin closed
    BY OpenFacts
  <2>2. at \in {"InClose", "Dead"} => at' \in {"InClose", "Dead"}
    OBVIOUS
  <2>3. QED
    BY <2>1, <2>2 DEF Agree, RingInv
<1>5. TablesInv'
  BY <1>1 DEF Agree, TablesInv, Injective, Elements
<1>6. QED
  BY <1>2, <1>3, <1>4, <1>5 DEF Agree

LEMMA UserCallAgrees ==
  ASSUME TypeInv, Agree, NEW c \in Conns, met' = {},
         \/ UserWrites(c) \/ UserWriteFails(c) \/ UserWriteKills(c)
         \/ UserPauses(c) \/ UserResumes(c)
  PROVE  Agree'
<1>1. /\ MayCall(c) /\ MeetCall(c)
      /\ UNCHANGED <<accepted, fd, who, then, known, closed, revents, file>>
  BY DEF UserWrites, UserWriteFails, UserWriteKills, UserPauses, UserResumes,
         MayCall, callback, kernel
<1>2. c \in Open
  <2>1. c \in known /\ c \notin closed
    BY <1>1 DEF MayCall, MeetCall, Meet
  <2>2. QED
    BY <2>1, KnownIsOpen
<1>3. /\ c \in Registered /\ EntriesInv /\ TableTypes
      /\ Misses(c) = {} /\ Uses(c) = {}
  BY <1>2, OpenFacts, MadeFacts DEF Agree, TablesInv
<1>4. CASE UserWriteFails(c) \/ UserWriteKills(c)
  <2>1. /\ UNCHANGED <<events, index, t_buf, poll_list, map>>
        /\ at' \in {at, "Dead"}
        /\ harm' = harm
    BY <1>3, <1>4 DEF UserWriteFails, UserWriteKills, poller
  <2>2. EntriesInv'
    BY <1>1, <1>3, <2>1 DEF EntriesInv, Registered
  <2>3. QED
    BY <1>1, <1>2, <2>1, <2>2, CallAgrees
<1>5. CASE UserWrites(c) \/ UserPauses(c) \/ UserResumes(c)
  <2>1. PICK e \in SUBSET Events : UpdateChannel(c, fd[c], e, at)
    <3>1. events[c] \cup {"OUT"} \in SUBSET Events
          /\ events[c] \cup {"IN"} \in SUBSET Events
          /\ events[c] \ {"IN"} \in SUBSET Events
      BY <1>3 DEF TableTypes, Events
    <3>2. QED
      BY <1>5, <3>1 DEF UserWrites, UserPauses, UserResumes
  <2>2. EntriesInv' /\ UNCHANGED <<index, map>> /\ at' = at
    BY <1>1, <1>3, <2>1, UpdateRight
  <2>3. harm' = harm
    BY <1>3, <1>5 DEF UserWrites, UserPauses, UserResumes
  <2>4. \A x \in Conns : \/ t_buf'[x] = t_buf[x]
                         \/ x = c /\ t_buf'[x] # "freed"
    <3>1. CASE UserPauses(c) \/ UserResumes(c)
      BY <3>1 DEF UserPauses, UserResumes
    <3>2. CASE UserWrites(c)
      <4>1. t_buf' = [t_buf EXCEPT ![c] = IF @ = "NULL" THEN "held" ELSE @]
        BY <3>2 DEF UserWrites
      <4>2. t_buf \in [Conns -> {"NULL", "held", "freed"}]
        BY MadeFacts
      <4>3. QED
        BY <4>1, <4>2
    <3>3. QED
      BY <1>5, <3>1, <3>2
  <2>5. QED
    BY <1>1, <1>2, <2>2, <2>3, <2>4, CallAgrees
<1>6. QED
  BY <1>4, <1>5

LEMMA WriteAllAgrees ==
  ASSUME TypeInv, Agree, NEW c \in Conns, WriteAll(c)
  PROVE  Agree'
<1>1. /\ at \in {"Handle", "Write"} /\ then = "Loop" /\ who = NONE
      /\ revents[c] # {} => c \in Open
  <2>1. /\ at \in {"Handle", "Write"} /\ then = "Loop" /\ who = NONE
    BY HandlerFacts DEF HandleConn
  <2>2. QED
    BY <2>1, WatchedFacts DEF Agree, ControlInv
<1>2. /\ UNCHANGED <<file, accepted, fd, revents, t_buf, known, closed, who, then>>
      /\ c \in Open /\ harm' = harm \cup Misses(c) \cup Uses(c)
  BY <1>1 DEF WriteAll, Writes, callback
<1>3. /\ c \in Registered /\ EntriesInv /\ harm' = harm /\ TableTypes
  BY <1>2, OpenFacts, MadeFacts DEF Agree, TablesInv
<1>4. EntriesInv' /\ UNCHANGED <<index, map>> /\ at' = "Handle"
  <2>1. CASE "OUT" \in events[c]
    <3>1. /\ UpdateChannel(c, fd[c], events[c] \ {"OUT"}, "Handle")
          /\ events[c] \ {"OUT"} \in SUBSET Events
      BY <1>3, <2>1 DEF WriteAll, TableTypes
    <3>2. QED
      BY <1>2, <1>3, <3>1, UpdateRight
  <2>2. CASE "OUT" \notin events[c]
    BY <1>2, <1>3, <2>2 DEF WriteAll, poller, EntriesInv, Registered
  <2>3. QED
    BY <2>1, <2>2
<1>5. QED
  BY <1>1, <1>2, <1>3, <1>4, CallAgrees


-----------------------------------------------------------------------------
(* Closing an open connection: what becomes of the descriptors.            *)
LEMMA CloseApart ==
  ASSUME TypeInv, Agree, NEW c \in Open, Close(c), UNCHANGED <<accepted, fd>>
  PROVE  /\ Made' = Made /\ Open' = Open \ {c} /\ closed' = closed \cup {c}
         /\ \A x \in Made : x \in Open' <=> file'[fd'[x]] = x
         /\ \A d \in Fds : file'[d] # NONE => file'[d] \in Made /\ fd'[file'[d]] = d
         /\ \A x \in Watched : x # c => file'[fd'[x]] = file[fd[x]]
         /\ file'[fd'[c]] = NONE
<1>1. /\ c \in Made /\ fd[c] \in Fds /\ c # NONE
      /\ file \in [Fds -> Conns \cup {NONE}]
  BY OpenFacts DEF TypeInv, TypeOK
<1>2. file' = [file EXCEPT ![fd[c]] = NONE] /\ closed' = closed \cup {c}
  BY DEF Close
<1>3. Made' = Made /\ Open' = Open \ {c}
  BY <1>2 DEF Made, Open
<1>4. \A x \in Made : fd[x] \in Fds /\ x # NONE
  BY TypeFacts
<1>5. /\ \A x \in Made : x \in Open <=> file[fd[x]] = x
      /\ \A d \in Fds : file[d] # NONE => file[d] \in Made /\ fd[file[d]] = d
  BY DEF Agree, SocketsInv
<1>6. file[fd[c]] = c
  BY <1>1, <1>5
<1>7. file'[fd[c]] = NONE /\ \A d \in Fds \ {fd[c]} : file'[d] = file[d]
  BY <1>1, <1>2
<1>8. ASSUME NEW x \in Made
      PROVE  x \in Open' <=> file'[fd'[x]] = x
  <2>1. CASE fd[x] = fd[c]
    <3>1. file'[fd'[x]] # x /\ (x \in Open => x = c)
      BY <1>4, <1>5, <1>6, <1>7, <2>1
    <3>2. QED
      BY <1>3, <3>1
  <2>2. CASE fd[x] # fd[c]
    <3>1. file'[fd'[x]] = file[fd[x]] /\ x # c
      BY <1>4, <1>7, <2>2
    <3>2. QED
      BY <1>3, <1>5, <3>1
  <2>3. QED
    BY <2>1, <2>2
<1>9. \A d \in Fds : file'[d] # NONE => file'[d] \in Made /\ fd'[file'[d]] = d
  BY <1>5, <1>7
<1>10. \A x \in Watched : x # c => file'[fd'[x]] = file[fd[x]]
  <2>1. \A x \in Watched : x # c => fd[x] # fd[c]
    BY WatchedFacts
  <2>2. QED
    BY <1>4, <1>7, <2>1, WatchedFacts
<1>11. QED
  BY <1>2, <1>3, <1>7, <1>8, <1>9, <1>10

(* connection_close(), by the user or at the end of the stream.            *)
LEMMA ConnectionCloseAgrees ==
  ASSUME TypeInv, Agree, NEW c \in Open, NEW next, ConnectionClose(c, next),
         UNCHANGED <<accepted, fd, who, then>>, then # "Teardown",
         known' \in {known, known \ {c}},
         next = at \/ (at = "Handle" /\ next = "Write"),
         at \in {"Run", "Handle", "InConn", "InError", "InClose", "InTimer"},
         at = "InError" => c # who
  PROVE  Agree'
<1>1. /\ Invalidate(c, next) /\ Close(c) /\ Destroy(c)
      /\ harm' = harm \cup Misses(c) \cup Frees(c)
  BY DEF ConnectionClose
<1>2. /\ c \in Made /\ c \in Conns /\ c \notin closed /\ harm' = harm
  BY <1>1, OpenFacts
<1>3. /\ Made' = Made /\ Open' = Open \ {c} /\ closed' = closed \cup {c}
      /\ \A x \in Made : x \in Open' <=> file'[fd'[x]] = x
      /\ \A d \in Fds : file'[d] # NONE => file'[d] \in Made /\ fd'[file'[d]] = d
      /\ \A x \in Watched : x # c => file'[fd'[x]] = file[fd[x]]
  BY <1>1, CloseApart
<1>4. at = "InClose" => who # c /\ who \in Conns
  BY <1>2, CallbackFacts, TypeFacts DEF Agree, ControlInv
<1>5. then # "Loop" => at \in {"InError", "InClose"}
  BY TypeParts DEF ControlPart, ThenInv
<1>6. Closing' = Closing /\ c \notin Closing
  <2>1. then = "Invalidate" => who # c
    BY <1>4, <1>5
  <2>2. QED
    BY <1>2, <1>3, <2>1 DEF Closing
<1>7. Watched' = Watched \ {c}
  BY <1>3, <1>6 DEF Watched
<1>8. PICK P : P = Watched
  OBVIOUS
<1>9. Tables(P) /\ c \in P /\ P \subseteq Made
  BY <1>8, WatchedFacts
<1>10. /\ Tables(P \ {c})' /\ at' = next
       /\ revents' = [revents EXCEPT ![c] = {}]
  BY <1>1, <1>9, InvalidateRight
<1>11. /\ t_buf'[c] # "held" /\ \A x \in Conns \ {c} : t_buf'[x] = t_buf[x]
  BY <1>1, <1>2, DestroyType
<1>12. SocketsInv'
  <2>1. \A x \in Closing' : file'[fd'[x]] = NONE
    BY <1>3, <1>6 DEF Agree, SocketsInv, Watched
  <2>2. Open' \subseteq known'
    BY <1>3 DEF Agree, SocketsInv
  <2>3. QED
    BY <1>2, <1>3, <2>1, <2>2 DEF Agree, SocketsInv
<1>13. ControlInv'
  <2>1. revents \in [Conns -> SUBSET Conditions]
    BY MadeFacts DEF TableTypes
  <2>2. \A x \in Conns : revents'[x] # {} => revents[x] # {} /\ x # c
    BY <1>10, <2>1
  <2>3. \A x \in Conns : revents'[x] # {} => x \in Watched'
    BY <1>7, <2>2 DEF Agree, ControlInv
  <2>4. at' = "Run" => \A x \in Conns : revents'[x] = {}
    BY <1>10, <2>2 DEF Agree, ControlInv
  <2>5. at' = "InError" => who' \in Open'
    BY <1>3, <1>10 DEF Agree, ControlInv
  <2>6. at' = "InClose" => who' \in closed' \ known' /\ t_buf'[who'] # "freed"
    BY <1>3, <1>4, <1>10, <1>11 DEF Agree, ControlInv
  <2>7. QED
    BY <2>3, <2>4, <2>5, <2>6 DEF Agree, ControlInv
<1>14. RingInv'
  <2> SUFFICES ASSUME NEW x \in Conns
               PROVE  /\ t_buf'[x] = "freed" => x \in closed'
                      /\ t_buf'[x] = "held" /\ x \in closed' =>
                           x = who' /\ at' \in {"InClose", "Dead"}
    BY DEF RingInv
  <2>1. CASE x = c
    BY <1>3, <1>11, <2>1
  <2>2. CASE x # c
    BY <1>3, <1>10, <1>11, <2>2 DEF Agree, RingInv
  <2>3. QED
    BY <2>1, <2>2
<1>15. TablesInv'
  <2>1. /\ Registered' = P \ {c} /\ EntriesInv' /\ Injective(map')
        /\ Elements(map') = P \ {c}
    BY <1>10 DEF Tables
  <2>2. QED
    BY <1>7, <1>8, <2>1 DEF TablesInv
<1>16. QED
  BY <1>12, <1>13, <1>14, <1>15 DEF Agree

(* conn_close(): the channel stays until the callback has run.             *)
LEMMA ConnCloseAgrees ==
  ASSUME TypeInv, Agree, NEW c \in Open, NEW next, ConnClose(c, next),
         UNCHANGED <<channels, t_buf, poller>>,
         next \in {"Invalidate", "Teardown"},
         next = "Teardown" <=> then = "Teardown",
         at \notin {"InClose", "Dead"}, Closing = {}
  PROVE  Agree'
<1>1. /\ Close(c) /\ at' = "InClose" /\ who' = c /\ then' = next
      /\ known' = known \ {c} /\ harm' = harm \cup Misses(c)
      /\ UNCHANGED <<accepted, fd, events, revents, index, t_buf, poll_list, map>>
  BY DEF ConnClose, channels, poller
<1>2. /\ c \in Made /\ c \in Conns /\ c \notin closed /\ harm' = harm
  BY <1>1, OpenFacts
<1>3. /\ Made' = Made /\ Open' = Open \ {c} /\ closed' = closed \cup {c}
      /\ \A x \in Made : x \in Open' <=> file'[fd'[x]] = x
      /\ \A d \in Fds : file'[d] # NONE => file'[d] \in Made /\ fd'[file'[d]] = d
      /\ file'[fd'[c]] = NONE
  BY <1>1, CloseApart
<1>4. Closing' = {c} /\ Watched' = Watched /\ Watched = Open
  BY <1>1, <1>3 DEF Closing, Watched
<1>5. SocketsInv'
  <2>1. Open' \subseteq known'
    BY <1>1, <1>3 DEF Agree, SocketsInv
  <2>2. QED
    BY <1>2, <1>3, <1>4, <2>1 DEF Agree, SocketsInv
<1>6. ControlInv'
  <2>1. t_buf[c] # "freed"
    BY <1>2 DEF Agree, RingInv
  <2>2. QED
    BY <1>1, <1>3, <1>4, <2>1 DEF Agree, ControlInv
<1>7. RingInv'
  BY <1>1, <1>3 DEF Agree, RingInv
<1>8. TablesInv'
  <2>1. EntriesInv' /\ Registered' = Registered /\ Injective(map')
        /\ Elements(map') = Watched'
    BY <1>1, <1>4 DEF Agree, TablesInv, EntriesInv, Registered, Injective, Elements
  <2>2. QED
    BY <1>1, <1>3, <1>4, <2>1 DEF Agree, TablesInv
<1>9. QED
  BY <1>5, <1>6, <1>7, <1>8 DEF Agree


LEMMA UserClosesAgrees ==
  ASSUME TypeInv, Agree, NEW c \in Conns, UserCloses(c), met' = {}
  PROVE  Agree'
<1>1. /\ MayCall(c) /\ ConnectionClose(c, at) /\ known' = known \ {c}
      /\ c \notin closed /\ ~(at = "InError" /\ c = who) /\ then # "Teardown"
  BY DEF UserCloses
<1>2. /\ UNCHANGED <<accepted, fd, who, then>>
      /\ at \in {"Run", "InConn", "InError", "InClose", "InTimer"}
      /\ c \in known
  BY <1>1 DEF MayCall, callback
<1>3. c \in Open
  BY <1>1, <1>2, KnownIsOpen
<1>4. QED
  BY <1>1, <1>2, <1>3, ConnectionCloseAgrees

LEMMA ReadEndAgrees ==
  ASSUME TypeInv, Agree, NEW c \in Conns, ReadEnd(c)
  PROVE  Agree'
<1>1. /\ at = "Handle" /\ then = "Loop" /\ who = NONE /\ c \in Open
  <2>1. /\ at \in {"Handle", "Write"} /\ then = "Loop" /\ who = NONE
    BY HandlerFacts DEF HandleConn
  <2>2. at = "Handle" /\ revents[c] # {}
    BY DEF ReadEnd, Reads, Handled
  <2>3. QED
    BY <2>1, <2>2, WatchedFacts DEF Agree, ControlInv
<1>2. /\ ConnectionClose(c, "Write") /\ UNCHANGED <<accepted, fd, who, then>>
      /\ known' = known
  BY DEF ReadEnd, Reads, callback
<1>3. QED
  BY <1>1, <1>2, ConnectionCloseAgrees

LEMMA ConnClosesAgree ==
  ASSUME TypeInv, Agree,
         \/ EndErrorCallback \/ TeardownNode \/ \E c \in Conns : HandleHup(c)
  PROVE  Agree'
<1>1. CASE EndErrorCallback
  <2>1. /\ ConnClose(who, then) /\ at = "InError"
        /\ UNCHANGED <<channels, t_buf, poller>>
    BY <1>1 DEF EndErrorCallback
  <2>2. who \in Open /\ then = "Invalidate"
    BY <2>1, CallbackFacts, WatchedFacts DEF Agree, ControlInv
  <2>3. Closing = {}
    BY <2>2, OpenFacts DEF Closing
  <2>4. QED
    BY <2>1, <2>2, <2>3, ConnCloseAgrees
<1>2. CASE TeardownNode
  <2>1. PICK c \in Elements(map) : ConnClose(c, "Teardown")
    BY <1>2, TeardownFacts
  <2>2. at = "Teardown" /\ UNCHANGED <<channels, t_buf, poller>>
    BY <1>2, TeardownFacts
  <2>3. then = "Teardown" /\ who = NONE
    BY <2>2, TypeParts DEF ControlPart, ThenInv
  <2>4. Closing = {} /\ c \in Open
    BY <2>3, WatchedFacts DEF Agree, TablesInv
  <2>5. QED
    BY <2>1, <2>2, <2>3, <2>4, ConnCloseAgrees
<1>3. CASE \E c \in Conns : HandleHup(c)
  <2>1. PICK c \in Conns : HandleHup(c)
    BY <1>3
  <2>2. /\ ConnClose(c, "Invalidate") /\ UNCHANGED <<channels, t_buf, poller>>
        /\ revents[c] # {} /\ at = "Handle"
    BY <2>1 DEF HandleHup, HungUp, Handled
  <2>3. then = "Loop" /\ who = NONE
    BY <2>1, HandlerFacts DEF HandleConn
  <2>4. Closing = {} /\ c \in Open
    BY <2>2, <2>3, WatchedFacts DEF Agree, ControlInv
  <2>5. QED
    BY <2>2, <2>3, <2>4, ConnCloseAgrees
<1>4. QED
  BY <1>1, <1>2, <1>3

(* After the user's close callback: the channel is removed, ...            *)
LEMMA EndCloseAgrees ==
  ASSUME TypeInv, Agree, EndCloseCallback
  PROVE  Agree'
<1>1. /\ at = "InClose" /\ Destroy(who) /\ harm' = harm \cup Frees(who)
      /\ who' = NONE /\ then' = "Loop"
      /\ UNCHANGED <<file, accepted, fd, known, closed>>
      /\ then = "Invalidate"
  BY DEF EndCloseCallback, kernel, Agree, ControlInv
<1>2. /\ Invalidate(who, "Handle")
  BY <1>1 DEF EndCloseCallback
<1>3. /\ who \in closed \ known /\ t_buf[who] # "freed" /\ who \in Conns
  BY <1>1, CallbackFacts, TypeFacts DEF Agree, ControlInv
<1>4. harm' = harm
  BY <1>1, <1>3 DEF Frees
<1>5. /\ Closing = {who} /\ who \in Watched
      /\ Closing' = {} /\ Open' = Open /\ Made' = Made
      /\ Watched' = Watched \ {who} /\ Watched' = Open
  BY <1>1, <1>3 DEF Closing, Watched, Open, Made
<1>6. PICK P : P = Watched
  OBVIOUS
<1>7. Tables(P) /\ who \in P
  BY <1>1, <1>5, <1>6, WatchedFacts
<1>8. PICK c : c = who
  OBVIOUS
<1>9. /\ Tables(P \ {c})' /\ at' = "Handle"
      /\ revents' = [revents EXCEPT ![c] = {}]
  BY <1>1, <1>2, <1>7, <1>8, InvalidateRight
<1>10. /\ t_buf'[c] # "held" /\ \A x \in Conns \ {c} : t_buf'[x] = t_buf[x]
  BY <1>1, <1>3, <1>8, DestroyType
<1>11. SocketsInv'
  BY <1>1, <1>4, <1>5 DEF Agree, SocketsInv
<1>12. ControlInv'
  <2>1. revents \in [Conns -> SUBSET Conditions]
    BY MadeFacts DEF TableTypes
  <2>2. \A x \in Conns : revents'[x] # {} => revents[x] # {} /\ x # c
    BY <1>9, <2>1
  <2>3. \A x \in Conns : revents'[x] # {} => x \in Watched'
    BY <1>5, <1>8, <2>2 DEF Agree, ControlInv
  <2>4. QED
    BY <1>1, <1>9, <2>3 DEF ControlInv
<1>13. RingInv'
  <2> SUFFICES ASSUME NEW x \in Conns
               PROVE  /\ t_buf'[x] = "freed" => x \in closed'
                      /\ t_buf'[x] = "held" => x \notin closed'
    BY DEF RingInv
  <2>1. CASE x = c
    BY <1>1, <1>3, <1>8, <1>10, <2>1
  <2>2. CASE x # c
    BY <1>1, <1>8, <1>10, <2>2 DEF Agree, RingInv
  <2>3. QED
    BY <2>1, <2>2
<1>14. TablesInv'
  <2>1. /\ Registered' = P \ {c} /\ EntriesInv' /\ Injective(map')
        /\ Elements(map') = P \ {c}
    BY <1>9 DEF Tables
  <2>2. QED
    BY <1>1, <1>5, <1>6, <1>8, <2>1 DEF TablesInv
<1>15. QED
  BY <1>11, <1>12, <1>13, <1>14 DEF Agree


(* ... or its node, when the loop is torn down.                            *)
LEMMA TeardownAgrees ==
  ASSUME TypeInv, Agree, \/ EndTeardownCallback \/ EndTeardown \/ LoopReturns
  PROVE  Agree'
<1>1. CASE EndTeardownCallback
  <2>1. /\ at = "InClose" /\ Destroy(who) /\ harm' = harm \cup Frees(who)
        /\ who' = NONE /\ then = "Teardown" /\ then' = "Teardown"
        /\ at' = "Teardown" /\ map' = Unlink(map, who)
        /\ UNCHANGED <<file, accepted, fd, events, revents, index, poll_list,
                       known, closed>>
    BY <1>1 DEF EndTeardownCallback, kernel, channels
  <2>2. /\ who \in closed \ known /\ t_buf[who] # "freed" /\ who \in Conns
        /\ who # NONE
    BY <2>1, CallbackFacts, TypeFacts DEF Agree, ControlInv
  <2>3. harm' = harm
    BY <2>1, <2>2 DEF Frees
  <2>4. NONE \notin closed'
    BY <2>1, MadeFacts, TypeFacts
  <2>5. /\ Closing = {who} /\ Closing' = {} /\ Open' = Open /\ Made' = Made
        /\ Watched' = Watched \ {who} /\ Watched' = Open /\ who \in Watched
        /\ Registered' = Registered
    BY <2>1, <2>2, <2>4 DEF Closing, Watched, Open, Made, Registered
  <2>6. /\ Injective(map') /\ Elements(map') = Watched \ {who}
    <3>1. map \in Seq(Conns) /\ Conns \subseteq Nat
      BY MadeFacts, TypeFacts DEF TableTypes
    <3>2. Injective(map) /\ who \in Elements(map) /\ Elements(map) = Watched
      BY <2>5 DEF Agree, TablesInv
    <3>3. QED
      BY <2>1, <3>1, <3>2, UnlinkType
  <2>7. /\ t_buf'[who] # "held"
        /\ \A x \in Conns \ {who} : t_buf'[x] = t_buf[x]
    BY <2>1, <2>2, DestroyType
  <2>8. SocketsInv'
    BY <2>1, <2>3, <2>5 DEF Agree, SocketsInv
  <2>9. ControlInv'
    <3>1. \A x \in Conns : revents'[x] = {}
      BY <2>1 DEF Agree, ControlInv
    <3>2. QED
      BY <2>1, <3>1 DEF ControlInv
  <2>10. RingInv'
    <3> SUFFICES ASSUME NEW x \in Conns
                 PROVE  /\ t_buf'[x] = "freed" => x \in closed'
                        /\ t_buf'[x] = "held" => x \notin closed'
      BY DEF RingInv
    <3>1. CASE x = who
      BY <2>1, <2>2, <2>7, <3>1
    <3>2. CASE x # who
      BY <2>1, <2>7, <3>2 DEF Agree, RingInv
    <3>3. QED
      BY <3>1, <3>2
  <2>11. TablesInv'
    <3>1. EntriesInv'
      BY <2>1, <2>5 DEF Agree, TablesInv, EntriesInv
    <3>2. QED
      BY <2>1, <2>5, <2>6, <3>1 DEF Agree, TablesInv
  <2>12. QED
    BY <2>8, <2>9, <2>10, <2>11 DEF Agree
<1>2. CASE EndTeardown
  <2>1. /\ UNCHANGED <<file, accepted, fd, events, revents, index, t_buf, poll_list,
                       map, known, closed, harm, who, then>>
        /\ at = "Teardown" /\ at' = "Done"
    BY <1>2 DEF EndTeardown, kernel, channels, poller, callback, history
  <2>2. Closing' = Closing /\ Open' = Open /\ Watched' = Watched
    BY <2>1 DEF Closing, Open, Watched
  <2>3. ControlInv'
    BY <2>1, <2>2 DEF Agree, ControlInv
  <2>4. QED
    BY <2>1, <2>2, <2>3, StaysAgreed
<1>3. CASE LoopReturns
  <2>1. /\ UNCHANGED <<file, accepted, fd, events, revents, index, t_buf, poll_list,
                       map, known, closed, harm, who>>
        /\ at = "Run" /\ at' = "Teardown" /\ then' = "Teardown"
    BY <1>3 DEF LoopReturns, kernel, channels, poller, history
  <2>2. then = "Loop" /\ who = NONE /\ NONE \notin closed
    BY <2>1, TypeParts, MadeFacts, TypeFacts DEF ControlPart, ThenInv
  <2>3. /\ Closing = {} /\ Closing' = {} /\ Open' = Open /\ Watched' = Watched
        /\ Made' = Made /\ Registered' = Registered /\ Watched = Open
    BY <2>1, <2>2 DEF Closing, Open, Watched, Made, Registered
  <2>4. SocketsInv'
    BY <2>1, <2>3 DEF Agree, SocketsInv
  <2>5. ControlInv'
    BY <2>1, <2>3 DEF Agree, ControlInv
  <2>6. RingInv'
    BY <2>1 DEF Agree, RingInv
  <2>7. TablesInv'
    BY <2>1, <2>2, <2>3 DEF Agree, TablesInv, EntriesInv, Injective, Elements
  <2>8. QED
    BY <2>4, <2>5, <2>6, <2>7 DEF Agree
<1>4. QED
  BY <1>1, <1>2, <1>3

(* A new connection has a descriptor that no watched channel has.          *)
LEMMA AcceptAgrees ==
  ASSUME TypeInv, Agree, Accept
  PROVE  Agree'
<1> DEFINE c == accepted + 1
           d == LowestFree
<1>1. /\ at = "Handle" /\ c \in Conns /\ d \in Fds /\ file[d] = NONE
      /\ accepted' = c
      /\ file' = [file EXCEPT ![d] = c]
      /\ fd' = [fd EXCEPT ![c] = d]
      /\ UpdateChannel(c, d, {"IN"}, "InConn")
      /\ who' = c /\ known' = known \cup {c}
      /\ UNCHANGED <<revents, t_buf, then, closed, harm>>
  BY AcceptFacts
<1>2. Made' = Made \cup {c} /\ c \notin Made
  <2>1. accepted \in Nat /\ accepted' = accepted + 1
    BY <1>1, ConnectionAssumption DEF TypeInv, TypeOK
  <2>2. QED
    BY <2>1 DEF Made
<1>3. PICK b : b = c
  OBVIOUS
<1>4. PICK f : f = d
  OBVIOUS
<1> HIDE DEF c, d
<1>5. /\ then = "Loop" /\ c # NONE /\ c \notin closed
      /\ t_buf[c] = "NULL" /\ revents[c] = {}
  BY <1>1, <1>2, MadeFacts, TypeFacts, TypeParts DEF ControlPart, ThenInv
<1>6. Open' = Open \cup {c}
  <2>1. Open' = Made' \ closed' /\ Open = Made \ closed
    BY DEF Open, Made
  <2>2. QED
    BY <1>1, <1>2, <1>5, <2>1
<1>7. /\ Closing = {} /\ Closing' = {} /\ Watched = Open /\ Watched' = Open \cup {c}
  BY <1>1, <1>5, <1>6 DEF Closing, Watched
<1>8. /\ \A x \in Made : /\ x \in Open <=> file[fd[x]] = x
                         /\ x # NONE /\ fd[x] \in Fds
      /\ \A e \in Fds : file[e] # NONE => file[e] \in Made /\ fd[file[e]] = e
      /\ Open \subseteq Made
  BY TypeFacts DEF Agree, SocketsInv
<1>9. /\ file'[d] = c /\ \A e \in Fds \ {d} : file'[e] = file[e]
      /\ fd'[c] = d /\ \A x \in Made : fd'[x] = fd[x]
  <2>1. /\ file \in [Fds -> Conns \cup {NONE}]
        /\ fd \in [Conns -> Fds \cup {NONE}] /\ Made \subseteq Conns
    BY TypeFacts DEF TypeInv, TypeOK
  <2>2. QED
    BY <1>1, <1>2, <2>1
<1>10. \A x \in Open : fd[x] # d
  BY <1>1, <1>8
<1>11. SocketsInv'
  <2>1. ASSUME NEW x \in Made'
        PROVE  x \in Open' <=> file'[fd'[x]] = x
    <3>1. CASE x = c
      BY <1>6, <1>9, <3>1
    <3>2. CASE x # c
      <4>1. x \in Made /\ fd'[x] = fd[x]
        BY <1>2, <1>9, <3>2
      <4>2. CASE fd[x] = d
        <5>1. x \notin Open /\ file'[fd'[x]] = c
          BY <1>9, <1>10, <4>1, <4>2
        <5>2. QED
          BY <1>6, <3>2, <5>1
      <4>3. CASE fd[x] # d
        <5>1. file'[fd'[x]] = file[fd[x]]
          BY <1>8, <1>9, <4>1, <4>3
        <5>2. QED
          BY <1>6, <1>8, <3>2, <4>1, <5>1
      <4>4. QED
        BY <4>2, <4>3
    <3>3. QED
      BY <3>1, <3>2
  <2>2. ASSUME NEW e \in Fds, file'[e] # NONE
        PROVE  file'[e] \in Made' /\ fd'[file'[e]] = e
    <3>1. CASE e = d
      BY <1>2, <1>9, <3>1
    <3>2. CASE e # d
      BY <1>2, <1>8, <1>9, <2>2, <3>2
    <3>3. QED
      BY <3>1, <3>2
  <2>3. Open' \subseteq known' /\ harm' = {}
    BY <1>1, <1>6 DEF Agree, SocketsInv
  <2>4. QED
    BY <1>7, <2>1, <2>2, <2>3 DEF SocketsInv
<1>12. PICK P : P = Watched
  OBVIOUS
<1>13. Tables(P \cup {b})' /\ at' = "InConn"
  <2>1. Tables(P) /\ b \in Conns \ P /\ f \in Fds /\ \A x \in P : fd[x] # f
    BY <1>1, <1>2, <1>3, <1>4, <1>5, <1>7, <1>8, <1>10, <1>12, WatchedFacts
  <2>2. {"IN"} \in SUBSET Events
    BY DEF Events
  <2>3. UpdateChannel(b, f, {"IN"}, "InConn") /\ fd' = [fd EXCEPT ![b] = f]
    BY <1>1, <1>3, <1>4
  <2>4. QED
    BY <2>1, <2>2, <2>3, RegisterRight
<1>14. ControlInv'
  BY <1>1, <1>5, <1>7, <1>13 DEF Agree, ControlInv
<1>15. RingInv'
  <2>1. at # "InClose" /\ at # "Dead"
    BY <1>1
  <2>2. QED
    BY <1>1, <2>1 DEF Agree, RingInv
<1>16. TablesInv'
  <2>1. /\ Registered' = P \cup {b} /\ EntriesInv' /\ Injective(map')
        /\ Elements(map') = P \cup {b}
    BY <1>13 DEF Tables
  <2>2. QED
    BY <1>1, <1>3, <1>5, <1>7, <1>12, <2>1 DEF TablesInv
<1>17. QED
  BY <1>11, <1>14, <1>15, <1>16 DEF Agree


-----------------------------------------------------------------------------
(* The invariant.                                                          *)

LEMMA AgreeInit ==
  ASSUME Init
  PROVE  TypeInv /\ AgreeInv
<1>1. TypeInv
  BY TypeInit
<1>2. /\ Open = {} /\ Closing = {} /\ Watched = {} /\ Registered = {} /\ Made = {}
  BY ConnectionAssumption DEF Init, Open, Closing, Watched, Registered, Made
<1>3. Elements(map) = {} /\ Injective(map) /\ EntriesInv
  BY <1>2 DEF Init, Elements, Injective, EntriesInv
<1>4. SocketsInv
  BY <1>2 DEF Init, SocketsInv
<1>5. ControlInv /\ RingInv
  BY DEF Init, ControlInv, RingInv
<1>6. TablesInv
  BY <1>2, <1>3 DEF Init, TablesInv
<1>7. QED
  BY <1>1, <1>4, <1>5, <1>6 DEF AgreeInv, Agree

(* A limit that was met stays met.                                         *)
LEMMA MetStays ==
  ASSUME [Next]_vars
  PROVE  met \subseteq met'
<1>1. CASE UNCHANGED vars
  BY <1>1 DEF vars, history
<1>2. CASE UserCall
  <2>1. PICK c \in Conns :
          \/ UserCloses(c) \/ UserWrites(c) \/ UserWriteFails(c) \/ UserWriteKills(c)
          \/ UserPauses(c) \/ UserResumes(c)
    BY <1>2 DEF UserCall
  <2>2. CASE UserCloses(c)
    BY <2>2 DEF UserCloses
  <2>3. CASE ~UserCloses(c)
    BY <2>1, <2>3 DEF UserWrites, UserWriteFails, UserWriteKills, UserPauses,
                      UserResumes, MeetCall, Meet
  <2>4. QED
    BY <2>2, <2>3
<1>3. CASE PeerStep \/ LoopReturns
  BY <1>3 DEF PeerStep, LoopReturns, history
<1>4. CASE OwnerStep
  <2>1. CASE \E c \in Conns : HandleConn(c)
    <3>1. PICK c \in Conns : HandleConn(c)
      BY <2>1
    <3>2. CASE ReadFails(c) \/ WriteFails(c)
      BY <3>2 DEF ReadFails, WriteFails
    <3>3. CASE ~(ReadFails(c) \/ WriteFails(c))
      BY <3>1, <3>3, SMTT(30) DEF HandleConn, HandleError, HandleHup, ReadInput, ReadEnd,
                        SkipWrite, WriteAll, WriteSome, WriteKills, history
    <3>4. QED
      BY <3>2, <3>3
  <2>2. CASE ~ \E c \in Conns : HandleConn(c)
    BY <1>4, <2>2
       DEF OwnerStep, PollReturn, EndRound, Accept, EndAccept, AcceptFails,
           BeginTimers, EndTimers, EndErrorCallback, EndCloseCallback,
           EndTeardownCallback, TeardownNode, EndTeardown, history
  <2>3. QED
    BY <2>1, <2>2
<1>5. QED
  BY <1>1, <1>2, <1>3, <1>4 DEF Next

LEMMA AgreeStep ==
  ASSUME TypeInv, AgreeInv, [Next]_vars
  PROVE  AgreeInv'
<1> SUFFICES ASSUME met' = {}
             PROVE  Agree'
  BY DEF AgreeInv
<1>1. Agree
  BY MetStays DEF AgreeInv
<1>2. CASE UserCall
  BY <1>1, <1>2, UserClosesAgrees, UserCallAgrees DEF UserCall
<1>3. CASE PeerStep
  BY <1>1, <1>3, RoundAgrees
<1>4. CASE LoopReturns
  BY <1>1, <1>4, TeardownAgrees
<1>5. CASE OwnerStep
  <2>1. CASE \E c \in Conns : HandleConn(c)
    <3>1. PICK c \in Conns : HandleConn(c)
      BY <2>1
    <3>2. CASE HandleHup(c)
      BY <1>1, <3>2, ConnClosesAgree
    <3>3. CASE \/ HandleError(c) \/ ReadInput(c) \/ SkipWrite(c) \/ WriteSome(c)
               \/ WriteKills(c)
      BY <1>1, <3>3, HandlerAgrees
    <3>4. CASE ReadEnd(c)
      BY <1>1, <3>4, ReadEndAgrees
    <3>5. CASE WriteAll(c)
      BY <1>1, <3>5, WriteAllAgrees
    <3>6. CASE ReadFails(c) \/ WriteFails(c)
      BY <3>6 DEF ReadFails, WriteFails
    <3>7. QED
      BY <3>1, <3>2, <3>3, <3>4, <3>5, <3>6 DEF HandleConn
  <2>2. CASE Accept
    BY <1>1, <2>2, AcceptAgrees
  <2>3. CASE \/ PollReturn \/ EndRound \/ EndAccept \/ AcceptFails
             \/ BeginTimers \/ EndTimers
    BY <1>1, <2>3, RoundAgrees
  <2>4. CASE EndErrorCallback \/ TeardownNode
    BY <1>1, <2>4, ConnClosesAgree
  <2>5. CASE EndCloseCallback
    BY <1>1, <2>5, EndCloseAgrees
  <2>6. CASE EndTeardownCallback \/ EndTeardown
    BY <1>1, <2>6, TeardownAgrees
  <2>7. QED
    BY <1>5, <2>1, <2>2, <2>3, <2>4, <2>5, <2>6 DEF OwnerStep
<1>6. CASE UNCHANGED vars
  <2>1. UNCHANGED <<file, accepted, fd, events, revents, index, t_buf, poll_list,
                    map, known, closed, harm, at, who, then>>
    BY <1>6 DEF vars, kernel, channels, poller, callback, history
  <2>2. ControlInv' /\ Closing' = Closing
    BY <1>1, <2>1, ControlAgrees
  <2>3. QED
    BY <1>1, <2>1, <2>2, StaysAgreed
<1>7. QED
  BY <1>2, <1>3, <1>4, <1>5, <1>6 DEF Next

LEMMA TablesAgree == Spec => [](TypeInv /\ AgreeInv)
<1>1. Init => TypeInv /\ AgreeInv
  BY AgreeInit
<1>2. TypeInv /\ AgreeInv /\ [Next]_vars => (TypeInv /\ AgreeInv)'
  BY TypeStep, AgreeStep
<1>3. QED
  BY <1>1, <1>2, PTL DEF Spec

(* SocketsApart: the kernel's table has just the open connections, and no  *)
(* read(), write() or close() reached another's socket or none.            *)
THEOREM DescriptorsApart == Spec => []SocketsApart
<1>1. TypeInv /\ AgreeInv => SocketsApart
  BY DEF AgreeInv, Agree, SocketsInv, SocketsApart, Made, Socket
<1>2. QED
  BY <1>1, TablesAgree, PTL

(* RingFreedOnce: a ring is freed when its connection is closed, once, and *)
(* not used after that.                                                    *)
THEOREM RingsFreed == Spec => []RingFreedOnce
<1>1. TypeInv /\ AgreeInv => RingFreedOnce
  BY DEF AgreeInv, Agree, SocketsInv, RingInv, RingFreedOnce
<1>2. QED
  BY <1>1, TablesAgree, PTL


(* As many as there are places on a list.                                  *)
LEMMA CountedByPlace ==
  ASSUME NEW S, NEW n \in Nat, NEW place,
         \A x \in S : place[x] \in 1 .. n,
         \A x, y \in S : place[x] = place[y] => x = y,
         \A k \in 1 .. n : \E x \in S : place[x] = k
  PROVE  Cardinality(S) = n
<1> DEFINE f == [k \in 1 .. n |-> CHOOSE x \in S : place[x] = k]
<1>1. \A k \in 1 .. n : f[k] \in S /\ place[f[k]] = k
  OBVIOUS
<1>2. \A x \in S : place[x] \in 1 .. n /\ f[place[x]] = x
  BY <1>1
<1>3. f \in [1 .. n -> S]
  BY <1>1
<1> HIDE DEF f
<1>4. \A k, l \in 1 .. n : f[k] = f[l] => k = l
  BY <1>1
<1>5. \A x \in S : \E k \in 1 .. n : f[k] = x
  BY <1>2
<1>6. f \in Bijection(1 .. n, S)
  BY <1>3, <1>4, <1>5, Fun_IsBij
<1>7. ExistsBijection(1 .. n, S)
  BY <1>6 DEF ExistsBijection
<1>8. QED
  BY <1>7, FS_CountingElements

LEMMA CountedByList ==
  ASSUME NEW S, NEW s \in Seq(S), Injective(s)
  PROVE  Cardinality(Elements(s)) = Len(s)
<1> DEFINE n == Len(s)
<1>1. n \in Nat /\ s \in [1 .. n -> Elements(s)] /\ DOMAIN s = 1 .. n
  BY DEF Elements
<1>2. \A k, l \in 1 .. n : s[k] = s[l] => k = l
  BY <1>1 DEF Injective
<1>3. \A x \in Elements(s) : \E k \in 1 .. n : s[k] = x
  BY <1>1 DEF Elements
<1> HIDE DEF n
<1>4. s \in Bijection(1 .. n, Elements(s))
  BY <1>1, <1>2, <1>3, Fun_IsBij
<1>5. ExistsBijection(1 .. n, Elements(s))
  BY <1>4 DEF ExistsBijection
<1>6. QED
  BY <1>1, <1>5, FS_CountingElements DEF n

(* PollsTheOpen: at every poll() the poller watches exactly the open       *)
(* connections, each by its own entry, and no lookup of one fails.         *)
THEOREM OpenArePolled == Spec => []PollsTheOpen
<1>1. ASSUME TypeInv, AgreeInv, met = {}
      PROVE  /\ at = "Run" =>
                  /\ Len(poll_list) = Cardinality(Open)
                  /\ \A c \in Open : /\ index[c] \in DOMAIN poll_list
                                     /\ poll_list[index[c]]
                                          = [fd |-> fd[c], events |-> events[c]]
                                     /\ Find(map, fd[c]) = c
                  /\ Len(map) = Len(poll_list)
             /\ \A c \in Open : at # "Teardown" /\ then # "Teardown" => ~Astray(c)
  <2>1. Agree /\ Open \subseteq Watched
    BY <1>1, WatchedFacts DEF AgreeInv
  <2>2. PICK P : P = Watched
    OBVIOUS
  <2>3. then # "Teardown" => Tables(P)
    BY <1>1, <2>1, <2>2, WatchedFacts
  <2>4. ASSUME at = "Run"
        PROVE  /\ Len(poll_list) = Cardinality(Open)
               /\ \A c \in Open : /\ index[c] \in DOMAIN poll_list
                                  /\ poll_list[index[c]]
                                       = [fd |-> fd[c], events |-> events[c]]
                                  /\ Find(map, fd[c]) = c
               /\ Len(map) = Len(poll_list)
    <3>1. then = "Loop"
      BY <1>1, <2>4, TypeParts DEF ControlPart, ThenInv
    <3>2. Tables(P) /\ P = Open
      BY <1>1, <2>1, <2>2, <2>3, <3>1, WatchedFacts
    <3>3. poll_list \in Seq(Entry) /\ map \in Seq(Conns)
      BY <1>1, MadeFacts DEF TableTypes
    <3>4. /\ DOMAIN poll_list = 1 .. Len(poll_list) /\ Len(poll_list) \in Nat
          /\ Registered = Open
      BY <3>2, <3>3 DEF Tables
    <3>5. /\ \A c \in Open : /\ index[c] \in 1 .. Len(poll_list)
                             /\ poll_list[index[c]]
                                  = [fd |-> fd[c], events |-> events[c]]
          /\ \A c, d \in Open : index[c] = index[d] => c = d
          /\ \A k \in 1 .. Len(poll_list) : \E c \in Open : index[c] = k
      BY <3>2, <3>4 DEF Tables, EntriesInv
    <3>6. Len(poll_list) = Cardinality(Open)
      <4>1. PICK O, n, place : O = Open /\ n = Len(poll_list) /\ place = index
        OBVIOUS
      <4>2. /\ n \in Nat
            /\ \A c \in O : place[c] \in 1 .. n
            /\ \A c, d \in O : place[c] = place[d] => c = d
            /\ \A k \in 1 .. n : \E c \in O : place[c] = k
        BY <3>4, <3>5, <4>1
      <4>3. Cardinality(O) = n
        BY ONLY <4>2, CountedByPlace
      <4>4. QED
        BY <4>1, <4>3
    <3>7. Len(map) = Cardinality(Open)
      BY <3>2, <3>3, CountedByList DEF Tables
    <3>8. \A c \in Open : Find(map, fd[c]) = c
      BY <1>1, <3>2, FindRight
    <3>9. QED
      BY <3>4, <3>5, <3>6, <3>7, <3>8
  <2>5. ASSUME NEW c \in Open, then # "Teardown"
        PROVE  ~Astray(c)
    BY <1>1, <2>1, <2>2, <2>3, <2>5, LastRight
  <2>6. QED
    BY <2>4, <2>5
<1>2. TypeInv /\ AgreeInv => PollsTheOpen
  BY <1>1 DEF PollsTheOpen
<1>3. QED
  BY <1>2, TablesAgree, PTL

(* ToldOnce: a close callback begins for a connection that the user takes  *)
(* for open, and for no other.                                             *)
LEMMA ToldStep ==
  ASSUME TypeInv, Agree, [Next]_vars, at' = "InClose", at # "InClose"
  PROVE  who' \in known
<1>1. ASSUME NEW c \in Open, NEW next, ConnClose(c, next)
      PROVE  who' \in known
  BY <1>1, OpenFacts DEF ConnClose
<1>2. CASE OwnerStep
  <2>1. CASE \E c \in Conns : HandleConn(c)
    <3>1. PICK c \in Conns : HandleConn(c)
      BY <2>1
    <3>2. revents[c] # {} => c \in Open
      <4>1. then = "Loop"
        BY <3>1, HandlerFacts
      <4>2. QED
        BY <4>1, WatchedFacts DEF Agree, ControlInv
    <3>3. CASE HandleHup(c)
      <4>1. revents[c] # {} /\ ConnClose(c, "Invalidate")
        BY <3>3 DEF HandleHup, HungUp
      <4>2. QED
        BY <1>1, <3>2, <4>1
    <3>4. CASE HandleError(c) \/ ReadFails(c) \/ WriteFails(c)
      BY <3>4 DEF HandleError, ReadFails, WriteFails, ConnError
    <3>5. CASE ReadInput(c) \/ SkipWrite(c) \/ WriteSome(c) \/ WriteKills(c)
      BY <3>5 DEF ReadInput, SkipWrite, WriteSome, WriteKills, NextChannel
    <3>6. CASE ReadEnd(c)
      BY <3>6 DEF ReadEnd, ConnectionClose, Invalidate
    <3>7. CASE WriteAll(c)
      BY <3>7 DEF WriteAll, UpdateChannel
    <3>8. QED
      BY <3>1, <3>3, <3>4, <3>5, <3>6, <3>7 DEF HandleConn
  <2>2. CASE EndErrorCallback
    <3>1. at = "InError" /\ ConnClose(who, then)
      BY <2>2 DEF EndErrorCallback
    <3>2. who \in Open
      BY <3>1 DEF Agree, ControlInv
    <3>3. QED
      BY <1>1, <3>1, <3>2
  <2>3. CASE TeardownNode
    <3>1. PICK c \in Elements(map) : at = "Teardown" /\ ConnClose(c, "Teardown")
      BY <2>3, TeardownFacts
    <3>2. who = NONE
      BY <3>1, TypeParts DEF ControlPart
    <3>3. c \in Open
      BY <3>1, <3>2, WatchedFacts DEF Agree, TablesInv
    <3>4. QED
      BY <1>1, <3>1, <3>3
  <2>4. CASE \/ PollReturn \/ EndRound \/ Accept \/ EndAccept \/ AcceptFails
             \/ BeginTimers \/ EndTimers \/ EndCloseCallback
             \/ EndTeardownCallback \/ EndTeardown
    <3>1. CASE PollReturn
      BY <3>1, PollType
    <3>2. CASE Accept
      BY <3>2 DEF Accept, UpdateChannel
    <3>3. CASE \/ EndRound \/ EndAccept \/ AcceptFails \/ BeginTimers
               \/ EndTimers \/ EndTeardownCallback \/ EndTeardown
      BY <3>3 DEF EndRound, EndAccept, AcceptFails, BeginTimers, EndTimers,
                  EndTeardownCallback, EndTeardown, NextChannel
    <3>4. CASE EndCloseCallback
      BY <3>4 DEF EndCloseCallback
    <3>5. QED
      BY <2>4, <3>1, <3>2, <3>3, <3>4
  <2>5. QED
    BY <1>2, <2>1, <2>2, <2>3, <2>4 DEF OwnerStep
<1>3. CASE UserCall
  <2>1. PICK c \in Conns :
          \/ UserCloses(c) \/ UserWrites(c) \/ UserWriteFails(c) \/ UserWriteKills(c)
          \/ UserPauses(c) \/ UserResumes(c)
    BY <1>3 DEF UserCall
  <2>2. at' \in {at, "Dead"}
    BY <2>1 DEF UserCloses, UserWrites, UserWriteFails, UserWriteKills, UserPauses,
                UserResumes, ConnectionClose, Invalidate, UpdateChannel
  <2>3. QED
    BY <2>2
<1>4. CASE PeerStep \/ LoopReturns \/ UNCHANGED vars
  BY <1>4 DEF PeerStep, LoopReturns, vars
<1>5. QED
  BY <1>2, <1>3, <1>4 DEF Next

THEOREM ClosesAreTold == Spec => ToldOnce
<1>1. TypeInv /\ AgreeInv /\ [Next]_vars =>
        [at' = "InClose" /\ at # "InClose" /\ met = {} => who' \in known]_vars
  BY ToldStep DEF AgreeInv
<1>2. QED
  BY <1>1, TablesAgree, PTL DEF Spec, ToldOnce
=============================================================================
