------------------------------- MODULE Poller -------------------------------
(***************************************************************************)
(* The poller of src/src/core/poller.c and the channels that register with *)
(* it (src/src/core/channel.c), as the owner of an event loop drives them: *)
(* poller_poll() lists the ready channels, channel_handler() is called for *)
(* each entry of that list, and the callbacks it makes, like the functions *)
(* that run between two poll()s, register, change and remove channels.     *)
(*                                                                         *)
(* A channel is found by its descriptor through the chains of a hash table *)
(* and, first, through a cache of pointers into them.  Removing a channel  *)
(* frees its fd_map and leaves the cache alone.  What a freed fd_map reads *)
(* as is the allocator's link, the low half of a heap address: no          *)
(* descriptor in use.                                                      *)
(*                                                                         *)
(* Indices into poll_list start at 1 here, and 0 stands for the code's -1. *)
(***************************************************************************)
EXTENDS Naturals, Sequences, FiniteSets

CONSTANTS
  Channels,
  Fd,        \* the descriptor of every channel
  Readers,   \* the channels with a read callback
  Writers,   \* and with a write callback
  Nodes,     \* the memory that malloc() can hand out for an fd_map
  Reports,   \* the conditions the kernel reports in revents
  MaxOps,    \* bound: operations the callbacks of one round may make
  FREED, NULL

Read == {"IN", "PRI"}
Events == Read \cup {"OUT"}
Conditions == Events \cup {"ERR", "HUP"}

(* A node of the map.                                                      *)
FdMap == [fd : Nat, ch : Channels]

ASSUME PollerAssumption ==
  /\ IsFiniteSet(Channels)
  /\ Fd \in [Channels -> Nat]
  /\ Readers \subseteq Channels /\ Writers \subseteq Channels
  /\ Reports \subseteq Conditions
  /\ MaxOps \in Nat
  /\ NULL \notin Nodes /\ \A E \in SUBSET Events : E # NULL
  /\ FREED \notin FdMap

FD_MAP_NR_HASH == 32
FD_MAP_CACHE_ENTRY == FD_MAP_NR_HASH \div 4

Bucket(fd) == fd % FD_MAP_NR_HASH
Slot(fd) == fd % FD_MAP_CACHE_ENTRY

VARIABLES
  heap,       \* every node's contents, or FREED
  map,        \* the chains
  cache,
  poll_list,
  channel,    \* events, revents and index of every channel
  open,       \* channels whose descriptor is open
  asserted,   \* a BUG_ON or a DIE was reached
  at,         \* what the owner is doing
  count,      \* rounds that poller_poll() still makes over poll_list
  j,          \* its place in poll_list
  active,     \* el->active_channels
  cur,        \* the owner's place in it
  ops         \* operations made since poll()

tables == <<heap, map, cache, poll_list, channel, asserted>>
control == <<at, count, j, active, cur>>
vars == <<tables, open, control, ops>>

(* An entry of poll_list, a channel.                                       *)
Pollfd == [fd : Nat, events : SUBSET Events, revents : SUBSET Conditions]
Channel ==
  [events : SUBSET Events, revents : SUBSET Conditions, index : Nat]

(* The first prints and goes on, the second ends the program.              *)
BUG_ON(x) == asserted' = (asserted \/ x)
DIE == asserted' = TRUE

NoEvents == [events |-> {}, revents |-> {}, index |-> 0]

Init ==
  /\ heap = [n \in Nodes |-> FREED]
  /\ map = [b \in 0 .. FD_MAP_NR_HASH - 1 |-> <<>>]
  /\ cache = [s \in 0 .. FD_MAP_CACHE_ENTRY - 1 |-> NULL]
  /\ poll_list = <<>>
  /\ channel = [c \in Channels |-> NoEvents]
  /\ open = {}
  /\ asserted = FALSE
  /\ at = "Run"
  /\ count = 0
  /\ j = 1
  /\ active = <<>>
  /\ cur = 1
  /\ ops = 0

-----------------------------------------------------------------------------
(* Looking a descriptor up.                                                *)

(* The node at n says fd.                                                  *)
Holds(n, fd) == heap[n] # FREED /\ heap[n].fd = fd

CacheHit(ch, fd) == ch[Slot(fd)] # NULL /\ Holds(ch[Slot(fd)], fd)

(* A slip: only the head of the chain is looked at.                        *)
CheckMapHead(fd) ==
  LET chain == map[Bucket(fd)]
  IN  IF chain # <<>> /\ Holds(chain[1], fd) THEN chain[1] ELSE NULL

(* poller_check_map(): the first node of the chain that says fd.           *)
CheckMap(fd) ==
  LET chain == map[Bucket(fd)]
      hits == {k \in DOMAIN chain : Holds(chain[k], fd)}
  IN  IF hits = {} THEN NULL
      ELSE chain[CHOOSE k \in hits : \A l \in hits : k <= l]

(* With the cache as it is in ch.                                          *)
Find(ch, fd) == IF CacheHit(ch, fd) THEN ch[Slot(fd)] ELSE CheckMap(fd)

(* get_channel() leaves the node it found in the cache.                    *)
CacheFound(fd) == [cache EXCEPT ![Slot(fd)] = Find(cache, fd)]

-----------------------------------------------------------------------------
(* Registering and removing.                                               *)

(* A slip: the node is put into the cache, not into its chain.             *)
RegisterUnlinked(c, e) ==
  /\ channel[c].index = 0
  /\ \E n \in Nodes :
       /\ heap[n] = FREED
       /\ heap' = [heap EXCEPT ![n] = [fd |-> Fd[c], ch |-> c]]
       /\ cache' = [cache EXCEPT ![Slot(Fd[c])] = n]
  /\ poll_list' =
       Append(poll_list, [fd |-> Fd[c], events |-> e, revents |-> {}])
  /\ channel' = [channel EXCEPT ![c].events = e,
                                ![c].index = Len(poll_list) + 1]
  /\ UNCHANGED <<map, asserted>>

(* poller_update_channel(), for a channel whose events have become e.      *)
Register(c, e) ==
  /\ channel[c].index = 0
  /\ \E n \in Nodes :
       /\ heap[n] = FREED
       /\ heap' = [heap EXCEPT ![n] = [fd |-> Fd[c], ch |-> c]]
       /\ map' = [map EXCEPT ![Bucket(Fd[c])] = <<n>> \o @]
       /\ cache' = [cache EXCEPT ![Slot(Fd[c])] = n]
  /\ poll_list' =
       Append(poll_list, [fd |-> Fd[c], events |-> e, revents |-> {}])
  /\ channel' = [channel EXCEPT ![c].events = e,
                                ![c].index = Len(poll_list) + 1]
  /\ UNCHANGED asserted

Change(c, e) ==
  LET k == channel[c].index
  IN  /\ k # 0
      /\ poll_list' = [poll_list EXCEPT ![k].events = e]
      /\ channel' = [channel EXCEPT ![c].events = e]
      /\ BUG_ON(poll_list[k].fd # Fd[c])
      /\ UNCHANGED <<heap, map, cache>>

UpdateChannel(c, e) == Register(c, e) \/ Change(c, e)

(* The sequence without its k-th element.                                  *)
WithoutElement(s, k) ==
  [l \in 1 .. Len(s) - 1 |-> IF l < k THEN s[l] ELSE s[l + 1]]

(* A slip: the elements behind the k-th move up.                           *)
ShiftDelete(s, k) == WithoutElement(s, k)

(* vector_del(): the last element takes the place of the k-th.             *)
SwapDelete(s, k) ==
  [l \in 1 .. Len(s) - 1 |-> IF l = k THEN s[Len(s)] ELSE s[l]]

(* hlist_del()                                                             *)
Unlink(chain, n) ==
  WithoutElement(chain, CHOOSE k \in DOMAIN chain : chain[k] = n)

(* A slip: the node is unlinked and not freed.                             *)
DelFdmapLeaks(ch, fd) ==
  LET n == Find(ch, fd)
  IN  IF n = NULL
      THEN UNCHANGED <<heap, map>>
      ELSE /\ map' = [map EXCEPT ![Bucket(fd)] = Unlink(@, n)]
           /\ UNCHANGED heap

(* poller_del_fdmap(), the cache being ch: hlist_del() and free().         *)
DelFdmap(ch, fd) ==
  LET n == Find(ch, fd)
  IN  IF n = NULL
      THEN UNCHANGED <<heap, map>>
      ELSE /\ heap' = [heap EXCEPT ![n] = FREED]
           /\ map' = [map EXCEPT ![Bucket(fd)] = Unlink(@, n)]

(* A slip: revents is left as it is.                                       *)
RemoveLastStale(c) ==
  LET k == channel[c].index
  IN  /\ k # 0
      /\ poll_list[Len(poll_list)].fd = Fd[c]
      /\ poll_list' = SwapDelete(poll_list, k)
      /\ DelFdmap(cache, Fd[c])
      /\ channel' = [channel EXCEPT ![c].index = 0, ![c].events = {}]
      /\ BUG_ON(Find(cache, Fd[c]) = NULL)
      /\ UNCHANGED cache

(* poller_remove_channel() and the rest of channel_invalidate(), c being   *)
(* at the end of poll_list ...                                             *)
RemoveLast(c) ==
  LET k == channel[c].index
  IN  /\ k # 0
      /\ poll_list[Len(poll_list)].fd = Fd[c]
      /\ poll_list' = SwapDelete(poll_list, k)
      /\ DelFdmap(cache, Fd[c])
      /\ channel' = [channel EXCEPT ![c] = NoEvents]
      /\ BUG_ON(Find(cache, Fd[c]) = NULL)
      /\ UNCHANGED cache

(* A slip: the channel moved keeps its index.                              *)
RemoveInsideStale(c) ==
  LET k == channel[c].index
      last == poll_list[Len(poll_list)].fd
  IN  /\ k # 0
      /\ last # Fd[c]
      /\ cache' = CacheFound(last)
      /\ poll_list' = SwapDelete(poll_list, k)
      /\ channel' = [channel EXCEPT ![c] = NoEvents]
      /\ DelFdmap(CacheFound(last), Fd[c])
      /\ UNCHANGED asserted

(* ... or not: the channel that is, takes its index.                       *)
RemoveInside(c) ==
  LET k == channel[c].index
      last == poll_list[Len(poll_list)].fd
      n == Find(cache, last)
  IN  /\ k # 0
      /\ last # Fd[c]
      /\ IF n = NULL
         THEN /\ DIE
              /\ UNCHANGED <<heap, map, cache, poll_list, channel>>
         ELSE /\ cache' = CacheFound(last)
              /\ poll_list' = SwapDelete(poll_list, k)
              /\ channel' = [channel EXCEPT ![heap[n].ch].index = k,
                                            ![c] = NoEvents]
              /\ DelFdmap(CacheFound(last), Fd[c])
              /\ BUG_ON(Find(CacheFound(last), Fd[c]) = NULL)

Forget(c) ==
  /\ channel[c].index = 0
  /\ channel' = [channel EXCEPT ![c] = NoEvents]
  /\ UNCHANGED <<heap, map, cache, poll_list, asserted>>

(* channel_invalidate()                                                    *)
Invalidate(c) == RemoveLast(c) \/ RemoveInside(c) \/ Forget(c)

-----------------------------------------------------------------------------
(* The operations of the upper layers, in a callback or between poll()s.   *)

InCallback == at \in {"InError", "InHup", "InRead", "InWrite"}

Op(c) ==
  /\ at = "Run" \/ InCallback
  /\ c \in open
  /\ ops < MaxOps
  /\ ops' = ops + 1
  /\ UNCHANGED <<open, control>>

(* The poller is not told of events for which there is no callback.        *)
Enable(c, e, told) ==
  IF told
  THEN UpdateChannel(c, e)
  ELSE /\ channel' = [channel EXCEPT ![c].events = e]
       /\ UNCHANGED <<heap, map, cache, poll_list, asserted>>

EnableRead(c) ==
  Op(c) /\ Enable(c, channel[c].events \cup Read, c \in Readers)

EnableUrgent(c) == Op(c) /\ UpdateChannel(c, channel[c].events \cup {"PRI"})

DisableRead(c) ==
  /\ Op(c)
  /\ channel[c].events \cap Read # {}
  /\ UpdateChannel(c, channel[c].events \ Read)

EnableWrite(c) ==
  Op(c) /\ Enable(c, channel[c].events \cup {"OUT"}, c \in Writers)

(* A slip: the poller is not told.                                         *)
DisableWriteUntold(c) ==
  /\ Op(c)
  /\ "OUT" \in channel[c].events
  /\ channel' = [channel EXCEPT ![c].events = @ \ {"OUT"}]
  /\ UNCHANGED <<heap, map, cache, poll_list, asserted>>

DisableWrite(c) ==
  /\ Op(c)
  /\ "OUT" \in channel[c].events
  /\ UpdateChannel(c, channel[c].events \ {"OUT"})

EnableRw(c) ==
  /\ Op(c)
  /\ channel[c].events \cap Read = {} \/ "OUT" \notin channel[c].events
  /\ UpdateChannel(c, Events)

DisableRw(c) ==
  /\ Op(c)
  /\ channel[c].events # {}
  /\ UpdateChannel(c, {})

InvalidateChannel(c) == Op(c) /\ Invalidate(c)

(* channel_init() for a descriptor the kernel has just handed out, to      *)
(* server_accept(), a read callback, or outside of any callback.           *)
OpenChannel(c) ==
  /\ at \in {"Run", "InRead"}
  /\ c \notin open
  /\ \A d \in open : Fd[d] # Fd[c]
  /\ open' = open \cup {c}
  /\ channel' = [channel EXCEPT ![c] = NoEvents]
  /\ UNCHANGED <<heap, map, cache, poll_list, asserted, control, ops>>

(* The regulations of channel.c: upper layers invalidate a channel before  *)
(* they close its descriptor, save in its own error and close callbacks,   *)
(* which channel_handler() follows with channel_invalidate().              *)
CloseChannel(c) ==
  /\ at = "Run" \/ InCallback
  /\ c \in open
  /\ \/ channel[c].index = 0
     \/ at \in {"InError", "InHup"} /\ c = active[cur]
  /\ open' = open \ {c}
  /\ UNCHANGED <<tables, control, ops>>

UserOp ==
  \E c \in Channels :
    \/ EnableRead(c) \/ EnableUrgent(c) \/ DisableRead(c)
    \/ EnableWrite(c) \/ DisableWrite(c) \/ EnableRw(c) \/ DisableRw(c)
    \/ InvalidateChannel(c) \/ OpenChannel(c) \/ CloseChannel(c)

-----------------------------------------------------------------------------
(* poller_poll()                                                           *)

(* What poll() may report for an entry: ERR and HUP unasked, and never HUP *)
(* together with OUT.                                                      *)
MayReport(entry, r) ==
  /\ r \subseteq entry.events \cup {"ERR", "HUP"}
  /\ ~({"OUT", "HUP"} \subseteq r)

PollReturn ==
  /\ at = "Run"
  /\ \E r \in [DOMAIN poll_list -> SUBSET Reports] :
       LET ready == {k \in DOMAIN poll_list : r[k] # {}}
       IN  /\ \A k \in DOMAIN poll_list : MayReport(poll_list[k], r[k])
           /\ poll_list' = [k \in DOMAIN poll_list |->
                              [poll_list[k] EXCEPT !.revents = r[k]]]
           /\ count' = Cardinality(ready)
           /\ at' = IF ready = {} THEN "Next" ELSE "Scan"
  /\ j' = 1
  /\ active' = <<>>
  /\ cur' = 1
  /\ ops' = 0
  /\ UNCHANGED <<heap, map, cache, channel, asserted, open>>

(* A slip: one entry too many.                                             *)
NextEntryBeyond ==
  IF j <= Len(poll_list)
  THEN j' = j + 1 /\ UNCHANGED <<count, at>>
  ELSE /\ j' = 1
       /\ count' = count - 1
       /\ at' = IF count = 1 THEN "Next" ELSE "Scan"

(* One entry of poll_list, in one of the count rounds over it.             *)
NextEntry ==
  IF j < Len(poll_list)
  THEN j' = j + 1 /\ UNCHANGED <<count, at>>
  ELSE /\ j' = 1
       /\ count' = count - 1
       /\ at' = IF count = 1 THEN "Next" ELSE "Scan"

ScanIdle ==
  /\ at = "Scan"
  /\ poll_list[j].revents = {}
  /\ NextEntry
  /\ UNCHANGED <<tables, open, active, cur, ops>>

(* A slip: `c->revents |= array->revents'.                                 *)
ScanReadyOrs ==
  LET fd == poll_list[j].fd
      n == Find(cache, fd)
  IN  /\ at = "Scan"
      /\ poll_list[j].revents # {}
      /\ n # NULL
      /\ cache' = CacheFound(fd)
      /\ channel' = [channel EXCEPT ![heap[n].ch].revents =
                                       @ \cup poll_list[j].revents]
      /\ active' = Append(active, heap[n].ch)
      /\ NextEntry
      /\ UNCHANGED <<heap, map, poll_list, asserted, open, cur, ops>>

(* A descriptor that is not found ends the program, in get_channel().      *)
ScanReady ==
  LET fd == poll_list[j].fd
      n == Find(cache, fd)
  IN  /\ at = "Scan"
      /\ poll_list[j].revents # {}
      /\ IF n = NULL
         THEN /\ DIE
              /\ at' = "Dead"
              /\ UNCHANGED <<cache, channel, active, count, j>>
         ELSE /\ cache' = CacheFound(fd)
              /\ channel' = [channel EXCEPT ![heap[n].ch].revents =
                                               poll_list[j].revents]
              /\ active' = Append(active, heap[n].ch)
              /\ BUG_ON(Fd[heap[n].ch] # fd)
              /\ NextEntry
      /\ UNCHANGED <<heap, map, poll_list, open, cur, ops>>

-----------------------------------------------------------------------------
(* event_loop() over the active list, and channel_handler().               *)

(* The channel being handled.                                              *)
Handled == active[cur]

Goto(next) == at' = next /\ UNCHANGED <<open, count, j, active, ops>>

BeginHandler ==
  /\ at = "Next"
  /\ Goto(IF cur <= Len(active) THEN "Error" ELSE "Run")
  /\ UNCHANGED <<tables, cur>>

HandleError ==
  /\ at = "Error"
  /\ Goto(IF "ERR" \in channel[Handled].revents THEN "InError" ELSE "Hup")
  /\ UNCHANGED <<tables, cur>>

EndErrorCallback ==
  at = "InError" /\ Invalidate(Handled) /\ Goto("Hup") /\ UNCHANGED cur

HandleHup ==
  /\ at = "Hup"
  /\ Goto(IF "HUP" \in channel[Handled].revents /\ "IN" \notin channel[Handled].revents
          THEN "InHup" ELSE "Read")
  /\ UNCHANGED <<tables, cur>>

EndCloseCallback ==
  at = "InHup" /\ Invalidate(Handled) /\ Goto("Read") /\ UNCHANGED cur

HandleRead ==
  /\ at = "Read"
  /\ Goto(IF Handled \in Readers /\ channel[Handled].revents \cap Read # {}
          THEN "InRead" ELSE "Write")
  /\ UNCHANGED <<tables, cur>>

EndReadCallback ==
  at = "InRead" /\ Goto("Write") /\ UNCHANGED <<tables, cur>>

HandleWrite ==
  /\ at = "Write"
  /\ IF Handled \in Writers /\ "OUT" \in channel[Handled].revents
     THEN Goto("InWrite") /\ UNCHANGED cur
     ELSE Goto("Next") /\ cur' = cur + 1
  /\ UNCHANGED tables

EndWriteCallback ==
  at = "InWrite" /\ Goto("Next") /\ cur' = cur + 1 /\ UNCHANGED tables

LoopStep ==
  \/ PollReturn \/ ScanIdle \/ ScanReady \/ BeginHandler \/ HandleError
 \/ EndErrorCallback \/ HandleHup \/ EndCloseCallback \/ HandleRead
  \/ EndReadCallback \/ HandleWrite \/ EndWriteCallback

Next == UserOp \/ LoopStep

Spec == Init /\ [][Next]_vars

-----------------------------------------------------------------------------
(* Properties.                                                             *)

Registered == {c \in Channels : channel[c].index # 0}

Live == {n \in Nodes : heap[n] # FREED}

(* Types, and the cursors are inside what they run over.                   *)
TypeOK ==
  /\ heap \in [Nodes -> FdMap \cup {FREED}]
  /\ map \in [0 .. FD_MAP_NR_HASH - 1 -> Seq(Nodes)]
  /\ cache \in [0 .. FD_MAP_CACHE_ENTRY - 1 -> Nodes \cup {NULL}]
  /\ poll_list \in Seq(Pollfd)
  /\ channel \in [Channels -> Channel]
  /\ open \in SUBSET Channels
  /\ asserted \in BOOLEAN
  /\ at \in {"Run", "Scan", "Next", "Error", "InError", "Hup", "InHup",
             "Read", "InRead", "Write", "InWrite", "Dead"}
  /\ count \in Nat
  /\ j \in Nat \ {0}
  /\ active \in Seq(Channels)
  /\ cur \in Nat \ {0}
  /\ ops \in 0 .. MaxOps
  /\ at = "Scan" => j <= Len(poll_list)
  /\ at \notin {"Run", "Scan", "Next", "Dead"} => cur <= Len(active)

(* Deletion moves the last entry of poll_list into the gap, and a channel  *)
(* knows its entry by position: still every entry belongs to exactly one   *)
(* channel, the one whose index says so.                                   *)
IndexAgrees ==
  /\ \A c \in Registered :
       /\ channel[c].index <= Len(poll_list)
       /\ poll_list[channel[c].index].fd = Fd[c]
  /\ \A k \in DOMAIN poll_list :
       \E c \in Registered :
         channel[c].index = k
         /\ \A d \in Registered : channel[d].index = k => d = c

(* The nodes in use are those in the chains, each in the chain of its      *)
(* descriptor, one for every registered channel: none leaks, none is       *)
(* freed while it is linked.                                               *)
MapAgrees ==
  /\ \A n \in Live : \E c \in Registered : heap[n] = [fd |-> Fd[c], ch |-> c]
  /\ \A c \in Registered :
       \E n \in Live : heap[n].ch = c /\ \A m \in Live \ {n} : heap[m].ch # c
  /\ \A b \in DOMAIN map :
       {map[b][k] : k \in DOMAIN map[b]} = {n \in Live : Bucket(heap[n].fd) = b}

(* Cache slots still point to nodes that were freed and handed out again   *)
(* for other descriptors; the lookup of a registered channel's descriptor  *)
(* finds that channel all the same.                                        *)
LookupRight ==
  \A c \in Registered :
    Find(cache, Fd[c]) # NULL /\ heap[Find(cache, Fd[c])].ch = c

(* poll() is asked for nothing that the channel's owner does not want, and *)
(* for all that it wants but events for which it has no callback, which    *)
(* channel_enable_read() and channel_enable_write() keep to themselves.    *)
Unheard(c) ==
  (IF c \in Readers THEN {} ELSE Read) \cup (IF c \in Writers THEN {} ELSE {"OUT"})

EventsAgree ==
  \A c \in Registered :
    LET told == poll_list[channel[c].index].events
    IN  /\ told \subseteq channel[c].events
        /\ channel[c].events \ told \subseteq Unheard(c)

(* A channel removed by another channel's callback is still on the active  *)
(* list of this round; no condition is left on it, so none of its own      *)
(* callbacks is called.                                                    *)
ReadyIsRegistered ==
  \A c \in Channels : channel[c].revents # {} => c \in Registered

(* While the active list is walked, and entries of poll_list move under    *)
(* the callbacks, what a listed channel is called back for is what this    *)
(* poll() reported for its descriptor.                                     *)
HandlesWhatPollReported ==
  at \notin {"Run", "Scan", "Dead"} =>
    \A k \in DOMAIN active :
      LET c == channel[active[k]]
      IN  c.revents # {} => poll_list[c.index].revents = c.revents

(* No BUG_ON and no DIE of poller.c is ever reached.                       *)
NeverAsserts == ~asserted

(* Seen from a channel, the poller is the table of PollSet: an operation   *)
(* changes what is asked for one channel, the one it is called for.        *)
Asked == INSTANCE PollSet WITH
           Channel <- Channels,
           Event <- Events,
           NONE <- NULL,
           asked <- [c \in Channels |->
                       IF channel[c].index = 0 THEN NULL
                       ELSE poll_list[channel[c].index].events]

AskedSpec == Asked!Spec
=============================================================================
