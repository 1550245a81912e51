----------------------------- MODULE Connection -----------------------------
(***************************************************************************)
(* The life of the connections of a server (src/src/server.c): accepted in *)
(* the read callback of the listening channel, closed by their user, by    *)
(* the end of the peer's stream, by an error, or with the loop.  All of it *)
(* runs in the owner thread; the peers do not wait for it.                 *)
(*                                                                         *)
(* Closing one touches three tables that know it by its descriptor: the    *)
(* kernel's, which hands the number out again, the poller's, and the list  *)
(* of active channels that is being walked.  What a connection sends is in *)
(* SendBuffer, the inside of the poller's map in Poller.                   *)
(*                                                                         *)
(* Connections are numbered as they are accepted.  Indices into poll_list  *)
(* start at 1, and 0 stands for -1; the entries of the listening channel,  *)
(* the timerfd and the eventfd stay in front of it and are left out.       *)
(***************************************************************************)
EXTENDS Integers, Sequences, FiniteSets

CONSTANTS
  MaxConns,  \* bound: connections that are accepted
  Fds,       \* the descriptors the kernel can hand out
  MaxInput,  \* bound: read()s' worth of input that a socket holds
  MaxOps,    \* bound: calls of the user
  LISTENER, TIMER, NONE

ASSUME ConnectionAssumption ==
  /\ MaxConns \in Nat /\ MaxInput \in Nat /\ MaxOps \in Nat
  /\ Fds \subseteq Nat /\ IsFiniteSet(Fds)
  /\ NONE \notin Nat /\ LISTENER \notin Nat /\ TIMER \notin Nat

Conns == 1 .. MaxConns
Events == {"IN", "OUT"}
Conditions == Events \cup {"ERR", "HUP", "NVAL"}

VARIABLES
  file,       \* kernel: the connection whose socket a descriptor is
  input,      \* of each socket, what can be read()
  peer,       \* and its other side: up, ended by FIN or RST, and "gone" when
              \* the error of the RST was reported
  accepted,   \* connections made
  fd, events, revents, index,  \* of their channels
  t_buf,      \* of their tcbs: not allocated, held, freed
  poll_list,
  map,        \* the channels in the poller's chains, last registered first
  at,         \* where the owner is: in poll(), in event_loop(), in a callback
  active,     \* what is left of active_channels
  who, then,  \* the connection a user's callback runs for, and what follows
  known,      \* the user's connections, as far as it was told
  ops,
  closed,     \* history: connections that were closed,
  harm,       \* the Harms done,
  met         \* and the Limits that were met

kernel == <<file, input, peer>>
channels == <<accepted, fd, events, revents, index>>
poller == <<poll_list, map>>
callback == <<who, then>>
history == <<closed, harm, met>>
vars == <<kernel, channels, t_buf, poller, at, active, callback, known, ops,
          history>>

(* What must not happen: a call that reaches another connection's socket,  *)
(* or none; a ring that is freed twice or used when it was freed.          *)
Harms == {"foreign", "closed", "freed", "used"}

(* What the code gets wrong; short of it no harm is done.                  *)
Limits == {
  "failed",    \* a read() or write() fails in a callback
  "untold",    \* a call for a connection whose end the user was not told
  "own",       \* a connection_close() in the connection's error callback
  "teardown"}  \* or in a close callback that event_loop_destroy() makes

Init ==
  /\ file = [d \in Fds |-> NONE]
  /\ input = [c \in Conns |-> 0]
  /\ peer = [c \in Conns |-> "up"]
  /\ accepted = 0
  /\ fd = [c \in Conns |-> NONE]
  /\ events = [c \in Conns |-> {}]
  /\ revents = [c \in Conns |-> {}]
  /\ index = [c \in Conns |-> 0]
  /\ t_buf = [c \in Conns |-> "NULL"]
  /\ poll_list = <<>>
  /\ map = <<>>
  /\ at = "Run"
  /\ active = <<>>
  /\ who = NONE
  /\ then = "Loop"
  /\ known = {}
  /\ ops = 0
  /\ closed = {}
  /\ harm = {}
  /\ met = {}

Meet(limit, when) == met' = met \cup (IF when THEN {limit} ELSE {})

-----------------------------------------------------------------------------
(* The poller's tables.                                                    *)

(* get_channel(): the channel registered last for a descriptor.            *)
Find(chain, d) ==
  LET hits == {k \in DOMAIN chain : fd[chain[k]] = d}
  IN  IF hits = {} THEN NONE
      ELSE chain[CHOOSE k \in hits : \A l \in hits : k <= l]

LastFd == poll_list[Len(poll_list)].fd

SwapDelete(s, k) ==
  [l \in 1 .. Len(s) - 1 |-> IF l = k THEN s[Len(s)] ELSE s[l]]

(* hlist_del() of the node of a channel that is in the chains.             *)
Unlink(chain, c) ==
  LET nodes == {k \in DOMAIN chain : chain[k] = c}
      first == CHOOSE k \in nodes : \A l \in nodes : k <= l
  IN  IF nodes = {} THEN chain
      ELSE [l \in 1 .. Len(chain) - 1 |->
              IF l < first THEN chain[l] ELSE chain[l + 1]]

(* Two channels of one descriptor, when one of them is removed, leave the  *)
(* other's index outside of poll_list, or a descriptor in it that is not   *)
(* in the map.  Where the code then reads beyond, or DIEs, the model ends. *)
Outside(c) == index[c] > Len(poll_list)

Astray(c) ==
  /\ index[c] # 0
  /\ Outside(c) \/ (LastFd # fd[c] /\ Find(map, LastFd) = NONE)

(* poller_update_channel(), for a channel of descriptor d whose events     *)
(* have become e, after which the owner is at next.                        *)
UpdateChannel(c, d, e, next) ==
  /\ events' = [events EXCEPT ![c] = e]
  /\ IF index[c] = 0
     THEN /\ map' = <<c>> \o map
          /\ poll_list' = Append(poll_list, [fd |-> d, events |-> e])
          /\ index' = [index EXCEPT ![c] = Len(poll_list) + 1]
     ELSE /\ poll_list' = IF Outside(c) THEN poll_list
                          ELSE [poll_list EXCEPT ![index[c]].events = e]
          /\ UNCHANGED <<map, index>>
  /\ at' = IF Outside(c) THEN "Dead" ELSE next

(* A slip: the channel moved keeps its index.                              *)
RemoveUnmoved(c) ==
  IF index[c] = 0
  THEN UNCHANGED <<poll_list, map, index>>
  ELSE /\ poll_list' = SwapDelete(poll_list, index[c])
       /\ map' = Unlink(map, Find(map, fd[c]))
       /\ index' = [index EXCEPT ![c] = 0]

(* poller_remove_channel()                                                 *)
RemoveChannel(c) ==
  IF index[c] = 0
  THEN UNCHANGED <<poll_list, map, index>>
  ELSE /\ poll_list' = SwapDelete(poll_list, index[c])
       /\ map' = Unlink(map, Find(map, fd[c]))
       /\ index' = IF LastFd = fd[c]
                   THEN [index EXCEPT ![c] = 0]
                   ELSE [index EXCEPT ![Find(map, LastFd)] = index[c],
                                      ![c] = 0]

(* A slip: revents is left as it is.                                       *)
InvalidateStale(c, next) ==
  IF Astray(c)
  THEN at' = "Dead" /\ UNCHANGED <<poller, events, revents, index>>
  ELSE /\ RemoveChannel(c)
       /\ events' = [events EXCEPT ![c] = {}]
       /\ at' = next
       /\ UNCHANGED revents

(* channel_invalidate(), after which the owner is at next.                 *)
Invalidate(c, next) ==
  IF Astray(c)
  THEN at' = "Dead" /\ UNCHANGED <<poller, events, revents, index>>
  ELSE /\ RemoveChannel(c)
       /\ events' = [events EXCEPT ![c] = {}]
       /\ revents' = [revents EXCEPT ![c] = {}]
       /\ at' = next

-----------------------------------------------------------------------------
(* Descriptors and memory.                                                 *)

Socket(c) == file[fd[c]]

(* What a system call on the connection's descriptor does wrong.           *)
Misses(c) ==
  IF Socket(c) = c THEN {} ELSE IF Socket(c) = NONE THEN {"closed"}
                                                    ELSE {"foreign"}

Frees(c) == IF t_buf[c] = "freed" THEN {"freed"} ELSE {}

Uses(c) == IF t_buf[c] = "freed" THEN {"used"} ELSE {}

(* close() of the connection's descriptor, and with it of the socket that  *)
(* it is now.                                                              *)
Close(c) ==
  LET Forgotten(f, last) ==
        IF Socket(c) = NONE THEN f ELSE [f EXCEPT ![Socket(c)] = last]
  IN  /\ file' = [file EXCEPT ![fd[c]] = NONE]
      /\ input' = Forgotten(input, 0)
      /\ peer' = Forgotten(peer, "gone")
      /\ closed' = closed \cup {c}

(* conn_destroy(): tcb_destroy() frees t_buf and does not clear it.        *)
Destroy(c) ==
  t_buf' = [t_buf EXCEPT ![c] = IF @ = "NULL" THEN @ ELSE "freed"]

(* connection_close()                                                      *)
ConnectionClose(c, next) ==
  /\ Invalidate(c, next)
  /\ Close(c)
  /\ Destroy(c)
  /\ harm' = harm \cup Misses(c) \cup Frees(c)

-----------------------------------------------------------------------------
(* The peers.                                                              *)

OpenSocket(c) == c <= accepted /\ Socket(c) = c

PeerSends(c) ==
  /\ OpenSocket(c) /\ peer[c] = "up"
  /\ input[c] < MaxInput
  /\ input' = [input EXCEPT ![c] = @ + 1]
  /\ UNCHANGED <<file, peer>>

PeerEnds(c) ==
  /\ OpenSocket(c) /\ peer[c] = "up"
  /\ peer' = [peer EXCEPT ![c] = "fin"]
  /\ UNCHANGED <<file, input>>

PeerResets(c) ==
  /\ OpenSocket(c) /\ peer[c] \in {"up", "fin"}
  /\ peer' = [peer EXCEPT ![c] = "rst"]
  /\ UNCHANGED <<file, input>>

PeerStep ==
  /\ \E c \in Conns : PeerSends(c) \/ PeerEnds(c) \/ PeerResets(c)
  /\ UNCHANGED <<channels, t_buf, poller, at, active, callback, known, ops,
                 history>>

-----------------------------------------------------------------------------
(* What the user calls: in conn_cb, in its error and close callbacks, in a *)
(* timer's callback or a pending function.                                 *)

MayCall(c) ==
  /\ at \in {"Run", "InConn", "InError", "InClose", "InTimer"}
  /\ c \in known
  /\ ops < MaxOps
  /\ ops' = ops + 1
  /\ UNCHANGED <<accepted, fd, active, callback>>

MeetCall(c) == Meet("untold", c \in closed)

UserCloses(c) ==
  /\ MayCall(c)
  /\ ConnectionClose(c, at)
  /\ known' = known \ {c}
  /\ met' = met \cup (IF c \in closed THEN {"untold"} ELSE {})
                 \cup (IF at = "InError" /\ c = who THEN {"own"} ELSE {})
                 \cup (IF then = "Teardown" THEN {"teardown"} ELSE {})

(* connection_write(): a sixth of the bytes at most is sent, the rest      *)
(* saved, ...                                                              *)
UserWrites(c) ==
  /\ MayCall(c)
  /\ Socket(c) # NONE /\ peer[Socket(c)] \in {"up", "fin"}
  /\ t_buf' = [t_buf EXCEPT ![c] = IF @ = "NULL" THEN "held" ELSE @]
  /\ UpdateChannel(c, fd[c], events[c] \cup {"OUT"}, at)
  /\ harm' = harm \cup Misses(c) \cup Uses(c)
  /\ MeetCall(c)
  /\ UNCHANGED <<kernel, revents, known, closed>>

(* ... a write() that fails goes unnoticed, ...                            *)
UserWriteFails(c) ==
  /\ MayCall(c)
  /\ \/ UNCHANGED peer  \* the socket is full, or there is none
     \/ /\ Socket(c) # NONE /\ peer[Socket(c)] = "rst"
        /\ peer' = [peer EXCEPT ![Socket(c)] = "gone"]
  /\ harm' = harm \cup Misses(c)
  /\ MeetCall(c)
  /\ UNCHANGED <<file, input, events, revents, index, t_buf, poller, at, known,
                 closed>>

(* ... and one after that ends the program by SIGPIPE.                     *)
UserWriteKills(c) ==
  /\ MayCall(c)
  /\ Socket(c) # NONE /\ peer[Socket(c)] = "gone"
  /\ at' = "Dead"
  /\ MeetCall(c)
  /\ UNCHANGED <<kernel, events, revents, index, t_buf, poller, known, closed,
                 harm>>

(* channel_disable_read() and channel_enable_read() on the connection's    *)
(* channel.                                                                *)
UserPauses(c) ==
  /\ MayCall(c)
  /\ "IN" \in events[c]
  /\ UpdateChannel(c, fd[c], events[c] \ {"IN"}, at)
  /\ MeetCall(c)
  /\ UNCHANGED <<kernel, revents, t_buf, known, closed, harm>>

UserResumes(c) ==
  /\ MayCall(c)
  /\ "IN" \notin events[c]
  /\ UpdateChannel(c, fd[c], events[c] \cup {"IN"}, at)
  /\ MeetCall(c)
  /\ UNCHANGED <<kernel, revents, t_buf, known, closed, harm>>

UserCall ==
  \E c \in Conns :
    \/ UserCloses(c) \/ UserWrites(c) \/ UserWriteFails(c) \/ UserWriteKills(c)
    \/ UserPauses(c) \/ UserResumes(c)

-----------------------------------------------------------------------------
(* poller_poll()                                                           *)

(* What the kernel may report for an entry; a socket that was reset is     *)
(* writable, an open one as it likes.                                      *)
Report(entry, writable) ==
  LET s == file[entry.fd]
  IN  IF s = NONE THEN {"NVAL"}
      ELSE (IF "IN" \in entry.events /\ (input[s] > 0 \/ peer[s] # "up")
            THEN {"IN"} ELSE {})
      \cup (IF "OUT" \in entry.events
                /\ (writable \/ peer[s] \in {"rst", "gone"})
            THEN {"OUT"} ELSE {})
      \cup (IF peer[s] = "rst" THEN {"ERR"} ELSE {})
      \cup (IF peer[s] \in {"rst", "gone"} THEN {"HUP"} ELSE {})

(* A set of places in poll_list, in its order.                             *)
InOrder(places) ==
  {s \in [1 .. Cardinality(places) -> places] :
     \A k, l \in DOMAIN s : k < l => s[k] < s[l]}

(* The outer loop goes through all that is ready as often as there are     *)
(* ready channels.                                                         *)
Repeated(s) == [k \in 1 .. Len(s) * Len(s) |-> s[((k - 1) % Len(s)) + 1]]

PollReturn ==
  /\ at = "Run"
  /\ \E others \in {<<>>, <<TIMER>>, <<LISTENER>>, <<TIMER, LISTENER>>},
        writable \in BOOLEAN :
       LET r == [k \in DOMAIN poll_list |-> Report(poll_list[k], writable)]
       IN  \E ready \in InOrder({k \in DOMAIN poll_list : r[k] # {}}) :
             LET found == [k \in DOMAIN ready |->
                             Find(map, poll_list[ready[k]].fd)]
                 listed == others \o found
             IN  /\ listed # <<>>
                 /\ IF \E k \in DOMAIN found : found[k] = NONE
                    THEN at' = "Dead" /\ UNCHANGED <<revents, active>>
                    ELSE /\ active' = Repeated(listed)
                         /\ revents' = [c \in Conns |->
                              IF \E k \in DOMAIN found : found[k] = c
                              THEN r[ready[CHOOSE k \in DOMAIN found :
                                             found[k] = c]]
                              ELSE revents[c]]
                         /\ at' = "Handle"
  /\ UNCHANGED <<kernel, accepted, fd, events, index, t_buf, poller, callback,
                 known, ops, history>>

(* The round over active_channels ends.  A channel's revents are not read  *)
(* again before poll() has set them: left as they are in the code, they    *)
(* are cleared here.                                                       *)
EndRound ==
  /\ at = "Handle"
  /\ active = <<>>
  /\ revents' = [c \in Conns |-> {}]
  /\ at' = "Run"
  /\ UNCHANGED <<kernel, accepted, fd, events, index, t_buf, poller, active,
                 callback, known, ops, history>>

-----------------------------------------------------------------------------
(* The listening channel and the timers.                                   *)

(* The callback ends, and the loop goes on with the next channel.          *)
NextChannel == active' = Tail(active) /\ at' = "Handle"

Handles(channel) == at = "Handle" /\ active # <<>> /\ Head(active) = channel

(* server_channel_read_callback(): accept4() hands out the lowest          *)
(* descriptor, conn_init() registers the channel, and conn_cb is called.   *)
Accept ==
  LET c == accepted + 1
      free == {d \in Fds : file[d] = NONE}
      d == CHOOSE d \in free : \A e \in free : d <= e
  IN  /\ Handles(LISTENER)
      /\ c \in Conns
      /\ free # {}
      /\ accepted' = c
      /\ file' = [file EXCEPT ![d] = c]
      /\ fd' = [fd EXCEPT ![c] = d]
      /\ UpdateChannel(c, d, {"IN"}, "InConn")
      /\ who' = c
      /\ known' = known \cup {c}
      /\ UNCHANGED <<input, peer, revents, t_buf, active, then, ops, history>>

(* A slip: the connection stays the current one.                           *)
EndAcceptKeeps ==
  /\ at = "InConn"
  /\ NextChannel
  /\ UNCHANGED <<kernel, channels, t_buf, poller, callback, known, ops, history>>

EndAccept ==
  /\ at = "InConn"
  /\ NextChannel
  /\ who' = NONE
  /\ UNCHANGED <<kernel, channels, t_buf, poller, then, known, ops, history>>

(* It fails: the peer went away, or the channel was listed once too often. *)
AcceptFails ==
  /\ Handles(LISTENER)
  /\ NextChannel
  /\ UNCHANGED <<kernel, channels, t_buf, poller, callback, known, ops, history>>

BeginTimers ==
  /\ Handles(TIMER)
  /\ at' = "InTimer"
  /\ UNCHANGED <<kernel, channels, t_buf, poller, active, callback, known, ops,
                 history>>

EndTimers ==
  /\ at = "InTimer"
  /\ NextChannel
  /\ UNCHANGED <<kernel, channels, t_buf, poller, callback, known, ops, history>>

-----------------------------------------------------------------------------
(* conn_error() and conn_close().                                          *)

(* conn_error() calls error_cb; next says where its caller goes on.        *)
ConnError(c, next) == at' = "InError" /\ who' = c /\ then' = next

(* conn_close() closes the descriptor and calls close_cb.                  *)
ConnClose(c, next) ==
  /\ Close(c)
  /\ harm' = harm \cup Misses(c)
  /\ known' = known \ {c}
  /\ at' = "InClose"
  /\ who' = c
  /\ then' = next

EndErrorCallback ==
  /\ at = "InError"
  /\ ConnClose(who, then)
  /\ UNCHANGED <<channels, t_buf, poller, active, ops, met>>

(* A slip: the ring is not freed.                                          *)
EndCloseCallbackLeaks ==
  /\ at = "InClose"
  /\ then \in {"Invalidate", "Write", "Handle"}
  /\ who' = NONE
  /\ then' = "Loop"
  /\ IF then = "Write"
     THEN at' = "Write" /\ UNCHANGED <<poller, events, revents, index, active>>
     ELSE /\ active' = Tail(active)
          /\ IF then = "Invalidate"
             THEN Invalidate(who, "Handle")
             ELSE at' = "Handle" /\ UNCHANGED <<poller, events, revents, index>>
  /\ UNCHANGED <<kernel, accepted, fd, t_buf, known, ops, history>>

(* Then it frees the ring and returns: to channel_handler(), which removes *)
(* the channel after an error and a hangup, ...                            *)
EndCloseCallback ==
  /\ at = "InClose"
  /\ then \in {"Invalidate", "Write", "Handle"}
  /\ Destroy(who)
  /\ harm' = harm \cup Frees(who)
  /\ who' = NONE
  /\ then' = "Loop"
  /\ IF then = "Write"
     THEN at' = "Write" /\ UNCHANGED <<poller, events, revents, index, active>>
     ELSE /\ active' = Tail(active)
          /\ IF then = "Invalidate"
             THEN Invalidate(who, "Handle")
             ELSE at' = "Handle" /\ UNCHANGED <<poller, events, revents, index>>
  /\ UNCHANGED <<kernel, accepted, fd, known, ops, closed, met>>

(* ... or to poller_fdmap_destroy(), which unlinks and frees the node.     *)
EndTeardownCallback ==
  /\ at = "InClose"
  /\ then = "Teardown"
  /\ Destroy(who)
  /\ harm' = harm \cup Frees(who)
  /\ map' = Unlink(map, who)
  /\ who' = NONE
  /\ at' = "Teardown"
  /\ UNCHANGED <<kernel, channels, poll_list, active, then, known, ops, closed,
                 met>>

-----------------------------------------------------------------------------
(* channel_handler(), for the channel of a connection.                     *)

Handled(c) == at = "Handle" /\ active # <<>> /\ Head(active) = c

Failed(c) == revents[c] \cap {"ERR", "NVAL"} # {}

HungUp(c) == "HUP" \in revents[c] /\ "IN" \notin revents[c]

(* conn_channel_error_cb()                                                 *)
HandleError(c) ==
  /\ Handled(c) /\ Failed(c)
  /\ ConnError(c, "Invalidate")
  /\ UNCHANGED <<kernel, channels, t_buf, poller, active, known, ops, history>>

(* conn_channel_close_cb()                                                 *)
HandleHup(c) ==
  /\ Handled(c) /\ ~Failed(c) /\ HungUp(c)
  /\ ConnClose(c, "Invalidate")
  /\ UNCHANGED <<channels, t_buf, poller, active, ops, met>>

Reads(c) ==
  /\ Handled(c) /\ ~Failed(c) /\ "IN" \in revents[c]
  /\ UNCHANGED <<accepted, fd, active, known, ops>>

(* conn_channel_read_cb(): read() gets something, ...                      *)
ReadInput(c) ==
  /\ Reads(c)
  /\ Socket(c) # NONE /\ input[Socket(c)] > 0
  /\ input' = [input EXCEPT ![Socket(c)] = @ - 1]
  /\ harm' = harm \cup Misses(c)
  /\ at' = "Write"
  /\ UNCHANGED <<file, peer, events, revents, index, t_buf, poller, callback,
                 closed, met>>

Ended(c) ==
  Socket(c) # NONE /\ input[Socket(c)] = 0 /\ peer[Socket(c)] \in {"fin", "gone"}

(* A slip: the end of the file goes unnoticed.                             *)
ReadEndUnseen(c) ==
  /\ Reads(c) /\ Ended(c)
  /\ at' = "Write"
  /\ UNCHANGED <<kernel, events, revents, index, t_buf, poller, callback,
                 history>>

(* A slip: the user is told, as by the line that is commented out, and     *)
(* nobody removes the channel.                                             *)
ReadEndPassive(c) ==
  /\ Handled(c) /\ ~Failed(c) /\ "IN" \in revents[c] /\ Ended(c)
  /\ ConnClose(c, "Write")
  /\ UNCHANGED <<channels, t_buf, poller, active, ops, met>>

(* ... the end of the file, of which the user is not told, ...             *)
ReadEnd(c) ==
  /\ Reads(c) /\ Ended(c)
  /\ ConnectionClose(c, "Write")
  /\ UNCHANGED <<callback, met>>

(* ... or fails: the channel stays in the poller.                          *)
ReadFails(c) ==
  /\ Reads(c)
  /\ \/ Socket(c) = NONE /\ UNCHANGED peer
     \/ /\ Socket(c) # NONE /\ input[Socket(c)] = 0
        /\ peer[Socket(c)] \in {"up", "rst"}
        /\ peer' = [peer EXCEPT ![Socket(c)] = IF @ = "rst" THEN "gone" ELSE @]
  /\ ConnError(c, "Write")
  /\ harm' = harm \cup Misses(c)
  /\ met' = met \cup {"failed"}
  /\ UNCHANGED <<file, input, events, revents, index, t_buf, poller, closed>>

(* Past r_cb, if it was called.                                            *)
PastRead(c) ==
  /\ active # <<>> /\ Head(active) = c
  /\ \/ at = "Write"
     \/ at = "Handle" /\ ~Failed(c) /\ ~HungUp(c) /\ "IN" \notin revents[c]

SkipWrite(c) ==
  /\ PastRead(c)
  /\ "OUT" \notin revents[c]
  /\ NextChannel
  /\ UNCHANGED <<kernel, channels, t_buf, poller, callback, known, ops, history>>

Writes(c) ==
  /\ PastRead(c)
  /\ "OUT" \in revents[c]
  /\ UNCHANGED <<file, input, accepted, fd, revents, t_buf, known, ops, closed>>

(* conn_channel_write_cb(): all is sent, ...                               *)
WriteAll(c) ==
  /\ Writes(c)
  /\ Socket(c) # NONE /\ peer[Socket(c)] \in {"up", "fin"}
  /\ IF "OUT" \in events[c]
     THEN UpdateChannel(c, fd[c], events[c] \ {"OUT"}, "Handle")
     ELSE at' = "Handle" /\ UNCHANGED <<events, index, poller>>
  /\ active' = Tail(active)
  /\ harm' = harm \cup Misses(c) \cup Uses(c)
  /\ UNCHANGED <<peer, callback, met>>

(* ... or some of it, ...                                                  *)
WriteSome(c) ==
  /\ Writes(c)
  /\ Socket(c) # NONE /\ peer[Socket(c)] \in {"up", "fin"}
  /\ NextChannel
  /\ harm' = harm \cup Misses(c) \cup Uses(c)
  /\ UNCHANGED <<peer, events, index, poller, callback, met>>

(* ... or it fails, or is the second to, which ends the program.           *)
WriteFails(c) ==
  /\ Writes(c)
  /\ Socket(c) # NONE => peer[Socket(c)] = "rst"
  /\ peer' = IF Socket(c) = NONE THEN peer
             ELSE [peer EXCEPT ![Socket(c)] = "gone"]
  /\ ConnError(c, "Handle")
  /\ harm' = harm \cup Misses(c) \cup Uses(c)
  /\ met' = met \cup {"failed"}
  /\ UNCHANGED <<events, index, poller, active>>

WriteKills(c) ==
  /\ Writes(c)
  /\ Socket(c) # NONE /\ peer[Socket(c)] = "gone"
  /\ at' = "Dead"
  /\ harm' = harm \cup Misses(c) \cup Uses(c)
  /\ UNCHANGED <<peer, events, index, poller, active, callback, met>>

HandleConn(c) ==
  \/ HandleError(c) \/ HandleHup(c)
  \/ ReadInput(c) \/ ReadEnd(c) \/ ReadFails(c)
  \/ SkipWrite(c) \/ WriteAll(c) \/ WriteSome(c) \/ WriteFails(c) \/ WriteKills(c)

-----------------------------------------------------------------------------
(* event_loop_destroy(), after event_loop() has returned.                  *)

LoopReturns ==
  /\ at = "Run"
  /\ at' = "Teardown"
  /\ then' = "Teardown"
  /\ UNCHANGED <<kernel, channels, t_buf, poller, active, who, known, ops,
                 history>>

FD_MAP_NR_HASH == 32

(* poller_fdmap_destroy(): the next node of the first chain that has one;  *)
(* channel_destroy() calls the close callback.                             *)
TeardownNode ==
  LET Bucket(k) == fd[map[k]] % FD_MAP_NR_HASH
      first == CHOOSE k \in DOMAIN map :
                 \A l \in DOMAIN map :
                   Bucket(k) < Bucket(l) \/ (Bucket(k) = Bucket(l) /\ k <= l)
  IN  /\ at = "Teardown"
      /\ map # <<>>
      /\ ConnClose(map[first], "Teardown")
      /\ UNCHANGED <<channels, t_buf, poller, active, ops, met>>

EndTeardown ==
  /\ at = "Teardown"
  /\ map = <<>>
  /\ at' = "Done"
  /\ UNCHANGED <<kernel, channels, t_buf, poller, active, callback, known, ops,
                 history>>

OwnerStep ==
  \/ PollReturn \/ EndRound
  \/ Accept \/ EndAccept \/ AcceptFails \/ BeginTimers \/ EndTimers
  \/ EndErrorCallback \/ EndCloseCallback \/ EndTeardownCallback
  \/ \E c \in Conns : HandleConn(c)
  \/ TeardownNode \/ EndTeardown

Next == OwnerStep \/ UserCall \/ PeerStep \/ LoopReturns

Spec == Init /\ [][Next]_vars

(* The loop's thread runs; no peer and no user need do anything.           *)
FairSpec == Spec /\ WF_vars(OwnerStep)

-----------------------------------------------------------------------------
(* Properties.                                                             *)

Open == (1 .. accepted) \ closed

(* Types, and a callback runs for a connection while the owner is in it.   *)
TypeOK ==
  /\ file \in [Fds -> Conns \cup {NONE}]
  /\ input \in [Conns -> 0 .. MaxInput]
  /\ peer \in [Conns -> {"up", "fin", "rst", "gone"}]
  /\ accepted \in 0 .. MaxConns
  /\ fd \in [Conns -> Fds \cup {NONE}]
  /\ events \in [Conns -> SUBSET Events]
  /\ revents \in [Conns -> SUBSET Conditions]
  /\ index \in [Conns -> Nat]
  /\ t_buf \in [Conns -> {"NULL", "held", "freed"}]
  /\ poll_list \in Seq([fd : Fds, events : SUBSET Events])
  /\ map \in Seq(Conns)
  /\ at \in {"Run", "Handle", "Write", "InConn", "InError", "InClose",
             "InTimer", "Teardown", "Done", "Dead"}
  /\ active \in Seq(Conns \cup {LISTENER, TIMER})
  /\ who \in Conns \cup {NONE}
  /\ then \in {"Loop", "Invalidate", "Write", "Handle", "Teardown"}
  /\ at # "Dead" => (who # NONE <=> at \in {"InConn", "InError", "InClose"})
  /\ at \in {"Write", "InConn", "InTimer"} => active # <<>>
  /\ known \subseteq Conns
  /\ ops \in 0 .. MaxOps
  /\ closed \subseteq Conns
  /\ harm \subseteq Harms
  /\ met \subseteq Limits

(* Descriptors are closed before the poller forgets them, and handed out   *)
(* again in the same round; still the kernel's table has just the open     *)
(* connections, and no read(), write() or close() reaches another's socket *)
(* or none, although every ready channel is listed several times.          *)
SocketsApart ==
  met = {} =>
    /\ \A c \in 1 .. accepted : c \in Open <=> Socket(c) = c
    /\ harm \cap {"foreign", "closed"} = {}

(* A ring is freed when its connection is closed, in whatever way, once,   *)
(* and not used after that.                                                *)
RingFreedOnce ==
  met = {} =>
    /\ harm \cap {"freed", "used"} = {}
    /\ at \notin {"InClose", "Dead"} =>
         \A c \in Conns : t_buf[c] = "held" => c \notin closed

(* When the loop goes back to poll(), the poller watches exactly the open  *)
(* connections, each by its own entry, whichever of them were closed in    *)
(* the round and in whichever callback; and no lookup fails on the way.    *)
PollsTheOpen ==
  met = {} =>
    /\ at = "Run" =>
         /\ Len(poll_list) = Cardinality(Open)
         /\ \A c \in Open : /\ index[c] \in DOMAIN poll_list
                            /\ poll_list[index[c]]
                                 = [fd |-> fd[c], events |-> events[c]]
                            /\ Find(map, fd[c]) = c
         /\ Len(map) = Len(poll_list)
    /\ \A c \in Open : at # "Teardown" /\ then # "Teardown" => ~Astray(c)

(* A close callback is made for a connection that the user takes for open: *)
(* never for one that it closed itself, though it be on the active list    *)
(* with its conditions, and never twice.                                   *)
ToldOnce ==
  [][at' = "InClose" /\ at # "InClose" /\ met = {} => who' \in known]_vars

(* A connection whose peer is gone is closed in the end, unless the user   *)
(* reads no more from it.                                                  *)
EndIsSeen ==
  \A c \in Conns :
    (c \in Open /\ (peer[c] \in {"rst", "gone"}
                    \/ (peer[c] = "fin" /\ "IN" \in events[c])))
      ~> (c \in closed \/ "IN" \notin events[c] \/ met # {} \/ at = "Dead")

-----------------------------------------------------------------------------
(* What the comments say and the code does not do.                         *)

(* server.c:200-201: a channel that is closed from below closes itself,    *)
(* conn_close() need not do it: it is out of the poller by the next poll().*)
ClosedLeavesPoller == at = "Run" => \A c \in closed : index[c] = 0
=============================================================================
