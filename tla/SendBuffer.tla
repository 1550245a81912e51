----------------------------- MODULE SendBuffer -----------------------------
(***************************************************************************)
(* The transmit side of a connection (src/src/server.c): connection_write()*)
(* tries the socket and saves what it did not take in the ring t_buf of    *)
(* the connection's tcb; conn_channel_write_cb() sends from the ring when  *)
(* poll() reports the socket writable.  All of it runs in the owner thread *)
(* of the loop.                                                            *)
(*                                                                         *)
(* A byte is its position in the stream the callers hand over.             *)
(***************************************************************************)
EXTENDS Integers, Sequences

CONSTANTS
  PAGE_SIZE,
  Batch,       \* what a debug build sends at most in a callback
  Builds,      \* with and without CONFIG_DEBUG_TCB: "debug", "plain"
  Messages,    \* sizes that are passed to connection_write()
  WriteLater,  \* callers write after conn_cb, too
  Results,     \* of write(): it takes "all" or "some", or is to "wait"
  MaxBytes,    \* bound: bytes handed over
  MaxWire,     \* bound: bytes sent
  MaxReady,    \* bound: channels that are ready at one poll()
  MaxLeft,     \* bound: t_left, which may be overcounted, when sending begins
  GARBAGE,
  BitAnd(_, _)  \* the operator &

ASSUME SendAssumption ==
  /\ PAGE_SIZE \in Nat \ {0}
  /\ Batch \in Nat \ {0}
  /\ Builds \subseteq {"debug", "plain"}
  /\ Messages \subseteq Nat \ {0}
  /\ WriteLater \in BOOLEAN
  /\ Results \subseteq {"all", "some", "wait", "fail"}
  /\ MaxBytes \in Nat /\ MaxWire \in Nat
  /\ MaxReady \in Nat \ {0}
  /\ MaxLeft \in Nat

(* What & does with a mask: it keeps some of the mask's bits, and if the   *)
(* mask is that of a power of two, which is tested for in the usual way,   *)
(* it keeps the remainder.                                                 *)
ASSUME MaskAssumption ==
  \A size \in 1 .. MaxBytes + PAGE_SIZE : \A k \in 0 .. size :
    /\ BitAnd(k, size - 1) \in 0 .. size - 1
    /\ BitAnd(size, size - 1) = 0 => BitAnd(k, size - 1) = k % size

VARIABLES
  build,
  connecting,  \* conn_cb has not returned
  t_buf,       \* the bytes of the ring, from index 1 on
  t_beg, t_end, t_left,
  pollout,     \* POLLOUT is in the channel's events
  listed,      \* times the channel still is on the active list, to be written
  pc,
  from,        \* conn_save(): the bytes still to be copied
  beg, total,  \* conn_channel_write_cb()
  asked,       \* how many bytes callers handed over
  wire,        \* the bytes the socket took
  met          \* history: which of Limits the connection met with

ring == <<t_buf, t_beg, t_end, t_left>>
vars == <<build, connecting, ring, pollout, listed, pc, from, beg, total,
          asked, wire, met>>

t_size == Len(t_buf)
t_used == t_size - t_left

(* What the code gets wrong; a connection that meets with none of it is    *)
(* served well.                                                            *)
Limits == {
  "refused",    \* connection_write() finds the socket full
  "overtaken",  \* or sends while bytes wait in the ring
  "drained",    \* or writes into a ring that was emptied before
  "grown",      \* a ring that wraps grows, or not to a power of two
  "short",      \* the write callback's write() takes less than it was given
  "repeated"}   \* or it is called again in a round that drained the ring

Lesser(a, b) == IF a < b THEN a ELSE b

(* The bytes a + 1 to b of the stream.                                     *)
Bytes(a, b) == [k \in 1 .. b - a |-> a + k]

(* tcb_init().                                                             *)
Init ==
  /\ build \in Builds
  /\ connecting = TRUE
  /\ t_buf = <<>>
  /\ t_beg = IF build = "debug" THEN PAGE_SIZE - 1 ELSE 0
  /\ t_end = t_beg
  /\ t_left = 0
  /\ pollout = FALSE
  /\ listed = 0
  /\ pc = "Idle"
  /\ from = <<>>
  /\ beg = 0
  /\ total = 0
  /\ asked = 0
  /\ wire = <<>>
  /\ met = {}

Meet(limit, when) == IF when THEN {limit} ELSE {}

(* What write() of n bytes returns; -1 is EWOULDBLOCK, -2 another error.   *)
WriteResults(n) ==
  IF n = 0
  THEN {0}
  ELSE   (IF "all"  \in Results THEN {n} ELSE {})
    \cup (IF "some" \in Results THEN 1 .. n - 1 ELSE {})
    \cup (IF "wait" \in Results THEN {-1} ELSE {})
    \cup (IF "fail" \in Results THEN {-2} ELSE {})

-----------------------------------------------------------------------------
(* connection_write().                                                     *)

(* A slip: the bytes that went out are saved, too.                         *)
ConnectionWriteTwice(size) ==
  /\ pc = "Idle"
  /\ connecting \/ WriteLater
  /\ asked + size <= MaxBytes
  /\ \E ret \in WriteResults(size \div 6) :
       IF ret < 0
       THEN UNCHANGED <<wire, from, pc>>
       ELSE /\ wire' = wire \o Bytes(asked, asked + ret)
            /\ from' = Bytes(asked, asked + size)
            /\ pc' = "Save"
  /\ asked' = asked + size
  /\ UNCHANGED <<build, connecting, ring, pollout, listed, beg, total, met>>

(* It tries a sixth of the bytes.  A result of -1 is not less than size,   *)
(* which is unsigned: the bytes are not saved.                             *)
ConnectionWrite(size) ==
  /\ pc = "Idle"
  /\ connecting \/ WriteLater
  /\ asked + size <= MaxBytes
  /\ \E ret \in WriteResults(size \div 6) :
       IF ret < 0
       THEN UNCHANGED <<wire, from, pc>>
       ELSE /\ wire' = wire \o Bytes(asked, asked + ret)
            /\ from' = Bytes(asked + ret, asked + size)
            /\ pc' = "Save"
  /\ asked' = asked + size
  /\ met' = met \cup Meet("refused", from' = from)
                 \cup Meet("overtaken", t_used > 0 /\ wire' # wire)
                 \cup Meet("drained", t_used = 0 /\ t_beg # t_end)
  /\ UNCHANGED <<build, connecting, ring, pollout, listed, beg, total>>

(* conn_save() and tcb_grow(): a page more, then it looks again.           *)
Grow ==
  /\ pc = "Save"
  /\ t_left < Len(from)
  /\ t_buf' = t_buf \o [k \in 1 .. PAGE_SIZE |-> GARBAGE]
  /\ t_left' = t_left + PAGE_SIZE
  /\ LET wraps == t_used > 0 /\ t_beg >= t_end
         oddSize == t_left' >= Len(from) /\ BitAnd(t_size', t_size' - 1) # 0
     IN  met' = met \cup Meet("grown", wraps \/ oddSize)
  /\ UNCHANGED <<build, connecting, t_beg, t_end, pollout, listed, pc, from,
                 beg, total, asked, wire>>

BeginCopy ==
  /\ pc = "Save"
  /\ t_left >= Len(from)
  /\ pc' = "Copy"
  /\ UNCHANGED <<build, connecting, ring, pollout, listed, from, beg, total,
                 asked, wire, met>>

(* The bytes t_beg and t_end, not t_left, say where there is room.         *)
CopyRoom == IF t_beg <= t_end THEN t_size - t_end ELSE t_beg - t_end

(* A slip: the end does not wrap around.                                   *)
CopyBatchUnmasked ==
  LET batch == Lesser(CopyRoom, Len(from))
  IN  /\ pc = "Copy"
      /\ from # <<>>
      /\ t_buf' = [k \in 1 .. t_size |->
                     IF k - t_end \in 1 .. batch THEN from[k - t_end]
                                                 ELSE t_buf[k]]
      /\ t_end' = t_end + batch
      /\ t_left' = t_left - batch
      /\ from' = SubSeq(from, batch + 1, Len(from))
      /\ UNCHANGED <<build, connecting, t_beg, pollout, listed, pc, beg, total,
                     asked, wire, met>>

(* A round of tcb_copy().                                                  *)
CopyBatch ==
  LET batch == Lesser(CopyRoom, Len(from))
  IN  /\ pc = "Copy"
      /\ from # <<>>
      /\ t_buf' = [k \in 1 .. t_size |->
                     IF k - t_end \in 1 .. batch THEN from[k - t_end]
                                                 ELSE t_buf[k]]
      /\ t_end' = BitAnd(t_end + batch, t_size - 1)
      /\ t_left' = t_left - batch
      /\ from' = SubSeq(from, batch + 1, Len(from))
      /\ UNCHANGED <<build, connecting, t_beg, pollout, listed, pc, beg, total,
                     asked, wire, met>>

(* A slip: the poller is not told.                                         *)
EndWriteUntold ==
  /\ pc = "Copy"
  /\ from = <<>>
  /\ pc' = "Idle"
  /\ UNCHANGED <<build, connecting, ring, pollout, listed, from, beg, total,
                 asked, wire, met>>

EndWrite ==
  /\ pc = "Copy"
  /\ from = <<>>
  /\ pollout' = TRUE
  /\ pc' = "Idle"
  /\ UNCHANGED <<build, connecting, ring, listed, from, beg, total, asked,
                 wire, met>>

(* conn_cb returns to server_channel_read_callback().                      *)
EndConnect ==
  /\ pc = "Idle"
  /\ connecting
  /\ connecting' = FALSE
  /\ UNCHANGED <<build, ring, pollout, listed, pc, from, beg, total, asked,
                 wire, met>>

-----------------------------------------------------------------------------
(* conn_channel_write_cb().                                                *)

(* poller_poll() lists the channel once for every ready channel.           *)
PollReturn ==
  /\ pc = "Idle"
  /\ ~connecting
  /\ listed = 0
  /\ pollout
  /\ listed' \in 1 .. MaxReady
  /\ UNCHANGED <<build, connecting, ring, pollout, pc, from, beg, total, asked,
                 wire, met>>

(* channel_handler() calls it for revents, which stays as poll() left it   *)
(* when POLLOUT is disabled: it may find the ring empty, total is 0, and   *)
(* the last batch goes out again.  A total below 0 stands for one that     *)
(* has wrapped around: no batch is that large.                             *)
BeginSend ==
  /\ pc = "Idle"
  /\ listed > 0
  /\ t_left <= MaxLeft
  /\ listed' = listed - 1
  /\ total' = t_used
  /\ beg' = t_beg
  /\ pc' = "Send"
  /\ met' = met \cup Meet("repeated", t_used = 0)
  /\ UNCHANGED <<build, connecting, ring, pollout, from, asked, wire>>

SendRoom ==
  LET run == IF beg < t_end THEN t_end - beg ELSE t_size - beg
  IN  IF build = "debug" THEN Lesser(run, Batch) ELSE run

(* A slip: a batch that was taken is thought the last.                     *)
SendAllLast ==
  LET batch == SendRoom
  IN  /\ pc = "Send"
      /\ Len(wire) + batch <= MaxWire
      /\ batch \in WriteResults(batch)
      /\ wire' = wire \o SubSeq(t_buf, beg + 1, beg + batch)
      /\ t_left' = t_left + batch
      /\ pollout' = FALSE
      /\ pc' = "Idle"
      /\ UNCHANGED <<build, connecting, t_buf, t_beg, t_end, listed, from, beg,
                     total, asked, met>>

(* The write() takes them all: POLLOUT is disabled with the last of them,  *)
(* a debug build returns to the loop, the other goes round.                *)
SendAll ==
  LET batch == SendRoom
      after == BitAnd(beg + batch, t_size - 1)
  IN  /\ pc = "Send"
      /\ Len(wire) + batch <= MaxWire
      /\ batch \in WriteResults(batch)
      /\ wire' = wire \o SubSeq(t_buf, beg + 1, beg + batch)
      /\ total' = total - batch
      /\ t_left' = t_left + batch
      /\ IF total = batch
         THEN /\ pollout' = FALSE
              /\ t_beg' = beg
              /\ pc' = "Idle"
              /\ UNCHANGED beg
         ELSE /\ beg' = after
              /\ UNCHANGED pollout
              /\ IF build = "debug"
                 THEN t_beg' = after /\ pc' = "Idle"
                 ELSE UNCHANGED <<t_beg, pc>>
      /\ UNCHANGED <<build, connecting, t_buf, t_end, listed, from, asked,
                     met>>

(* It takes some of them, or none for now: `done' counts the batch as sent.*)
SendSome ==
  LET batch == SendRoom
  IN  /\ pc = "Send"
      /\ \E ret \in WriteResults(batch) \ {batch, -2} :
           /\ Len(wire) + ret <= MaxWire
           /\ wire' = wire \o SubSeq(t_buf, beg + 1, beg + ret)
           /\ t_beg' = IF ret = -1 THEN beg
                               ELSE BitAnd(beg + batch, t_size - 1)
      /\ t_left' = t_left + batch
      /\ met' = met \cup {"short"}
      /\ pc' = "Idle"
      /\ UNCHANGED <<build, connecting, t_buf, t_end, pollout, listed, from,
                     beg, total, asked>>

(* It fails: conn_error() closes the connection.                           *)
SendFail ==
  /\ pc = "Send"
  /\ -2 \in WriteResults(SendRoom)
  /\ pc' = "Closed"
  /\ UNCHANGED <<build, connecting, ring, pollout, listed, from, beg, total,
                 asked, wire, met>>

SendStep ==
  \/ Grow \/ BeginCopy \/ CopyBatch \/ EndWrite
  \/ EndConnect \/ PollReturn \/ BeginSend \/ SendAll \/ SendSome \/ SendFail

Next == SendStep \/ \E size \in Messages : ConnectionWrite(size)

Spec == Init /\ [][Next]_vars

FairSpec == Spec /\ WF_vars(SendStep)

-----------------------------------------------------------------------------
(* Properties.                                                             *)

(* The indices stay inside the ring, whatever t_left says, and tcb_copy()  *)
(* is at no time without room for a byte: it would not end.                *)
TypeOK ==
  /\ build \in Builds
  /\ connecting \in BOOLEAN
  /\ t_buf \in Seq(1 .. MaxBytes \cup {GARBAGE})
  /\ t_size > 0 => t_beg \in 0 .. t_size - 1 /\ t_end \in 0 .. t_size - 1
  /\ t_left \in Int
  /\ pollout \in BOOLEAN
  /\ listed \in 0 .. MaxReady
  /\ pc \in {"Idle", "Save", "Copy", "Send", "Closed"}
  /\ from \in Seq(1 .. MaxBytes)
  /\ pc \in {"Save", "Copy"} /\ from # <<>> /\ t_size > 0 => CopyRoom > 0
  /\ pc = "Send" => beg \in 0 .. t_size - 1 /\ SendRoom > 0
  /\ total \in Int
  /\ asked \in 0 .. MaxBytes
  /\ wire \in Seq(1 .. MaxBytes \cup {GARBAGE})
  /\ met \subseteq Limits

(* The ring's bytes, as t_beg and t_left say.                              *)
Content == [k \in 1 .. t_used |-> t_buf[((t_beg + k - 1) % t_size) + 1]]

(* Short of the limits, what was handed over went out or is in the ring,   *)
(* in order and once, across growth and wrapping around.                   *)
NothingLost ==
  met = {} => /\ \A k \in DOMAIN wire : wire[k] = k
              /\ pc = "Idle" => wire \o Content = Bytes(0, asked)

(* And then POLLOUT is not disabled while something is left to send, nor   *)
(* enabled when nothing is.                                                *)
PolloutRight ==
  met = {} /\ pc = "Idle" => (pollout <=> Len(wire) < asked)

(* And everything is sent in the end, unless the connection fails.         *)
EverythingIsSent ==
  (Len(wire) < asked) ~> (Len(wire) = asked \/ met # {} \/ pc = "Closed")

-----------------------------------------------------------------------------
(* What the README says and the code does not do.                          *)

(* The ring `can grow dynamically': bytes go out as they came.             *)
InOrder == \A k \in DOMAIN wire : wire[k] = k
=============================================================================
