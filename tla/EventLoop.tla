----------------------------- MODULE EventLoop -----------------------------
(***************************************************************************)
(* The event loop of src/src/core/eventloop.c: its owner thread runs       *)
(* event_loop(), the other threads call el_add_pending_functions() and     *)
(* el_exit().  They share                                                  *)
(*   - status, a plain word: `el->status |= F' and `el->status &= ~F' are  *)
(*     a load and a store, and two threads may interleave between them;    *)
(*   - the eventfd that wakes the owner's poll();                          *)
(*   - pending_funcs, the only thing el->mux protects: a push and a swap   *)
(*     are one step each.                                                  *)
(* Every action below is one access to that shared state together with the *)
(* local computation around it.                                            *)
(***************************************************************************)
EXTENDS Naturals, Sequences, FiniteSets

CONSTANTS
  Threads,   \* the threads that do not own the loop
  Channels,  \* the channels registered with the poller
  EventCh,   \* el->event_ch, the channel of the eventfd
  Position,  \* index of a channel's entry in the poller's poll_list
  MaxOps,    \* bound: calls each thread makes
  NONE

Flags == {"INLOOP", "PENDING", "POLLING", "EXITING", "HDCALLBACK", "WREVENTFD"}

ASSUME ChannelAssumption ==
  /\ IsFiniteSet(Channels)
  /\ EventCh \in Channels
  /\ Position \in [Channels -> Nat]
  /\ \A c, d \in Channels : Position[c] = Position[d] => c = d

ASSUME OpsAssumption == MaxOps \in Nat

ASSUME NoneAssumption == \A F \in SUBSET Flags : F # NONE

(* A function handed over is named by the call that hands it over.         *)
Func == Threads \X (1 .. MaxOps)

LoopPC == {"Enter", "While", "SetPolling", "Poll", "ClearPolling",
           "SetHdcallback", "Dispatch", "ClearWreventfd", "ExitInHandler",
           "ClearHdcallback", "SetPending", "Swap", "RunPending",
           "ExitInPending", "ClearPending", "ClearActive", "ClearInloop",
           "Done"}

ThreadPC == {"Idle", "Push", "CheckHdcallback", "CheckWreventfd", "Write",
             "SetWreventfd", "SetExiting"}

VARIABLES
  status,          \* el->status
  wakeup,          \* the eventfd's counter
  pending_funcs,
  local_funcs,
  active_channels,
  i,               \* the cursor of the owner's for_each_vector
  lpc,             \* where the owner thread is
  lreg,            \* the owner's copy of status between a load and its store
  pc,              \* where every other thread is
  reg,             \* their copies of status
  op,              \* the call each of them is in: "add" or "exit"
  ops              \* calls each of them has begun

(* History, read by no action.                                             *)
VARIABLES
  posted,          \* functions pushed, in order
  ran,             \* functions run, in order
  skipped,         \* pushed, not followed by a wakeup because the owner was
                   \* seen, rightly, to be handling callbacks
  exitAsked        \* el_exit() has been called

loopVars == <<local_funcs, active_channels, i, lpc, lreg, ran>>
threadVars == <<pc, reg, op, ops, posted, skipped>>
vars == <<status, wakeup, pending_funcs, exitAsked, loopVars, threadVars>>

Init ==
  /\ status = {}
  /\ wakeup = 0
  /\ pending_funcs = <<>>
  /\ local_funcs = <<>>
  /\ active_channels = <<>>
  /\ i = 1
  /\ lpc = "Enter"
  /\ lreg = NONE
  /\ pc = [t \in Threads |-> "Idle"]
  /\ reg = [t \in Threads |-> NONE]
  /\ op = [t \in Threads |-> "add"]
  /\ ops = [t \in Threads |-> 0]
  /\ posted = <<>>
  /\ ran = <<>>
  /\ skipped = {}
  /\ exitAsked = FALSE

-----------------------------------------------------------------------------
(* The owner thread.                                                       *)

(* One update of status at `at': first the load, later the store of new,   *)
(* an expression in lreg.                                                  *)
LoopUpdate(at, new, next) ==
  /\ lpc = at
  /\ \/ /\ lreg = NONE
        /\ lreg' = status
        /\ UNCHANGED <<status, lpc>>
     \/ /\ lreg # NONE
        /\ status' = new
        /\ lreg' = NONE
        /\ lpc' = next
  /\ UNCHANGED <<wakeup, pending_funcs, local_funcs, active_channels, i, ran,
                 exitAsked, threadVars>>

EnterLoop ==
  /\ "INLOOP" \notin status
  /\ LoopUpdate("Enter", lreg \cup {"INLOOP"}, "While")

(* A slip: the loop goes on as long as a wakeup is outstanding.            *)
TestExitingAfterWakeup ==
  /\ lpc = "While"
  /\ lpc' = IF "EXITING" \in status /\ "WREVENTFD" \notin status
            THEN "ClearInloop" ELSE "SetPolling"
  /\ UNCHANGED <<status, wakeup, pending_funcs, local_funcs, active_channels,
                 i, lreg, ran, exitAsked, threadVars>>

TestExiting ==
  /\ lpc = "While"
  /\ lpc' = IF "EXITING" \in status THEN "ClearInloop" ELSE "SetPolling"
  /\ UNCHANGED <<status, wakeup, pending_funcs, local_funcs, active_channels,
                 i, lreg, ran, exitAsked, threadVars>>

SetPolling == LoopUpdate("SetPolling", lreg \cup {"POLLING"}, "Poll")

(* The ready channels in poll_list order.                                  *)
InPollOrder(s) ==
  \A j, k \in DOMAIN s : j < k => Position[s[j]] < Position[s[k]]

(* poller_poll() scans poll_list once for each of the channels that        *)
(* poll() counted, and each scan pushes all of them.                       *)
Fill(s) == [k \in 1 .. Len(s) * Len(s) |-> s[((k - 1) % Len(s)) + 1]]

(* poll() returns at the latest when its 1000 ms are over; the eventfd is  *)
(* ready when its counter is positive, any other channel when it likes.    *)
PollReturn ==
  /\ lpc = "Poll"
  /\ \E R \in SUBSET Channels :
       /\ EventCh \in R <=> wakeup > 0
       /\ \E s \in [1 .. Cardinality(R) -> R] :
            /\ InPollOrder(s)
            /\ active_channels' = active_channels \o Fill(s)
  /\ i' = 1
  /\ lpc' = "ClearPolling"
  /\ UNCHANGED <<status, wakeup, pending_funcs, local_funcs, lreg, ran,
                 exitAsked, threadVars>>

ClearPolling == LoopUpdate("ClearPolling", lreg \ {"POLLING"}, "SetHdcallback")

(* A slip: `status = HDCALLBACK' for `status |= HDCALLBACK'.               *)
SetHdcallbackAssigns ==
  LoopUpdate("SetHdcallback", {"HDCALLBACK"}, "Dispatch")

SetHdcallback ==
  LoopUpdate("SetHdcallback", lreg \cup {"HDCALLBACK"}, "Dispatch")

(* A slip: the eventfd is read like a semaphore, and a failed read is not   *)
(* noticed.                                                                *)
ReadEventfdUnchecked ==
  /\ lpc = "Dispatch"
  /\ i <= Len(active_channels)
  /\ active_channels[i] = EventCh
  /\ wakeup' = wakeup - 1
  /\ i' = i + 1
  /\ lpc' = "ClearWreventfd"
  /\ UNCHANGED <<status, pending_funcs, local_funcs, active_channels, lreg,
                 ran, exitAsked, threadVars>>

(* el_read_eventfd(): the read fails with EWOULDBLOCK while the counter is *)
(* zero, and is then repeated on the spot.                                 *)
ReadEventfd ==
  /\ lpc = "Dispatch"
  /\ i <= Len(active_channels)
  /\ active_channels[i] = EventCh
  /\ wakeup > 0
  /\ wakeup' = 0
  /\ i' = i + 1
  /\ lpc' = "ClearWreventfd"
  /\ UNCHANGED <<status, pending_funcs, local_funcs, active_channels, lreg,
                 ran, exitAsked, threadVars>>

ClearWreventfd == LoopUpdate("ClearWreventfd", lreg \ {"WREVENTFD"}, "Dispatch")

(* Any other channel's handler: a user callback, a timer's for instance,   *)
(* that may call el_exit().  In the owner el_add_pending_functions() is a  *)
(* plain call and leaves no trace here.                                    *)
HandleChannel ==
  /\ lpc = "Dispatch"
  /\ i <= Len(active_channels)
  /\ active_channels[i] # EventCh
  /\ i' = i + 1
  /\ lpc' \in {"Dispatch", "ExitInHandler"}
  /\ exitAsked' = (exitAsked \/ lpc' = "ExitInHandler")
  /\ UNCHANGED <<status, wakeup, pending_funcs, local_funcs, active_channels,
                 lreg, ran, threadVars>>

ExitInHandler ==
  LoopUpdate("ExitInHandler", lreg \cup {"EXITING"}, "Dispatch")

EndDispatch ==
  /\ lpc = "Dispatch"
  /\ i > Len(active_channels)
  /\ lpc' = "ClearHdcallback"
  /\ UNCHANGED <<status, wakeup, pending_funcs, local_funcs, active_channels,
                 i, lreg, ran, exitAsked, threadVars>>

(* A slip: the pending functions are looked at only when poll() reported   *)
(* something.                                                              *)
ClearHdcallbackIdle ==
  LoopUpdate("ClearHdcallback", lreg \ {"HDCALLBACK"},
             IF active_channels = <<>> THEN "ClearActive" ELSE "SetPending")

ClearHdcallback ==
  LoopUpdate("ClearHdcallback", lreg \ {"HDCALLBACK"}, "SetPending")

SetPending == LoopUpdate("SetPending", lreg \cup {"PENDING"}, "Swap")

SwapPending ==
  /\ lpc = "Swap"
  /\ pending_funcs' = local_funcs
  /\ local_funcs' = pending_funcs
  /\ i' = 1
  /\ lpc' = "RunPending"
  /\ UNCHANGED <<status, wakeup, active_channels, lreg, ran, exitAsked,
                 threadVars>>

(* A slip: the functions are run from the newest to the oldest.            *)
RunPendingBackwards ==
  /\ lpc = "RunPending"
  /\ i <= Len(local_funcs)
  /\ ran' = Append(ran, local_funcs[Len(local_funcs) + 1 - i])
  /\ i' = i + 1
  /\ lpc' \in {"RunPending", "ExitInPending"}
  /\ exitAsked' = (exitAsked \/ lpc' = "ExitInPending")
  /\ UNCHANGED <<status, wakeup, pending_funcs, local_funcs, active_channels,
                 lreg, threadVars>>

(* A pending function may itself call el_exit().                           *)
RunPending ==
  /\ lpc = "RunPending"
  /\ i <= Len(local_funcs)
  /\ ran' = Append(ran, local_funcs[i])
  /\ i' = i + 1
  /\ lpc' \in {"RunPending", "ExitInPending"}
  /\ exitAsked' = (exitAsked \/ lpc' = "ExitInPending")
  /\ UNCHANGED <<status, wakeup, pending_funcs, local_funcs, active_channels,
                 lreg, threadVars>>

ExitInPending ==
  LoopUpdate("ExitInPending", lreg \cup {"EXITING"}, "RunPending")

(* A slip: local_funcs is not cleared.                                     *)
EndPendingNoClear ==
  /\ lpc = "RunPending"
  /\ i > Len(local_funcs)
  /\ lpc' = "ClearPending"
  /\ UNCHANGED <<status, wakeup, pending_funcs, local_funcs, active_channels, i,
                 lreg, ran, exitAsked, threadVars>>

EndPending ==
  /\ lpc = "RunPending"
  /\ i > Len(local_funcs)
  /\ local_funcs' = <<>>
  /\ lpc' = "ClearPending"
  /\ UNCHANGED <<status, wakeup, pending_funcs, active_channels, i, lreg, ran,
                 exitAsked, threadVars>>

ClearPending == LoopUpdate("ClearPending", lreg \ {"PENDING"}, "ClearActive")

(* A slip: v_clear(active_channels) is forgotten.                          *)
ClearActiveForgotten ==
  /\ lpc = "ClearActive"
  /\ lpc' = "While"
  /\ UNCHANGED <<status, wakeup, pending_funcs, local_funcs, active_channels, i,
                 lreg, ran, exitAsked, threadVars>>

ClearActive ==
  /\ lpc = "ClearActive"
  /\ active_channels' = <<>>
  /\ lpc' = "While"
  /\ UNCHANGED <<status, wakeup, pending_funcs, local_funcs, i, lreg, ran,
                 exitAsked, threadVars>>

LeaveLoop == LoopUpdate("ClearInloop", lreg \ {"INLOOP"}, "Done")

LoopStep ==
  \/ EnterLoop \/ TestExiting \/ SetPolling \/ PollReturn \/ ClearPolling
  \/ SetHdcallback \/ ReadEventfd \/ ClearWreventfd \/ HandleChannel
  \/ ExitInHandler \/ EndDispatch \/ ClearHdcallback \/ SetPending
  \/ SwapPending \/ RunPending \/ ExitInPending \/ EndPending \/ ClearPending
  \/ ClearActive \/ LeaveLoop

-----------------------------------------------------------------------------
(* The other threads.                                                      *)

Goto(t, next) == pc' = [pc EXCEPT ![t] = next]

(* el_next_poll_nonblock() goes back to el_add_pending_functions(), which  *)
(* is then done, or to el_exit(), which has its flag to set.               *)
AfterWakeup(t) == IF op[t] = "exit" THEN "SetExiting" ELSE "Idle"

(* el_add_pending_functions(), up to its test of EXITING.                  *)
AddPending(t) ==
  /\ pc[t] = "Idle"
  /\ ops[t] < MaxOps
  /\ ops' = [ops EXCEPT ![t] = @ + 1]
  /\ op' = [op EXCEPT ![t] = "add"]
  /\ Goto(t, IF "EXITING" \in status THEN "Idle" ELSE "Push")
  /\ UNCHANGED <<status, wakeup, pending_funcs, reg, posted, skipped,
                 exitAsked, loopVars>>

Push(t) ==
  /\ pc[t] = "Push"
  /\ pending_funcs' = Append(pending_funcs, <<t, ops[t]>>)
  /\ posted' = Append(posted, <<t, ops[t]>>)
  /\ Goto(t, "CheckHdcallback")
  /\ UNCHANGED <<status, wakeup, reg, op, ops, skipped, exitAsked, loopVars>>

(* Where the owner is while HDCALLBACK is set by the owner itself.         *)
HandlingPC == {"Dispatch", "ClearWreventfd", "ExitInHandler", "ClearHdcallback"}

CheckHdcallback(t) ==
  /\ pc[t] = "CheckHdcallback"
  /\ Goto(t, IF "HDCALLBACK" \in status THEN "Idle" ELSE "CheckWreventfd")
  /\ skipped' = IF "HDCALLBACK" \in status /\ lpc \in HandlingPC
                THEN skipped \cup {<<t, ops[t]>>}
                ELSE skipped
  /\ UNCHANGED <<status, wakeup, pending_funcs, reg, op, ops, posted,
                 exitAsked, loopVars>>

CheckWreventfd(t) ==
  /\ pc[t] = "CheckWreventfd"
  /\ Goto(t, IF "WREVENTFD" \in status THEN AfterWakeup(t) ELSE "Write")
  /\ UNCHANGED <<status, wakeup, pending_funcs, reg, op, ops, posted, skipped,
                 exitAsked, loopVars>>

Write(t) ==
  /\ pc[t] = "Write"
  /\ wakeup' = wakeup + 1
  /\ Goto(t, "SetWreventfd")
  /\ UNCHANGED <<status, pending_funcs, reg, op, ops, posted, skipped,
                 exitAsked, loopVars>>

(* `el->status |= flag' in another thread.                                 *)
ThreadSets(t, at, flag, next) ==
  /\ pc[t] = at
  /\ \/ /\ reg[t] = NONE
        /\ reg' = [reg EXCEPT ![t] = status]
        /\ UNCHANGED <<status, pc>>
     \/ /\ reg[t] # NONE
        /\ status' = reg[t] \cup {flag}
        /\ reg' = [reg EXCEPT ![t] = NONE]
        /\ Goto(t, next)
  /\ UNCHANGED <<wakeup, pending_funcs, op, ops, posted, skipped, exitAsked,
                 loopVars>>

(* A slip: the wrong flag.                                                 *)
SetWreventfdAsExiting(t) ==
  ThreadSets(t, "SetWreventfd", "EXITING", AfterWakeup(t))

SetWreventfd(t) == ThreadSets(t, "SetWreventfd", "WREVENTFD", AfterWakeup(t))

(* el_exit() in a thread that is not the owner: wake the owner up, then    *)
(* set the flag.                                                           *)
Exit(t) ==
  /\ pc[t] = "Idle"
  /\ ops[t] < MaxOps
  /\ ops' = [ops EXCEPT ![t] = @ + 1]
  /\ op' = [op EXCEPT ![t] = "exit"]
  /\ exitAsked' = TRUE
  /\ Goto(t, "CheckWreventfd")
  /\ UNCHANGED <<status, wakeup, pending_funcs, reg, posted, skipped, loopVars>>

SetExiting(t) == ThreadSets(t, "SetExiting", "EXITING", "Idle")

(* A call goes on once begun; nothing obliges a thread to begin one.       *)
CallStep(t) ==
  \/ Push(t) \/ CheckHdcallback(t) \/ CheckWreventfd(t) \/ Write(t)
  \/ SetWreventfd(t) \/ SetExiting(t)

Next ==
  \/ LoopStep
  \/ \E t \in Threads : AddPending(t) \/ Exit(t) \/ CallStep(t)

(* Every thread is scheduled again and again, and poll() has a timeout.    *)
Fairness == WF_vars(LoopStep) /\ \A t \in Threads : WF_vars(CallStep(t))

Spec == Init /\ [][Next]_vars

FairSpec == Spec /\ Fairness

-----------------------------------------------------------------------------
(* Properties.                                                             *)

(* Where the owner is inside a load and a store of status.                 *)
UpdatePC == {"Enter", "SetPolling", "ClearPolling", "SetHdcallback",
             "ClearWreventfd", "ExitInHandler", "ClearHdcallback",
             "SetPending", "ExitInPending", "ClearPending", "ClearInloop"}

(* Types; a copy of status is held only between a load and its store, a    *)
(* thread has begun the call it is in, and what poll() reported is a       *)
(* registered channel.                                                     *)
TypeOK ==
  /\ status \in SUBSET Flags
  /\ wakeup \in Nat
  /\ pending_funcs \in Seq(Func)
  /\ local_funcs \in Seq(Func)
  /\ active_channels \in Seq(Channels)
  /\ i \in Nat \ {0}
  /\ lpc \in LoopPC
  /\ lreg \in (SUBSET Flags) \cup {NONE}
  /\ lreg # NONE => lpc \in UpdatePC
  /\ pc \in [Threads -> ThreadPC]
  /\ reg \in [Threads -> (SUBSET Flags) \cup {NONE}]
  /\ op \in [Threads -> {"add", "exit"}]
  /\ ops \in [Threads -> 0 .. MaxOps]
  /\ \A t \in Threads : pc[t] # "Idle" => ops[t] > 0
  /\ posted \in Seq(Func)
  /\ ran \in Seq(Func)
  /\ skipped \in SUBSET Func
  /\ exitAsked \in BOOLEAN

(* The functions handed over and not yet run, oldest first.                *)
Waiting ==
  (IF lpc \in {"RunPending", "ExitInPending"}
   THEN SubSeq(local_funcs, i, Len(local_funcs))
   ELSE local_funcs) \o pending_funcs

(* Two vectors are swapped under a lock, one of them is run without it,    *)
(* other threads push meanwhile, and still every function handed over is   *)
(* run at most once and in the order of the hand-overs, and none is lost;  *)
(* and the vector swapped in is empty (BUG_ON in el_do_pending_functions). *)
NoneLost ==
  /\ posted = ran \o Waiting
  /\ lpc \notin {"RunPending", "ExitInPending"} => local_funcs = <<>>

(* The loop implements the queue of functions that TaskQueue describes.    *)
Queue == INSTANCE TaskQueue WITH
           Func <- Func,
           queue <- Waiting,
           ran <- ran,
           returned <- (lpc = "Done")

QueueSpec == Queue!Spec

(* The flags that threads lose from each other's updates never make the    *)
(* loop return unless el_exit() was called.                                *)
ExitOnlyOnRequest == lpc = "Done" => exitAsked

(* el_add_pending_functions() writes no wakeup when it finds the owner     *)
(* handling callbacks, `it is going to look at them anyway'.  When the     *)
(* owner really was, the function is no longer waiting at the next poll(). *)
SkippedWakeupIsServed ==
  lpc = "Poll" =>
    \A k \in DOMAIN pending_funcs : pending_funcs[k] \notin skipped

(* EXITING is set, and in every copy of status still to be stored.         *)
ExitSettled ==
  /\ "EXITING" \in status
  /\ lreg # NONE => "EXITING" \in lreg
  /\ \A t \in Threads : reg[t] # NONE => "EXITING" \in reg[t]

(* Then no update of status in any thread can lose it again.               *)
ExitStaysSettled == [][ExitSettled => ExitSettled']_vars

(* The owner repeats the read of an empty eventfd, in el_read_eventfd().   *)
Spinning ==
  /\ lpc = "Dispatch"
  /\ i <= Len(active_channels)
  /\ active_channels[i] = EventCh
  /\ wakeup = 0

(* Only because the channel was dispatched already: the first dispatch     *)
(* after a poll() always finds the wakeup it was reported for.             *)
SpinOnlyOnRepeat ==
  Spinning => \E k \in 1 .. i - 1 : active_channels[k] = EventCh

(* Whatever wakeups are lost, a function handed over is run, unless the    *)
(* loop returns first or the owner is caught in el_read_eventfd() for      *)
(* good: poll() has a timeout and the swap is made after every poll().     *)
EveryFunctionRuns ==
  \/ <>[]Spinning
  \/ \A f \in Func :
       (\E k \in DOMAIN posted : posted[k] = f)
         ~> (lpc = "Done" \/ \E k \in DOMAIN ran : ran[k] = f)

(* And once no thread can lose the flag any more, the loop returns.        *)
SettledExitReturns == <>[]Spinning \/ (ExitSettled ~> lpc = "Done")

-----------------------------------------------------------------------------
(* What the code's comments and its demo take for granted.                 *)

(* main.c:54 and 155-159: a timer's callback calls el_exit(), the main     *)
(* thread waits for the loop to return and then destroys it.               *)
ExitReturns == exitAsked ~> lpc = "Done"
=============================================================================
