-------------------------- MODULE EventLoopProofs --------------------------
(***************************************************************************)
(* Proofs about EventLoop, for any set of threads and of channels and any  *)
(* number of calls.                                                        *)
(***************************************************************************)
EXTENDS EventLoop, SequenceTheorems, FiniteSetTheorems, TLAPS

(* What poll() makes of the ready channels is a sequence of them.          *)
LEMMA FillType ==
  ASSUME NEW R, NEW n \in Nat, NEW s \in [1 .. n -> R]
  PROVE  Fill(s) \in Seq(R)
<1>1. s \in Seq(R) /\ Len(s) = n
  OBVIOUS
<1>2. n * n \in Nat
  OBVIOUS
<1>3. ASSUME NEW k \in 1 .. n * n
      PROVE  s[((k - 1) % n) + 1] \in R
  <2>1. n > 0
    <3>1. CASE n = 0
      <4>1. n * n = 0
        BY <3>1
      <4>2. QED
        BY <4>1
    <3>2. QED
      BY <3>1
  <2>2. (k - 1) % n \in 0 .. n - 1
    BY <2>1
  <2>3. QED
    BY <2>1, <2>2
<1>4. QED
  BY <1>1, <1>2, <1>3 DEF Fill

(* TypeOK is an invariant.                                                 *)
LEMMA TypeInit == Init => TypeOK
<1> SUFFICES ASSUME Init
             PROVE  TypeOK
  OBVIOUS
<1>1. ops \in [Threads -> 0 .. MaxOps]
  BY OpsAssumption DEF Init
<1>2. pc \in [Threads -> ThreadPC] /\ \A t \in Threads : pc[t] = "Idle"
  BY DEF Init, ThreadPC
<1>3. reg \in [Threads -> (SUBSET Flags) \cup {NONE}]
  BY DEF Init
<1>4. op \in [Threads -> {"add", "exit"}]
  BY DEF Init
<1>5. /\ status \in SUBSET Flags
      /\ lreg = NONE
      /\ skipped \in SUBSET Func
  BY DEF Init
<1>6. /\ pending_funcs \in Seq(Func)
      /\ local_funcs \in Seq(Func)
      /\ active_channels \in Seq(Channels)
      /\ posted \in Seq(Func)
      /\ ran \in Seq(Func)
  BY DEF Init
<1>7. wakeup \in Nat /\ i \in Nat \ {0} /\ lpc \in LoopPC
  BY DEF Init, LoopPC
<1>8. exitAsked \in BOOLEAN
  BY DEF Init
<1>9. QED
  BY <1>1, <1>2, <1>3, <1>4, <1>5, <1>6, <1>7, <1>8 DEF TypeOK

(* What the owner's updates of status have in common.                      *)
StatusStep ==
  /\ status' \in SUBSET Flags
  /\ lreg' \in (SUBSET Flags) \cup {NONE}
  /\ lpc' \in LoopPC
  /\ lreg' # NONE => lpc' \in UpdatePC
  /\ UNCHANGED <<wakeup, pending_funcs, local_funcs, active_channels, i, ran,
                 exitAsked, threadVars>>

LoopUpdates ==
  \/ EnterLoop \/ SetPolling \/ ClearPolling \/ SetHdcallback
  \/ ClearWreventfd \/ ExitInHandler \/ ClearHdcallback \/ SetPending
  \/ ExitInPending \/ ClearPending \/ LeaveLoop

(* Each of them changes status by a load and a store and no vector.        *)
LEMMA UpdateIsStatusStep ==
  ASSUME TypeOK, LoopUpdates
  PROVE  StatusStep
<1> USE DEF LoopUpdate, StatusStep, LoopPC, UpdatePC, Flags
<1>1. /\ status \in SUBSET Flags
      /\ lreg \in (SUBSET Flags) \cup {NONE}
  BY DEF TypeOK
<1>2. CASE EnterLoop
  BY <1>1, <1>2 DEF EnterLoop
<1>3. CASE SetPolling
  BY <1>1, <1>3 DEF SetPolling
<1>4. CASE ClearPolling
  BY <1>1, <1>4 DEF ClearPolling
<1>5. CASE SetHdcallback
  BY <1>1, <1>5 DEF SetHdcallback
<1>6. CASE ClearWreventfd
  BY <1>1, <1>6 DEF ClearWreventfd
<1>7. CASE ExitInHandler
  BY <1>1, <1>7 DEF ExitInHandler
<1>8. CASE ClearHdcallback
  BY <1>1, <1>8 DEF ClearHdcallback
<1>9. CASE SetPending
  BY <1>1, <1>9 DEF SetPending
<1>10. CASE ExitInPending
  BY <1>1, <1>10 DEF ExitInPending
<1>11. CASE ClearPending
  BY <1>1, <1>11 DEF ClearPending
<1>12. CASE LeaveLoop
  BY <1>1, <1>12 DEF LeaveLoop
<1>13. QED
  BY <1>2, <1>3, <1>4, <1>5, <1>6, <1>7, <1>8, <1>9, <1>10, <1>11, <1>12
  DEF LoopUpdates

LEMMA StatusStepType ==
  ASSUME TypeOK, StatusStep
  PROVE  TypeOK'
BY DEF TypeOK, StatusStep, threadVars

(* A thread inside a call has a name for the function it hands over.       *)
LEMMA CallNamed ==
  ASSUME TypeOK, NEW t \in Threads, pc[t] # "Idle"
  PROVE  <<t, ops[t]>> \in Func
<1>1. ops[t] \in 1 .. MaxOps
  BY OpsAssumption DEF TypeOK
<1>2. QED
  BY <1>1 DEF Func

(* Another thread's update of status keeps the types.                      *)
LEMMA ThreadSetsType ==
  ASSUME TypeOK, NEW t \in Threads, NEW at \in ThreadPC, NEW flag \in Flags,
         NEW next \in ThreadPC, at # "Idle",
         ThreadSets(t, at, flag, next)
  PROVE  TypeOK'
<1>1. CASE reg[t] = NONE
  BY <1>1, NoneAssumption DEF ThreadSets, TypeOK, loopVars
<1>2. CASE reg[t] # NONE
  BY <1>2 DEF ThreadSets, TypeOK, Goto, loopVars
<1>3. QED
  BY <1>1, <1>2

(* Every step keeps the types.                                             *)
LEMMA TypeStep == TypeOK /\ [Next]_vars => TypeOK'
<1> SUFFICES ASSUME TypeOK, [Next]_vars
             PROVE  TypeOK'
  OBVIOUS
<1> USE DEF TypeOK
<1>1. CASE LoopUpdates
  BY <1>1, UpdateIsStatusStep, StatusStepType
<1>2. CASE TestExiting
  BY <1>2 DEF TypeOK, TestExiting, LoopPC, UpdatePC, threadVars
<1>3. CASE PollReturn
  <2>1. PICK R \in SUBSET Channels :
          \E s \in [1 .. Cardinality(R) -> R] :
            active_channels' = active_channels \o Fill(s)
    BY <1>3 DEF PollReturn
  <2> PICK s \in [1 .. Cardinality(R) -> R] :
        active_channels' = active_channels \o Fill(s)
    BY <2>1
  <2>2. Cardinality(R) \in Nat
    BY ChannelAssumption, FS_Subset, FS_CardinalityType
  <2>3. Fill(s) \in Seq(R)
    BY <2>2, FillType
  <2>4. active_channels' \in Seq(Channels)
    <3>1. Fill(s) \in Seq(Channels)
      BY <2>3
    <3>2. QED
      BY <3>1 DEF TypeOK
  <2>5. QED
    BY <1>3, <2>4 DEF TypeOK, PollReturn, LoopPC, UpdatePC, threadVars
<1>4. CASE ReadEventfd
  BY <1>4 DEF TypeOK, ReadEventfd, LoopPC, UpdatePC, threadVars
<1>5. CASE HandleChannel
  BY <1>5 DEF TypeOK, HandleChannel, LoopPC, UpdatePC, threadVars
<1>6. CASE EndDispatch
  BY <1>6 DEF TypeOK, EndDispatch, LoopPC, UpdatePC, threadVars
<1>7. CASE SwapPending
  BY <1>7 DEF TypeOK, SwapPending, LoopPC, UpdatePC, threadVars
<1>8. CASE RunPending
  BY <1>8 DEF TypeOK, RunPending, LoopPC, UpdatePC, threadVars
<1>9. CASE EndPending
  BY <1>9 DEF TypeOK, EndPending, LoopPC, UpdatePC, threadVars
<1>10. CASE ClearActive
  BY <1>10 DEF TypeOK, ClearActive, LoopPC, UpdatePC, threadVars
<1>11. ASSUME NEW t \in Threads, AddPending(t)
       PROVE  TypeOK'
  BY <1>11, OpsAssumption DEF TypeOK, AddPending, Goto, ThreadPC, loopVars
<1>12. ASSUME NEW t \in Threads, Push(t)
       PROVE  TypeOK'
  <2>1. <<t, ops[t]>> \in Func
    BY <1>12, CallNamed DEF Push
  <2>2. QED
    BY <1>12, <2>1 DEF TypeOK, Push, Goto, ThreadPC, loopVars
<1>13. ASSUME NEW t \in Threads, CheckHdcallback(t)
       PROVE  TypeOK'
  <2>1. <<t, ops[t]>> \in Func
    BY <1>13, CallNamed DEF CheckHdcallback
  <2>2. QED
    BY <1>13, <2>1 DEF TypeOK, CheckHdcallback, Goto, ThreadPC, loopVars
<1>14. ASSUME NEW t \in Threads, CheckWreventfd(t)
       PROVE  TypeOK'
  BY <1>14 DEF TypeOK, CheckWreventfd, Goto, ThreadPC, AfterWakeup, loopVars
<1>15. ASSUME NEW t \in Threads, Write(t)
       PROVE  TypeOK'
  BY <1>15 DEF TypeOK, Write, Goto, ThreadPC, loopVars
<1>16. ASSUME NEW t \in Threads, SetWreventfd(t)
       PROVE  TypeOK'
  BY <1>16, ThreadSetsType DEF SetWreventfd, ThreadPC, AfterWakeup, Flags
<1>17. ASSUME NEW t \in Threads, SetExiting(t)
       PROVE  TypeOK'
  BY <1>17, ThreadSetsType DEF SetExiting, ThreadPC, Flags
<1>18. ASSUME NEW t \in Threads, Exit(t)
       PROVE  TypeOK'
  BY <1>18, OpsAssumption DEF TypeOK, Exit, Goto, ThreadPC, loopVars
<1>19. CASE UNCHANGED vars
  BY <1>19 DEF TypeOK, vars, loopVars, threadVars
<1>20. QED
  BY <1>1, <1>2, <1>3, <1>4, <1>5, <1>6, <1>7, <1>8, <1>9, <1>10, <1>11,
     <1>12, <1>13, <1>14, <1>15, <1>16, <1>17, <1>18, <1>19
  DEF Next, LoopStep, CallStep, LoopUpdates

(* The types hold for any threads, calls and channels: among others, what  *)
(* poller_poll() puts on the active list is registered.                    *)
THEOREM TypeCorrect == Spec => []TypeOK
BY TypeInit, TypeStep, PTL DEF Spec
-----------------------------------------------------------------------------
(* The queue of functions handed over.                                     *)

LocalEmpty == lpc \notin {"RunPending", "ExitInPending"} => local_funcs = <<>>

(* The three things a step can do to the queue.                            *)
Keeps == UNCHANGED <<posted, ran, Waiting>>

Posts ==
  \E f \in Func :
    /\ posted' = Append(posted, f)
    /\ Waiting' = Append(Waiting, f)
    /\ UNCHANGED <<ran, lpc>>

Runs ==
  /\ lpc = "RunPending"
  /\ lpc' # "Done"
  /\ Waiting # <<>>
  /\ ran' = Append(ran, Head(Waiting))
  /\ Waiting' = Tail(Waiting)
  /\ UNCHANGED posted

LEMMA WaitingType ==
  ASSUME TypeOK
  PROVE  /\ Waiting \in Seq(Func)
         /\ SubSeq(local_funcs, i, Len(local_funcs)) \in Seq(Func)
<1>1. /\ local_funcs \in Seq(Func) /\ pending_funcs \in Seq(Func)
      /\ i \in Nat \ {0}
  BY DEF TypeOK
<1>2. \A j \in i .. Len(local_funcs) : local_funcs[j] \in Func
  BY <1>1
<1>3. SubSeq(local_funcs, i, Len(local_funcs)) \in Seq(Func)
  BY <1>1, <1>2, SubSeqProperties
<1>4. QED
  BY <1>1, <1>3, ConcatProperties DEF Waiting

(* The swap makes the pending functions the local ones, all of them still  *)
(* to be run.                                                              *)
LEMMA SwapKeeps ==
  ASSUME TypeOK, LocalEmpty, SwapPending
  PROVE  Keeps
<1>1. pending_funcs \in Seq(Func) /\ local_funcs = <<>>
  BY DEF TypeOK, LocalEmpty, SwapPending
<1>2. Waiting = pending_funcs
  BY <1>1, ConcatEmptySeq DEF Waiting, SwapPending
<1>3. SubSeq(pending_funcs, 1, Len(pending_funcs)) = pending_funcs
  BY <1>1, SubSeqFull
<1>4. /\ local_funcs' = pending_funcs /\ pending_funcs' = <<>> /\ i' = 1
      /\ lpc' = "RunPending"
  BY <1>1 DEF SwapPending
<1>5. Waiting' = pending_funcs
  BY <1>1, <1>3, <1>4, ConcatEmptySeq DEF Waiting
<1>6. QED
  BY <1>2, <1>5 DEF Keeps, SwapPending, threadVars

(* Running the function under the cursor takes the oldest waiting one.     *)
LEMMA RunRuns ==
  ASSUME TypeOK, RunPending
  PROVE  Runs
<1> DEFINE n == Len(local_funcs)
           rest == SubSeq(local_funcs, i + 1, n)
<1>1. /\ local_funcs \in Seq(Func) /\ pending_funcs \in Seq(Func)
      /\ i \in 1 .. n /\ n \in Nat
  BY DEF TypeOK, RunPending
<1>2. \A j \in i + 1 .. n : local_funcs[j] \in Func
  BY <1>1
<1>3. rest \in Seq(Func) /\ local_funcs[i] \in Func
  BY <1>1, <1>2, SubSeqProperties
<1>4. SubSeq(local_funcs, i, n) = <<local_funcs[i]>> \o rest
  BY <1>1, SubSeqRecursiveFirst
<1>5. Waiting = (<<local_funcs[i]>> \o rest) \o pending_funcs
  BY <1>4 DEF Waiting, RunPending
<1>6. Waiting = <<local_funcs[i]>> \o (rest \o pending_funcs)
  <2>1. <<local_funcs[i]>> \in Seq(Func)
    BY <1>3
  <2> HIDE DEF rest
  <2>2. (<<local_funcs[i]>> \o rest) \o pending_funcs
          = <<local_funcs[i]>> \o (rest \o pending_funcs)
    BY <1>1, <1>3, <2>1, ConcatAssociative
  <2>3. QED
    BY <1>5, <2>2
<1>7. rest \o pending_funcs \in Seq(Func)
  BY <1>1, <1>3, ConcatProperties
<1>8. /\ Waiting # <<>>
      /\ Head(Waiting) = local_funcs[i]
      /\ Tail(Waiting) = rest \o pending_funcs
  <2> DEFINE r == rest \o pending_funcs
             f == local_funcs[i]
  <2> HIDE DEF r, f
  <2>1. r \in Seq(Func) /\ f \in Func /\ Waiting = <<f>> \o r
    BY <1>3, <1>6, <1>7 DEF r, f
  <2>2. Waiting # <<>> /\ Head(Waiting) = f /\ Tail(Waiting) = r
    BY <2>1
  <2>3. QED
    BY <2>2 DEF r, f
<1>9. Waiting' = rest \o pending_funcs
  BY DEF RunPending, Waiting
<1>10. QED
  BY <1>8, <1>9 DEF RunPending, Runs, threadVars

LEMMA EndKeeps ==
  ASSUME TypeOK, EndPending
  PROVE  Keeps
<1>1. SubSeq(local_funcs, i, Len(local_funcs)) = <<>>
  BY SubSeqEmpty DEF TypeOK, EndPending
<1>2. QED
  BY <1>1 DEF Keeps, Waiting, EndPending, threadVars

LEMMA PushPosts ==
  ASSUME TypeOK, NEW t \in Threads, Push(t)
  PROVE  Posts
<1> DEFINE f == <<t, ops[t]>>
           l == IF lpc \in {"RunPending", "ExitInPending"}
                THEN SubSeq(local_funcs, i, Len(local_funcs)) ELSE local_funcs
<1>1. f \in Func
  BY CallNamed DEF Push
<1>2. l \in Seq(Func) /\ pending_funcs \in Seq(Func)
  BY WaitingType DEF TypeOK
<1>3. Waiting = l \o pending_funcs /\ Waiting' = l \o Append(pending_funcs, f)
  BY DEF Waiting, Push, loopVars
<1>4. l \o Append(pending_funcs, f) = Append(l \o pending_funcs, f)
  <2> HIDE DEF l, f
  <2>1. <<f>> \in Seq(Func) /\ l \o pending_funcs \in Seq(Func)
    BY <1>1, <1>2, ConcatProperties
  <2>2. l \o (pending_funcs \o <<f>>) = (l \o pending_funcs) \o <<f>>
    BY <1>2, <2>1, ConcatAssociative
  <2>3. QED
    BY <1>1, <1>2, <2>1, <2>2, AppendIsConcat
<1>5. posted' = Append(posted, f) /\ UNCHANGED <<ran, lpc>>
  BY DEF Push, loopVars
<1>6. QED
  BY <1>1, <1>3, <1>4, <1>5 DEF Posts

(* Every other step moves neither vector nor the cursor among them.        *)
LEMMA UpdateKeeps ==
  ASSUME TypeOK, LoopUpdates
  PROVE  Keeps /\ (LocalEmpty => LocalEmpty') /\ lpc # "Done"
<1>1. UNCHANGED <<posted, ran, pending_funcs, local_funcs, i>>
  BY UpdateIsStatusStep DEF StatusStep, threadVars
<1>2. /\ lpc \in {"RunPending", "ExitInPending"}
           <=> lpc' \in {"RunPending", "ExitInPending"}
      /\ lpc # "Done"
  BY DEF LoopUpdates, LoopUpdate, EnterLoop, SetPolling, ClearPolling,
         SetHdcallback, ClearWreventfd, ExitInHandler, ClearHdcallback,
         SetPending, ExitInPending, ClearPending, LeaveLoop
<1>3. QED
  BY <1>1, <1>2 DEF Keeps, Waiting, LocalEmpty

LEMMA QueueStep ==
  ASSUME TypeOK, LocalEmpty, [Next]_vars
  PROVE  /\ LocalEmpty'
         /\ lpc = "Done" => lpc' = "Done"
         /\ Keeps \/ Posts \/ Runs
<1> USE DEF LocalEmpty
<1>1. CASE LoopUpdates
  BY <1>1, UpdateKeeps
<1>2. CASE TestExiting
  BY <1>2 DEF Keeps, Waiting, TestExiting, threadVars
<1>3. CASE PollReturn
  <2>1. /\ lpc = "Poll" /\ lpc' = "ClearPolling"
        /\ UNCHANGED <<posted, ran, pending_funcs, local_funcs>>
    BY <1>3 DEF PollReturn, threadVars
  <2>2. QED
    BY <2>1 DEF Keeps, Waiting
<1>4. CASE ReadEventfd
  BY <1>4 DEF Keeps, Waiting, ReadEventfd, threadVars
<1>5. CASE HandleChannel
  BY <1>5 DEF Keeps, Waiting, HandleChannel, threadVars
<1>6. CASE EndDispatch
  BY <1>6 DEF Keeps, Waiting, EndDispatch, threadVars
<1>7. CASE SwapPending
  BY <1>7, SwapKeeps DEF SwapPending
<1>8. CASE RunPending
  BY <1>8, RunRuns DEF RunPending
<1>9. CASE EndPending
  BY <1>9, EndKeeps DEF EndPending
<1>10. CASE ClearActive
  BY <1>10 DEF Keeps, Waiting, ClearActive, threadVars
<1>11. ASSUME NEW t \in Threads, Push(t)
       PROVE  /\ LocalEmpty' /\ (lpc = "Done" => lpc' = "Done") /\ Posts
  BY <1>11, PushPosts DEF Push, loopVars
<1>12. ASSUME NEW t \in Threads,
              \/ AddPending(t) \/ CheckHdcallback(t) \/ CheckWreventfd(t)
              \/ Write(t) \/ SetWreventfd(t) \/ SetExiting(t) \/ Exit(t)
       PROVE  UNCHANGED <<pending_funcs, posted, loopVars>>
  BY <1>12 DEF AddPending, CheckHdcallback, CheckWreventfd, Write,
               SetWreventfd, SetExiting, ThreadSets, Exit
<1>13. ASSUME UNCHANGED <<pending_funcs, posted, loopVars>>
       PROVE  LocalEmpty' /\ (lpc = "Done" => lpc' = "Done") /\ Keeps
  BY <1>13 DEF loopVars, Keeps, Waiting
<1>14. CASE UNCHANGED vars
  BY <1>13, <1>14 DEF vars, threadVars
<1>15. QED
  BY <1>1, <1>2, <1>3, <1>4, <1>5, <1>6, <1>7, <1>8, <1>9, <1>10, <1>11,
     <1>12, <1>13, <1>14
  DEF Next, LoopStep, CallStep, LoopUpdates

(* No function handed over is lost, duplicated or overtaken: NoneLost is   *)
(* an invariant.                                                           *)
LEMMA NoneLostStep ==
  ASSUME TypeOK, NoneLost, [Next]_vars
  PROVE  NoneLost'
<1>1. LocalEmpty /\ posted = ran \o Waiting
  BY DEF NoneLost, LocalEmpty
<1>2. LocalEmpty' /\ (Keeps \/ Posts \/ Runs)
  BY <1>1, QueueStep
<1>3. Waiting \in Seq(Func) /\ ran \in Seq(Func)
  BY WaitingType DEF TypeOK
<1> SUFFICES posted' = ran' \o Waiting'
  BY <1>2 DEF NoneLost, LocalEmpty
<1>4. CASE Keeps
  BY <1>1, <1>4 DEF Keeps
<1>5. CASE Posts
  <2>1. PICK f \in Func : /\ posted' = Append(posted, f)
                          /\ Waiting' = Append(Waiting, f)
                          /\ ran' = ran
    BY <1>5 DEF Posts
  <2>2. <<f>> \in Seq(Func) /\ ran \o Waiting \in Seq(Func)
    BY <1>3, ConcatProperties
  <2>3. (ran \o Waiting) \o <<f>> = ran \o (Waiting \o <<f>>)
    BY <1>3, <2>2, ConcatAssociative
  <2>4. Append(ran \o Waiting, f) = ran \o Append(Waiting, f)
    BY <1>3, <2>2, <2>3, AppendIsConcat
  <2>5. QED
    BY <1>1, <2>1, <2>4
<1>6. CASE Runs
  <2>1. Head(Waiting) \in Func /\ Tail(Waiting) \in Seq(Func)
    BY <1>3, <1>6, HeadTailProperties DEF Runs
  <2>2. Waiting = <<Head(Waiting)>> \o Tail(Waiting)
    BY <1>3, <1>6 DEF Runs
  <2>3. <<Head(Waiting)>> \in Seq(Func)
    BY <2>1
  <2>4. ran \o (<<Head(Waiting)>> \o Tail(Waiting))
          = (ran \o <<Head(Waiting)>>) \o Tail(Waiting)
    BY <1>3, <2>1, <2>3, ConcatAssociative
  <2>5. Append(ran, Head(Waiting)) = ran \o <<Head(Waiting)>>
    BY <1>3, <2>1, AppendIsConcat
  <2>6. QED
    BY <1>1, <1>6, <2>2, <2>4, <2>5 DEF Runs
<1>7. QED
  BY <1>2, <1>4, <1>5, <1>6

(* el_add_pending_functions() and el_do_pending_functions(), whatever the  *)
(* interleaving: what was handed over is what was run followed by what     *)
(* waits, in the order of the pushes.                                      *)
THEOREM NoFunctionLost == Spec => []NoneLost
<1>1. Init => NoneLost
  BY DEF Init, NoneLost, Waiting
<1>2. QED
  BY <1>1, TypeCorrect, NoneLostStep, PTL DEF Spec

(* The loop implements the queue of TaskQueue.                             *)
THEOREM ImplementsQueue == Spec => QueueSpec
<1>1. Init => Queue!Init
  BY DEF Init, Queue!Init, Waiting
<1>2. ASSUME TypeOK, NoneLost, [Next]_vars
      PROVE  [Queue!Next]_(Queue!vars)
  <2>1. LocalEmpty
    BY <1>2 DEF NoneLost, LocalEmpty
  <2>2. /\ lpc = "Done" => lpc' = "Done"
        /\ Keeps \/ Posts \/ Runs
    BY <1>2, <2>1, QueueStep
  <2>3. CASE Keeps /\ (lpc = "Done" <=> lpc' = "Done")
    BY <2>3 DEF Keeps, Queue!vars
  <2>4. CASE Keeps /\ lpc # "Done" /\ lpc' = "Done"
    BY <2>4 DEF Keeps, Queue!Next, Queue!Return
  <2>5. CASE Posts
    BY <2>5 DEF Posts, Queue!Next, Queue!Post
  <2>6. CASE Runs
    BY <2>6 DEF Runs, Queue!Next, Queue!Run
  <2>7. QED
    BY <2>2, <2>3, <2>4, <2>5, <2>6
<1>3. QED
  BY <1>1, <1>2, TypeCorrect, NoFunctionLost, PTL
  DEF Spec, QueueSpec, Queue!Spec

-----------------------------------------------------------------------------
(* The flags of status and the wakeups.                                    *)

(* EXITING, wherever it is, comes from a call of el_exit(): in status, in  *)
(* the copies of it, and in the calls that are about to set it.            *)
OwnerExit ==
  /\ lreg # NONE /\ "EXITING" \in lreg => exitAsked
  /\ lpc \in {"ExitInHandler", "ExitInPending", "ClearInloop", "Done"}
       => exitAsked

ThreadExit(t) ==
  /\ reg[t] # NONE /\ "EXITING" \in reg[t] => exitAsked
  /\ pc[t] # "Idle" /\ op[t] = "exit" => exitAsked
  /\ pc[t] = "SetExiting" => op[t] = "exit"

ExitTraced ==
  /\ "EXITING" \in status => exitAsked
  /\ OwnerExit
  /\ \A t \in Threads : ThreadExit(t)

LEMMA ThreadExitKept ==
  ASSUME NEW t \in Threads, ThreadExit(t), UNCHANGED threadVars,
         exitAsked => exitAsked'
  PROVE  ThreadExit(t)'
BY DEF ThreadExit, threadVars

(* The owner's updates set EXITING only in el_exit().                      *)
LEMMA UpdateTraced ==
  ASSUME TypeOK, ExitTraced, LoopUpdates
  PROVE  ExitTraced'
<1> USE DEF LoopUpdate, OwnerExit
<1>1. UNCHANGED <<exitAsked, threadVars>>
  BY UpdateIsStatusStep DEF StatusStep
<1>2. \A t \in Threads : ThreadExit(t)'
  BY <1>1, ThreadExitKept DEF ExitTraced
<1>3. ("EXITING" \in status => exitAsked) /\ OwnerExit
  BY DEF ExitTraced
<1>4. ("EXITING" \in status' => exitAsked') /\ OwnerExit'
  <2>1. CASE EnterLoop
    BY <1>1, <1>3, <2>1 DEF EnterLoop
  <2>2. CASE SetPolling
    BY <1>1, <1>3, <2>2 DEF SetPolling
  <2>3. CASE ClearPolling
    BY <1>1, <1>3, <2>3 DEF ClearPolling
  <2>4. CASE SetHdcallback
    BY <1>1, <1>3, <2>4 DEF SetHdcallback
  <2>5. CASE ClearWreventfd
    BY <1>1, <1>3, <2>5 DEF ClearWreventfd
  <2>6. CASE ExitInHandler
    BY <1>1, <1>3, <2>6 DEF ExitInHandler
  <2>7. CASE ClearHdcallback
    BY <1>1, <1>3, <2>7 DEF ClearHdcallback
  <2>8. CASE SetPending
    BY <1>1, <1>3, <2>8 DEF SetPending
  <2>9. CASE ExitInPending
    BY <1>1, <1>3, <2>9 DEF ExitInPending
  <2>10. CASE ClearPending
    BY <1>1, <1>3, <2>10 DEF ClearPending
  <2>11. CASE LeaveLoop
    BY <1>1, <1>3, <2>11 DEF LeaveLoop
  <2>12. QED
    BY <2>1, <2>2, <2>3, <2>4, <2>5, <2>6, <2>7, <2>8, <2>9, <2>10, <2>11
    DEF LoopUpdates
<1>5. QED
  BY <1>2, <1>4 DEF ExitTraced

(* What a step of a thread leaves alone of the owner and of the others.    *)
OthersKept(t) ==
  /\ UNCHANGED loopVars
  /\ exitAsked => exitAsked'
  /\ \A u \in Threads \ {t} :
       pc'[u] = pc[u] /\ reg'[u] = reg[u] /\ op'[u] = op[u]

LEMMA OthersTraced ==
  ASSUME NEW t \in Threads, ExitTraced, OthersKept(t),
         "EXITING" \in status' => exitAsked', ThreadExit(t)'
  PROVE  ExitTraced'
<1>1. OwnerExit'
  BY DEF ExitTraced, OthersKept, OwnerExit, loopVars
<1>2. \A u \in Threads \ {t} : ThreadExit(u)'
  BY DEF ExitTraced, OthersKept, ThreadExit
<1>3. QED
  BY <1>1, <1>2 DEF ExitTraced

(* A thread sets EXITING at the end of el_exit() and nowhere else.         *)
LEMMA ThreadTraced ==
  ASSUME TypeOK, ExitTraced, NEW t \in Threads,
         AddPending(t) \/ Exit(t) \/ CallStep(t)
  PROVE  ExitTraced'
<1> USE DEF Goto, loopVars
<1>1. /\ ThreadExit(t) /\ ("EXITING" \in status => exitAsked)
      /\ pc \in [Threads -> ThreadPC]
      /\ reg \in [Threads -> (SUBSET Flags) \cup {NONE}]
      /\ op \in [Threads -> {"add", "exit"}]
  BY DEF ExitTraced, TypeOK
<1> SUFFICES OthersKept(t) /\ ("EXITING" \in status' => exitAsked')
                           /\ ThreadExit(t)'
  BY OthersTraced
<1>2. CASE AddPending(t)
  BY <1>1, <1>2 DEF AddPending, OthersKept, ThreadExit
<1>3. CASE Exit(t)
  BY <1>1, <1>3 DEF Exit, OthersKept, ThreadExit
<1>4. CASE Push(t)
  BY <1>1, <1>4 DEF Push, OthersKept, ThreadExit
<1>5. CASE CheckHdcallback(t)
  BY <1>1, <1>5 DEF CheckHdcallback, OthersKept, ThreadExit
<1>6. CASE CheckWreventfd(t)
  BY <1>1, <1>6 DEF CheckWreventfd, AfterWakeup, OthersKept, ThreadExit
<1>7. CASE Write(t)
  BY <1>1, <1>7 DEF Write, OthersKept, ThreadExit
<1>8. CASE SetWreventfd(t)
  BY <1>1, <1>8
  DEF SetWreventfd, ThreadSets, AfterWakeup, OthersKept, ThreadExit
<1>9. CASE SetExiting(t)
  BY <1>1, <1>9 DEF SetExiting, ThreadSets, OthersKept, ThreadExit
<1>10. QED
  BY <1>2, <1>3, <1>4, <1>5, <1>6, <1>7, <1>8, <1>9 DEF CallStep

LEMMA ExitTracedStep ==
  ASSUME TypeOK, ExitTraced, [Next]_vars
  PROVE  ExitTraced'
<1>1. ASSUME UNCHANGED <<status, lreg, threadVars>>, exitAsked => exitAsked',
             lpc' \in {"ExitInHandler", "ExitInPending", "ClearInloop", "Done"}
               => exitAsked'
      PROVE  ExitTraced'
  <2>1. \A t \in Threads : ThreadExit(t)'
    BY <1>1, ThreadExitKept DEF ExitTraced
  <2>2. QED
    BY <1>1, <2>1 DEF ExitTraced, OwnerExit
<1>2. CASE LoopUpdates
  BY <1>2, UpdateTraced
<1>3. CASE TestExiting
  BY <1>1, <1>3 DEF TestExiting, ExitTraced
<1>4. CASE PollReturn
  BY <1>1, <1>4 DEF PollReturn
<1>5. CASE ReadEventfd
  BY <1>1, <1>5 DEF ReadEventfd
<1>6. CASE HandleChannel
  BY <1>1, <1>6 DEF HandleChannel
<1>7. CASE EndDispatch
  BY <1>1, <1>7 DEF EndDispatch
<1>8. CASE SwapPending
  BY <1>1, <1>8 DEF SwapPending
<1>9. CASE RunPending
  BY <1>1, <1>9 DEF RunPending
<1>10. CASE EndPending
  BY <1>1, <1>10 DEF EndPending
<1>11. CASE ClearActive
  BY <1>1, <1>11 DEF ClearActive
<1>12. ASSUME NEW t \in Threads, AddPending(t) \/ Exit(t) \/ CallStep(t)
       PROVE  ExitTraced'
  BY <1>12, ThreadTraced
<1>13. CASE UNCHANGED vars
  BY <1>1, <1>13 DEF vars, loopVars, ExitTraced, OwnerExit
<1>14. QED
  BY <1>2, <1>3, <1>4, <1>5, <1>6, <1>7, <1>8, <1>9, <1>10, <1>11, <1>12,
     <1>13
  DEF Next, LoopStep, LoopUpdates

(* event_loop() returns only if el_exit() was called, whatever updates of  *)
(* status the threads lose from each other.                                *)
THEOREM ReturnsOnRequest == Spec => []ExitOnlyOnRequest
<1>1. Init => ExitTraced
  BY DEF Init, ExitTraced, OwnerExit, ThreadExit
<1>2. ExitTraced => ExitOnlyOnRequest
  BY DEF ExitTraced, OwnerExit, ExitOnlyOnRequest
<1>3. QED
  BY <1>1, <1>2, ExitTracedStep, TypeCorrect, PTL DEF Spec
-----------------------------------------------------------------------------
(* An EXITING that no copy of status lacks.                                *)

LEMMA UpdateSettled ==
  ASSUME LoopUpdates, ExitSettled
  PROVE  ExitSettled'
<1> USE DEF LoopUpdate, ExitSettled, threadVars
<1>1. CASE EnterLoop
  BY <1>1 DEF EnterLoop
<1>2. CASE SetPolling
  BY <1>2 DEF SetPolling
<1>3. CASE ClearPolling
  BY <1>3 DEF ClearPolling
<1>4. CASE SetHdcallback
  BY <1>4 DEF SetHdcallback
<1>5. CASE ClearWreventfd
  BY <1>5 DEF ClearWreventfd
<1>6. CASE ExitInHandler
  BY <1>6 DEF ExitInHandler
<1>7. CASE ClearHdcallback
  BY <1>7 DEF ClearHdcallback
<1>8. CASE SetPending
  BY <1>8 DEF SetPending
<1>9. CASE ExitInPending
  BY <1>9 DEF ExitInPending
<1>10. CASE ClearPending
  BY <1>10 DEF ClearPending
<1>11. CASE LeaveLoop
  BY <1>11 DEF LeaveLoop
<1>12. QED
  BY <1>1, <1>2, <1>3, <1>4, <1>5, <1>6, <1>7, <1>8, <1>9, <1>10, <1>11
  DEF LoopUpdates

LEMMA ThreadSetsSettled ==
  ASSUME TypeOK, ExitSettled, NEW t \in Threads, NEW at, NEW flag, NEW next,
         ThreadSets(t, at, flag, next)
  PROVE  ExitSettled'
BY DEF TypeOK, ExitSettled, ThreadSets, loopVars

(* Once every copy of status has it, no update in any thread loses it      *)
(* again.                                                                  *)
THEOREM SettledForGood == Spec => ExitStaysSettled
<1>1. ASSUME TypeOK, [Next]_vars, ExitSettled
      PROVE  ExitSettled'
  <2> USE DEF ExitSettled
  <2>1. CASE LoopUpdates
    BY <1>1, <2>1, UpdateSettled
  <2>2. CASE \/ TestExiting \/ PollReturn \/ ReadEventfd \/ HandleChannel
             \/ EndDispatch \/ SwapPending \/ RunPending \/ EndPending
             \/ ClearActive
    BY <1>1, <2>2
    DEF TestExiting, PollReturn, ReadEventfd, HandleChannel, EndDispatch,
        SwapPending, RunPending, EndPending, ClearActive, threadVars
  <2>3. ASSUME NEW t \in Threads,
               \/ AddPending(t) \/ Exit(t) \/ Push(t) \/ CheckHdcallback(t)
               \/ CheckWreventfd(t) \/ Write(t)
        PROVE  ExitSettled'
    BY <1>1, <2>3
    DEF AddPending, Exit, Push, CheckHdcallback, CheckWreventfd, Write, loopVars
  <2>4. ASSUME NEW t \in Threads, SetWreventfd(t) \/ SetExiting(t)
        PROVE  ExitSettled'
    BY <1>1, <2>4, ThreadSetsSettled DEF SetWreventfd, SetExiting
  <2>5. CASE UNCHANGED vars
    BY <1>1, <2>5 DEF vars, loopVars, threadVars
  <2>6. QED
    BY <1>1, <2>1, <2>2, <2>3, <2>4, <2>5
    DEF Next, LoopStep, CallStep, LoopUpdates
<1>2. QED
  BY <1>1, TypeCorrect, PTL DEF Spec, ExitStaysSettled
-----------------------------------------------------------------------------
(* The read of an empty eventfd.                                           *)

AtRest == {"Enter", "While", "SetPolling", "Poll"}

AtFirst == {"ClearPolling", "SetHdcallback"}

InDispatch == {"Dispatch", "ClearWreventfd", "ExitInHandler"}

(* Before the dispatch the cursor is at the first of the active channels;  *)
(* and until it is over, either the eventfd is not among them, or its      *)
(* wakeup is still there, or the cursor is past it.                        *)
WakeupAhead ==
  \/ wakeup > 0
  \/ \A k \in DOMAIN active_channels : active_channels[k] # EventCh
  \/ \E k \in 1 .. i - 1 : active_channels[k] = EventCh

WakeupTraced ==
  /\ lpc \in AtRest => active_channels = <<>>
  /\ lpc \in AtFirst => i = 1
  /\ lpc \in AtFirst \cup InDispatch => WakeupAhead

(* The eventfd is on the list only if poll() found a wakeup.               *)
LEMMA FillElements ==
  ASSUME NEW R, NEW n \in Nat, NEW s \in [1 .. n -> R]
  PROVE  \A k \in DOMAIN Fill(s) : Fill(s)[k] \in R
<1> DEFINE f == Fill(s)
<1>1. f \in Seq(R)
  BY FillType
<1> HIDE DEF f
<1>2. \A k \in DOMAIN f : f[k] \in R
  BY <1>1
<1>3. QED
  BY <1>2 DEF f

LEMMA PollTraced ==
  ASSUME TypeOK, WakeupTraced, PollReturn
  PROVE  WakeupTraced'
<1>1. PICK R \in SUBSET Channels :
        /\ EventCh \in R <=> wakeup > 0
        /\ \E s \in [1 .. Cardinality(R) -> R] :
             active_channels' = active_channels \o Fill(s)
  BY DEF PollReturn
<1>2. PICK s \in [1 .. Cardinality(R) -> R] :
        active_channels' = active_channels \o Fill(s)
  BY <1>1
<1>3. Cardinality(R) \in Nat
  BY ChannelAssumption, FS_Subset, FS_CardinalityType
<1>4. active_channels = <<>> /\ Fill(s) \in Seq(R)
  BY <1>3, FillType DEF WakeupTraced, AtRest, PollReturn
<1>5. active_channels' = Fill(s)
  BY <1>2, <1>4, ConcatEmptySeq
<1>6. \A k \in DOMAIN active_channels' : active_channels'[k] \in R
  BY <1>3, <1>5, FillElements
<1>7. wakeup' = wakeup /\ wakeup \in Nat /\ i' = 1 /\ lpc' = "ClearPolling"
  BY DEF PollReturn, TypeOK
<1>8. WakeupAhead'
  BY <1>1, <1>6, <1>7 DEF WakeupAhead
<1>9. QED
  BY <1>7, <1>8 DEF WakeupTraced, AtRest, AtFirst, InDispatch

(* No update of status adds a channel or a wakeup.                         *)
LEMMA UpdateAhead ==
  ASSUME TypeOK, WakeupTraced, LoopUpdates
  PROVE  WakeupTraced'
<1>1. UNCHANGED <<wakeup, active_channels, i>>
  BY UpdateIsStatusStep DEF StatusStep
<1>2. /\ lpc' \in AtRest => lpc \in AtRest
      /\ lpc' \in AtFirst => lpc \in AtFirst
      /\ lpc' \in AtFirst \cup InDispatch => lpc \in AtFirst \cup InDispatch
  BY DEF LoopUpdates, LoopUpdate, EnterLoop, SetPolling, ClearPolling,
         SetHdcallback, ClearWreventfd, ExitInHandler, ClearHdcallback,
         SetPending, ExitInPending, ClearPending, LeaveLoop,
         AtRest, AtFirst, InDispatch
<1>3. QED
  BY <1>1, <1>2 DEF WakeupTraced, WakeupAhead

LEMMA WakeupTracedStep ==
  ASSUME TypeOK, WakeupTraced, [Next]_vars
  PROVE  WakeupTraced'
<1> USE DEF AtRest, AtFirst, InDispatch
<1>1. /\ wakeup \in Nat /\ i \in Nat \ {0}
      /\ active_channels \in Seq(Channels)
  BY DEF TypeOK
<1>2. CASE LoopUpdates
  BY <1>2, UpdateAhead
<1>3. CASE PollReturn
  BY <1>3, PollTraced
<1>4. CASE TestExiting
  BY <1>4 DEF TestExiting, WakeupTraced
<1>5. CASE ReadEventfd
  <2>1. /\ lpc' = "ClearWreventfd" /\ i' = i + 1
        /\ active_channels' = active_channels
        /\ active_channels[i] = EventCh
    BY <1>5 DEF ReadEventfd
  <2>2. i \in 1 .. i' - 1
    BY <1>1, <2>1
  <2>3. WakeupAhead'
    BY <2>1, <2>2 DEF WakeupAhead
  <2>4. QED
    BY <2>1, <2>3 DEF WakeupTraced
<1>6. CASE HandleChannel
  <2>1. /\ lpc = "Dispatch" /\ lpc' \in {"Dispatch", "ExitInHandler"}
        /\ i' = i + 1
        /\ UNCHANGED <<active_channels, wakeup>>
    BY <1>6 DEF HandleChannel
  <2>2. WakeupAhead'
    BY <1>1, <2>1 DEF WakeupTraced, WakeupAhead
  <2>3. QED
    BY <2>1, <2>2 DEF WakeupTraced
<1>7. CASE EndDispatch \/ SwapPending \/ RunPending \/ EndPending
  BY <1>7 DEF EndDispatch, SwapPending, RunPending, EndPending, WakeupTraced
<1>8. CASE ClearActive
  BY <1>8 DEF ClearActive, WakeupTraced
<1>9. ASSUME NEW t \in Threads, AddPending(t) \/ Exit(t) \/ CallStep(t)
      PROVE  WakeupTraced'
  <2>1. UNCHANGED <<active_channels, i, lpc>> /\ wakeup' \in {wakeup, wakeup + 1}
    BY <1>9 DEF AddPending, Exit, CallStep, Push, CheckHdcallback,
                CheckWreventfd, Write, SetWreventfd, SetExiting, ThreadSets,
                loopVars
  <2>2. WakeupAhead => WakeupAhead'
    BY <1>1, <2>1 DEF WakeupAhead
  <2>3. QED
    BY <2>1, <2>2 DEF WakeupTraced
<1>10. CASE UNCHANGED vars
  BY <1>10 DEF vars, loopVars, WakeupTraced, WakeupAhead
<1>11. QED
  BY <1>2, <1>3, <1>4, <1>5, <1>6, <1>7, <1>8, <1>9, <1>10
  DEF Next, LoopStep, LoopUpdates

(* el_read_eventfd() finds nothing to read only if the eventfd's handler   *)
(* was called already in this round.                                       *)
THEOREM FirstReadSucceeds == Spec => []SpinOnlyOnRepeat
<1>1. Init => WakeupTraced
  BY DEF Init, WakeupTraced, AtRest, AtFirst, InDispatch
<1>2. TypeOK /\ WakeupTraced => SpinOnlyOnRepeat
  BY DEF TypeOK, WakeupTraced, WakeupAhead, SpinOnlyOnRepeat, Spinning,
         InDispatch
<1>3. QED
  BY <1>1, <1>2, WakeupTracedStep, TypeCorrect, PTL DEF Spec
-----------------------------------------------------------------------------
(* Wakeups that are not written.                                           *)

(* A function whose wakeup was skipped is of a call that is over, and      *)
(* waits, if it still waits, for the swap of the round that was on.        *)
NamedBefore(t) ==
  \A n \in 1 .. MaxOps :
    <<t, n>> \in skipped => n < ops[t] \/ (n = ops[t] /\ pc[t] = "Idle")

BeforeSwap == HandlingPC \cup {"SetPending", "Swap"}

NoneLeft == \A k \in DOMAIN pending_funcs : pending_funcs[k] \notin skipped

SkippedTraced ==
  /\ \A t \in Threads : NamedBefore(t)
  /\ lpc \notin BeforeSwap => NoneLeft

LEMMA SkippedKept ==
  ASSUME SkippedTraced, UNCHANGED <<pending_funcs, ops, pc, skipped>>,
         lpc' \notin BeforeSwap => lpc \notin BeforeSwap
  PROVE  SkippedTraced'
BY DEF SkippedTraced, NamedBefore, NoneLeft

LEMMA PushSkips ==
  ASSUME TypeOK, SkippedTraced, NEW t \in Threads, Push(t)
  PROVE  SkippedTraced'
<1> DEFINE f == <<t, ops[t]>>
<1>1. f \in Func /\ ops[t] \in 1 .. MaxOps
  BY CallNamed DEF Push, Func
<1>2. f \notin skipped
  <2>1. NamedBefore(t) /\ pc[t] # "Idle" /\ ops[t] \in Nat
    BY <1>1 DEF SkippedTraced, Push, TypeOK
  <2>2. f \in skipped => ops[t] < ops[t] \/ pc[t] = "Idle"
    BY <1>1, <2>1 DEF NamedBefore
  <2>3. QED
    BY <2>1, <2>2
<1>3. /\ pending_funcs \in Seq(Func)
      /\ pending_funcs' = Append(pending_funcs, f)
      /\ UNCHANGED <<skipped, lpc, ops>>
  BY DEF Push, TypeOK, loopVars
<1>4. NoneLeft => NoneLeft'
  <2> HIDE DEF f
  <2>1. QED
    BY <1>1, <1>2, <1>3 DEF NoneLeft
<1>5. \A u \in Threads : NamedBefore(u)'
  BY <1>3 DEF SkippedTraced, NamedBefore, Push, Goto, TypeOK
<1>6. QED
  BY <1>3, <1>4, <1>5 DEF SkippedTraced

LEMMA CheckSkips ==
  ASSUME TypeOK, SkippedTraced, NEW t \in Threads, CheckHdcallback(t)
  PROVE  SkippedTraced'
<1>1. /\ pc \in [Threads -> ThreadPC] /\ pc[t] = "CheckHdcallback"
      /\ UNCHANGED <<pending_funcs, ops, lpc>>
      /\ skipped' \subseteq skipped \cup {<<t, ops[t]>>}
      /\ lpc \notin BeforeSwap => skipped' = skipped
      /\ skipped' # skipped => pc' = [pc EXCEPT ![t] = "Idle"]
      /\ \A u \in Threads \ {t} : pc'[u] = pc[u]
  BY DEF CheckHdcallback, Goto, TypeOK, loopVars, BeforeSwap
<1>2. \A u \in Threads : NamedBefore(u)'
  <2>1. ASSUME NEW u \in Threads \ {t}
        PROVE  NamedBefore(u)'
    BY <1>1, <2>1 DEF SkippedTraced, NamedBefore
  <2>2. NamedBefore(t)'
    <3>1. CASE skipped' = skipped
      BY <1>1, <3>1 DEF SkippedTraced, NamedBefore
    <3>2. CASE skipped' # skipped
      BY <1>1, <3>2 DEF SkippedTraced, NamedBefore
    <3>3. QED
      BY <3>1, <3>2
  <2>3. QED
    BY <2>1, <2>2
<1>3. QED
  BY <1>1, <1>2 DEF SkippedTraced, NoneLeft

LEMMA SkippedTracedStep ==
  ASSUME TypeOK, NoneLost, SkippedTraced, [Next]_vars
  PROVE  SkippedTraced'
<1> USE DEF BeforeSwap, HandlingPC
<1>1. CASE LoopUpdates
  <2>1. UNCHANGED <<pending_funcs, ops, pc, skipped>>
    BY <1>1, UpdateIsStatusStep DEF StatusStep, threadVars
  <2>2. lpc' \notin BeforeSwap => lpc \notin BeforeSwap
    BY <1>1
    DEF LoopUpdates, LoopUpdate, EnterLoop, SetPolling, ClearPolling,
        SetHdcallback, ClearWreventfd, ExitInHandler, ClearHdcallback,
        SetPending, ExitInPending, ClearPending, LeaveLoop
  <2>3. QED
    BY <2>1, <2>2, SkippedKept
<1>2. CASE \/ TestExiting \/ PollReturn \/ ReadEventfd \/ HandleChannel
           \/ EndDispatch \/ RunPending \/ EndPending \/ ClearActive
  BY <1>2, SkippedKept
  DEF TestExiting, PollReturn, ReadEventfd, HandleChannel, EndDispatch,
      RunPending, EndPending, ClearActive, threadVars
<1>3. CASE SwapPending
  <2>1. pending_funcs' = <<>> /\ UNCHANGED <<ops, pc, skipped>>
    BY <1>3 DEF SwapPending, NoneLost, threadVars
  <2>2. QED
    BY <2>1 DEF SkippedTraced, NamedBefore, NoneLeft
<1>4. ASSUME NEW t \in Threads, AddPending(t) \/ Exit(t)
      PROVE  SkippedTraced'
  <2>1. /\ UNCHANGED <<pending_funcs, skipped, lpc>>
        /\ ops' = [ops EXCEPT ![t] = @ + 1]
        /\ \A u \in Threads \ {t} : pc'[u] = pc[u]
    BY <1>4 DEF AddPending, Exit, Goto, loopVars, TypeOK
  <2>2. ops \in [Threads -> 0 .. MaxOps] /\ MaxOps \in Nat
    BY OpsAssumption DEF TypeOK
  <2>3. \A u \in Threads : NamedBefore(u)'
    BY <2>1, <2>2 DEF SkippedTraced, NamedBefore
  <2>4. QED
    BY <2>1, <2>3 DEF SkippedTraced, NoneLeft
<1>5. ASSUME NEW t \in Threads, Push(t)
      PROVE  SkippedTraced'
  BY <1>5, PushSkips
<1>6. ASSUME NEW t \in Threads, CheckHdcallback(t)
      PROVE  SkippedTraced'
  BY <1>6, CheckSkips
<1>7. ASSUME NEW t \in Threads,
             CheckWreventfd(t) \/ Write(t) \/ SetWreventfd(t) \/ SetExiting(t)
      PROVE  SkippedTraced'
  <2>1. /\ UNCHANGED <<pending_funcs, skipped, lpc, ops>>
        /\ \A u \in Threads : pc[u] = "Idle" => pc'[u] = "Idle"
    BY <1>7 DEF CheckWreventfd, Write, SetWreventfd, SetExiting, ThreadSets,
                Goto, loopVars, TypeOK
  <2>2. QED
    BY <2>1 DEF SkippedTraced, NamedBefore, NoneLeft
<1>8. CASE UNCHANGED vars
  BY <1>8, SkippedKept DEF vars, loopVars, threadVars
<1>9. QED
  BY <1>1, <1>2, <1>3, <1>4, <1>5, <1>6, <1>7, <1>8
  DEF Next, LoopStep, CallStep, LoopUpdates

(* el_add_pending_functions() may do without a wakeup while the owner      *)
(* handles callbacks: the function is off the vector before the owner      *)
(* sleeps again.                                                           *)
THEOREM SkippedIsServed == Spec => []SkippedWakeupIsServed
<1>1. Init => SkippedTraced
  BY DEF Init, SkippedTraced, NamedBefore, NoneLeft
<1>2. SkippedTraced => SkippedWakeupIsServed
  BY DEF SkippedTraced, NoneLeft, SkippedWakeupIsServed, BeforeSwap, HandlingPC
<1>3. QED
  BY <1>1, <1>2, SkippedTracedStep, TypeCorrect, NoFunctionLost, PTL DEF Spec
=============================================================================
