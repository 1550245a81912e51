------------------------------- MODULE Vector -------------------------------
(***************************************************************************)
(* vector.c and vector.h: growing arrays that count the elements they hold *)
(* and the elements there is still room for, and allocate by the batch.    *)
(*                                                                         *)
(* A vector does not know the size of its block.  It is right only as long *)
(* as count + aval, which push, delete, clear, swap and copy carry along,  *)
(* stays within what realloc() was last asked for.  Here the block is      *)
(* there: `mem' has the length that was asked for, and a store beyond it   *)
(* is seen.  What lies in a block after its last element is not told apart *)
(* (JUNK).                                                                 *)
(*                                                                         *)
(* One thread works on a vector at a time: pending_funcs is under the      *)
(* loop's mutex, the other vectors belong to the loop's owner.  A call is  *)
(* one step, but for vector_copy(), whose loop is one step each time.      *)
(***************************************************************************)
EXTENDS Integers, Sequences

CONSTANTS
  Vectors,        \* vectors of the same element size
  Values,         \* what they may hold
  VECTOR_BATCH,   \* elements allocated at a time, 10 in the code
  JUNK,           \* memory without an element
  MaxCount        \* bound on the length of a vector

ASSUME BatchAssumption ==
  /\ VECTOR_BATCH \in Nat
  /\ VECTOR_BATCH >= 2
  /\ JUNK \notin Values

VARIABLES
  vec,            \* struct vector: the block at ptr, count, aval
  copying,        \* <<to, from>> while vector_copy() runs, else <<>>
  overrun,        \* history: vectors stored into beyond their blocks
  stretched       \* history: vectors for which vector_copy() allocated
                  \* although they counted some room

vars == <<vec, copying, overrun, stretched>>

(***************************************************************************)
(* Memory and the two counters                                             *)
(***************************************************************************)

Realloc(mem, n) == [i \in 1 .. n |-> IF i <= Len(mem) THEN mem[i] ELSE JUNK]

(* vector_init(): no block, no element, no room.                           *)
Fresh == [mem |-> <<>>, count |-> 0, aval |-> 0]

NewlyAvailable(x) ==
  IF x.count < VECTOR_BATCH THEN VECTOR_BATCH - 1 ELSE VECTOR_BATCH

(* A slip: the elements in use are left out of the new size.               *)
VectorIncFlat(x) ==
  [mem |-> Realloc(x.mem, VECTOR_BATCH),
   count |-> x.count,
   aval |-> x.aval + NewlyAvailable(x)]

(* vector_inc(): a batch on top of the elements in use.  Of the first, one *)
(* is set aside for a swap that was never written.                         *)
VectorInc(x) ==
  [mem |-> Realloc(x.mem, VECTOR_BATCH + x.count),
   count |-> x.count,
   aval |-> x.aval + NewlyAvailable(x)]

(* The struct with the first n of `elem' in its block.                     *)
Holding(x, n, elem, aval) ==
  [mem |-> [i \in 1 .. Len(x.mem) |-> IF i <= n THEN elem[i] ELSE JUNK],
   count |-> n,
   aval |-> aval]

(* They are stored there, and what a store beyond the block does to the    *)
(* memory of others is undefined: the model ends with it.                  *)
Store(v, x, n, elem, aval) ==
  IF n <= Len(x.mem)
  THEN /\ vec' = [vec EXCEPT ![v] = Holding(x, n, elem, aval)]
       /\ UNCHANGED overrun
  ELSE /\ overrun' = overrun \cup {v}
       /\ UNCHANGED vec

-----------------------------------------------------------------------------

Init ==
  /\ vec = [v \in Vectors |-> Fresh]
  /\ copying = <<>>
  /\ overrun = {}
  /\ stretched = {}

Idle == copying = <<>> /\ overrun = {}

(* The vector vector_pushback() stores into.                               *)
WithRoom(x) == IF x.aval = 0 THEN VectorInc(x) ELSE x

VectorPushback(v, e) ==
  /\ Idle
  /\ vec[v].count < MaxCount
  /\ LET x == WithRoom(vec[v])
         elem == [i \in 1 .. x.count + 1 |->
                    IF i <= x.count THEN x.mem[i] ELSE e]
     IN Store(v, x, x.count + 1, elem, x.aval - 1)
  /\ UNCHANGED <<copying, stretched>>

(* A slip: count is taken down before the last element is looked up.       *)
VectorDelEarly(v, k) ==
  /\ Idle
  /\ vec' = [vec EXCEPT ![v] =
               Holding(@, @.count - 1,
                       IF @.count = 1 THEN @.mem ELSE
                       [@.mem EXCEPT ![k] = vec[v].mem[vec[v].count - 1]],
                       @.aval + 1)]
  /\ UNCHANGED <<copying, overrun, stretched>>

(* vector_del() with index k - 1: swap the last one and delete.            *)
VectorDel(v, k) ==
  /\ Idle
  /\ vec' = [vec EXCEPT ![v] =
               Holding(@, @.count - 1,
                       [@.mem EXCEPT ![k] = vec[v].mem[vec[v].count]],
                       @.aval + 1)]
  /\ UNCHANGED <<copying, overrun, stretched>>

VectorClear(v) ==
  /\ Idle
  /\ vec' = [vec EXCEPT ![v] = Holding(@, 0, <<>>, @.aval + @.count)]
  /\ UNCHANGED <<copying, overrun, stretched>>

(* vector_free(), and vector_init() for the next loop.  A block without    *)
(* room is not given back: memory, and not the lists, would tell.          *)
VectorFree(v) ==
  /\ Idle
  /\ vec' = [vec EXCEPT ![v] = Fresh]
  /\ stretched' = stretched \ {v}
  /\ UNCHANGED <<copying, overrun>>

(* A slip: aval stays where it was.                                        *)
VectorSwapForgets(v, w) ==
  /\ Idle
  /\ vec' = [vec EXCEPT ![v] = [vec[w] EXCEPT !.aval = vec[v].aval],
                        ![w] = [vec[v] EXCEPT !.aval = vec[w].aval]]
  /\ UNCHANGED <<copying, overrun, stretched>>

VectorSwap(v, w) ==
  /\ Idle
  /\ vec' = [vec EXCEPT ![v] = vec[w], ![w] = vec[v]]
  /\ stretched' = (stretched \ {v, w})
                    \cup (IF w \in stretched THEN {v} ELSE {})
                    \cup (IF v \in stretched THEN {w} ELSE {})
  /\ UNCHANGED <<copying, overrun>>

(* vector_copy(), into a vector that has to be empty.  Nothing calls it    *)
(* any more: el_do_pending_functions() swaps instead.                      *)
VectorCopy(v, w) ==
  /\ Idle
  /\ vec[v].count = 0
  /\ copying' = <<v, w>>
  /\ UNCHANGED <<vec, overrun, stretched>>

(* `repeat:' while the elements do not seem to fit.                        *)
CopyInc(v, w) ==
  /\ copying = <<v, w>>
  /\ vec[w].count > vec[v].aval
  /\ vec' = [vec EXCEPT ![v] = VectorInc(@)]
  /\ stretched' = IF vec[v].aval > 0 THEN stretched \cup {v} ELSE stretched
  /\ UNCHANGED <<copying, overrun>>

(* A slip: the block is taken to be large enough.                          *)
CopyElementsAtOnce(v, w) ==
  /\ copying = <<v, w>>
  /\ copying' = <<>>
  /\ Store(v, vec[v], vec[w].count, vec[w].mem, vec[v].aval - vec[w].count)
  /\ UNCHANGED stretched

CopyElements(v, w) ==
  /\ copying = <<v, w>>
  /\ vec[w].count <= vec[v].aval
  /\ copying' = <<>>
  /\ Store(v, vec[v], vec[w].count, vec[w].mem, vec[v].aval - vec[w].count)
  /\ UNCHANGED stretched

Next ==
  \E v \in Vectors :
    \/ \E e \in Values : VectorPushback(v, e)
    \/ \E k \in 1 .. vec[v].count : VectorDel(v, k)
    \/ VectorClear(v)
    \/ VectorFree(v)
    \/ \E w \in Vectors \ {v} :
         \/ VectorSwap(v, w)
         \/ VectorCopy(v, w)
         \/ CopyInc(v, w)
         \/ CopyElements(v, w)

Spec == Init /\ [][Next]_vars

-----------------------------------------------------------------------------
(***************************************************************************)
(* Properties                                                              *)
(***************************************************************************)

Block == [mem : Seq(Values \cup {JUNK}), count : Nat, aval : Nat]

(* Both counters are unsigned and never pass below zero.                   *)
TypeOK ==
  /\ vec \in [Vectors -> Block]
  /\ copying \in {<<>>} \cup (Vectors \X Vectors)
  /\ overrun \subseteq Vectors
  /\ stretched \subseteq Vectors

(* What a vector counts, it has allocated, and one element more at most:   *)
(* across batches, deletions and swaps, unless vector_copy() called        *)
(* vector_inc() for a vector that already counted some room.               *)
BlockFits ==
  \A v \in Vectors \ stretched :
    /\ vec[v].count + vec[v].aval <= Len(vec[v].mem)
    /\ Len(vec[v].mem) <= vec[v].count + vec[v].aval + 1

(* So nothing but such a vector is ever stored into beyond its block.      *)
StoresStayInside == overrun \subseteq stretched

(* The elements in the blocks are the lists the callers put there, in      *)
(* order, with no element lost, doubled or made up by a reallocation.      *)
Elements(x) == [i \in 1 .. x.count |-> x.mem[i]]

Lists == INSTANCE ElementLists WITH
           Vector <- Vectors,
           Value <- Values,
           lists <- [v \in Vectors |-> Elements(vec[v])]

ListSpec == Lists!Spec
=============================================================================
