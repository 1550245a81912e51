---------------------------- MODULE VectorProofs ----------------------------
(***************************************************************************)
(* Vector is right for every batch size of two or more, any vectors and    *)
(* values, and without a bound on their length.                            *)
(***************************************************************************)
EXTENDS Vector, TLAPS

USE BatchAssumption

(***************************************************************************)
(* What the operators on blocks return                                     *)
(***************************************************************************)

LEMMA ReallocType ==
  ASSUME NEW x \in Block, NEW n \in Nat
  PROVE  /\ Realloc(x.mem, n) \in Seq(Values \cup {JUNK})
         /\ Len(Realloc(x.mem, n)) = n
         /\ \A i \in 1 .. n : i <= Len(x.mem) => Realloc(x.mem, n)[i] = x.mem[i]
<1>1. Len(x.mem) \in Nat /\ x.mem \in Seq(Values \cup {JUNK})
  BY DEF Block
<1>2. \A i \in 1 .. n : Realloc(x.mem, n)[i] \in Values \cup {JUNK}
  BY <1>1 DEF Realloc
<1>3. Realloc(x.mem, n) \in [1 .. n -> Values \cup {JUNK}]
  BY <1>2 DEF Realloc
<1> QED
  BY <1>1, <1>3 DEF Realloc

LEMMA VectorIncType ==
  ASSUME NEW x \in Block
  PROVE  /\ VectorInc(x) \in Block
         /\ Len(VectorInc(x).mem) = VECTOR_BATCH + x.count
         /\ VectorInc(x).count = x.count
         /\ VectorInc(x).aval = x.aval + NewlyAvailable(x)
         /\ NewlyAvailable(x) \in {VECTOR_BATCH - 1, VECTOR_BATCH}
         /\ x.count < VECTOR_BATCH => NewlyAvailable(x) = VECTOR_BATCH - 1
         /\ \A i \in 1 .. x.count : i <= Len(x.mem) => VectorInc(x).mem[i] = x.mem[i]
<1>1. x.count \in Nat /\ x.aval \in Nat
  BY DEF Block
<1>2. VECTOR_BATCH + x.count \in Nat
  BY <1>1
<1>3. NewlyAvailable(x) \in {VECTOR_BATCH - 1, VECTOR_BATCH}
  BY DEF NewlyAvailable
<1>4. x.aval + NewlyAvailable(x) \in Nat
  BY <1>1, <1>3
<1>5. x.count < VECTOR_BATCH => NewlyAvailable(x) = VECTOR_BATCH - 1
  BY DEF NewlyAvailable
<1>6. \A i \in 1 .. x.count : i \in 1 .. VECTOR_BATCH + x.count
  BY <1>1
<1> HIDE DEF Realloc, NewlyAvailable
<1>7. VectorInc(x) \in Block
  BY <1>1, <1>2, <1>4, ReallocType DEF VectorInc, Block
<1> QED
  BY <1>2, <1>3, <1>5, <1>6, <1>7, ReallocType DEF VectorInc

LEMMA HoldingType ==
  ASSUME NEW x \in Block, NEW n \in Nat, NEW aval \in Nat, NEW elem,
         \A i \in 1 .. n : elem[i] \in Values \cup {JUNK}
  PROVE  /\ Holding(x, n, elem, aval) \in Block
         /\ Len(Holding(x, n, elem, aval).mem) = Len(x.mem)
         /\ Holding(x, n, elem, aval).count = n
         /\ Holding(x, n, elem, aval).aval = aval
         /\ \A i \in 1 .. n :
              i <= Len(x.mem) => Holding(x, n, elem, aval).mem[i] = elem[i]
<1> DEFINE mem == Holding(x, n, elem, aval).mem
<1>1. Len(x.mem) \in Nat
  BY DEF Block
<1>2. mem = [i \in 1 .. Len(x.mem) |-> IF i <= n THEN elem[i] ELSE JUNK]
  BY DEF Holding
<1>3. \A i \in 1 .. Len(x.mem) : i <= n => i \in 1 .. n
  BY <1>1
<1>4. mem \in [1 .. Len(x.mem) -> Values \cup {JUNK}]
  BY <1>2, <1>3
<1>5. mem \in Seq(Values \cup {JUNK}) /\ Len(mem) = Len(x.mem)
  BY <1>1, <1>4
<1>6. \A i \in 1 .. n : i <= Len(x.mem) => mem[i] = elem[i]
  BY <1>1, <1>2
<1> QED
  BY <1>5, <1>6 DEF Holding, Block

(***************************************************************************)
(* The inductive invariant: the elements in use are in the block, they are *)
(* values, and the vector that vector_copy() fills is still empty.  That   *)
(* its count is zero is what makes the first vector_inc() of a copy a      *)
(* first batch, and every later one a wrong one.                           *)
(***************************************************************************)

Filled(x) ==
  /\ x.count <= Len(x.mem)
  /\ \A i \in 1 .. x.count : x.mem[i] \in Values

CopyTarget ==
  \A v, w \in Vectors : copying = <<v, w>> => v # w /\ vec[v].count = 0

IInv ==
  /\ TypeOK
  /\ \A v \in Vectors : Filled(vec[v])
  /\ CopyTarget
  /\ BlockFits
  /\ StoresStayInside

LEMMA InitInv == Init => IInv
<1> SUFFICES ASSUME Init PROVE IInv
  OBVIOUS
<1>1. Fresh \in Block /\ Len(Fresh.mem) = 0 /\ Fresh.count = 0 /\ Fresh.aval = 0
  BY DEF Fresh, Block
<1>2. TypeOK
  BY <1>1 DEF Init, TypeOK
<1> QED
  BY <1>1, <1>2 DEF Init, IInv, Filled, CopyTarget, BlockFits, StoresStayInside

(* Only v's block changes, and it stays a good one.                        *)
LEMMA OneBlock ==
  ASSUME IInv, NEW v \in Vectors, NEW x \in Block,
         vec' = [vec EXCEPT ![v] = x],
         overrun' = overrun,
         copying' \in {copying, <<>>},
         copying # <<>> => copying' = <<>> \/ x.count = vec[v].count,
         stretched' \in {stretched, stretched \cup {v}},
         Filled(x),
         v \notin stretched' => /\ x.count + x.aval <= Len(x.mem)
                               /\ Len(x.mem) <= x.count + x.aval + 1
  PROVE  IInv'
<1>1. TypeOK'
  BY DEF IInv, TypeOK
<1>2. \A u \in Vectors : vec'[u] = IF u = v THEN x ELSE vec[u]
  BY DEF IInv, TypeOK
<1>3. \A u \in Vectors : Filled(vec'[u])
  BY <1>2 DEF IInv
<1>4. CopyTarget'
  <2> SUFFICES ASSUME NEW u \in Vectors, NEW w \in Vectors,
                      copying' = <<u, w>>
               PROVE  u # w /\ vec'[u].count = 0
    BY DEF CopyTarget
  <2>1. <<u, w>> # <<>>
    OBVIOUS
  <2>2. copying = <<u, w>> /\ copying # <<>> /\ copying' # <<>>
    BY <2>1
  <2>3. u # w /\ vec[u].count = 0
    BY <2>2 DEF IInv, CopyTarget
  <2>4. x.count = vec[v].count
    BY <2>2
  <2> QED
    BY <1>2, <2>3, <2>4
<1>5. BlockFits'
  BY <1>2 DEF IInv, BlockFits
<1>6. StoresStayInside'
  BY DEF IInv, StoresStayInside
<1> QED
  BY <1>1, <1>3, <1>4, <1>5, <1>6 DEF IInv

LEMMA WithRoomGood ==
  ASSUME NEW x \in Block, Filled(x)
  PROVE  /\ WithRoom(x) \in Block
         /\ Filled(WithRoom(x))
         /\ WithRoom(x).count = x.count
         /\ WithRoom(x).aval > 0
         /\ \A i \in 1 .. x.count : WithRoom(x).mem[i] = x.mem[i]
         /\ /\ x.count + x.aval <= Len(x.mem)
            /\ Len(x.mem) <= x.count + x.aval + 1
            => /\ WithRoom(x).count + WithRoom(x).aval <= Len(WithRoom(x).mem)
               /\ Len(WithRoom(x).mem) <= WithRoom(x).count + WithRoom(x).aval + 1
<1>1. x.count \in Nat /\ x.aval \in Nat /\ Len(x.mem) \in Nat
  BY DEF Block
<1>2. CASE x.aval # 0
  <2>1. WithRoom(x) = x
    BY <1>2 DEF WithRoom
  <2> QED
    BY <1>1, <1>2, <2>1
<1>3. CASE x.aval = 0
  <2>1. WithRoom(x) = VectorInc(x)
    BY <1>3 DEF WithRoom
  <2>2. \A i \in 1 .. x.count : VectorInc(x).mem[i] = x.mem[i]
    BY <1>1, VectorIncType DEF Filled
  <2>3. Filled(VectorInc(x))
    BY <1>1, <2>2, VectorIncType DEF Filled
  <2>4. /\ VectorInc(x).aval = NewlyAvailable(x)
        /\ NewlyAvailable(x) > 0
    BY <1>1, <1>3, VectorIncType
  <2>5. /\ VectorInc(x).count + VectorInc(x).aval <= Len(VectorInc(x).mem)
        /\ Len(VectorInc(x).mem) <= VectorInc(x).count + VectorInc(x).aval + 1
    <3>1. /\ VectorInc(x).count = x.count
          /\ Len(VectorInc(x).mem) = VECTOR_BATCH + x.count
          /\ NewlyAvailable(x) \in {VECTOR_BATCH - 1, VECTOR_BATCH}
      BY VectorIncType
    <3> QED
      BY <1>1, <2>4, <3>1
  <2> QED
    BY <2>1, <2>2, <2>3, <2>4, <2>5, VectorIncType
<1> QED
  BY <1>2, <1>3

-----------------------------------------------------------------------------
(***************************************************************************)
(* One lemma for every operation                                           *)
(***************************************************************************)

LEMMA PushbackInv ==
  ASSUME IInv, NEW v \in Vectors, NEW e \in Values, VectorPushback(v, e)
  PROVE  IInv'
<1> DEFINE x == WithRoom(vec[v])
           elem == [i \in 1 .. x.count + 1 |->
                      IF i <= x.count THEN x.mem[i] ELSE e]
           y == Holding(x, x.count + 1, elem, x.aval - 1)
<1>1. vec[v] \in Block /\ Filled(vec[v])
  BY DEF IInv, TypeOK
<1>2. /\ x \in Block /\ Filled(x)
      /\ x.count = vec[v].count
      /\ x.aval > 0
  BY <1>1, WithRoomGood
<1>3. x.count \in Nat /\ x.aval \in Nat /\ Len(x.mem) \in Nat
  BY <1>2 DEF Block
<1>4. v \notin stretched => /\ x.count + x.aval <= Len(x.mem)
                           /\ Len(x.mem) <= x.count + x.aval + 1
  BY <1>1, WithRoomGood DEF IInv, BlockFits
<1>5. CASE x.count + 1 <= Len(x.mem)
  <2>1. \A i \in 1 .. x.count + 1 : elem[i] \in Values
    BY <1>2, <1>3 DEF Filled
  <2>0. x.count + 1 \in Nat /\ x.aval - 1 \in Nat
    BY <1>2, <1>3
  <2> HIDE DEF x, elem
  <2>2. /\ y \in Block
        /\ Len(y.mem) = Len(x.mem)
        /\ y.count = x.count + 1
        /\ y.aval = x.aval - 1
        /\ \A i \in 1 .. x.count + 1 : i <= Len(x.mem) => y.mem[i] = elem[i]
    BY <1>2, <2>0, <2>1, HoldingType
  <2> HIDE DEF y
  <2>3. Filled(y)
    BY <1>3, <1>5, <2>1, <2>2 DEF Filled
  <2>4. /\ vec' = [vec EXCEPT ![v] = y]
        /\ overrun' = overrun
        /\ copying = <<>> /\ copying' = <<>>
        /\ stretched' = stretched
    BY <1>5 DEF VectorPushback, Store, Idle, x, elem, y
  <2>5. v \notin stretched' => /\ y.count + y.aval <= Len(y.mem)
                              /\ Len(y.mem) <= y.count + y.aval + 1
    BY <1>3, <1>4, <2>2, <2>4
  <2> QED
    BY <2>2, <2>3, <2>4, <2>5, OneBlock
<1>6. CASE ~(x.count + 1 <= Len(x.mem))
  <2>1. /\ vec' = vec /\ copying' = copying /\ stretched' = stretched
        /\ overrun' = overrun \cup {v}
    BY <1>6 DEF VectorPushback, Store
  <2>2. v \in stretched
    BY <1>2, <1>3, <1>4, <1>6
  <2> QED
    BY <2>1, <2>2 DEF IInv, TypeOK, CopyTarget, BlockFits, StoresStayInside
<1> QED
  BY <1>5, <1>6

LEMMA DelInv ==
  ASSUME IInv, NEW v \in Vectors, NEW k \in 1 .. vec[v].count, VectorDel(v, k)
  PROVE  IInv'
<1> DEFINE x == vec[v]
           elem == [x.mem EXCEPT ![k] = x.mem[x.count]]
           y == Holding(x, x.count - 1, elem, x.aval + 1)
<1>1. x \in Block /\ Filled(x)
  BY DEF IInv, TypeOK
<1>2. /\ x.count \in Nat /\ x.aval \in Nat /\ Len(x.mem) \in Nat
      /\ DOMAIN x.mem = 1 .. Len(x.mem)
  BY <1>1 DEF Block
<1>3. x.count - 1 \in Nat /\ x.aval + 1 \in Nat
  BY <1>2
<1>4. \A i \in 1 .. x.count - 1 : elem[i] \in Values
  BY <1>1, <1>2 DEF Filled
<1>5. /\ vec' = [vec EXCEPT ![v] = y]
      /\ copying = <<>> /\ copying' = <<>>
      /\ overrun' = overrun /\ stretched' = stretched
  BY DEF VectorDel, Idle, IInv, TypeOK
<1>6. v \notin stretched => /\ x.count + x.aval <= Len(x.mem)
                           /\ Len(x.mem) <= x.count + x.aval + 1
  BY DEF IInv, BlockFits
<1> HIDE DEF x, elem
<1>7. /\ y \in Block
      /\ Len(y.mem) = Len(x.mem)
      /\ y.count = x.count - 1
      /\ y.aval = x.aval + 1
      /\ \A i \in 1 .. x.count - 1 : i <= Len(x.mem) => y.mem[i] = elem[i]
  BY <1>1, <1>3, <1>4, HoldingType
<1> HIDE DEF y
<1>8. Filled(y)
  <2>1. x.count <= Len(x.mem)
    BY <1>1 DEF Filled
  <2>2. \A i \in 1 .. x.count - 1 : y.mem[i] \in Values
    BY <1>2, <1>4, <1>7, <2>1
  <2> QED
    BY <1>2, <1>7, <2>1, <2>2 DEF Filled
<1>9. v \notin stretched' => /\ y.count + y.aval <= Len(y.mem)
                            /\ Len(y.mem) <= y.count + y.aval + 1
  BY <1>2, <1>5, <1>6, <1>7
<1> QED
  BY <1>5, <1>7, <1>8, <1>9, OneBlock

LEMMA ClearInv ==
  ASSUME IInv, NEW v \in Vectors, VectorClear(v)
  PROVE  IInv'
<1> DEFINE x == vec[v]
           y == Holding(x, 0, <<>>, x.aval + x.count)
<1>1. x \in Block
  BY DEF IInv, TypeOK
<1>2. /\ x.count \in Nat /\ x.aval \in Nat /\ Len(x.mem) \in Nat
      /\ x.aval + x.count \in Nat
  BY <1>1 DEF Block
<1>3. /\ vec' = [vec EXCEPT ![v] = y]
      /\ copying = <<>> /\ copying' = <<>>
      /\ overrun' = overrun /\ stretched' = stretched
  BY DEF VectorClear, Idle, IInv, TypeOK
<1>4. v \notin stretched => /\ x.count + x.aval <= Len(x.mem)
                           /\ Len(x.mem) <= x.count + x.aval + 1
  BY DEF IInv, BlockFits
<1> HIDE DEF x
<1>5. /\ y \in Block
      /\ Len(y.mem) = Len(x.mem)
      /\ y.count = 0
      /\ y.aval = x.aval + x.count
  BY <1>1, <1>2, HoldingType
<1> HIDE DEF y
<1>6. Filled(y)
  BY <1>2, <1>5 DEF Filled
<1>7. v \notin stretched' => /\ y.count + y.aval <= Len(y.mem)
                            /\ Len(y.mem) <= y.count + y.aval + 1
  BY <1>2, <1>3, <1>4, <1>5
<1> QED
  BY <1>3, <1>5, <1>6, <1>7, OneBlock

LEMMA FreshType == Fresh \in Block /\ Filled(Fresh) /\ Elements(Fresh) = <<>>
BY DEF Fresh, Block, Filled, Elements

LEMMA FreeInv ==
  ASSUME IInv, NEW v \in Vectors, VectorFree(v)
  PROVE  IInv'
<1>1. /\ vec' = [vec EXCEPT ![v] = Fresh]
      /\ copying = <<>> /\ copying' = <<>>
      /\ overrun = {} /\ overrun' = {}
      /\ stretched' = stretched \ {v}
  BY DEF VectorFree, Idle
<1>2. \A u \in Vectors : vec'[u] = IF u = v THEN Fresh ELSE vec[u]
  BY <1>1 DEF IInv, TypeOK
<1>3. TypeOK'
  BY <1>1, FreshType DEF IInv, TypeOK
<1>4. \A u \in Vectors : Filled(vec'[u])
  BY <1>2, FreshType DEF IInv
<1>5. CopyTarget'
  BY <1>1 DEF CopyTarget
<1>6. BlockFits'
  <2>1. /\ Fresh.count + Fresh.aval <= Len(Fresh.mem)
        /\ Len(Fresh.mem) <= Fresh.count + Fresh.aval + 1
    BY DEF Fresh
  <2> QED
    BY <1>1, <1>2, <2>1 DEF IInv, BlockFits
<1> QED
  BY <1>1, <1>3, <1>4, <1>5, <1>6 DEF IInv, StoresStayInside

LEMMA SwapInv ==
  ASSUME IInv, NEW v \in Vectors, NEW w \in Vectors \ {v}, VectorSwap(v, w)
  PROVE  IInv'
<1>1. /\ vec' = [vec EXCEPT ![v] = vec[w], ![w] = vec[v]]
      /\ copying = <<>> /\ copying' = <<>>
      /\ overrun = {} /\ overrun' = {}
  BY DEF VectorSwap, Idle
<1>2. \A u \in Vectors : vec'[u] = IF u = v THEN vec[w]
                                   ELSE IF u = w THEN vec[v] ELSE vec[u]
  BY <1>1 DEF IInv, TypeOK
<1>3. /\ v \in stretched' <=> w \in stretched
      /\ w \in stretched' <=> v \in stretched
      /\ \A u \in Vectors \ {v, w} : u \in stretched' <=> u \in stretched
      /\ stretched' \subseteq Vectors
  BY DEF VectorSwap, IInv, TypeOK
<1>4. TypeOK'
  BY <1>1, <1>3 DEF IInv, TypeOK
<1>5. \A u \in Vectors : Filled(vec'[u])
  BY <1>2 DEF IInv
<1>6. CopyTarget'
  BY <1>1 DEF CopyTarget
<1>7. BlockFits'
  BY <1>2, <1>3 DEF IInv, BlockFits
<1> QED
  BY <1>1, <1>4, <1>5, <1>6, <1>7 DEF IInv, StoresStayInside

LEMMA CopyInv ==
  ASSUME IInv, NEW v \in Vectors, NEW w \in Vectors \ {v}, VectorCopy(v, w)
  PROVE  IInv'
<1>1. /\ copying' = <<v, w>> /\ vec[v].count = 0
      /\ vec' = vec /\ overrun' = overrun /\ stretched' = stretched
  BY DEF VectorCopy
<1>2. TypeOK'
  BY <1>1 DEF IInv, TypeOK
<1>3. CopyTarget'
  BY <1>1 DEF CopyTarget
<1> QED
  BY <1>1, <1>2, <1>3 DEF IInv, BlockFits, StoresStayInside

LEMMA CopyIncInv ==
  ASSUME IInv, NEW v \in Vectors, NEW w \in Vectors \ {v}, CopyInc(v, w)
  PROVE  IInv'
<1> DEFINE x == vec[v]
           y == VectorInc(x)
<1>1. x \in Block /\ x.count = 0 /\ x.aval \in Nat
  BY DEF CopyInc, IInv, TypeOK, CopyTarget, Block
<1>2. /\ y \in Block
      /\ Len(y.mem) = VECTOR_BATCH
      /\ y.count = 0
      /\ y.aval = x.aval + (VECTOR_BATCH - 1)
  BY <1>1, VectorIncType
<1>3. /\ vec' = [vec EXCEPT ![v] = y]
      /\ copying' = copying /\ overrun' = overrun
      /\ stretched' = IF x.aval > 0 THEN stretched \cup {v} ELSE stretched
  BY DEF CopyInc, IInv, TypeOK
<1>4. v \notin stretched' => x.aval = 0
  BY <1>1, <1>3
<1> HIDE DEF y
<1>5. Filled(y)
  BY <1>2 DEF Filled
<1>6. v \notin stretched' => /\ y.count + y.aval <= Len(y.mem)
                            /\ Len(y.mem) <= y.count + y.aval + 1
  BY <1>2, <1>4
<1> QED
  BY <1>1, <1>2, <1>3, <1>5, <1>6, OneBlock

LEMMA CopyElementsInv ==
  ASSUME IInv, NEW v \in Vectors, NEW w \in Vectors \ {v}, CopyElements(v, w)
  PROVE  IInv'
<1> DEFINE x == vec[v]
           n == vec[w].count
           elem == vec[w].mem
           y == Holding(x, n, elem, x.aval - n)
<1>1. /\ x \in Block /\ vec[w] \in Block /\ Filled(vec[w])
      /\ x.count = 0
  BY DEF CopyElements, IInv, TypeOK, CopyTarget
<1>2. /\ n \in Nat /\ x.aval \in Nat /\ Len(x.mem) \in Nat
      /\ n <= x.aval
  BY <1>1 DEF CopyElements, Block
<1>3. v \notin stretched => /\ x.count + x.aval <= Len(x.mem)
                           /\ Len(x.mem) <= x.count + x.aval + 1
  BY DEF IInv, BlockFits
<1>4. /\ copying' = <<>>
      /\ stretched' = stretched
  BY DEF CopyElements
<1>5. CASE n <= Len(x.mem)
  <2>1. x.aval - n \in Nat /\ \A i \in 1 .. n : elem[i] \in Values
    BY <1>1, <1>2 DEF Filled
  <2>2. vec' = [vec EXCEPT ![v] = y] /\ overrun' = overrun
    BY <1>5 DEF CopyElements, Store
  <2> HIDE DEF x, n, elem
  <2>3. /\ y \in Block
        /\ Len(y.mem) = Len(x.mem)
        /\ y.count = n
        /\ y.aval = x.aval - n
        /\ \A i \in 1 .. n : i <= Len(x.mem) => y.mem[i] = elem[i]
    BY <1>1, <1>2, <2>1, HoldingType
  <2> HIDE DEF y
  <2>4. Filled(y)
    BY <1>2, <1>5, <2>1, <2>3 DEF Filled
  <2>5. v \notin stretched' => /\ y.count + y.aval <= Len(y.mem)
                              /\ Len(y.mem) <= y.count + y.aval + 1
    BY <1>1, <1>2, <1>3, <1>4, <2>3
  <2> QED
    BY <1>4, <2>2, <2>3, <2>4, <2>5, OneBlock
<1>6. CASE ~(n <= Len(x.mem))
  <2>1. vec' = vec /\ overrun' = overrun \cup {v}
    BY <1>6 DEF CopyElements, Store
  <2>2. v \in stretched
    BY <1>1, <1>2, <1>3, <1>6
  <2> QED
    BY <1>4, <2>1, <2>2
    DEF IInv, TypeOK, CopyTarget, BlockFits, StoresStayInside
<1> QED
  BY <1>5, <1>6

LEMMA StutterInv ==
  ASSUME IInv, UNCHANGED vars PROVE IInv'
BY DEF IInv, TypeOK, CopyTarget, BlockFits, StoresStayInside, vars

LEMMA Inductive == IInv /\ [Next]_vars => IInv'
<1> SUFFICES ASSUME IInv, [Next]_vars PROVE IInv'
  OBVIOUS
<1>1. CASE UNCHANGED vars
  BY <1>1, StutterInv
<1>2. CASE Next
  BY <1>2, PushbackInv, DelInv, ClearInv, FreeInv, SwapInv, CopyInv,
     CopyIncInv, CopyElementsInv DEF Next
<1> QED
  BY <1>1, <1>2

LEMMA Invariant == Spec => []IInv
BY InitInv, Inductive, PTL DEF Spec

-----------------------------------------------------------------------------
(***************************************************************************)
(* Theorems                                                                *)
(***************************************************************************)

(* The counters stay natural numbers, so the unsigned ones of the struct   *)
(* never wrap below zero, however long the vectors get.                    *)
THEOREM TypeCorrect == Spec => []TypeOK
BY Invariant, PTL DEF IInv

(* What a vector counts is allocated, with at most one element to spare,   *)
(* for every batch size: vector_inc() may add one room less the first and  *)
(* the second time and still never drifts from realloc()'s size.           *)
THEOREM CountedIsAllocated == Spec => []BlockFits
BY Invariant, PTL DEF IInv

(* No operation stores beyond a block, but for vectors that vector_copy()  *)
(* grew although they counted some room.                                   *)
THEOREM NeverOutside == Spec => []StoresStayInside
BY Invariant, PTL DEF IInv

-----------------------------------------------------------------------------
(***************************************************************************)
(* The vectors implement the lists of ElementLists.                        *)
(***************************************************************************)

lists == [v \in Vectors |-> Elements(vec[v])]

LEMMA ElementsType ==
  ASSUME NEW x \in Block, Filled(x)
  PROVE  /\ Elements(x) \in Seq(Values)
         /\ Len(Elements(x)) = x.count
         /\ \A i \in 1 .. x.count : Elements(x)[i] = x.mem[i]
<1>1. x.count \in Nat
  BY DEF Block
<1>2. Elements(x) \in [1 .. x.count -> Values]
  BY DEF Elements, Filled
<1> QED
  BY <1>1, <1>2 DEF Elements

(* An operation that leaves a list of n elements in v's block.             *)
LEMMA OneList ==
  ASSUME IInv, NEW v \in Vectors, NEW y \in Block,
         vec' = [vec EXCEPT ![v] = y]
  PROVE  lists' = [lists EXCEPT ![v] = Elements(y)]
<1>1. \A u \in Vectors : vec'[u] = IF u = v THEN y ELSE vec[u]
  BY DEF IInv, TypeOK
<1>2. lists' = [u \in Vectors |-> Elements(vec'[u])]
  BY DEF lists
<1>3. \A u \in Vectors :
        lists'[u] = IF u = v THEN Elements(y) ELSE lists[u]
  BY <1>1, <1>2 DEF lists
<1> QED
  BY <1>2, <1>3 DEF lists

LEMMA StoreList ==
  ASSUME NEW x \in Block, NEW n \in Nat, NEW aval \in Nat, NEW elem,
         n <= Len(x.mem), \A i \in 1 .. n : elem[i] \in Values
  PROVE  /\ Holding(x, n, elem, aval) \in Block
         /\ Elements(Holding(x, n, elem, aval)) = [i \in 1 .. n |-> elem[i]]
<1> DEFINE y == Holding(x, n, elem, aval)
<1>1. Len(x.mem) \in Nat
  BY DEF Block
<1>2. /\ y \in Block /\ y.count = n
      /\ \A i \in 1 .. n : i <= Len(x.mem) => y.mem[i] = elem[i]
  BY HoldingType
<1> HIDE DEF y
<1>3. \A i \in 1 .. n : y.mem[i] = elem[i]
  BY <1>1, <1>2
<1> QED
  BY <1>2, <1>3 DEF Elements, y

LEMMA PushStep ==
  ASSUME IInv, NEW v \in Vectors, NEW e \in Values, VectorPushback(v, e)
  PROVE  lists' = [lists EXCEPT ![v] = Append(@, e)] \/ lists' = lists
<1> DEFINE x == WithRoom(vec[v])
           elem == [i \in 1 .. x.count + 1 |->
                      IF i <= x.count THEN x.mem[i] ELSE e]
           y == Holding(x, x.count + 1, elem, x.aval - 1)
<1>1. vec[v] \in Block /\ Filled(vec[v])
  BY DEF IInv, TypeOK
<1>2. /\ x \in Block /\ Filled(x) /\ x.count = vec[v].count /\ x.aval > 0
      /\ \A i \in 1 .. vec[v].count : x.mem[i] = vec[v].mem[i]
  BY <1>1, WithRoomGood
<1>3. x.count + 1 \in Nat /\ x.aval - 1 \in Nat /\ x.count \in Nat
  BY <1>2 DEF Block
<1>4. CASE ~(x.count + 1 <= Len(x.mem))
  BY <1>4 DEF VectorPushback, Store, lists
<1>5. CASE x.count + 1 <= Len(x.mem)
  <2>1. \A i \in 1 .. x.count + 1 : elem[i] \in Values
    BY <1>2, <1>3 DEF Filled
  <2>2. vec' = [vec EXCEPT ![v] = y]
    BY <1>5 DEF VectorPushback, Store
  <2>3. elem = Append(Elements(vec[v]), e)
    <3>1. /\ Elements(vec[v]) \in Seq(Values)
          /\ Len(Elements(vec[v])) = vec[v].count
          /\ \A i \in 1 .. vec[v].count : Elements(vec[v])[i] = vec[v].mem[i]
      BY <1>1, ElementsType
    <3>2. Elements(vec[v]) = [i \in 1 .. x.count |-> x.mem[i]]
      BY <1>2, <3>1 DEF Elements
    <3> HIDE DEF x
    <3> QED
      BY <1>2, <1>3, <3>1, <3>2
  <2>4. elem = [i \in 1 .. x.count + 1 |-> elem[i]]
    OBVIOUS
  <2> HIDE DEF x, elem
  <2>5. y \in Block /\ Elements(y) = elem
    <3>1. y \in Block /\ Elements(y) = [i \in 1 .. x.count + 1 |-> elem[i]]
      BY <1>2, <1>3, <1>5, <2>1, StoreList
    <3> QED
      BY <2>4, <3>1
  <2> HIDE DEF y
  <2>6. lists' = [lists EXCEPT ![v] = Elements(y)]
    BY <2>2, <2>5, OneList
  <2>7. lists[v] = Elements(vec[v])
    BY DEF lists
  <2> QED
    BY <2>3, <2>5, <2>6, <2>7
<1> QED
  BY <1>4, <1>5

LEMMA DelStep ==
  ASSUME IInv, NEW v \in Vectors, NEW k \in 1 .. vec[v].count, VectorDel(v, k)
  PROVE  /\ k \in 1 .. Len(lists[v])
         /\ lists' = [lists EXCEPT ![v] =
                        [i \in 1 .. Len(@) - 1 |->
                           IF i = k THEN @[Len(@)] ELSE @[i]]]
<1> DEFINE x == vec[v]
           old == Elements(x)
           elem == [x.mem EXCEPT ![k] = x.mem[x.count]]
           y == Holding(x, x.count - 1, elem, x.aval + 1)
<1>1. x \in Block /\ Filled(x)
  BY DEF IInv, TypeOK
<1>2. /\ x.count \in Nat /\ x.aval \in Nat /\ Len(x.mem) \in Nat
      /\ DOMAIN x.mem = 1 .. Len(x.mem) /\ x.count <= Len(x.mem)
  BY <1>1 DEF Block, Filled
<1>3. x.count - 1 \in Nat /\ x.aval + 1 \in Nat /\ x.count - 1 <= Len(x.mem)
  BY <1>2
<1>4. \A i \in 1 .. x.count - 1 : elem[i] \in Values
  BY <1>1, <1>2 DEF Filled
<1>5. vec' = [vec EXCEPT ![v] = y]
  BY DEF VectorDel, IInv, TypeOK
<1>6. /\ Len(old) = x.count
      /\ \A i \in 1 .. x.count : old[i] = x.mem[i]
  BY <1>1, ElementsType
<1>7. \A i \in 1 .. x.count - 1 :
        elem[i] = IF i = k THEN old[Len(old)] ELSE old[i]
  BY <1>2, <1>6
<1>8. lists[v] = old
  BY DEF lists
<1> HIDE DEF elem
<1>9. y \in Block /\ Elements(y) = [i \in 1 .. x.count - 1 |-> elem[i]]
  BY <1>1, <1>3, <1>4, StoreList
<1> HIDE DEF x, y, old
<1>10. Elements(y) = [i \in 1 .. Len(old) - 1 |->
                        IF i = k THEN old[Len(old)] ELSE old[i]]
  BY <1>6, <1>7, <1>9
<1>11. lists' = [lists EXCEPT ![v] = Elements(y)]
  BY <1>5, <1>9, OneList
<1> QED
  BY <1>6, <1>8, <1>10, <1>11 DEF x

LEMMA ClearStep ==
  ASSUME IInv, NEW v \in Vectors, VectorClear(v)
  PROVE  lists' = [lists EXCEPT ![v] = <<>>]
<1> DEFINE x == vec[v]
           y == Holding(x, 0, <<>>, x.aval + x.count)
<1>1. /\ x \in Block /\ x.aval + x.count \in Nat /\ 0 <= Len(x.mem)
  BY DEF IInv, TypeOK, Block
<1>2. vec' = [vec EXCEPT ![v] = y]
  BY DEF VectorClear, IInv, TypeOK
<1> HIDE DEF x
<1>3. y \in Block /\ y.count = 0
  <2>1. 0 \in Nat /\ \A i \in 1 .. 0 : <<>>[i] \in Values \cup {JUNK}
    OBVIOUS
  <2> QED
    BY <1>1, <2>1, HoldingType
<1> HIDE DEF y
<1>4. Elements(y) = <<>>
  BY <1>3 DEF Elements
<1> QED
  BY <1>2, <1>3, <1>4, OneList

LEMMA FreeStep ==
  ASSUME IInv, NEW v \in Vectors, VectorFree(v)
  PROVE  lists' = [lists EXCEPT ![v] = <<>>]
<1>1. vec' = [vec EXCEPT ![v] = Fresh]
  BY DEF VectorFree
<1> QED
  BY <1>1, FreshType, OneList

LEMMA SwapStep ==
  ASSUME IInv, NEW v \in Vectors, NEW w \in Vectors \ {v}, VectorSwap(v, w)
  PROVE  lists' = [lists EXCEPT ![v] = lists[w], ![w] = lists[v]]
<1>1. \A u \in Vectors : vec'[u] = IF u = v THEN vec[w]
                                   ELSE IF u = w THEN vec[v] ELSE vec[u]
  BY DEF VectorSwap, IInv, TypeOK
<1> QED
  BY <1>1 DEF lists

LEMMA CopyIncStep ==
  ASSUME IInv, NEW v \in Vectors, NEW w \in Vectors \ {v}, CopyInc(v, w)
  PROVE  lists' = lists
<1>1. vec[v] \in Block /\ vec[v].count = 0
  BY DEF CopyInc, IInv, TypeOK, CopyTarget
<1>2. /\ VectorInc(vec[v]) \in Block
      /\ VectorInc(vec[v]).count = 0
  BY <1>1, VectorIncType
<1>3. vec' = [vec EXCEPT ![v] = VectorInc(vec[v])]
  BY DEF CopyInc, IInv, TypeOK
<1>4. Elements(VectorInc(vec[v])) = Elements(vec[v])
  BY <1>1, <1>2 DEF Elements
<1>5. lists' = [lists EXCEPT ![v] = Elements(vec[v])]
  BY <1>2, <1>3, <1>4, OneList
<1> QED
  BY <1>5 DEF lists

LEMMA CopyElementsStep ==
  ASSUME IInv, NEW v \in Vectors, NEW w \in Vectors \ {v}, CopyElements(v, w)
  PROVE  \/ lists[v] = <<>> /\ lists' = [lists EXCEPT ![v] = lists[w]]
         \/ lists' = lists
<1> DEFINE x == vec[v]
           n == vec[w].count
           elem == vec[w].mem
           y == Holding(x, n, elem, x.aval - n)
<1>1. /\ x \in Block /\ vec[w] \in Block /\ Filled(vec[w])
      /\ x.count = 0
  BY DEF CopyElements, IInv, TypeOK, CopyTarget
<1>2. n \in Nat /\ x.aval - n \in Nat
  BY <1>1 DEF CopyElements, Block
<1>3. CASE ~(n <= Len(x.mem))
  BY <1>3 DEF CopyElements, Store, lists
<1>4. CASE n <= Len(x.mem)
  <2>1. \A i \in 1 .. n : elem[i] \in Values
    BY <1>1 DEF Filled
  <2>2. vec' = [vec EXCEPT ![v] = y]
    BY <1>4 DEF CopyElements, Store
  <2>3. y \in Block /\ Elements(y) = [i \in 1 .. n |-> elem[i]]
    BY <1>1, <1>2, <1>4, <2>1, StoreList
  <2>4. Elements(y) = Elements(vec[w])
    BY <2>3 DEF Elements
  <2>5. Elements(x) = <<>>
    BY <1>1 DEF Elements
  <2> HIDE DEF y
  <2>6. lists' = [lists EXCEPT ![v] = Elements(vec[w])]
    BY <2>2, <2>3, <2>4, OneList
  <2> QED
    BY <2>5, <2>6 DEF lists
<1> QED
  BY <1>3, <1>4

(* The vectors implement the lists of ElementLists: every operation of     *)
(* vector.c changes the list it is given as the callers expect, and moving *)
(* a block or growing it changes none.                                     *)
THEOREM ImplementsLists == Spec => ListSpec
<1>1. Init => Lists!Init
  BY DEF Init, Lists!Init, Fresh, Elements
<1>2. ASSUME IInv, [Next]_vars
      PROVE  [Lists!Next]_lists
  <2> USE DEF lists
  <2>1. CASE UNCHANGED vars
    BY <2>1 DEF vars
  <2>2. ASSUME NEW v \in Vectors, NEW e \in Values, VectorPushback(v, e)
        PROVE  [Lists!Next]_lists
    BY <1>2, <2>2, PushStep DEF Lists!Next, Lists!Push
  <2>3. ASSUME NEW v \in Vectors, NEW k \in 1 .. vec[v].count, VectorDel(v, k)
        PROVE  [Lists!Next]_lists
    <3>1. k \in 1 .. Len(lists[v])
      BY <1>2, <2>3, DelStep
    <3>2. Lists!Delete(v, k)
      BY <1>2, <2>3, DelStep DEF Lists!Delete
    <3> QED
      BY <3>1, <3>2 DEF Lists!Next
  <2>4. ASSUME NEW v \in Vectors, VectorClear(v)
        PROVE  [Lists!Next]_lists
    BY <1>2, <2>4, ClearStep DEF Lists!Next, Lists!Clear
  <2>5. ASSUME NEW v \in Vectors, NEW w \in Vectors \ {v}, VectorSwap(v, w)
        PROVE  [Lists!Next]_lists
    BY <1>2, <2>5, SwapStep DEF Lists!Next, Lists!Exchange
  <2>6. ASSUME NEW v \in Vectors, NEW w \in Vectors \ {v}, VectorCopy(v, w)
        PROVE  [Lists!Next]_lists
    BY <2>6 DEF VectorCopy
  <2>7. ASSUME NEW v \in Vectors, NEW w \in Vectors \ {v}, CopyInc(v, w)
        PROVE  [Lists!Next]_lists
    BY <1>2, <2>7, CopyIncStep
  <2>8. ASSUME NEW v \in Vectors, NEW w \in Vectors \ {v}, CopyElements(v, w)
        PROVE  [Lists!Next]_lists
    BY <1>2, <2>8, CopyElementsStep DEF Lists!Next, Lists!Copy
  <2>9. ASSUME NEW v \in Vectors, VectorFree(v)
        PROVE  [Lists!Next]_lists
    BY <1>2, <2>9, FreeStep DEF Lists!Next, Lists!Clear
  <2> QED
    BY <1>2, <2>1, <2>2, <2>3, <2>4, <2>5, <2>6, <2>7, <2>8, <2>9
       DEF Next
<1> QED
  BY <1>1, <1>2, Invariant, PTL DEF Spec, ListSpec, Lists!Spec, lists
=============================================================================
