-------------------------- MODULE SendBufferProofs --------------------------
(***************************************************************************)
(* Proofs about SendBuffer: the indices stay in the ring, and nothing is   *)
(* lost as long as a connection meets with none of the Limits.             *)
(***************************************************************************)
EXTENDS SendBuffer, SequenceTheorems, TLAPS

(* Whatever was met: the size of the ring, and where a message is saved.   *)
ShapeInv ==
  /\ t_left >= 0
  /\ t_size <= MaxBytes + PAGE_SIZE
  /\ t_size = 0 => t_left = 0 /\ ~pollout /\ listed = 0
  /\ t_size < PAGE_SIZE =>
       t_size = 0 /\ t_beg \in 0 .. PAGE_SIZE - 1 /\ t_end \in 0 .. PAGE_SIZE - 1
  /\ t_used + Len(from) <= asked
  /\ pc = "Save" => from # <<>>
  /\ pc = "Copy" => t_left >= Len(from)
  /\ pc \in {"Copy", "Send"} => t_size > 0
  /\ pc \notin {"Save", "Copy"} => from = <<>>

TypeInv == TypeOK /\ ShapeInv

(* The place of the byte i after b in a ring; i goes round once at most.   *)
Place(size, b, i) == IF b + i < size THEN b + i ELSE b + i - size

(* The first byte of the ring that was not sent.                           *)
First == IF pc = "Send" THEN beg ELSE t_beg

(* Between t_beg and t_end are t_used bytes, which follow those sent.  An  *)
(* empty ring's indices agree when it is written into.                     *)
RingInv ==
  /\ t_used >= 0
  /\ t_used > 0 \/ pc \in {"Save", "Copy"} => t_end = Place(t_size, First, t_used)
  /\ \A i \in 0 .. t_used - 1 :
       t_buf[Place(t_size, First, i) + 1] = Len(wire) + i + 1

(* The stream is what was sent, the ring and what is being saved.          *)
StreamInv ==
  /\ Len(wire) + t_used + Len(from) = asked
  /\ \A k \in DOMAIN wire : wire[k] = k
  /\ \A k \in DOMAIN from : from[k] = asked - Len(from) + k

(* A ring that is used has the size of a power of two, and POLLOUT is      *)
(* enabled as long as it is not empty.                                     *)
UseInv ==
  /\ t_size > 0 /\ ~(pc = "Save" /\ t_left < Len(from))
       => BitAnd(t_size, t_size - 1) = 0
  /\ pc = "Copy" => t_used + Len(from) > 0
  /\ pc = "Send" => total = t_used /\ total > 0 /\ pollout
  /\ pc = "Idle" => (pollout <=> t_used > 0)

(* All of this until the connection meets with one of the Limits.         *)
Kept == RingInv /\ StreamInv /\ UseInv

KeptInv ==
  met = {} => /\ \A k \in DOMAIN wire : wire[k] = k
              /\ pc # "Closed" => Kept

-----------------------------------------------------------------------------
(* Operators.                                                              *)

LEMMA BytesAre ==
  ASSUME NEW a \in Nat, NEW b \in Nat, a <= b, b <= MaxBytes
  PROVE  /\ Bytes(a, b) \in Seq(1 .. MaxBytes)
         /\ Len(Bytes(a, b)) = b - a
         /\ \A k \in 1 .. b - a : Bytes(a, b)[k] = a + k
<1>1. b - a \in Nat /\ \A k \in 1 .. b - a : a + k \in 1 .. MaxBytes
  BY SendAssumption DEF SendAssumption
<1>2. QED
  BY <1>1 DEF Bytes

LEMMA ResultRange ==
  ASSUME NEW n \in Nat
  PROVE  WriteResults(n) \subseteq -2 .. n
BY DEF WriteResults

LEMMA Masked ==
  ASSUME NEW size \in 1 .. MaxBytes + PAGE_SIZE, NEW k \in 0 .. size
  PROVE  /\ BitAnd(k, size - 1) \in 0 .. size - 1
         /\ BitAnd(size, size - 1) = 0
              => BitAnd(k, size - 1) = IF k < size THEN k ELSE 0
<1>1. /\ BitAnd(k, size - 1) \in 0 .. size - 1
      /\ BitAnd(size, size - 1) = 0 => BitAnd(k, size - 1) = k % size
  BY MaskAssumption DEF MaskAssumption
<1>2. k % size = IF k < size THEN k ELSE 0
  OBVIOUS
<1>3. QED
  BY <1>1, <1>2

LEMMA Wider ==
  ASSUME NEW S, NEW T, S \subseteq T, NEW s \in Seq(S)
  PROVE  s \in Seq(T)
OBVIOUS

LEMMA Item ==
  ASSUME NEW S, NEW s \in Seq(S)
  PROVE  \A k \in 1 .. Len(s) : s[k] \in S
OBVIOUS

LEMMA RoomIsLeft ==
  ASSUME NEW size \in Nat, NEW b \in 0 .. size - 1, NEW e \in 0 .. size - 1
  PROVE  (IF b <= e THEN size - e ELSE b - e) > 0
OBVIOUS

LEMMA Rest ==
  ASSUME NEW S, NEW s \in Seq(S), NEW n \in 0 .. Len(s)
  PROVE  /\ SubSeq(s, n + 1, Len(s)) \in Seq(S)
         /\ Len(SubSeq(s, n + 1, Len(s))) = Len(s) - n
         /\ \A k \in 1 .. Len(s) - n : SubSeq(s, n + 1, Len(s))[k] = s[n + k]
OBVIOUS

LEMMA Part ==
  ASSUME NEW S, NEW s \in Seq(S), NEW b \in Nat, NEW n \in Nat, b + n <= Len(s)
  PROVE  /\ SubSeq(s, b + 1, b + n) \in Seq(S)
         /\ Len(SubSeq(s, b + 1, b + n)) = n
         /\ \A k \in 1 .. n : SubSeq(s, b + 1, b + n)[k] = s[b + k]
OBVIOUS

-----------------------------------------------------------------------------
(* Types.                                                                  *)

LEMMA Sequenced ==
  ASSUME TypeInv
  PROVE  /\ t_buf \in Seq(1 .. MaxBytes \cup {GARBAGE}) /\ t_size = Len(t_buf)
         /\ from \in Seq(1 .. MaxBytes)
         /\ wire \in Seq(1 .. MaxBytes \cup {GARBAGE})
BY DEF TypeInv, TypeOK, t_size

LEMMA Naturals ==
  ASSUME TypeInv
  PROVE  /\ PAGE_SIZE \in Nat /\ MaxBytes \in Nat
         /\ t_size \in Nat /\ t_left \in Nat /\ asked \in Nat
         /\ Len(from) \in Nat /\ Len(wire) \in Nat
         /\ total \in Int
<1>1. t_size \in Nat /\ Len(from) \in Nat /\ Len(wire) \in Nat
  BY Sequenced
<1>2. QED
  BY <1>1, SendAssumption DEF SendAssumption, TypeInv, TypeOK, ShapeInv

LEMMA Bounds ==
  ASSUME TypeInv
  PROVE  /\ PAGE_SIZE > 0
         /\ t_size <= MaxBytes + PAGE_SIZE
         /\ t_size = 0 \/ t_size >= PAGE_SIZE
         /\ t_used \in Int /\ t_used = t_size - t_left
         /\ t_used + Len(from) <= asked
         /\ asked <= MaxBytes
BY Naturals, SendAssumption DEF SendAssumption, TypeInv, TypeOK, ShapeInv, t_used

LEMMA Indices ==
  ASSUME TypeInv
  PROVE  /\ t_size > 0 => t_beg \in 0 .. t_size - 1 /\ t_end \in 0 .. t_size - 1
         /\ t_size = 0 => /\ t_beg \in 0 .. PAGE_SIZE - 1
                          /\ t_end \in 0 .. PAGE_SIZE - 1
                          /\ t_left = 0 /\ ~pollout /\ listed = 0
BY Naturals, Bounds DEF TypeInv, TypeOK, ShapeInv

LEMMA SendRange ==
  ASSUME TypeInv, pc = "Send"
  PROVE  /\ t_size \in 1 .. MaxBytes + PAGE_SIZE
         /\ beg \in 0 .. t_size - 1
         /\ SendRoom \in 1 .. t_size - beg
         /\ beg < t_end => SendRoom <= t_end - beg
         /\ beg + SendRoom \in 0 .. t_size
<1>1. t_size > 0 /\ beg \in 0 .. t_size - 1 /\ SendRoom > 0
  BY DEF TypeInv, TypeOK, ShapeInv
<1>2. Batch \in Nat
  BY SendAssumption DEF SendAssumption
<1>3. /\ t_size \in Nat /\ t_size <= MaxBytes + PAGE_SIZE /\ t_end \in 0 .. t_size - 1
      /\ PAGE_SIZE \in Nat /\ MaxBytes \in Nat
  BY <1>1, Naturals, Bounds, Indices
<1> DEFINE run == IF beg < t_end THEN t_end - beg ELSE t_size - beg
<1>4. /\ run \in 1 .. t_size - beg
      /\ beg < t_end => run <= t_end - beg
  BY <1>1, <1>3
<1>5. SendRoom = run \/ (SendRoom = Lesser(run, Batch))
  BY DEF SendRoom
<1> HIDE DEF run
<1>6. SendRoom \in Int /\ SendRoom <= run
  BY <1>2, <1>3, <1>4, <1>5 DEF Lesser
<1>7. QED
  BY <1>1, <1>3, <1>4, <1>6

LEMMA CopyRange ==
  ASSUME TypeInv, pc = "Copy", from # <<>>
  PROVE  /\ t_size \in 1 .. MaxBytes + PAGE_SIZE
         /\ t_beg \in 0 .. t_size - 1 /\ t_end \in 0 .. t_size - 1
         /\ Len(from) \in Nat
         /\ Lesser(CopyRoom, Len(from)) \in 1 .. t_size - t_end
         /\ Lesser(CopyRoom, Len(from)) \in 1 .. Len(from)
         /\ t_beg > t_end => Lesser(CopyRoom, Len(from)) <= t_beg - t_end
         /\ t_left >= Len(from)
<1>1. t_size > 0 /\ Len(from) > 0 /\ t_left >= Len(from)
  BY Sequenced DEF TypeInv, ShapeInv
<1>2. /\ t_size \in Nat /\ t_size <= MaxBytes + PAGE_SIZE
      /\ t_beg \in 0 .. t_size - 1 /\ t_end \in 0 .. t_size - 1
      /\ PAGE_SIZE \in Nat /\ MaxBytes \in Nat /\ Len(from) \in Nat
  BY <1>1, Naturals, Bounds, Indices
<1>3. /\ CopyRoom \in 1 .. t_size - t_end
      /\ t_beg > t_end => CopyRoom <= t_beg - t_end
  BY <1>1, <1>2 DEF CopyRoom
<1>4. QED
  BY <1>1, <1>2, <1>3 DEF Lesser

LEMMA InitType == Init => TypeInv
<1>1. ASSUME Init
      PROVE  /\ t_size = 0 /\ t_used = 0 /\ Len(from) = 0
             /\ t_buf \in Seq(1 .. MaxBytes \cup {GARBAGE})
             /\ from \in Seq(1 .. MaxBytes)
             /\ wire \in Seq(1 .. MaxBytes \cup {GARBAGE})
  BY <1>1 DEF Init, t_size, t_used
<1>2. ASSUME Init
      PROVE  t_beg \in 0 .. PAGE_SIZE - 1 /\ t_end \in 0 .. PAGE_SIZE - 1
  BY <1>2, SendAssumption DEF SendAssumption, Init
<1>3. Init => TypeOK
  <2>1. ASSUME Init
        PROVE  /\ build \in Builds /\ connecting \in BOOLEAN /\ pollout \in BOOLEAN
               /\ t_left = 0 /\ listed = 0 /\ pc = "Idle" /\ total = 0 /\ asked = 0
               /\ met = {}
    BY <2>1 DEF Init
  <2>2. MaxBytes \in Nat /\ MaxReady \in Nat
    BY SendAssumption DEF SendAssumption
  <2>3. QED
    BY <1>1, <1>2, <2>1, <2>2 DEF TypeOK
<1>4. Init => ShapeInv
  <2>1. ASSUME Init
        PROVE  /\ t_left = 0 /\ pollout = FALSE /\ listed = 0 /\ pc = "Idle"
               /\ asked = 0 /\ from = <<>>
    BY <2>1 DEF Init
  <2>2. PAGE_SIZE \in Nat /\ PAGE_SIZE > 0 /\ MaxBytes \in Nat
    BY SendAssumption DEF SendAssumption
  <2>3. QED
    BY <1>1, <1>2, <2>1, <2>2 DEF ShapeInv
<1>5. QED
  BY <1>3, <1>4 DEF TypeInv

LEMMA ConnectionWriteType ==
  ASSUME TypeInv, NEW size \in Messages, ConnectionWrite(size)
  PROVE  TypeInv'
<1>1. size \in Nat /\ size > 0 /\ MaxBytes \in Nat
  BY SendAssumption DEF SendAssumption
<1>2. PICK ret \in WriteResults(size \div 6) :
        IF ret < 0
        THEN UNCHANGED <<wire, from, pc>>
        ELSE /\ wire' = wire \o Bytes(asked, asked + ret)
             /\ from' = Bytes(asked + ret, asked + size)
             /\ pc' = "Save"
  BY DEF ConnectionWrite
<1>3. /\ pc = "Idle" /\ from = <<>> /\ asked' = asked + size /\ asked + size <= MaxBytes
      /\ UNCHANGED <<build, connecting, t_buf, t_beg, t_end, t_left, pollout,
                     listed, beg, total>>
      /\ t_size' = t_size /\ t_used' = t_used
      /\ met' \subseteq Limits
  BY DEF ConnectionWrite, ring, t_size, t_used, TypeInv, TypeOK, ShapeInv, Meet, Limits
<1>4. ret \in Int /\ ret < size
  BY <1>1, ResultRange, size \div 6 \in Nat, size \div 6 < size
<1>5. CASE ret < 0
  <2>1. UNCHANGED <<wire, from, pc>>
    BY <1>2, <1>5
  <2>2. asked' \in 0 .. MaxBytes /\ t_used' + Len(from') <= asked'
    <3>1. /\ asked \in Nat /\ Len(from) \in Nat /\ t_used \in Int
          /\ t_used + Len(from) <= asked
      BY Naturals, Bounds
    <3>2. /\ asked' = asked + size /\ asked + size <= MaxBytes
          /\ t_used' = t_used /\ from' = from
      BY <1>3, <2>1
    <3>3. QED
      BY ONLY <1>1, <3>1, <3>2
  <2>3. TypeOK'
    BY <1>3, <2>1, <2>2 DEF TypeInv, TypeOK, CopyRoom
  <2>4. ShapeInv'
    BY <1>3, <2>1, <2>2 DEF TypeInv, ShapeInv
  <2>5. QED
    BY <2>3, <2>4 DEF TypeInv
<1>6. CASE ret >= 0
  <2>1. /\ wire' = wire \o Bytes(asked, asked + ret)
        /\ from' = Bytes(asked + ret, asked + size)
        /\ pc' = "Save"
    BY <1>2, <1>4, <1>6
  <2>2. asked \in Nat /\ asked + ret \in Nat /\ asked + size \in Nat
    BY <1>1, <1>4, <1>6, Naturals
  <2>3. Bytes(asked, asked + ret) \in Seq(1 .. MaxBytes)
    BY <1>1, <1>3, <1>4, <1>6, <2>2, BytesAre
  <2>4. from' \in Seq(1 .. MaxBytes) /\ Len(from') = size - ret
    <3>1. asked + ret <= asked + size /\ (asked + size) - (asked + ret) = size - ret
      BY <1>1, <1>4, Naturals
    <3>2. QED
      BY <1>3, <2>1, <2>2, <3>1, BytesAre
  <2>5. wire' \in Seq(1 .. MaxBytes \cup {GARBAGE})
    <3> DEFINE new == Bytes(asked, asked + ret)
    <3> HIDE DEF new
    <3>1. new \in Seq(1 .. MaxBytes \cup {GARBAGE})
      <4>1. new \in Seq(1 .. MaxBytes)
        BY <2>3 DEF new
      <4>2. QED
        BY ONLY <4>1, Wider
    <3>2. wire \in Seq(1 .. MaxBytes \cup {GARBAGE})
      BY Sequenced
    <3>3. wire' = wire \o new
      BY <2>1 DEF new
    <3>4. QED
      BY <3>1, <3>2, <3>3
  <2>6. /\ asked' \in 0 .. MaxBytes /\ t_used' + Len(from') <= asked'
        /\ from' # <<>>
    <3>1. t_used <= asked /\ t_used \in Int /\ asked \in Nat
      BY <1>3, Naturals, Bounds
    <3>2. QED
      BY <1>1, <1>3, <1>4, <1>6, <2>4, <3>1
  <2>7. (t_size > 0 => CopyRoom > 0)'
    <3>1. t_size > 0 => CopyRoom > 0
      BY Naturals, Indices, RoomIsLeft DEF CopyRoom
    <3>2. QED
      BY <1>3, <3>1 DEF CopyRoom
  <2>8. TypeOK'
    BY <1>3, <2>1, <2>4, <2>5, <2>6, <2>7 DEF TypeInv, TypeOK
  <2>9. ShapeInv'
    BY <1>3, <2>1, <2>6 DEF TypeInv, ShapeInv
  <2>10. QED
    BY <2>8, <2>9 DEF TypeInv
<1>7. QED
  BY <1>4, <1>5, <1>6

LEMMA GrowType ==
  ASSUME TypeInv, Grow
  PROVE  TypeInv'
<1> DEFINE page == [k \in 1 .. PAGE_SIZE |-> GARBAGE]
<1>1. /\ pc = "Save" /\ t_left < Len(from)
      /\ t_buf' = t_buf \o page
      /\ t_left' = t_left + PAGE_SIZE
      /\ UNCHANGED <<build, connecting, t_beg, t_end, pollout, listed, pc,
                     from, beg, total, asked, wire>>
      /\ met' \subseteq Limits
  BY DEF Grow, TypeInv, TypeOK, Meet, Limits
<1>2. page \in Seq(1 .. MaxBytes \cup {GARBAGE}) /\ Len(page) = PAGE_SIZE
  BY Naturals
<1> HIDE DEF page
<1>3. /\ t_buf' \in Seq(1 .. MaxBytes \cup {GARBAGE})
      /\ t_size' = t_size + PAGE_SIZE
  <2>1. t_buf \in Seq(1 .. MaxBytes \cup {GARBAGE})
    BY Sequenced
  <2>2. /\ t_buf \o page \in Seq(1 .. MaxBytes \cup {GARBAGE})
        /\ Len(t_buf \o page) = Len(t_buf) + Len(page)
    BY <1>2, <2>1
  <2>3. QED
    BY <1>1, <1>2, <2>2 DEF t_size
<1>4. t_used' = t_used
  BY <1>1, <1>3, Naturals DEF t_used
<1>5. /\ t_left' \in Nat
      /\ t_beg \in 0 .. t_size' - 1 /\ t_end \in 0 .. t_size' - 1
      /\ t_size' \in Nat /\ t_size' >= PAGE_SIZE /\ t_size' > 0
  <2>1. t_left' \in Nat /\ t_left' = t_left + PAGE_SIZE /\ t_size' = t_size + PAGE_SIZE
    BY <1>1, <1>3, Naturals
  <2>2. t_size' \in Nat /\ t_size' >= PAGE_SIZE /\ t_size' > 0
    <3>1. PAGE_SIZE > 0
      BY Bounds
    <3>2. QED
      BY <2>1, <3>1, Naturals
  <2>3. \A k : k \in 0 .. t_size - 1 \/ k \in 0 .. PAGE_SIZE - 1
               => k \in 0 .. t_size' - 1
    <3>1. t_size \in Nat /\ PAGE_SIZE \in Nat /\ t_size' = t_size + PAGE_SIZE
      BY <2>1, Naturals
    <3>2. QED
      BY ONLY <3>1
  <2>4. t_size = 0 \/ t_size > 0
    BY Naturals
  <2>5. QED
    BY <2>1, <2>2, <2>3, <2>4, Indices
<1>6. t_size' <= MaxBytes + PAGE_SIZE
  <2>1. t_left < Len(from) /\ t_size' = t_size + PAGE_SIZE
    BY <1>1, <1>3
  <2>2. QED
    BY <2>1, Naturals, Bounds
<1>7. CopyRoom' > 0
  <2>1. UNCHANGED <<t_beg, t_end>>
    BY <1>1
  <2>2. CopyRoom' = IF t_beg <= t_end THEN t_size' - t_end ELSE t_beg - t_end
    BY <2>1 DEF CopyRoom
  <2>3. /\ t_size' \in Nat /\ t_beg \in 0 .. t_size' - 1
        /\ t_end \in 0 .. t_size' - 1
    BY <1>5
  <2>4. QED
    BY ONLY <2>2, <2>3, RoomIsLeft
<1>8. TypeOK'
  BY <1>1, <1>3, <1>5, <1>7 DEF TypeInv, TypeOK
<1>9. ShapeInv'
  BY <1>1, <1>4, <1>5, <1>6, Naturals, Bounds, SMTT(30) DEF TypeInv, ShapeInv
<1>10. QED
  BY <1>8, <1>9 DEF TypeInv

LEMMA CopyBatchType ==
  ASSUME TypeInv, CopyBatch
  PROVE  TypeInv'
<1> DEFINE batch == Lesser(CopyRoom, Len(from))
<1>1. /\ pc = "Copy" /\ from # <<>>
      /\ t_buf' = [k \in 1 .. t_size |->
                     IF k - t_end \in 1 .. batch THEN from[k - t_end] ELSE t_buf[k]]
      /\ t_end' = BitAnd(t_end + batch, t_size - 1)
      /\ t_left' = t_left - batch
      /\ from' = SubSeq(from, batch + 1, Len(from))
      /\ UNCHANGED <<build, connecting, t_beg, pollout, listed, pc, beg, total,
                     asked, wire, met>>
  BY DEF CopyBatch
<1>2. /\ t_size \in 1 .. MaxBytes + PAGE_SIZE
      /\ batch \in 1 .. t_size - t_end /\ batch \in 1 .. Len(from)
      /\ t_end \in 0 .. t_size - 1 /\ t_left >= Len(from)
  BY <1>1, CopyRange
<1> HIDE DEF batch
<1>3. from' \in Seq(1 .. MaxBytes) /\ Len(from') = Len(from) - batch
  <2>1. from \in Seq(1 .. MaxBytes) /\ batch \in 0 .. Len(from)
    BY <1>2, Sequenced
  <2>2. QED
    BY <1>1, <2>1, Rest
<1>4. t_buf' \in Seq(1 .. MaxBytes \cup {GARBAGE}) /\ t_size' = t_size
  <2>1. \A k \in 1 .. t_size : k - t_end \in 1 .. batch =>
          from[k - t_end] \in 1 .. MaxBytes
    <3>1. \A l \in 1 .. Len(from) : from[l] \in 1 .. MaxBytes
      <4>1. from \in Seq(1 .. MaxBytes)
        BY Sequenced
      <4>2. QED
        BY ONLY <4>1, Item
    <3>2. batch \in Nat /\ batch <= Len(from) /\ Len(from) \in Nat
      BY <1>2, Naturals
    <3>3. \A l \in 1 .. batch : l \in 1 .. Len(from)
      BY <3>2
    <3>4. QED
      BY <3>1, <3>3
  <2>2. \A k \in 1 .. t_size : t_buf'[k] \in 1 .. MaxBytes \cup {GARBAGE}
    BY <1>1, <2>1, Sequenced
  <2>3. QED
    BY <1>1, <2>2, Naturals DEF t_size
<1>5. t_end' \in 0 .. t_size - 1
  <2>1. t_end + batch \in 0 .. t_size
    BY <1>2
  <2>2. QED
    BY <1>1, <1>2, <2>1, Masked
<1>6. t_left' \in Nat /\ t_left' >= Len(from')
  BY <1>1, <1>2, <1>3, Naturals
<1>7. t_used' + Len(from') <= asked
  <2>1. /\ t_left' = t_left - batch /\ t_size' = t_size
        /\ Len(from') = Len(from) - batch /\ batch \in Int
    BY <1>1, <1>2, <1>3, <1>4, Naturals
  <2>2. t_used' = t_size - (t_left - batch)
    BY <2>1 DEF t_used
  <2>3. /\ t_size \in Nat /\ t_left \in Nat /\ asked \in Nat /\ Len(from) \in Nat
        /\ t_used = t_size - t_left /\ t_used + Len(from) <= asked
    BY Naturals, Bounds
  <2>4. QED
    BY ONLY <2>1, <2>2, <2>3
<1>8. CopyRoom' > 0 /\ t_beg \in 0 .. t_size - 1
  <2>1. t_size' = t_size /\ t_beg' = t_beg /\ t_size \in Nat /\ t_size > 0
    BY <1>1, <1>2, <1>4
  <2>2. t_beg \in 0 .. t_size - 1
    BY <2>1, Indices
  <2>3. CopyRoom' = IF t_beg <= t_end' THEN t_size - t_end' ELSE t_beg - t_end'
    BY <2>1 DEF CopyRoom
  <2>4. QED
    BY ONLY <2>1, <2>2, <2>3, <1>5, RoomIsLeft
<1>9. TypeOK'
  BY <1>1, <1>3, <1>4, <1>5, <1>6, <1>8 DEF TypeInv, TypeOK
<1>10. ShapeInv'
  BY <1>1, <1>2, <1>4, <1>6, <1>7, Naturals, Bounds DEF TypeInv, ShapeInv
<1>11. QED
  BY <1>9, <1>10 DEF TypeInv

(* A step that changes neither the ring nor what is to be saved.           *)
LEMMA RingKept ==
  ASSUME TypeInv, UNCHANGED <<t_buf, t_beg, t_end, t_left, from, asked>>
  PROVE  /\ t_size' = t_size /\ t_used' = t_used
         /\ CopyRoom' = CopyRoom
         /\ t_size > 0 => CopyRoom > 0
<1>1. t_size' = t_size /\ t_used' = t_used
  BY DEF t_size, t_used
<1>2. CopyRoom' = CopyRoom
  BY <1>1 DEF CopyRoom
<1>3. ASSUME t_size > 0
      PROVE  CopyRoom > 0
  BY <1>3, Naturals, Indices, RoomIsLeft DEF CopyRoom
<1>4. QED
  BY <1>1, <1>2, <1>3

LEMMA BeginCopyType ==
  ASSUME TypeInv, BeginCopy
  PROVE  TypeInv'
<1>1. /\ pc = "Save" /\ pc' = "Copy" /\ t_left >= Len(from)
      /\ UNCHANGED <<build, connecting, t_buf, t_beg, t_end, t_left, pollout,
                     listed, from, beg, total, asked, wire, met>>
  BY DEF BeginCopy, ring
<1>2. t_size' = t_size /\ t_used' = t_used /\ CopyRoom' = CopyRoom
      /\ (t_size > 0 => CopyRoom > 0)
  BY <1>1, RingKept
<1>3. t_size > 0
  <2>1. from # <<>> /\ from \in Seq(1 .. MaxBytes)
    BY <1>1, Sequenced DEF TypeInv, ShapeInv
  <2>2. Len(from) > 0
    BY <2>1
  <2>3. t_left # 0
    BY <1>1, <2>2, Naturals
  <2>4. QED
    BY <2>3, Naturals, Indices
<1>4. TypeOK'
  BY <1>1, <1>2 DEF TypeInv, TypeOK
<1>5. ShapeInv'
  BY <1>1, <1>2, <1>3 DEF TypeInv, ShapeInv
<1>6. QED
  BY <1>4, <1>5 DEF TypeInv

LEMMA EndWriteType ==
  ASSUME TypeInv, EndWrite
  PROVE  TypeInv'
<1>1. /\ pc = "Copy" /\ pc' = "Idle" /\ from = <<>> /\ pollout' = TRUE
      /\ UNCHANGED <<build, connecting, t_buf, t_beg, t_end, listed, t_left,
                     from, beg, total, asked, wire, met>>
  BY DEF EndWrite, ring
<1>2. t_size' = t_size /\ t_used' = t_used /\ CopyRoom' = CopyRoom
  BY <1>1, RingKept
<1>3. TypeOK'
  BY <1>1, <1>2 DEF TypeInv, TypeOK
<1>4. t_size # 0
  BY <1>1, Naturals DEF TypeInv, ShapeInv
<1>5. ShapeInv'
  BY <1>1, <1>2, <1>4 DEF TypeInv, ShapeInv
<1>6. QED
  BY <1>3, <1>5 DEF TypeInv

LEMMA EndConnectType ==
  ASSUME TypeInv, EndConnect
  PROVE  TypeInv'
<1>1. /\ connecting' = FALSE
      /\ UNCHANGED <<build, t_buf, t_beg, t_end, t_left, pollout, listed, pc,
                     from, beg, total, asked, wire, met>>
  BY DEF EndConnect, ring
<1>2. t_size' = t_size /\ t_used' = t_used /\ CopyRoom' = CopyRoom
      /\ SendRoom' = SendRoom
  BY <1>1, RingKept DEF SendRoom
<1>3. TypeOK' /\ ShapeInv'
  BY <1>1, <1>2 DEF TypeInv, TypeOK, ShapeInv
<1>4. QED
  BY <1>3 DEF TypeInv

(* What is sent goes from an index of the ring to t_end or to the ring's   *)
(* end, which is not before it.                                            *)
LEMMA SendRoomPositive ==
  ASSUME NEW size \in Nat, NEW b \in 0 .. size - 1, NEW e \in 0 .. size - 1
  PROVE  (IF b < e THEN e - b ELSE size - b) > 0
OBVIOUS

LEMMA SomethingToSend ==
  ASSUME TypeInv, t_size > 0, t_size' = t_size, UNCHANGED <<t_end, build>>,
         beg' \in 0 .. t_size - 1
  PROVE  SendRoom' > 0
<1> DEFINE run == IF beg' < t_end THEN t_end - beg' ELSE t_size - beg'
<1>1. run > 0
  BY Naturals, Indices, SendRoomPositive
<1>2. SendRoom' = IF build = "debug" THEN Lesser(run, Batch) ELSE run
  BY DEF SendRoom, Lesser
<1> HIDE DEF run
<1>3. Batch > 0
  BY SendAssumption DEF SendAssumption
<1>4. QED
  BY <1>1, <1>2, <1>3 DEF Lesser

LEMMA PollReturnType ==
  ASSUME TypeInv, PollReturn
  PROVE  TypeInv'
<1>1. /\ pc = "Idle" /\ pollout /\ listed' \in 1 .. MaxReady
      /\ UNCHANGED <<build, connecting, t_buf, t_beg, t_end, t_left, pollout, pc,
                     from, beg, total, asked, wire, met>>
  BY DEF PollReturn, ring
<1>2. t_size' = t_size /\ t_used' = t_used /\ CopyRoom' = CopyRoom
      /\ SendRoom' = SendRoom
  BY <1>1, RingKept DEF SendRoom
<1>3. t_size # 0 /\ listed' \in 0 .. MaxReady
  BY <1>1, Indices, Naturals, SendAssumption DEF SendAssumption
<1>4. TypeOK'
  BY <1>1, <1>2, <1>3 DEF TypeInv, TypeOK
<1>5. ShapeInv'
  BY <1>1, <1>2, <1>3 DEF TypeInv, ShapeInv
<1>6. QED
  BY <1>4, <1>5 DEF TypeInv

LEMMA BeginSendType ==
  ASSUME TypeInv, BeginSend
  PROVE  TypeInv'
<1>1. /\ pc = "Idle" /\ listed > 0 /\ listed' = listed - 1
      /\ pc' = "Send" /\ beg' = t_beg /\ total' = t_used
      /\ UNCHANGED <<build, connecting, t_buf, t_beg, t_end, t_left, pollout,
                     from, asked, wire>>
      /\ met' \subseteq Limits
  BY DEF BeginSend, ring, Meet, Limits, TypeInv, TypeOK
<1>2. t_size' = t_size /\ t_used' = t_used /\ CopyRoom' = CopyRoom
  BY <1>1, RingKept
<1>3. listed' \in 0 .. MaxReady
  <2>1. listed \in 0 .. MaxReady /\ MaxReady \in Nat
    BY SendAssumption DEF SendAssumption, TypeInv, TypeOK
  <2>2. QED
    BY <1>1, <2>1
<1>4. t_size > 0 /\ t_beg \in 0 .. t_size - 1 /\ total' \in Int
  BY <1>1, Naturals, Bounds, Indices
<1>5. SendRoom' > 0
  BY <1>1, <1>2, <1>4, SomethingToSend
<1>6. TypeOK'
  BY <1>1, <1>2, <1>3, <1>4, <1>5 DEF TypeInv, TypeOK
<1>7. ShapeInv'
  BY <1>1, <1>2, <1>4 DEF TypeInv, ShapeInv
<1>8. QED
  BY <1>6, <1>7 DEF TypeInv

LEMMA SendFailType ==
  ASSUME TypeInv, SendFail
  PROVE  TypeInv'
<1>1. /\ pc = "Send" /\ pc' = "Closed"
      /\ UNCHANGED <<build, connecting, t_buf, t_beg, t_end, t_left, pollout,
                     listed, from, beg, total, asked, wire, met>>
  BY DEF SendFail, ring
<1>2. t_size' = t_size /\ t_used' = t_used /\ CopyRoom' = CopyRoom
  BY <1>1, RingKept
<1>3. TypeOK' /\ ShapeInv'
  BY <1>1, <1>2 DEF TypeInv, TypeOK, ShapeInv
<1>4. QED
  BY <1>3 DEF TypeInv

LEMMA PartOrNone ==
  ASSUME NEW S, NEW s \in Seq(S), NEW b \in Nat, NEW n \in Int, n >= -1,
         b + n <= Len(s)
  PROVE  SubSeq(s, b + 1, b + n) \in Seq(S)
<1>1. CASE n >= 0
  BY <1>1, Part
<1>2. CASE n = -1
  <2>1. b + n < b + 1
    BY <1>2
  <2>2. SubSeq(s, b + 1, b + n) = <<>>
    BY <1>2, <2>1
  <2>3. QED
    BY <2>2
<1>3. QED
  BY <1>1, <1>2

(* A batch that is counted as sent makes t_left larger, t_used smaller.    *)
LEMMA Counted ==
  ASSUME TypeInv, pc = "Send", UNCHANGED <<t_buf, t_end, from, asked>>,
         t_left' = t_left + SendRoom, t_beg' \in 0 .. t_size - 1
  PROVE  /\ t_size' = t_size /\ t_size \in Nat /\ t_size > 0
         /\ t_left' \in Nat
         /\ t_used' \in Int /\ t_used' = t_used - SendRoom
         /\ t_used' + Len(from') <= asked
         /\ t_end \in 0 .. t_size - 1
         /\ CopyRoom' > 0
<1>1. /\ t_size \in Nat /\ t_size > 0
      /\ SendRoom \in Nat /\ SendRoom > 0
  BY SendRange
<1>2. t_size' = t_size
  BY DEF t_size
<1>3. /\ t_left \in Nat /\ asked \in Nat /\ Len(from) \in Nat
      /\ t_used \in Int /\ t_used = t_size - t_left /\ t_used + Len(from) <= asked
  BY Naturals, Bounds
<1>4. t_used' = t_size - (t_left + SendRoom)
  BY <1>2 DEF t_used
<1>5. /\ t_left' \in Nat /\ t_used' \in Int /\ t_used' = t_used - SendRoom
      /\ t_used' + Len(from) <= asked
  BY ONLY <1>1, <1>3, <1>4, t_left' = t_left + SendRoom
<1>6. t_end \in 0 .. t_size - 1
  BY <1>1, Indices
<1>7. CopyRoom' = IF t_beg' <= t_end THEN t_size - t_end ELSE t_beg' - t_end
  BY <1>2 DEF CopyRoom
<1>8. CopyRoom' > 0
  BY <1>1, <1>6, <1>7, RoomIsLeft
<1>9. QED
  BY <1>1, <1>2, <1>5, <1>6, <1>8

(* What write() took of the batch are bytes of the ring.                   *)
LEMMA TakenType ==
  ASSUME TypeInv, pc = "Send", NEW ret \in Int, ret >= -1, ret <= SendRoom,
         wire' = wire \o SubSeq(t_buf, beg + 1, beg + ret)
  PROVE  wire' \in Seq(1 .. MaxBytes \cup {GARBAGE})
<1>1. /\ beg \in Nat /\ beg + SendRoom <= t_size /\ SendRoom \in Nat
      /\ t_size \in Nat
  BY SendRange
<1>2. beg + ret <= t_size
  BY <1>1
<1>3. t_buf \in Seq(1 .. MaxBytes \cup {GARBAGE}) /\ t_size = Len(t_buf)
  BY Sequenced
<1>4. SubSeq(t_buf, beg + 1, beg + ret) \in Seq(1 .. MaxBytes \cup {GARBAGE})
  BY <1>1, <1>2, <1>3, PartOrNone
<1>5. wire \in Seq(1 .. MaxBytes \cup {GARBAGE})
  BY Sequenced
<1>6. QED
  BY <1>4, <1>5

LEMMA MaskedRange ==
  ASSUME TypeInv, pc = "Send"
  PROVE  /\ BitAnd(beg + SendRoom, t_size - 1) \in 0 .. t_size - 1
         /\ BitAnd(t_size, t_size - 1) = 0
              => BitAnd(beg + SendRoom, t_size - 1)
                   = IF beg + SendRoom < t_size THEN beg + SendRoom ELSE 0
BY SendRange, Masked

LEMMA SendSomeType ==
  ASSUME TypeInv, SendSome
  PROVE  TypeInv'
<1>1. PICK ret \in WriteResults(SendRoom) \ {SendRoom, -2} :
        /\ wire' = wire \o SubSeq(t_buf, beg + 1, beg + ret)
        /\ t_beg' = IF ret = -1 THEN beg
                                ELSE BitAnd(beg + SendRoom, t_size - 1)
  BY DEF SendSome
<1>2. /\ pc = "Send" /\ pc' = "Idle"
      /\ t_left' = t_left + SendRoom
      /\ UNCHANGED <<build, connecting, t_buf, t_end, pollout, listed, from,
                     beg, total, asked>>
      /\ met' \subseteq Limits
  BY DEF SendSome, TypeInv, TypeOK, Limits
<1>3. SendRoom \in Nat /\ beg \in 0 .. t_size - 1
  BY <1>2, SendRange
<1>4. ret \in Int /\ ret >= -1 /\ ret <= SendRoom
  <2>1. ret \in -2 .. SendRoom /\ ret # -2
    BY <1>3, ResultRange
  <2>2. QED
    BY <1>3, <2>1
<1>5. wire' \in Seq(1 .. MaxBytes \cup {GARBAGE})
  BY <1>1, <1>2, <1>4, TakenType
<1>6. t_beg' \in 0 .. t_size - 1
  BY <1>1, <1>2, <1>3, MaskedRange
<1>7. /\ t_size' = t_size /\ t_size \in Nat /\ t_size > 0
      /\ t_left' \in Nat
      /\ t_used' + Len(from') <= asked
      /\ t_end \in 0 .. t_size - 1
      /\ CopyRoom' > 0
  BY <1>2, <1>6, Counted
<1>8. t_left' \in Int
  BY <1>7
<1>9. TypeOK'
  BY <1>2, <1>5, <1>6, <1>7, <1>8 DEF TypeInv, TypeOK
<1>10. t_size' >= PAGE_SIZE /\ t_size' <= MaxBytes + PAGE_SIZE /\ t_left' >= 0
  BY <1>7, Bounds
<1>11. ~(t_size' < PAGE_SIZE) /\ t_size' # 0
  BY <1>7, <1>10, Naturals
<1>12. ShapeInv'
  BY <1>2, <1>7, <1>10, <1>11 DEF TypeInv, ShapeInv
<1>13. QED
  BY <1>9, <1>12 DEF TypeInv

LEMMA SendAllType ==
  ASSUME TypeInv, SendAll
  PROVE  TypeInv'
<1> DEFINE after == BitAnd(beg + SendRoom, t_size - 1)
<1>1. /\ pc = "Send"
      /\ wire' = wire \o SubSeq(t_buf, beg + 1, beg + SendRoom)
      /\ total' = total - SendRoom
      /\ t_left' = t_left + SendRoom
      /\ UNCHANGED <<build, connecting, t_buf, t_end, listed, from, asked,
                     met>>
  BY DEF SendAll
<1>2. \/ /\ pollout' = FALSE /\ t_beg' = beg /\ pc' = "Idle" /\ beg' = beg
      \/ /\ beg' = after /\ pollout' = pollout
         /\ t_beg' = after /\ pc' = "Idle"
      \/ /\ beg' = after /\ pollout' = pollout
         /\ t_beg' = t_beg /\ pc' = "Send"
  BY <1>1 DEF SendAll
<1>3. /\ SendRoom \in Nat /\ beg \in 0 .. t_size - 1 /\ after \in 0 .. t_size - 1
      /\ t_size > 0 /\ t_size \in Nat
  <2>1. after \in 0 .. t_size - 1
    BY <1>1, MaskedRange
  <2>2. /\ SendRoom \in Nat /\ beg \in 0 .. t_size - 1
        /\ t_size > 0 /\ t_size \in Nat
    <3>1. t_size \in 1 .. MaxBytes + PAGE_SIZE /\ beg \in 0 .. t_size - 1
          /\ SendRoom \in 1 .. t_size - beg
      BY <1>1, SendRange
    <3>2. t_size \in Nat
      BY Naturals
    <3>3. QED
      BY ONLY <3>1, <3>2
  <2>3. QED
    BY <2>1, <2>2
<1> HIDE DEF after
<1>4. wire' \in Seq(1 .. MaxBytes \cup {GARBAGE})
  <2>1. SendRoom \in Int /\ SendRoom >= -1 /\ SendRoom <= SendRoom
    BY <1>3
  <2>2. QED
    BY <1>1, <2>1, TakenType
<1>5. t_beg' \in 0 .. t_size - 1 /\ beg' \in 0 .. t_size - 1
  BY <1>2, <1>3, Indices
<1>6. /\ t_size' = t_size /\ t_left' \in Nat
      /\ t_used' + Len(from') <= asked
      /\ t_end \in 0 .. t_size - 1
      /\ CopyRoom' > 0
  BY <1>1, <1>5, Counted
<1>7. SendRoom' > 0
  BY <1>1, <1>3, <1>5, <1>6, SomethingToSend
<1>8. t_left' \in Int /\ total' \in Int
  BY <1>1, <1>3, <1>6, Naturals
<1>9. pollout' \in BOOLEAN /\ pc' \in {"Idle", "Send"}
  BY <1>2 DEF TypeInv, TypeOK
<1>10. TypeOK'
  BY <1>1, <1>4, <1>5, <1>6, <1>7, <1>8, <1>9 DEF TypeInv, TypeOK
<1>11. t_size' >= PAGE_SIZE /\ t_size' <= MaxBytes + PAGE_SIZE /\ t_left' >= 0
  BY <1>3, <1>6, Bounds
<1>12. ~(t_size' < PAGE_SIZE) /\ t_size' # 0 /\ t_size' > 0
  BY <1>3, <1>6, <1>11, Naturals
<1>13. ShapeInv'
  BY <1>1, <1>6, <1>9, <1>11, <1>12 DEF TypeInv, ShapeInv
<1>14. QED
  BY <1>10, <1>13 DEF TypeInv

LEMMA TypeStep == TypeInv /\ [Next]_vars => TypeInv'
<1> SUFFICES ASSUME TypeInv, [Next]_vars
             PROVE  TypeInv'
  OBVIOUS
<1>1. CASE \E size \in Messages : ConnectionWrite(size)
  BY <1>1, ConnectionWriteType
<1>2. CASE SendStep
  BY <1>2, GrowType, BeginCopyType, CopyBatchType, EndWriteType, EndConnectType,
     PollReturnType, BeginSendType, SendAllType, SendSomeType, SendFailType
     DEF SendStep
<1>3. CASE UNCHANGED vars
  <2>1. UNCHANGED <<build, connecting, t_buf, t_beg, t_end, t_left, pollout,
                    listed, pc, from, beg, total, asked, wire, met>>
    BY <1>3 DEF vars, ring
  <2>2. /\ t_size' = t_size /\ t_used' = t_used /\ CopyRoom' = CopyRoom
        /\ SendRoom' = SendRoom
    BY <2>1, RingKept DEF SendRoom
  <2>3. TypeOK' /\ ShapeInv'
    BY <2>1, <2>2 DEF TypeInv, TypeOK, ShapeInv
  <2>4. QED
    BY <2>3 DEF TypeInv
<1>4. QED
  BY <1>1, <1>2, <1>3 DEF Next

(* TypeOK: the indices stay inside the ring whatever is counted wrong, and *)
(* neither the copying nor the sending is ever left without a byte to go   *)
(* on with.                                                                *)
THEOREM TypeSafety == Spec => []TypeOK
<1>1. TypeInv => TypeOK
  BY DEF TypeInv
<1>2. QED
  BY <1>1, InitType, TypeStep, PTL DEF Spec

-----------------------------------------------------------------------------
(* Places in the ring.                                                     *)

LEMMA PlaceInside ==
  ASSUME NEW size \in Nat, NEW b \in 0 .. size - 1, NEW i \in 0 .. size - 1
  PROVE  Place(size, b, i) \in 0 .. size - 1
BY DEF Place

LEMMA FirstPlace ==
  ASSUME NEW size \in Nat, NEW b \in Nat, size = 0 \/ b < size
  PROVE  Place(size, b, 0) = b
BY DEF Place

(* A ring that does not wrap may grow.                                     *)
LEMMA GrownPlace ==
  ASSUME NEW size \in Nat, NEW larger \in Nat, larger >= size,
         NEW b \in 0 .. size - 1, NEW u \in 1 .. size,
         b < Place(size, b, u)
  PROVE  /\ Place(larger, b, u) = Place(size, b, u)
         /\ \A i \in 0 .. u - 1 : /\ Place(larger, b, i) = Place(size, b, i)
                                  /\ Place(size, b, i) \in 0 .. size - 1
<1>1. b + u < size
  BY DEF Place
<1>2. \A i \in 0 .. u - 1 : b + i < size /\ b + i < larger /\ b + i \in Nat
  BY <1>1
<1>3. QED
  BY <1>1, <1>2 DEF Place

(* Bytes that are copied to the end of what is there.                      *)
LEMMA CopiedPlace ==
  ASSUME NEW size \in Nat, NEW b \in 0 .. size - 1, NEW u \in 0 .. size,
         NEW e \in 0 .. size - 1, e = Place(size, b, u),
         NEW n \in Nat, n >= 1, u + n <= size,
         e + n <= size, b > e => n <= b - e
  PROVE  /\ Place(size, b, u + n) = IF e + n < size THEN e + n ELSE 0
         /\ \A i \in 0 .. u - 1 : /\ Place(size, b, i) \in 0 .. size - 1
                                  /\ Place(size, b, i) + 1 - e \notin 1 .. n
         /\ \A i \in u .. u + n - 1 : Place(size, b, i) = e + (i - u)
<1>1. CASE b + u < size
  <2>1. e = b + u
    BY <1>1 DEF Place
  <2>2. \A i \in 0 .. u - 1 : b + i < size /\ b + i < e /\ b + i \in Nat
    BY <1>1, <2>1
  <2>3. \A i \in u .. u + n - 1 : b + i < size /\ b + i = e + (i - u)
    BY <2>1
  <2>4. b + (u + n) = e + n
    BY <2>1
  <2>5. Place(size, b, u + n) = IF e + n < size THEN e + n ELSE 0
    BY <2>4 DEF Place
  <2>6. \A i \in 0 .. u - 1 : /\ Place(size, b, i) \in 0 .. size - 1
                              /\ Place(size, b, i) + 1 - e \notin 1 .. n
    BY <2>2 DEF Place
  <2>7. QED
    BY <2>3, <2>5, <2>6 DEF Place
<1>2. CASE ~(b + u < size)
  <2>1. e = b + u - size /\ e <= b
    BY <1>2 DEF Place
  <2>2. b > e /\ e + n <= b
    BY <2>1
  <2>3. \A i \in 0 .. u - 1 : /\ Place(size, b, i) \in 0 .. size - 1
                              /\ Place(size, b, i) + 1 - e \notin 1 .. n
    BY <2>1, <2>2 DEF Place
  <2>4. \A i \in u .. u + n - 1 : Place(size, b, i) = e + (i - u)
    BY <1>2, <2>1 DEF Place
  <2>5. Place(size, b, u + n) = IF e + n < size THEN e + n ELSE 0
    BY <1>2, <2>1, <2>2 DEF Place
  <2>6. QED
    BY <2>3, <2>4, <2>5
<1>3. QED
  BY <1>1, <1>2

(* Bytes that are sent from the front of what is there.                    *)
LEMMA SentPlace ==
  ASSUME NEW size \in Nat, NEW b \in 0 .. size - 1, NEW u \in 1 .. size,
         NEW e \in 0 .. size - 1, e = Place(size, b, u),
         NEW n \in Nat, n >= 1, b + n <= size, b < e => n <= e - b,
         NEW c, c = IF b + n < size THEN b + n ELSE 0
  PROVE  /\ n <= u
         /\ \A i \in 0 .. n - 1 : Place(size, b, i) = b + i
         /\ \A i \in 0 .. u - n - 1 : Place(size, c, i) = Place(size, b, n + i)
         /\ n < u => Place(size, c, u - n) = e
<1>1. n <= u
  <2>1. CASE b + u < size
    BY <2>1 DEF Place
  <2>2. CASE ~(b + u < size)
    BY <2>2
  <2>3. QED
    BY <2>1, <2>2
<1>2. \A i \in 0 .. n - 1 : Place(size, b, i) = b + i
  BY DEF Place
<1>3. CASE b + n < size
  <2>1. c = b + n
    BY <1>3
  <2>2. \A i \in 0 .. u - n : c + i = b + (n + i)
    BY <2>1, <1>1
  <2>3. c + (u - n) = b + u
    BY <2>1, <1>1
  <2>4. \A i \in 0 .. u - n - 1 : i \in 0 .. u - n
    BY <1>1
  <2>5. \A i \in 0 .. u - n - 1 : Place(size, c, i) = Place(size, b, n + i)
    BY <2>2, <2>4 DEF Place
  <2>6. Place(size, c, u - n) = e
    BY <2>3 DEF Place
  <2>7. QED
    BY <1>1, <1>2, <2>5, <2>6
<1>4. CASE ~(b + n < size)
  <2>1. c = 0 /\ b + n = size
    BY <1>4
  <2>2. \A i \in 0 .. u - n - 1 : Place(size, c, i) = Place(size, b, n + i)
    BY <1>1, <2>1 DEF Place
  <2>3. n < u => Place(size, c, u - n) = e
    BY <1>1, <2>1 DEF Place
  <2>4. QED
    BY <1>1, <1>2, <2>2, <2>3
<1>5. QED
  BY <1>3, <1>4

-----------------------------------------------------------------------------
(* Short of the limits.                                                    *)

LEMMA InitKept == Init => KeptInv
<1>1. ASSUME Init
      PROVE  /\ t_size = 0 /\ t_left = 0 /\ t_used = 0
             /\ Len(from) = 0 /\ Len(wire) = 0 /\ asked = 0
             /\ wire = <<>> /\ from = <<>> /\ pc = "Idle" /\ pollout = FALSE
  BY <1>1 DEF Init, t_size, t_used
<1>2. ASSUME Init
      PROVE  RingInv
  BY <1>1, <1>2 DEF RingInv
<1>3. ASSUME Init
      PROVE  StreamInv
  BY <1>1, <1>3 DEF StreamInv
<1>4. ASSUME Init
      PROVE  UseInv
  BY <1>1, <1>4 DEF UseInv
<1>5. QED
  BY <1>1, <1>2, <1>3, <1>4 DEF KeptInv, Kept

LEMMA Appended ==
  ASSUME NEW S, NEW s \in Seq(S), NEW u \in Seq(S)
  PROVE  /\ Len(s \o u) = Len(s) + Len(u)
         /\ \A k \in 1 .. Len(s) : (s \o u)[k] = s[k]
         /\ \A k \in 1 .. Len(u) : (s \o u)[Len(s) + k] = u[k]
OBVIOUS

(* A stream that goes on where it ended.                                   *)
LEMMA StreamGoesOn ==
  ASSUME NEW S, NEW s \in Seq(S), NEW u \in Seq(S),
         \A k \in DOMAIN s : s[k] = k,
         \A k \in 1 .. Len(u) : u[k] = Len(s) + k
  PROVE  /\ Len(s \o u) = Len(s) + Len(u)
         /\ \A k \in DOMAIN (s \o u) : (s \o u)[k] = k
<1>1. Len(s) \in Nat /\ Len(u) \in Nat /\ DOMAIN s = 1 .. Len(s)
  OBVIOUS
<1>2. /\ Len(s \o u) = Len(s) + Len(u)
      /\ DOMAIN (s \o u) = 1 .. Len(s) + Len(u)
  OBVIOUS
<1>3. \A k \in 1 .. Len(s) : (s \o u)[k] = k
  BY <1>1, Appended
<1>4. \A k \in 1 .. Len(u) : (s \o u)[Len(s) + k] = Len(s) + k
  BY Appended
<1>5. \A k \in 1 .. Len(s) + Len(u) :
        k \in 1 .. Len(s) \/ (k - Len(s) \in 1 .. Len(u) /\ Len(s) + (k - Len(s)) = k)
  BY <1>1
<1>6. \A k \in 1 .. Len(s) + Len(u) : (s \o u)[k] = k
  BY <1>3, <1>4, <1>5
<1>7. QED
  BY <1>2, <1>6

LEMMA ConnectionWriteKept ==
  ASSUME TypeInv, Kept, NEW size \in Messages, ConnectionWrite(size), met' = {}
  PROVE  Kept'
<1>1. size \in Nat /\ size > 0 /\ MaxBytes \in Nat
  BY SendAssumption DEF SendAssumption
<1>2. PICK ret \in WriteResults(size \div 6) :
        IF ret < 0
        THEN UNCHANGED <<wire, from, pc>>
        ELSE /\ wire' = wire \o Bytes(asked, asked + ret)
             /\ from' = Bytes(asked + ret, asked + size)
             /\ pc' = "Save"
  BY DEF ConnectionWrite
<1>3. /\ pc = "Idle" /\ from = <<>> /\ asked' = asked + size /\ asked + size <= MaxBytes
      /\ UNCHANGED <<t_buf, t_beg, t_end, t_left, pollout>>
      /\ t_size' = t_size /\ t_used' = t_used
  BY DEF ConnectionWrite, ring, t_size, t_used, TypeInv, ShapeInv
<1>4. /\ from' # from
      /\ t_used > 0 => wire' = wire
      /\ t_used = 0 => t_beg = t_end
  BY DEF ConnectionWrite, Meet
<1>5. ret \in Int /\ ret < size
  BY <1>1, ResultRange, size \div 6 \in Nat, size \div 6 < size
<1>6. ret >= 0
  BY <1>2, <1>4, <1>5
<1> DEFINE new == Bytes(asked, asked + ret)
<1>7. wire' = wire \o new /\ from' = Bytes(asked + ret, asked + size) /\ pc' = "Save"
  BY <1>2, <1>5, <1>6
<1>8. /\ asked \in Nat /\ asked + ret \in Nat /\ asked + size \in Nat
      /\ asked <= asked + ret /\ asked + ret <= asked + size /\ asked + ret <= MaxBytes
      /\ (asked + ret) - asked = ret /\ (asked + size) - (asked + ret) = size - ret
  <2>1. asked \in Nat /\ asked + size <= MaxBytes
    BY <1>3, Naturals
  <2>2. QED
    BY ONLY <1>1, <1>5, <1>6, <2>1
<1>9. /\ new \in Seq(1 .. MaxBytes) /\ Len(new) = ret
      /\ \A k \in 1 .. ret : new[k] = asked + k
  BY <1>8, BytesAre
<1>10. /\ from' \in Seq(1 .. MaxBytes) /\ Len(from') = size - ret
       /\ \A k \in 1 .. size - ret : from'[k] = (asked + ret) + k
  BY <1>3, <1>7, <1>8, BytesAre
<1> HIDE DEF new
<1>11. wire \in Seq(1 .. MaxBytes \cup {GARBAGE})
       /\ new \in Seq(1 .. MaxBytes \cup {GARBAGE})
  BY <1>9, Sequenced, Wider
<1>12. Len(wire') = Len(wire) + ret
  BY <1>7, <1>9, <1>11, Appended
<1>13. /\ Len(from) = 0 /\ Len(wire) \in Nat
       /\ t_used \in Int /\ t_used >= 0
       /\ Len(wire) + t_used = asked
  BY <1>3, Naturals, Bounds DEF Kept, RingInv, StreamInv
<1>14. t_used > 0 => ret = 0
  BY <1>4, <1>5, <1>12, <1>13
<1>15. RingInv'
  <2>1. ASSUME t_used = 0
        PROVE  t_end = Place(t_size, t_beg, t_used)
    <3>1. t_beg \in Nat /\ (t_size = 0 \/ t_beg < t_size) /\ t_size \in Nat
      BY Naturals, Indices
    <3>2. QED
      BY <1>4, <2>1, <3>1, FirstPlace
  <2>2. t_used > 0 => t_end = Place(t_size, t_beg, t_used)
    BY <1>3 DEF Kept, RingInv, First
  <2>3. t_end = Place(t_size, t_beg, t_used)
    BY <1>13, <2>1, <2>2
  <2>4. ASSUME NEW i \in 0 .. t_used - 1
        PROVE  t_buf[Place(t_size, t_beg, i) + 1] = Len(wire) + ret + i + 1
    <3>1. t_used > 0
      BY <1>13
    <3>2. t_buf[Place(t_size, t_beg, i) + 1] = Len(wire) + i + 1
      BY <1>3 DEF Kept, RingInv, First
    <3>3. QED
      BY <1>13, <1>14, <3>1, <3>2
  <2>5. First' = t_beg
    BY <1>3, <1>7 DEF First
  <2>6. QED
    BY <1>3, <1>7, <1>12, <1>13, <2>3, <2>4, <2>5 DEF RingInv
<1>16. StreamInv'
  <2>1. Len(wire') + t_used' + Len(from') = asked'
    <3>1. /\ Len(wire') = Len(wire) + ret /\ t_used' = t_used
          /\ Len(from') = size - ret /\ asked' = asked + size
      BY <1>3, <1>10, <1>12
    <3>2. QED
      BY ONLY <1>1, <1>5, <1>13, <3>1
  <2>2. \A k \in 1 .. Len(new) : new[k] = Len(wire) + k
    <3>1. CASE t_used > 0
      BY <1>9, <1>14, <3>1
    <3>2. CASE t_used = 0
      BY <1>9, <1>13, <3>2
    <3>3. QED
      BY <1>13, <3>1, <3>2
  <2>3. \A k \in DOMAIN wire : wire[k] = k
    BY DEF Kept, StreamInv
  <2>4. \A k \in DOMAIN wire' : wire'[k] = k
    BY <1>7, <1>11, <2>2, <2>3, StreamGoesOn
  <2>5. DOMAIN from' = 1 .. size - ret
    BY <1>10
  <2>6. asked' - Len(from') = asked + ret
    BY <1>1, <1>3, <1>5, <1>8, <1>10
  <2>7. \A k \in DOMAIN from' : from'[k] = asked' - Len(from') + k
    BY <1>10, <2>5, <2>6
  <2>8. QED
    BY <2>1, <2>4, <2>7 DEF StreamInv
<1>17. UseInv'
  BY <1>3, <1>7 DEF Kept, UseInv
<1>18. QED
  BY <1>15, <1>16, <1>17 DEF Kept

LEMMA GrowKept ==
  ASSUME TypeInv, Kept, Grow, met' = {}
  PROVE  Kept'
<1> DEFINE page == [k \in 1 .. PAGE_SIZE |-> GARBAGE]
<1>1. /\ pc = "Save" /\ t_left < Len(from)
      /\ t_buf' = t_buf \o page
      /\ t_left' = t_left + PAGE_SIZE
      /\ UNCHANGED <<t_beg, t_end, pollout, pc, from, asked, wire>>
  BY DEF Grow
<1>2. /\ ~(t_used > 0 /\ t_beg >= t_end)
      /\ t_left' >= Len(from) => BitAnd(t_size', t_size' - 1) = 0
  BY DEF Grow, Meet
<1>3. page \in Seq(1 .. MaxBytes \cup {GARBAGE}) /\ Len(page) = PAGE_SIZE
  BY Naturals
<1> HIDE DEF page
<1>4. t_buf \in Seq(1 .. MaxBytes \cup {GARBAGE}) /\ Len(t_buf) = t_size
  BY Sequenced
<1>5. /\ t_size' = t_size + PAGE_SIZE
      /\ \A k \in 1 .. t_size : t_buf'[k] = t_buf[k]
  BY <1>1, <1>3, <1>4, Appended DEF t_size
<1>6. t_used' = t_used
  BY <1>1, <1>5, Naturals DEF t_used
<1>7. /\ t_size \in Nat /\ t_size' \in Nat /\ t_size' >= t_size
      /\ t_used \in Int /\ t_used >= 0
  BY <1>5, Naturals, Bounds DEF Kept, RingInv
<1>8. First = t_beg /\ First' = t_beg
  BY <1>1 DEF First
<1>9. t_end = Place(t_size, t_beg, t_used)
  BY <1>1, <1>8 DEF Kept, RingInv
<1>10. ASSUME t_used = 0
       PROVE  RingInv'
  <2>1. t_beg \in Nat /\ (t_size = 0 \/ t_beg < t_size)
    BY <1>7, Indices, Naturals
  <2>2. t_end = t_beg
    BY <1>7, <1>9, <1>10, <2>1, FirstPlace
  <2>3. t_size = 0 => t_beg < t_size'
    BY <1>5, Naturals, Indices
  <2>4. t_beg < t_size'
    BY <1>7, <2>1, <2>3
  <2>5. t_end' = Place(t_size', t_beg, t_used')
    BY <1>1, <1>6, <1>7, <1>10, <2>1, <2>2, <2>4, FirstPlace
  <2>6. 0 .. t_used' - 1 = {}
    BY <1>6, <1>10
  <2>7. QED
    BY <1>6, <1>7, <1>8, <2>5, <2>6 DEF RingInv
<1>11. ASSUME t_used > 0
       PROVE  RingInv'
  <2>1. t_used <= t_size /\ t_size > 0
    <3>1. t_left \in Nat /\ t_used = t_size - t_left
      BY Naturals, Bounds
    <3>2. QED
      BY ONLY <1>7, <1>11, <3>1
  <2>2. t_beg \in 0 .. t_size - 1 /\ t_end \in 0 .. t_size - 1
    BY <2>1, Indices
  <2>3. t_beg < t_end /\ t_used \in 1 .. t_size
    BY <1>2, <1>7, <1>11, <2>1, <2>2
  <2>4. /\ Place(t_size', t_beg, t_used) = t_end
        /\ \A i \in 0 .. t_used - 1 :
             /\ Place(t_size', t_beg, i) = Place(t_size, t_beg, i)
             /\ Place(t_size, t_beg, i) \in 0 .. t_size - 1
    BY <1>7, <1>9, <2>2, <2>3, GrownPlace
  <2>5. ASSUME NEW i \in 0 .. t_used - 1
        PROVE  t_buf'[Place(t_size', t_beg, i) + 1] = Len(wire) + i + 1
    <3>1. t_buf[Place(t_size, t_beg, i) + 1] = Len(wire) + i + 1
      BY <1>8 DEF Kept, RingInv
    <3>2. Place(t_size, t_beg, i) + 1 \in 1 .. t_size
      BY <1>7, <2>4
    <3>3. QED
      BY <1>5, <2>4, <3>1, <3>2
  <2>6. QED
    BY <1>1, <1>6, <1>7, <1>8, <2>4, <2>5 DEF RingInv
<1>12. RingInv'
  BY <1>7, <1>10, <1>11
<1>13. StreamInv'
  BY <1>1, <1>6 DEF Kept, StreamInv
<1>14. t_left' \in Int /\ Len(from) \in Int
  BY <1>1, Naturals
<1>15. UseInv'
  BY <1>1, <1>2, <1>14 DEF Kept, UseInv
<1>16. QED
  BY <1>12, <1>13, <1>15 DEF Kept

(* A step that leaves the ring and the stream, and the first byte's place. *)
LEMMA StepBeside ==
  ASSUME TypeInv, Kept,
         UNCHANGED <<t_buf, t_end, t_left, from, asked, wire>>,
         First' = First,
         pc' \in {"Save", "Copy"} /\ pc \notin {"Save", "Copy"} => t_used > 0
  PROVE  RingInv' /\ StreamInv' /\ t_size' = t_size /\ t_used' = t_used
<1>1. t_size' = t_size /\ t_used' = t_used
  BY DEF t_size, t_used
<1>2. RingInv'
  BY <1>1 DEF Kept, RingInv
<1>3. StreamInv'
  BY <1>1 DEF Kept, StreamInv
<1>4. QED
  BY <1>1, <1>2, <1>3

LEMMA BeginCopyKept ==
  ASSUME TypeInv, Kept, BeginCopy
  PROVE  Kept'
<1>1. /\ pc = "Save" /\ pc' = "Copy" /\ t_left >= Len(from)
      /\ UNCHANGED <<t_buf, t_beg, t_end, t_left, pollout, from, asked, wire>>
  BY DEF BeginCopy, ring
<1>2. First' = First
  BY <1>1 DEF First
<1>3. RingInv' /\ StreamInv' /\ t_size' = t_size /\ t_used' = t_used
  BY <1>1, <1>2, StepBeside
<1>4. t_used + Len(from) > 0
  <2>1. from # <<>> /\ from \in Seq(1 .. MaxBytes)
    BY <1>1, Sequenced DEF TypeInv, ShapeInv
  <2>2. Len(from) > 0 /\ Len(from) \in Nat
    BY <2>1
  <2>3. t_used \in Int /\ t_used >= 0
    BY Bounds DEF Kept, RingInv
  <2>4. QED
    BY <2>2, <2>3
<1>5. t_size \in Nat /\ t_left \in Nat /\ Len(from) \in Nat
  BY Naturals
<1>6. t_size > 0 => BitAnd(t_size, t_size - 1) = 0
  BY <1>1, <1>5 DEF Kept, UseInv
<1>7. UseInv'
  BY <1>1, <1>3, <1>4, <1>6 DEF UseInv
<1>8. QED
  BY <1>3, <1>7 DEF Kept

LEMMA CopyBatchKept ==
  ASSUME TypeInv, Kept, CopyBatch
  PROVE  Kept'
<1> DEFINE batch == Lesser(CopyRoom, Len(from))
<1>1. /\ pc = "Copy" /\ from # <<>>
      /\ t_buf' = [k \in 1 .. t_size |->
                     IF k - t_end \in 1 .. batch THEN from[k - t_end] ELSE t_buf[k]]
      /\ t_end' = BitAnd(t_end + batch, t_size - 1)
      /\ t_left' = t_left - batch
      /\ from' = SubSeq(from, batch + 1, Len(from))
      /\ UNCHANGED <<t_beg, pollout, pc, asked, wire>>
  BY DEF CopyBatch
<1>2. /\ t_size \in 1 .. MaxBytes + PAGE_SIZE
      /\ t_beg \in 0 .. t_size - 1 /\ t_end \in 0 .. t_size - 1
      /\ batch \in 1 .. t_size - t_end /\ batch \in 1 .. Len(from)
      /\ t_beg > t_end => batch <= t_beg - t_end
      /\ t_left >= Len(from) /\ Len(from) \in Nat
  BY <1>1, CopyRange
<1> HIDE DEF batch
<1>3. t_size \in Nat /\ t_size > 0 /\ t_left \in Nat /\ asked \in Nat /\ Len(wire) \in Nat
  BY <1>2, Naturals
<1>4. /\ t_used \in Int /\ t_used = t_size - t_left /\ t_used >= 0
      /\ Len(wire) + t_used + Len(from) = asked
  BY Bounds DEF Kept, RingInv, StreamInv
<1>5. batch \in Nat /\ batch >= 1 /\ batch <= Len(from) /\ t_end + batch \in 0 .. t_size
      /\ t_end + batch <= t_size
  BY ONLY <1>2, <1>3
<1>6. t_used \in 0 .. t_size /\ t_used + batch <= t_size
  BY ONLY <1>2, <1>3, <1>4, <1>5
<1>7. t_size' = t_size
  BY <1>1, <1>3 DEF t_size
<1>8. t_used' = t_used + batch
  <2>1. t_used' = t_size - (t_left - batch)
    BY <1>1, <1>7 DEF t_used
  <2>2. QED
    BY ONLY <1>3, <1>4, <1>5, <2>1
<1>9. /\ Len(from') = Len(from) - batch /\ DOMAIN from' = 1 .. Len(from) - batch
      /\ \A k \in 1 .. Len(from) - batch : from'[k] = from[batch + k]
  <2>1. from \in Seq(1 .. MaxBytes) /\ batch \in 0 .. Len(from)
    BY <1>2, <1>5, Sequenced
  <2>2. /\ from' \in Seq(1 .. MaxBytes) /\ Len(from') = Len(from) - batch
        /\ \A k \in 1 .. Len(from) - batch : from'[k] = from[batch + k]
    BY <1>1, <2>1, Rest
  <2>3. QED
    BY <2>2
<1>10. \A k \in 1 .. Len(from) : from[k] = asked - Len(from) + k
  <2>1. DOMAIN from = 1 .. Len(from)
    BY Sequenced
  <2>2. QED
    BY <2>1 DEF Kept, StreamInv
<1>11. BitAnd(t_size, t_size - 1) = 0
  BY <1>1, <1>3 DEF Kept, UseInv
<1>12. t_end' = IF t_end + batch < t_size THEN t_end + batch ELSE 0
  BY <1>1, <1>2, <1>5, <1>11, Masked
<1>13. First = t_beg /\ First' = t_beg
  BY <1>1 DEF First
<1>14. t_end = Place(t_size, t_beg, t_used)
  BY <1>1, <1>13 DEF Kept, RingInv
<1>15. /\ Place(t_size, t_beg, t_used + batch) = t_end'
       /\ \A i \in 0 .. t_used - 1 :
            /\ Place(t_size, t_beg, i) \in 0 .. t_size - 1
            /\ Place(t_size, t_beg, i) + 1 - t_end \notin 1 .. batch
       /\ \A i \in t_used .. t_used + batch - 1 :
            Place(t_size, t_beg, i) = t_end + (i - t_used)
  <2>1. /\ Place(t_size, t_beg, t_used + batch)
                = IF t_end + batch < t_size THEN t_end + batch ELSE 0
        /\ \A i \in 0 .. t_used - 1 :
             /\ Place(t_size, t_beg, i) \in 0 .. t_size - 1
             /\ Place(t_size, t_beg, i) + 1 - t_end \notin 1 .. batch
        /\ \A i \in t_used .. t_used + batch - 1 :
             Place(t_size, t_beg, i) = t_end + (i - t_used)
    <3>1. PICK size, b, u, e, n : /\ size = t_size /\ b = t_beg /\ u = t_used
                                  /\ e = t_end /\ n = batch
      OBVIOUS
    <3>2. /\ size \in Nat /\ b \in 0 .. size - 1 /\ u \in 0 .. size
          /\ e \in 0 .. size - 1 /\ e = Place(size, b, u)
          /\ n \in Nat /\ n >= 1 /\ u + n <= size /\ e + n <= size
          /\ (b > e => n <= b - e)
      BY ONLY <1>2, <1>3, <1>5, <1>6, <1>14, <3>1
    <3>3. /\ Place(size, b, u + n) = IF e + n < size THEN e + n ELSE 0
          /\ \A i \in 0 .. u - 1 : /\ Place(size, b, i) \in 0 .. size - 1
                                   /\ Place(size, b, i) + 1 - e \notin 1 .. n
          /\ \A i \in u .. u + n - 1 : Place(size, b, i) = e + (i - u)
      BY ONLY <3>2, CopiedPlace
    <3>4. QED
      BY ONLY <3>1, <3>3
  <2>2. QED
    BY ONLY <2>1, <1>12
<1>16. ASSUME NEW i \in 0 .. t_used - 1
       PROVE  t_buf'[Place(t_size, t_beg, i) + 1] = Len(wire) + i + 1
  <2>1. t_buf[Place(t_size, t_beg, i) + 1] = Len(wire) + i + 1
    BY <1>13 DEF Kept, RingInv
  <2>2. Place(t_size, t_beg, i) + 1 \in 1 .. t_size
    BY <1>3, <1>15
  <2>3. Place(t_size, t_beg, i) + 1 - t_end \notin 1 .. batch
    BY <1>15
  <2>4. \A k \in 1 .. t_size :
          t_buf'[k] = IF k - t_end \in 1 .. batch THEN from[k - t_end] ELSE t_buf[k]
    BY <1>1
  <2>5. QED
    <3>1. PICK p : p = Place(t_size, t_beg, i) + 1
      OBVIOUS
    <3>2. t_buf[p] = Len(wire) + i + 1
      BY ONLY <2>1, <3>1
    <3>3. p \in 1 .. t_size
      BY ONLY <2>2, <3>1
    <3>4. p - t_end \notin 1 .. batch
      <4>1. PICK q : q = Place(t_size, t_beg, i)
        OBVIOUS
      <4>2. q \in Int /\ t_end \in Int /\ batch \in Nat
        BY <1>2, <1>5, <1>15, <4>1
      <4>3. p = q + 1 /\ q + 1 - t_end \notin 1 .. batch
        BY <2>3, <3>1, <4>1
      <4>4. QED
        BY ONLY <4>2, <4>3
    <3>5. t_buf'[p] = t_buf[p]
      BY ONLY <2>4, <3>3, <3>4
    <3>6. QED
      BY ONLY <3>1, <3>2, <3>5
<1>17. ASSUME NEW i \in t_used .. t_used + batch - 1
       PROVE  t_buf'[Place(t_size, t_beg, i) + 1] = Len(wire) + i + 1
  <2>1. Place(t_size, t_beg, i) + 1 = t_end + (i - t_used) + 1
    BY <1>15
  <2>2. /\ t_end + (i - t_used) + 1 \in 1 .. t_size
        /\ (t_end + (i - t_used) + 1) - t_end = i - t_used + 1
        /\ i - t_used + 1 \in 1 .. batch /\ i - t_used + 1 \in 1 .. Len(from)
    BY ONLY <1>2, <1>3, <1>4, <1>5
  <2>3. t_buf'[Place(t_size, t_beg, i) + 1] = from[i - t_used + 1]
    BY <1>1, <2>1, <2>2
  <2>4. from[i - t_used + 1] = asked - Len(from) + (i - t_used + 1)
    BY <1>10, <2>2
  <2>5. asked - Len(from) + (i - t_used + 1) = Len(wire) + i + 1
    BY ONLY <1>2, <1>3, <1>4
  <2>6. QED
    BY <2>3, <2>4, <2>5
<1>18. RingInv'
  <2>1. \A i \in 0 .. t_used + batch - 1 :
          i \in 0 .. t_used - 1 \/ i \in t_used .. t_used + batch - 1
    BY ONLY <1>4, <1>5
  <2>2. \A i \in 0 .. t_used' - 1 :
          t_buf'[Place(t_size', t_beg, i) + 1] = Len(wire) + i + 1
    <3>1. ASSUME NEW i \in 0 .. t_used + batch - 1
          PROVE  t_buf'[Place(t_size, t_beg, i) + 1] = Len(wire) + i + 1
      BY <1>16, <1>17, <2>1
    <3>2. t_size' = t_size /\ t_used' = t_used + batch
      BY <1>7, <1>8
    <3>3. ASSUME NEW i \in 0 .. t_used' - 1
          PROVE  t_buf'[Place(t_size', t_beg, i) + 1] = Len(wire) + i + 1
      <4>1. i \in 0 .. t_used + batch - 1
        BY <3>2, <1>4, <1>5
      <4>2. t_buf'[Place(t_size, t_beg, i) + 1] = Len(wire) + i + 1
        BY <3>1, <4>1
      <4>3. QED
        BY ONLY <3>2, <4>2
    <3>4. QED
      BY <3>3
  <2>3. t_used' >= 0
    BY <1>4, <1>5, <1>8
  <2>4. QED
    BY <1>1, <1>7, <1>8, <1>13, <1>15, <2>2, <2>3 DEF RingInv
<1>19. StreamInv'
  <2>1. Len(wire') + t_used' + Len(from') = asked'
    <3>1. /\ wire' = wire /\ t_used' = t_used + batch /\ asked' = asked
          /\ Len(from') = Len(from) - batch
      BY <1>1, <1>8, <1>9
    <3>2. QED
      BY ONLY <1>2, <1>3, <1>4, <1>5, <3>1
  <2>2. ASSUME NEW k \in DOMAIN from'
        PROVE  from'[k] = asked' - Len(from') + k
    <3>1. k \in 1 .. Len(from) - batch /\ batch + k \in 1 .. Len(from)
      BY <1>2, <1>5, <1>9
    <3>2. from'[k] = asked - Len(from) + (batch + k)
      BY <1>9, <1>10, <3>1
    <3>3. asked - Len(from) + (batch + k) = asked - (Len(from) - batch) + k
      BY ONLY <1>2, <1>3, <1>5, <3>1
    <3>4. QED
      BY <1>1, <1>9, <3>2, <3>3
  <2>3. \A k \in DOMAIN wire' : wire'[k] = k
    BY <1>1 DEF Kept, StreamInv
  <2>4. QED
    BY <2>1, <2>2, <2>3 DEF StreamInv
<1>20. t_used' + Len(from') > 0
  <2>1. t_used' >= 1 /\ t_used' \in Int /\ Len(from') \in Int /\ Len(from') >= 0
    BY <1>2, <1>4, <1>5, <1>8, <1>9
  <2>2. QED
    BY ONLY <2>1
<1>21. UseInv'
  BY <1>1, <1>7, <1>11, <1>20 DEF UseInv
<1>22. QED
  BY <1>18, <1>19, <1>21 DEF Kept

LEMMA EndWriteKept ==
  ASSUME TypeInv, Kept, EndWrite
  PROVE  Kept'
<1>1. /\ pc = "Copy" /\ pc' = "Idle" /\ from = <<>> /\ pollout' = TRUE
      /\ UNCHANGED <<t_buf, t_beg, t_end, t_left, from, asked, wire>>
  BY DEF EndWrite, ring
<1>2. First' = First
  BY <1>1 DEF First
<1>3. RingInv' /\ StreamInv' /\ t_size' = t_size /\ t_used' = t_used
  BY <1>1, <1>2, StepBeside
<1>4. t_used > 0
  <2>1. Len(from) = 0 /\ t_used + Len(from) > 0 /\ t_used \in Int
    BY <1>1, Bounds DEF Kept, UseInv
  <2>2. QED
    BY ONLY <2>1
<1>5. UseInv'
  BY <1>1, <1>3, <1>4 DEF Kept, UseInv
<1>6. QED
  BY <1>3, <1>5 DEF Kept

LEMMA EndConnectKept ==
  ASSUME TypeInv, Kept, EndConnect
  PROVE  Kept'
<1>1. UNCHANGED <<t_buf, t_beg, t_end, t_left, from, asked, wire, pollout, pc,
                  beg, total>>
  BY DEF EndConnect, ring
<1>2. First' = First
  BY <1>1 DEF First
<1>3. RingInv' /\ StreamInv' /\ t_size' = t_size /\ t_used' = t_used
  BY <1>1, <1>2, StepBeside
<1>4. UseInv'
  BY <1>1, <1>3 DEF Kept, UseInv
<1>5. QED
  BY <1>3, <1>4 DEF Kept

LEMMA PollReturnKept ==
  ASSUME TypeInv, Kept, PollReturn
  PROVE  Kept'
<1>1. UNCHANGED <<t_buf, t_beg, t_end, t_left, from, asked, wire, pollout, pc,
                  beg, total>>
  BY DEF PollReturn, ring
<1>2. First' = First
  BY <1>1 DEF First
<1>3. RingInv' /\ StreamInv' /\ t_size' = t_size /\ t_used' = t_used
  BY <1>1, <1>2, StepBeside
<1>4. UseInv'
  BY <1>1, <1>3 DEF Kept, UseInv
<1>5. QED
  BY <1>3, <1>4 DEF Kept

(* The callback finds something to send, or the connection meets with a    *)
(* limit.                                                                  *)
LEMMA BeginSendKept ==
  ASSUME TypeInv, Kept, BeginSend, met' = {}
  PROVE  Kept'
<1>1. /\ pc = "Idle" /\ pc' = "Send" /\ beg' = t_beg /\ total' = t_used
      /\ UNCHANGED <<t_buf, t_beg, t_end, t_left, pollout, from, asked, wire>>
      /\ t_used # 0
  BY DEF BeginSend, ring, Meet
<1>2. First' = First
  BY <1>1 DEF First
<1>3. RingInv' /\ StreamInv' /\ t_size' = t_size /\ t_used' = t_used
  BY <1>1, <1>2, StepBeside
<1>4. t_used > 0
  BY <1>1, Bounds DEF Kept, RingInv
<1>5. UseInv'
  BY <1>1, <1>3, <1>4 DEF Kept, UseInv
<1>6. QED
  BY <1>3, <1>5 DEF Kept

LEMMA SendAllKept ==
  ASSUME TypeInv, Kept, SendAll
  PROVE  Kept'
<1> DEFINE taken == SubSeq(t_buf, beg + 1, beg + SendRoom)
<1> DEFINE after == BitAnd(beg + SendRoom, t_size - 1)
<1>1. /\ pc = "Send"
      /\ wire' = wire \o taken
      /\ total' = total - SendRoom
      /\ t_left' = t_left + SendRoom
      /\ UNCHANGED <<t_buf, t_end, from, asked>>
  BY DEF SendAll
<1>2. \/ /\ total = SendRoom /\ pollout' = FALSE /\ pc' = "Idle"
      \/ /\ total # SendRoom /\ pollout' = pollout /\ beg' = after
         /\ \/ t_beg' = after /\ pc' = "Idle"
            \/ t_beg' = t_beg /\ pc' = "Send"
  BY <1>1 DEF SendAll
<1>3. PICK n : n = SendRoom
  OBVIOUS
<1>4. /\ t_size \in Nat /\ t_size > 0 /\ beg \in 0 .. t_size - 1
      /\ n \in Nat /\ n >= 1 /\ beg + n <= t_size
      /\ beg < t_end => n <= t_end - beg
      /\ t_end \in 0 .. t_size - 1
  <2>1. /\ t_size \in Nat /\ t_size > 0 /\ beg \in 0 .. t_size - 1
        /\ SendRoom \in Nat /\ SendRoom >= 1 /\ beg + SendRoom <= t_size
        /\ beg < t_end => SendRoom <= t_end - beg
    <3>1. /\ t_size \in 1 .. MaxBytes + PAGE_SIZE /\ beg \in 0 .. t_size - 1
          /\ SendRoom \in 1 .. t_size - beg
          /\ beg < t_end => SendRoom <= t_end - beg
      BY <1>1, SendRange
    <3>2. t_size \in Nat
      BY Naturals
    <3>3. QED
      BY ONLY <3>1, <3>2
  <2>2. t_end \in 0 .. t_size - 1
    BY <2>1, Indices
  <2>3. QED
    BY ONLY <1>3, <2>1, <2>2
<1>5. BitAnd(t_size, t_size - 1) = 0
  BY <1>1, <1>4 DEF Kept, UseInv
<1>6. after = IF beg + n < t_size THEN beg + n ELSE 0
  BY <1>1, <1>3, <1>5, MaskedRange
<1> HIDE DEF after
<1>7. First = beg
  BY <1>1 DEF First
<1>8. /\ t_used \in Int /\ t_used = t_size - t_left /\ t_left \in Nat
      /\ total = t_used /\ t_used > 0 /\ pollout
      /\ Len(wire) \in Nat /\ Len(from) \in Nat /\ asked \in Nat
      /\ Len(wire) + t_used + Len(from) = asked
  BY <1>1, Naturals, Bounds DEF Kept, UseInv, StreamInv
<1>9. t_used \in 1 .. t_size
  BY ONLY <1>4, <1>8
<1>10. t_end = Place(t_size, beg, t_used)
  BY <1>7, <1>8 DEF Kept, RingInv
<1>11. /\ n <= t_used
       /\ \A i \in 0 .. n - 1 : Place(t_size, beg, i) = beg + i
       /\ \A i \in 0 .. t_used - n - 1 :
            Place(t_size, after, i) = Place(t_size, beg, n + i)
       /\ n < t_used => Place(t_size, after, t_used - n) = t_end
  <2>1. PICK size, b, u, e, c : /\ size = t_size /\ b = beg /\ u = t_used
                                /\ e = t_end /\ c = after
    OBVIOUS
  <2>2. /\ size \in Nat /\ b \in 0 .. size - 1 /\ u \in 1 .. size
        /\ e \in 0 .. size - 1 /\ e = Place(size, b, u)
        /\ n \in Nat /\ n >= 1 /\ b + n <= size
        /\ (b < e => n <= e - b)
        /\ c = (IF b + n < size THEN b + n ELSE 0)
    BY ONLY <1>4, <1>6, <1>9, <1>10, <2>1
  <2>3. /\ n <= u
        /\ \A i \in 0 .. n - 1 : Place(size, b, i) = b + i
        /\ \A i \in 0 .. u - n - 1 : Place(size, c, i) = Place(size, b, n + i)
        /\ n < u => Place(size, c, u - n) = e
    BY ONLY <2>2, SentPlace
  <2>4. QED
    BY ONLY <2>1, <2>3
<1>12. t_size' = t_size
  BY <1>1 DEF t_size
<1>13. t_used' = t_used - n
  <2>1. t_used' = t_size - (t_left + n)
    BY <1>1, <1>3, <1>12 DEF t_used
  <2>2. QED
    BY ONLY <1>4, <1>8, <2>1
<1>14. \A i \in 0 .. t_used - 1 :
         t_buf[Place(t_size, beg, i) + 1] = Len(wire) + i + 1
  BY <1>7 DEF Kept, RingInv
<1>15. t_buf \in Seq(1 .. MaxBytes \cup {GARBAGE}) /\ Len(t_buf) = t_size
       /\ wire \in Seq(1 .. MaxBytes \cup {GARBAGE})
  BY Sequenced
<1>16. /\ taken \in Seq(1 .. MaxBytes \cup {GARBAGE}) /\ Len(taken) = n
       /\ \A k \in 1 .. n : taken[k] = t_buf[beg + k]
  <2>1. beg \in Nat /\ beg + n <= Len(t_buf)
    BY <1>4, <1>15
  <2>2. QED
    BY <1>3, <1>4, <1>15, <2>1, Part
<1> HIDE DEF taken
<1>17. \A k \in 1 .. n : taken[k] = Len(wire) + k
  <2> SUFFICES ASSUME NEW k \in 1 .. n
               PROVE  taken[k] = Len(wire) + k
    OBVIOUS
  <2>1. PICK i : i = k - 1
    OBVIOUS
  <2>2. /\ i \in 0 .. n - 1 /\ i \in 0 .. t_used - 1
        /\ beg + i + 1 = beg + k /\ Len(wire) + i + 1 = Len(wire) + k
    <3>1. n <= t_used
      BY <1>11
    <3>2. k \in Int /\ 1 <= k /\ k <= n
      BY <1>4
    <3>3. QED
      BY ONLY <1>4, <1>8, <2>1, <3>1, <3>2
  <2>3. t_buf[beg + i + 1] = Len(wire) + i + 1
    BY <1>11, <1>14, <2>2
  <2>4. QED
    BY <1>16, <2>2, <2>3
<1>18. StreamInv'
  <2>1. \A k \in DOMAIN wire : wire[k] = k
    BY DEF Kept, StreamInv
  <2>2. \A k \in 1 .. Len(taken) : taken[k] = Len(wire) + k
    BY <1>16, <1>17
  <2>3. /\ Len(wire') = Len(wire) + n
        /\ \A k \in DOMAIN wire' : wire'[k] = k
    <3>1. /\ wire \in Seq(1 .. MaxBytes \cup {GARBAGE})
          /\ taken \in Seq(1 .. MaxBytes \cup {GARBAGE})
      BY <1>15, <1>16
    <3>2. /\ Len(wire \o taken) = Len(wire) + Len(taken)
          /\ \A k \in DOMAIN (wire \o taken) : (wire \o taken)[k] = k
      BY ONLY <2>1, <2>2, <3>1, StreamGoesOn
    <3>3. wire' = wire \o taken /\ Len(taken) = n
      BY <1>1, <1>16
    <3>4. QED
      BY ONLY <3>2, <3>3
  <2>4. Len(wire') + t_used' + Len(from') = asked'
    <3>1. from' = from /\ asked' = asked
      BY <1>1
    <3>2. QED
      BY <1>4, <1>8, <1>13, <2>3, <3>1
  <2>5. \A k \in DOMAIN from' : from'[k] = asked' - Len(from') + k
    BY <1>1 DEF Kept, StreamInv
  <2>6. QED
    BY <2>3, <2>4, <2>5 DEF StreamInv
<1>19. Len(wire') = Len(wire) + n
  BY <1>1, <1>15, <1>16, Appended
<1>20. ASSUME total = n
       PROVE  RingInv' /\ UseInv'
  <2>1. t_used' = 0 /\ pollout' = FALSE /\ pc' = "Idle"
    <3>1. total = SendRoom
      BY <1>3, <1>20
    <3>2. t_used' = t_used - t_used /\ t_used \in Int
      BY <1>8, <1>13, <1>20
    <3>3. QED
      BY <1>2, <3>1, <3>2
  <2>2. RingInv'
    BY <2>1 DEF RingInv
  <2>3. UseInv'
    BY <1>5, <1>12, <2>1 DEF UseInv
  <2>4. QED
    BY <2>2, <2>3
<1>21. ASSUME total # n
       PROVE  RingInv' /\ UseInv'
  <2>1. /\ pollout' = pollout /\ First' = after /\ pc' \in {"Idle", "Send"}
    BY <1>2, <1>3, <1>21 DEF First
  <2>2. n < t_used /\ t_used - n > 0 /\ t_used' > 0
    <3>1. n <= t_used /\ n # t_used
      BY <1>8, <1>11, <1>21
    <3>2. QED
      BY ONLY <1>4, <1>8, <1>13, <3>1
  <2>3. t_end' = Place(t_size', First', t_used')
    BY <1>1, <1>11, <1>12, <1>13, <2>1, <2>2
  <2>4. ASSUME NEW i \in 0 .. t_used' - 1
        PROVE  t_buf'[Place(t_size', First', i) + 1] = Len(wire') + i + 1
    <3>1. i \in 0 .. t_used - n - 1 /\ i \in Int
      BY <1>4, <1>8, <1>13
    <3>2. n + i \in 0 .. t_used - 1
      BY ONLY <1>4, <1>8, <3>1
    <3>3. t_buf[Place(t_size, beg, n + i) + 1] = Len(wire) + (n + i) + 1
      BY <1>14, <3>2
    <3>4. Len(wire) + (n + i) + 1 = Len(wire) + n + i + 1
      BY ONLY <1>4, <1>8, <3>1
    <3>5. Place(t_size, after, i) = Place(t_size, beg, n + i)
      BY <1>11, <3>1
    <3>6. t_buf[Place(t_size, after, i) + 1] = Len(wire) + n + i + 1
      BY ONLY <3>3, <3>4, <3>5
    <3>7. t_buf' = t_buf /\ t_size' = t_size /\ First' = after
      BY <1>1, <1>12, <2>1
    <3>8. QED
      BY ONLY <1>19, <3>6, <3>7
  <2>5. RingInv'
    <3>1. t_used' >= 0
      BY <1>4, <1>8, <1>13, <2>2
    <3>2. QED
      BY <2>3, <2>4, <3>1 DEF RingInv
  <2>6. total' = t_used' /\ total' > 0
    BY <1>1, <1>3, <1>8, <1>13, <2>2
  <2>7. UseInv'
    BY <1>5, <1>8, <1>12, <2>1, <2>2, <2>6 DEF UseInv
  <2>8. QED
    BY <2>5, <2>7
<1>22. QED
  BY <1>18, <1>20, <1>21 DEF Kept

(* A limit that was met stays met.                                         *)
LEMMA LimitStays ==
  ASSUME [Next]_vars, met' = {}
  PROVE  met = {}
BY DEF Next, vars, SendStep, ConnectionWrite, Grow, BeginCopy, CopyBatch,
       EndWrite, EndConnect, PollReturn, BeginSend, SendAll, SendSome, SendFail

LEMMA KeptStep == TypeInv /\ KeptInv /\ [Next]_vars => KeptInv'
<1> SUFFICES ASSUME TypeInv, KeptInv, [Next]_vars, met' = {}
             PROVE  /\ \A k \in DOMAIN wire' : wire'[k] = k
                    /\ pc' # "Closed" => Kept'
  BY DEF KeptInv
<1>1. /\ \A k \in DOMAIN wire : wire[k] = k
      /\ pc # "Closed" => Kept
  BY LimitStays DEF KeptInv
<1>2. CASE UNCHANGED vars
  <2>1. UNCHANGED <<t_buf, t_beg, t_end, t_left, pollout, pc, from, beg, total,
                    asked, wire>>
    BY <1>2 DEF vars, ring
  <2>2. t_size' = t_size /\ t_used' = t_used /\ First' = First
    BY <2>1 DEF t_size, t_used, First
  <2>3. Kept => Kept'
    BY <2>1, <2>2 DEF Kept, RingInv, StreamInv, UseInv
  <2>4. QED
    BY <1>1, <2>1, <2>3
<1>3. CASE SendFail
  BY <1>1, <1>3 DEF SendFail
<1>4. CASE SendSome
  BY <1>4 DEF SendSome
<1>5. ASSUME \/ \E size \in Messages : ConnectionWrite(size)
             \/ Grow \/ BeginCopy \/ CopyBatch \/ EndWrite \/ EndConnect
             \/ PollReturn \/ BeginSend \/ SendAll
      PROVE  Kept'
  <2>1. pc # "Closed"
    BY <1>5 DEF ConnectionWrite, Grow, BeginCopy, CopyBatch, EndWrite,
       EndConnect, PollReturn, BeginSend, SendAll
  <2>2. QED
    BY <1>1, <1>5, <2>1, ConnectionWriteKept, GrowKept, BeginCopyKept,
       CopyBatchKept, EndWriteKept, EndConnectKept, PollReturnKept,
       BeginSendKept, SendAllKept
<1>6. Kept' => \A k \in DOMAIN wire' : wire'[k] = k
  BY DEF Kept, StreamInv
<1>7. QED
  BY <1>2, <1>3, <1>4, <1>5, <1>6 DEF Next, SendStep

LEMMA AlwaysKept == Spec => [](TypeInv /\ KeptInv)
BY InitType, InitKept, TypeStep, KeptStep, PTL DEF Spec

(* The bytes of the ring, when nothing is being saved or sent, are the     *)
(* rest of the stream.                                                     *)
LEMMA ContentIs ==
  ASSUME TypeInv, Kept, pc = "Idle"
  PROVE  wire \o Content = Bytes(0, asked)
<1>1. /\ t_size \in Nat /\ t_used \in Int /\ t_used >= 0 /\ t_used <= t_size
      /\ Len(wire) \in Nat /\ asked \in Nat
      /\ Len(wire) + t_used = asked
  <2>1. /\ t_size \in Nat /\ t_left \in Nat /\ t_used \in Int
        /\ t_used = t_size - t_left /\ t_used >= 0
        /\ Len(wire) \in Nat /\ asked \in Nat
        /\ Len(wire) + t_used + Len(from) = asked
    BY Naturals, Bounds DEF Kept, RingInv, StreamInv
  <2>2. Len(from) = 0
    BY DEF TypeInv, ShapeInv
  <2>3. QED
    BY ONLY <2>1, <2>2
<1>2. ASSUME NEW k \in 1 .. t_used
      PROVE  t_buf[((t_beg + k - 1) % t_size) + 1] = Len(wire) + k
  <2>1. t_size > 0 /\ k \in Int /\ 1 <= k /\ k <= t_size
    BY <1>1
  <2>2. t_beg \in 0 .. t_size - 1
    BY <2>1, Indices
  <2>3. (t_beg + k - 1) % t_size = Place(t_size, t_beg, k - 1)
    BY ONLY <1>1, <2>1, <2>2 DEF Place
  <2>4. k - 1 \in 0 .. t_used - 1 /\ Len(wire) + (k - 1) + 1 = Len(wire) + k
    BY <1>1
  <2>5. First = t_beg
    BY DEF First
  <2>6. QED
    BY <2>3, <2>4, <2>5 DEF Kept, RingInv
<1>3. /\ Content = [k \in 1 .. t_used |-> t_buf[((t_beg + k - 1) % t_size) + 1]]
      /\ \A k \in 1 .. t_used : Content[k] = Len(wire) + k
  BY <1>2 DEF Content
<1>4. Content \in Seq(Int) /\ Len(Content) = t_used
  <2>1. \A k \in 1 .. t_used : Content[k] \in Int
    BY <1>1, <1>3
  <2>2. t_used \in Nat
    BY <1>1
  <2>3. QED
    BY <1>3, <2>1, <2>2
<1>5. \A k \in DOMAIN wire : wire[k] = k
  BY DEF Kept, StreamInv
<1>6. wire \in Seq(Int)
  <2>1. wire \in Seq(1 .. MaxBytes \cup {GARBAGE}) /\ DOMAIN wire = 1 .. Len(wire)
    BY Sequenced
  <2>2. \A k \in 1 .. Len(wire) : wire[k] \in Int
    BY <1>5, <2>1
  <2>3. QED
    BY <2>1, <2>2
<1> DEFINE stream == wire \o Content
<1>7. /\ stream \in Seq(Int) /\ Len(stream) = asked
      /\ \A k \in DOMAIN stream : stream[k] = k
  <2>1. \A k \in 1 .. Len(Content) : Content[k] = Len(wire) + k
    BY <1>3, <1>4
  <2>2. /\ Len(wire \o Content) = Len(wire) + Len(Content)
        /\ \A k \in DOMAIN (wire \o Content) : (wire \o Content)[k] = k
    BY <1>4, <1>5, <1>6, <2>1, StreamGoesOn
  <2>3. stream \in Seq(Int)
    BY <1>4, <1>6
  <2>4. QED
    BY <1>1, <1>4, <2>2, <2>3
<1> HIDE DEF stream
<1>8. Bytes(0, asked) = [k \in 1 .. asked |-> k]
  BY <1>1 DEF Bytes
<1>9. stream = [k \in 1 .. asked |-> stream[k]] /\ DOMAIN stream = 1 .. asked
  BY <1>7
<1>10. stream = Bytes(0, asked)
  BY <1>7, <1>8, <1>9
<1>11. QED
  BY <1>10 DEF stream

(* NothingLost: short of the limits what was handed over is what went out  *)
(* followed by what is in the ring, each byte once and in order.           *)
THEOREM NothingIsLost == Spec => []NothingLost
<1>1. TypeInv /\ KeptInv => NothingLost
  BY ContentIs DEF KeptInv, NothingLost
<1>2. QED
  BY <1>1, AlwaysKept, PTL

(* PolloutRight: short of the limits POLLOUT is enabled, between the calls *)
(* of connection_write() and the write callback, just when bytes wait.     *)
THEOREM PolloutWhenNeeded == Spec => []PolloutRight
<1>1. ASSUME TypeInv, Kept, pc = "Idle"
      PROVE  pollout <=> Len(wire) < asked
  <2>1. /\ t_used \in Int /\ t_used >= 0 /\ Len(wire) \in Nat /\ asked \in Nat
        /\ Len(wire) + t_used + Len(from) = asked
        /\ pollout <=> t_used > 0
    BY <1>1, Naturals, Bounds DEF Kept, RingInv, StreamInv, UseInv
  <2>2. Len(from) = 0
    BY <1>1 DEF TypeInv, ShapeInv
  <2>3. t_used > 0 <=> Len(wire) < asked
    BY ONLY <2>1, <2>2
  <2>4. QED
    BY <2>1, <2>3
<1>2. TypeInv /\ KeptInv => PolloutRight
  BY <1>1 DEF KeptInv, PolloutRight
<1>3. QED
  BY <1>2, AlwaysKept, PTL

=============================================================================
