--------------------------- MODULE SpscQueueProofs ---------------------------
(***************************************************************************)
(* Proofs about SpscQueue for every Capacity and every position width that *)
(* is a multiple of it.                                                    *)
(***************************************************************************)
EXTENDS SpscQueue, Integers, TLAPS

(***************************************************************************)
(* Two numbers less than Capacity apart have different remainders: the     *)
(* masked index of spsc_queue.hpp separates any two live positions.        *)
(***************************************************************************)
LEMMA RemaindersDiffer ==
  ASSUME NEW C \in Nat, C > 0, NEW x \in Nat, NEW d \in 1 .. C - 1
  PROVE  x % C # (x + d) % C
<1> DEFINE q1 == x \div C
           q2 == (x + d) \div C
           r  == x % C
<1>1. /\ q1 \in Nat /\ r \in 0 .. C - 1 /\ x = C * q1 + r
  BY SMT
<1>2. SUFFICES ASSUME (x + d) % C = r PROVE FALSE
  OBVIOUS
<1>3. /\ q2 \in Nat /\ x + d = C * q2 + r
  BY <1>2, SMT
<1> HIDE DEF q1, q2, r
<1>4. d = C * q2 - C * q1
  BY <1>1, <1>3, SMT
<1>5. d = C * (q2 - q1)
  BY <1>1, <1>3, <1>4, SMT
<1>6. CASE q2 - q1 <= 0
  BY <1>1, <1>3, <1>5, <1>6, SMT
<1>7. CASE q2 - q1 >= 1
  BY <1>1, <1>3, <1>5, <1>7, SMT
<1>8. QED
  BY <1>1, <1>3, <1>6, <1>7, SMT

LEMMA MultipleVanishes ==
  ASSUME NEW C \in Nat, C > 0, NEW M \in Nat, M % C = 0, NEW x \in Nat
  PROVE  (x + M) % C = x % C
<1> DEFINE q1 == x \div C
           m  == M \div C
           r  == x % C
<1>1. /\ q1 \in Nat /\ r \in 0 .. C - 1 /\ x = C * q1 + r
  BY SMT
<1>2. /\ m \in Nat /\ M = C * m
  BY SMT
<1> HIDE DEF q1, m, r
<1>3. x + M = C * (q1 + m) + r
  BY <1>1, <1>2, SMT
<1>4. (C * (q1 + m) + r) % C = r
  BY <1>1, <1>2, SMT
<1>5. QED
  BY <1>3, <1>4 DEF r

(***************************************************************************)
(* The same on positions that wrap: positions whose distance is less than  *)
(* Capacity and not zero never share a slot.                               *)
(***************************************************************************)
LEMMA SlotsDiffer ==
  ASSUME NEW a \in Pos, NEW b \in Pos, Sub(a, b) # 0, Sub(a, b) < Capacity
  PROVE  Slot(a) # Slot(b)
<1> DEFINE d == Sub(a, b)
<1>1. d \in 1 .. Capacity - 1
  BY CapacityAssumption, PosModAssumption DEF Pos, Sub
<1>2. a = b + d \/ a + PosMod = b + d
  BY PosModAssumption DEF Pos, Sub
<1>3. b % Capacity # (b + d) % Capacity
  <2> HIDE DEF d
  <2> QED BY <1>1, RemaindersDiffer, CapacityAssumption, PosModAssumption DEF Pos
<1>4. (a + PosMod) % Capacity = a % Capacity
  <2>1. a \in Nat /\ Capacity \in Nat /\ Capacity > 0 /\ PosMod \in Nat
    BY CapacityAssumption, PosModAssumption DEF Pos
  <2>2. PosMod % Capacity = 0
    BY PosModAssumption
  <2>3. QED
    BY <2>1, <2>2, MultipleVanishes
<1>5. QED
  BY <1>2, <1>3, <1>4 DEF Slot

LEMMA SlotType == \A a \in Pos : Slot(a) \in 0 .. Capacity - 1
  BY CapacityAssumption, PosModAssumption DEF Pos, Slot

(***************************************************************************)
(* What a reload of the other side's position can return, as distances:    *)
(* it stays between the old snapshot and the true position.                *)
(***************************************************************************)
LEMMA ReloadForConsumer ==
  ASSUME NEW c \in Pos, NEW s \in Pos, NEW p \in Pos, NEW n \in Pos,
         Sub(s, c) <= Sub(p, c), Sub(n, s) <= Sub(p, s)
  PROVE  Sub(n, c) <= Sub(p, c)
  BY PosModAssumption DEF Sub, Pos

LEMMA ReloadForProducer ==
  ASSUME NEW c \in Pos, NEW s \in Pos, NEW p \in Pos, NEW n \in Pos,
         Sub(p, c) <= Sub(p, s), Sub(n, s) <= Sub(c, s)
  PROVE  Sub(p, c) <= Sub(p, n) /\ Sub(p, n) <= Sub(p, s)
  BY PosModAssumption DEF Sub, Pos

(***************************************************************************)
(* The initial state satisfies the inductive invariant.                    *)
(***************************************************************************)
LEMMA InitIInv == Init => IInv
  BY CapacityAssumption, PosModAssumption, ValueAssumption
  DEF Init, IInv, TypeOK, CachesConservative, PushHasRoom, PopHasItem,
      Occupancy, Sub, Pos

(***************************************************************************)
(* Every step of push() and of pop() preserves the inductive invariant.    *)
(***************************************************************************)
LEMMA StepIInv == IInv /\ [Next]_vars => IInv'
<1> SUFFICES ASSUME IInv, [Next]_vars PROVE IInv'
  OBVIOUS
<1> USE CapacityAssumption, PosModAssumption
<1>t. TypeOK /\ CachesConservative /\ PushHasRoom /\ PopHasItem
  BY DEF IInv
<1>1. ASSUME NEW v \in Value, PushBegin(v) PROVE IInv'
  BY <1>t, <1>1
  DEF PushBegin, LooksFull, consumerVars, IInv, TypeOK, CachesConservative,
      PushHasRoom, PopHasItem, Occupancy, Sub, Pos
<1>2. CASE PushRefresh
  <2>1. /\ cached_consumer_pos' \in Pos
        /\ Sub(cached_consumer_pos', cached_consumer_pos)
             <= Sub(consumer_pos, cached_consumer_pos)
    BY <1>2 DEF PushRefresh, Visible
  <2>2. /\ Occupancy <= Sub(producer_pos, cached_consumer_pos')
        /\ Sub(producer_pos, cached_consumer_pos') <= Sub(producer_pos, cached_consumer_pos)
    BY <1>t, <2>1, ReloadForProducer DEF TypeOK, CachesConservative, Occupancy
  <2>3. /\ producer_pos' = producer_pos /\ consumer_pos' = consumer_pos
        /\ cached_producer_pos' = cached_producer_pos
        /\ buf' = buf /\ arg' = arg /\ out' = out /\ popPc' = popPc
        /\ pushPc' = IF Sub(producer_pos, cached_consumer_pos') >= Capacity
                     THEN "idle" ELSE "write"
    BY <1>2 DEF PushRefresh, LooksFull, consumerVars
  <2>4. TypeOK' /\ PopHasItem'
    BY <1>t, <2>1, <2>3 DEF TypeOK, PopHasItem
  <2>5. Sub(producer_pos, cached_consumer_pos') \in Int
    BY <1>t, <2>1 DEF TypeOK, Sub, Pos
  <2>6. PushHasRoom'
    BY <2>3, <2>5 DEF PushHasRoom, Sub
  <2>7. CachesConservative'
    <3>1. Sub(producer_pos, cached_consumer_pos') <= Capacity
      <4>1. Sub(producer_pos, cached_consumer_pos) \in Int
        BY <1>t DEF TypeOK, Sub, Pos
      <4>2. Sub(producer_pos, cached_consumer_pos) <= Capacity
        BY <1>t DEF CachesConservative
      <4>3. QED
        BY <2>2, <2>5, <4>1, <4>2
    <3>2. QED
      BY <1>t, <2>2, <2>3, <3>1 DEF CachesConservative, Occupancy, Sub
  <2>8. QED
    BY <2>4, <2>6, <2>7 DEF IInv
<1>3. CASE PushWrite
  BY <1>t, <1>3, SlotType
  DEF PushWrite, consumerVars, IInv, TypeOK,
      CachesConservative, PushHasRoom, PopHasItem, Occupancy, Sub
<1>4. CASE PushPublish
  BY <1>t, <1>4
  DEF PushPublish, Inc, consumerVars, IInv, TypeOK,
      CachesConservative, PushHasRoom, PopHasItem, Occupancy, Sub, Pos
<1>5. CASE PopBegin
  BY <1>t, <1>5
  DEF PopBegin, LooksEmpty, producerVars, IInv, TypeOK, CachesConservative,
      PushHasRoom, PopHasItem, Occupancy, Sub, Pos
<1>6. CASE PopRefresh
  <2>1. /\ cached_producer_pos' \in Pos
        /\ Sub(cached_producer_pos', cached_producer_pos)
             <= Sub(producer_pos, cached_producer_pos)
    BY <1>6 DEF PopRefresh, Visible
  <2>2. Sub(cached_producer_pos', consumer_pos) <= Occupancy
    BY <1>t, <2>1, ReloadForConsumer DEF TypeOK, CachesConservative, Occupancy
  <2>3. /\ producer_pos' = producer_pos /\ consumer_pos' = consumer_pos
        /\ cached_consumer_pos' = cached_consumer_pos
        /\ buf' = buf /\ arg' = arg /\ out' = out /\ pushPc' = pushPc
        /\ popPc' = IF consumer_pos = cached_producer_pos' THEN "idle" ELSE "read"
    BY <1>6 DEF PopRefresh, LooksEmpty, producerVars
  <2>4. TypeOK' /\ PopHasItem' /\ PushHasRoom'
    BY <1>t, <2>1, <2>3 DEF TypeOK, PopHasItem, PushHasRoom, Sub
  <2>5. CachesConservative'
    BY <1>t, <2>2, <2>3 DEF CachesConservative, Occupancy, Sub
  <2>6. QED
    BY <2>4, <2>5 DEF IInv
<1>7. CASE PopRead
  BY <1>t, <1>7, SlotType
  DEF PopRead, producerVars, IInv, TypeOK,
      CachesConservative, PushHasRoom, PopHasItem, Occupancy, Sub
<1>8. CASE PopRelease
  BY <1>t, <1>8
  DEF PopRelease, Inc, producerVars, IInv, TypeOK,
      CachesConservative, PushHasRoom, PopHasItem, Occupancy, Sub, Pos
<1>9. CASE UNCHANGED vars
  BY <1>t, <1>9
  DEF vars, producerVars, consumerVars, IInv, TypeOK,
      CachesConservative, PushHasRoom, PopHasItem, Occupancy, Sub
<1>10. QED
  BY <1>1, <1>2, <1>3, <1>4, <1>5, <1>6, <1>7, <1>8, <1>9 DEF Next, Push, Pop

LEMMA Inductive == Spec => []IInv
  BY InitIInv, StepIInv, PTL DEF Spec

(***************************************************************************)
(* Type correctness of the queue's positions, slots and locals.            *)
(***************************************************************************)
THEOREM TypeCorrect == Spec => []TypeOK
<1>1. IInv => TypeOK
  BY DEF IInv
<1>2. QED
  BY <1>1, Inductive, PTL

(***************************************************************************)
(* The snapshots are conservative and the occupancy never exceeds the      *)
(* capacity, for every Capacity and through position wrap-around.          *)
(***************************************************************************)
THEOREM Conservative == Spec => []CachesConservative
<1>1. IInv => CachesConservative
  BY DEF IInv
<1>2. QED
  BY <1>1, Inductive, PTL

(***************************************************************************)
(* The slot accesses of push() and pop() never race.                       *)
(***************************************************************************)
THEOREM RaceFree == Spec => []NoSlotRace
<1>1. IInv => NoSlotRace
  <2> SUFFICES ASSUME IInv, pushPc = "write", popPc = "read"
               PROVE  Slot(producer_pos) # Slot(consumer_pos)
    BY DEF NoSlotRace
  <2>1. /\ producer_pos \in Pos /\ consumer_pos \in Pos
        /\ cached_producer_pos \in Pos /\ cached_consumer_pos \in Pos
    BY DEF IInv, TypeOK
  <2>2. Sub(producer_pos, consumer_pos) < Capacity
    BY <2>1, CapacityAssumption, PosModAssumption
    DEF IInv, CachesConservative, PushHasRoom, Occupancy, Sub, Pos
  <2>3. Sub(producer_pos, consumer_pos) # 0
    BY <2>1, CapacityAssumption, PosModAssumption
    DEF IInv, CachesConservative, PopHasItem, Occupancy, Sub, Pos
  <2>4. QED
    BY <2>1, <2>2, <2>3, SlotsDiffer
<1>2. QED
  BY <1>1, Inductive, PTL
-----------------------------------------------------------------------------
(***************************************************************************)
(* The refinement of BoundedFifo.                                          *)
(***************************************************************************)
LEMMA StagedInv == Spec => []Staged
<1>1. Init => Staged
  BY DEF Init, Staged
<1>2. IInv /\ Staged /\ [Next]_vars => Staged'
  <2> SUFFICES ASSUME IInv, Staged, [Next]_vars, pushPc' = "publish"
               PROVE  buf'[Slot(producer_pos')] = arg'
    BY DEF Staged
  <2>1. CASE PushWrite
    BY <2>1, SlotType DEF PushWrite, IInv, TypeOK
  <2>2. CASE ~PushWrite
    BY <2>2 DEF Staged, Next, Push, Pop, PushBegin, PushRefresh, PushPublish, PopBegin, PopRefresh,
                PopRead, PopRelease, vars, producerVars, consumerVars
  <2>3. QED
    BY <2>1, <2>2
<1>3. QED
  BY <1>1, <1>2, Inductive, PTL DEF Spec

\* The number of values in the queue, and the k-th position from the consumer's.
Size == Occupancy - Taken

LEMMA PlusType ==
  ASSUME NEW c \in Pos, NEW k \in 0 .. Capacity
  PROVE  Plus(c, k) \in Pos
  BY CapacityAssumption, PosModAssumption DEF Plus, Pos

LEMMA DistanceShrinks ==
  ASSUME NEW p \in Pos, NEW c \in Pos, NEW k \in 0 .. Capacity, k <= Sub(p, c)
  PROVE  Sub(p, Plus(c, k)) = Sub(p, c) - k
  BY CapacityAssumption, PosModAssumption DEF Plus, Sub, Pos

LEMMA SizeType ==
  ASSUME IInv
  PROVE  /\ Occupancy \in 0 .. Capacity /\ Taken \in {0, 1} /\ Taken <= Occupancy
         /\ Size \in 0 .. Capacity
         /\ popPc = "read" => Occupancy >= 1
         /\ pushPc \in {"write", "publish"} => Occupancy < Capacity
<1> USE DEF IInv, TypeOK
<1>1. Sub(producer_pos, cached_consumer_pos) \in Int /\ Sub(cached_producer_pos, consumer_pos) \in Nat
  BY PosModAssumption DEF Sub, Pos
<1>2. Occupancy \in Nat
  BY PosModAssumption DEF Occupancy, Sub, Pos
<1>3. consumer_pos # cached_producer_pos => Sub(cached_producer_pos, consumer_pos) # 0
  BY PosModAssumption DEF Sub, Pos
<1>4. /\ Occupancy <= Capacity
      /\ pushPc \in {"write", "publish"} => Occupancy < Capacity
      /\ popPc \in {"read", "release"} => Occupancy >= 1
  BY <1>1, <1>2, <1>3, CapacityAssumption DEF CachesConservative, PushHasRoom, PopHasItem
<1>5. QED
  BY <1>2, <1>4, CapacityAssumption DEF Taken, Size

ContentsOK ==
  /\ Contents \in Seq(Value) /\ Len(Contents) = Size
  /\ \A i \in 1 .. Size : Contents[i] = buf[Slot(Plus(consumer_pos, i - 1 + Taken))]

LEMMA ContentsType == IInv => ContentsOK
<1> SUFFICES ASSUME IInv PROVE ContentsOK
  OBVIOUS
<1>1. /\ Occupancy \in 0 .. Capacity /\ Taken \in {0, 1} /\ Size \in 0 .. Capacity
      /\ Size = Occupancy - Taken
  BY SizeType DEF Size
<1>2. \A i \in 1 .. Size : buf[Slot(Plus(consumer_pos, i - 1 + Taken))] \in Value
  <2> SUFFICES ASSUME NEW i \in 1 .. Size
               PROVE  buf[Slot(Plus(consumer_pos, i - 1 + Taken))] \in Value
    OBVIOUS
  <2>1. i - 1 + Taken \in 0 .. Capacity
    BY <1>1, CapacityAssumption
  <2>2. Slot(Plus(consumer_pos, i - 1 + Taken)) \in 0 .. Capacity - 1
    BY <2>1, PlusType, SlotType DEF IInv, TypeOK
  <2>3. QED
    BY <2>2 DEF IInv, TypeOK
<1>3. Contents = [i \in 1 .. Size |-> buf[Slot(Plus(consumer_pos, i - 1 + Taken))]]
  BY DEF Contents, Size
<1>4. Size \in Nat
  BY <1>1, CapacityAssumption
<1> HIDE DEF Size
<1>5. QED
  BY <1>2, <1>3, <1>4 DEF ContentsOK

LEMMA FifoInit == Init => Fifo!Init
<1> SUFFICES ASSUME Init PROVE Fifo!Init
  OBVIOUS
<1>1. Occupancy = 0 /\ Taken = 0
  BY DEF Init, Occupancy, Taken, Sub
<1>2. Contents = << >>
  BY <1>1 DEF Contents
<1>3. QED
  BY <1>2 DEF Init, Fifo!Init

\* A step that leaves the positions and the slots alone is invisible outside.
LEMMA Unseen ==
  ASSUME UNCHANGED << producer_pos, consumer_pos, buf, Taken, out >>
  PROVE  UNCHANGED Fifo!vars
  BY DEF Fifo!vars, Contents, Occupancy

(***************************************************************************)
(* The store into the slot is invisible: the slot is not in the contents.  *)
(***************************************************************************)
LEMMA WriteUnseen ==
  ASSUME IInv, PushWrite
  PROVE  UNCHANGED Fifo!vars
<1>1. /\ buf' = [buf EXCEPT ![Slot(producer_pos)] = arg]
      /\ UNCHANGED << producer_pos, consumer_pos, popPc, out >> /\ pushPc = "write"
  BY DEF PushWrite, consumerVars
<1>2. /\ Occupancy \in 0 .. Capacity - 1 /\ Taken \in {0, 1} /\ Size \in 0 .. Capacity
      /\ Size = Occupancy - Taken
  BY <1>1, SizeType, CapacityAssumption DEF Size
<1>3. Occupancy' = Occupancy /\ Taken' = Taken
  BY <1>1 DEF Occupancy, Taken
<1>4. ASSUME NEW i \in 1 .. Size
      PROVE  buf'[Slot(Plus(consumer_pos, i - 1 + Taken))]
               = buf[Slot(Plus(consumer_pos, i - 1 + Taken))]
  <2> DEFINE k == i - 1 + Taken
             x == Plus(consumer_pos, k)
  <2>1. k \in 0 .. Capacity /\ k < Occupancy
    BY <1>2, <1>4, CapacityAssumption
  <2>2. producer_pos \in Pos /\ consumer_pos \in Pos /\ x \in Pos
    BY <2>1, PlusType DEF IInv, TypeOK
  <2>3. Sub(producer_pos, x) = Occupancy - k
    BY <2>1, <2>2, DistanceShrinks, <1>2 DEF Occupancy
  <2> HIDE DEF k
  <2>4. Sub(producer_pos, x) # 0 /\ Sub(producer_pos, x) < Capacity
    BY <1>2, <2>1, <2>3, CapacityAssumption
  <2>5. Slot(producer_pos) # Slot(x) /\ Slot(x) \in 0 .. Capacity - 1
    BY <2>2, <2>4, SlotsDiffer, SlotType
  <2>6. QED
    BY <1>1, <2>5 DEF IInv, TypeOK, k
<1>5. Contents' = Contents
  <2>1. Contents = [i \in 1 .. Size |-> buf[Slot(Plus(consumer_pos, i - 1 + Taken))]]
    BY DEF Contents, Size
  <2>2. Contents' = [i \in 1 .. Size |-> buf'[Slot(Plus(consumer_pos, i - 1 + Taken))]]
    BY <1>1, <1>3 DEF Contents, Size
  <2> HIDE DEF Size
  <2>3. QED
    BY <1>4, <2>1, <2>2
<1>6. QED
  BY <1>1, <1>5 DEF Fifo!vars

(***************************************************************************)
(* The release store appends push()'s argument.                            *)
(***************************************************************************)
LEMMA PublishIsPush ==
  ASSUME IInv, IInv', Staged, PushPublish
  PROVE  Fifo!Push(arg)
<1>1. /\ producer_pos' = Inc(producer_pos) /\ pushPc = "publish"
      /\ UNCHANGED << buf, consumer_pos, popPc, out >>
  BY DEF PushPublish, consumerVars
<1>2. producer_pos \in Pos /\ consumer_pos \in Pos
  BY DEF IInv, TypeOK
<1>3. /\ Occupancy \in 0 .. Capacity - 1 /\ Taken \in {0, 1} /\ Size \in Nat
      /\ Size = Occupancy - Taken
  BY <1>1, SizeType, CapacityAssumption DEF Size
<1>4. Taken' = Taken
  BY <1>1 DEF Taken
<1>5. Occupancy' = Occupancy + 1 /\ Plus(consumer_pos, Occupancy) = producer_pos
  BY <1>1, <1>2, <1>3, CapacityAssumption, PosModAssumption DEF Occupancy, Sub, Inc, Plus, Pos
<1>6. Size' = Size + 1
  BY <1>3, <1>4, <1>5 DEF Size
<1>7. /\ Contents \in Seq(Value) /\ Len(Contents) = Size
      /\ \A i \in 1 .. Size : Contents[i] = buf[Slot(Plus(consumer_pos, i - 1 + Taken))]
  BY ContentsType DEF ContentsOK
<1>8. /\ Contents' \in Seq(Value) /\ Len(Contents') = Size + 1
      /\ \A i \in 1 .. Size + 1 : Contents'[i] = buf[Slot(Plus(consumer_pos, i - 1 + Taken))]
  <2>1. ContentsOK'
    BY ContentsType, PTL
  <2>2. QED
    BY <1>1, <1>4, <1>6, <2>1 DEF ContentsOK
<1>9. arg \in Value /\ Contents'[Size + 1] = arg
  <2>1. (Size + 1) - 1 + Taken = Occupancy
    BY <1>3
  <2>2. Contents'[Size + 1] = buf[Slot(Plus(consumer_pos, Occupancy))]
    BY <1>3, <1>8, <2>1
  <2>3. QED
    BY <1>1, <1>5, <2>2 DEF Staged, IInv, TypeOK
<1>10. Contents' = Append(Contents, arg)
  <2> HIDE DEF Size
  <2>1. \A i \in 1 .. Size : Contents'[i] = Contents[i]
    BY <1>3, <1>7, <1>8
  <2>2. QED
    BY <1>3, <1>7, <1>8, <1>9, <2>1
<1>11. Len(Contents) < Capacity
  BY <1>3, <1>7, CapacityAssumption
<1>12. QED
  BY <1>1, <1>10, <1>11 DEF Fifo!Push

(***************************************************************************)
(* The load of the slot takes the head of the contents.                    *)
(***************************************************************************)
LEMMA ReadIsPop ==
  ASSUME IInv, IInv', PopRead
  PROVE  Fifo!Pop
<1>1. /\ popPc = "read" /\ popPc' = "release" /\ out' = buf[Slot(consumer_pos)]
      /\ UNCHANGED << buf, producer_pos, consumer_pos >>
  BY DEF PopRead, producerVars
<1>2. Taken = 0 /\ Taken' = 1 /\ Occupancy' = Occupancy
  BY <1>1 DEF Taken, Occupancy
<1>3. Occupancy \in Nat /\ Occupancy >= 1
  BY <1>1, SizeType, CapacityAssumption
<1>4. Size = Occupancy /\ Size' = Occupancy - 1
  BY <1>2, <1>3 DEF Size
<1>5. consumer_pos \in Nat /\ Plus(consumer_pos, 0) = consumer_pos
  BY PosModAssumption DEF Plus, IInv, TypeOK, Pos
<1>6. /\ Contents \in Seq(Value) /\ Len(Contents) = Occupancy
      /\ \A i \in 1 .. Occupancy : Contents[i] = buf[Slot(Plus(consumer_pos, i - 1))]
  <2>1. \A i \in 1 .. Occupancy : i - 1 + 0 = i - 1
    BY <1>3
  <2>2. QED
    BY <1>2, <1>4, <2>1, ContentsType DEF ContentsOK
<1>7. /\ Contents' \in Seq(Value) /\ Len(Contents') = Occupancy - 1
      /\ \A i \in 1 .. Occupancy - 1 : Contents'[i] = buf[Slot(Plus(consumer_pos, i))]
  <2>1. ContentsOK'
    BY ContentsType, PTL
  <2>2. \A i \in 1 .. Occupancy - 1 : i - 1 + 1 = i
    BY <1>3
  <2>3. QED
    BY <1>1, <1>2, <1>4, <2>1, <2>2 DEF ContentsOK
<1>8. Contents # << >> /\ Head(Contents) = out'
  <2>1. Contents[1] = buf[Slot(Plus(consumer_pos, 1 - 1))]
    BY <1>3, <1>6
  <2>2. QED
    BY <1>1, <1>3, <1>5, <1>6, <2>1
<1>9. Contents' = Tail(Contents)
  <2>1. ASSUME NEW i \in 1 .. Occupancy - 1 PROVE Contents'[i] = Contents[i + 1]
    <3>1. i + 1 \in 1 .. Occupancy /\ (i + 1) - 1 = i
      BY <1>3
    <3>2. Contents[i + 1] = buf[Slot(Plus(consumer_pos, (i + 1) - 1))]
      BY <1>6, <3>1
    <3>3. QED
      BY <1>7, <3>1, <3>2
  <2>2. /\ Tail(Contents) \in Seq(Value) /\ Len(Tail(Contents)) = Occupancy - 1
        /\ \A i \in 1 .. Occupancy - 1 : Tail(Contents)[i] = Contents[i + 1]
    BY <1>3, <1>6, <1>8
  <2>3. QED
    BY <1>3, <1>7, <2>1, <2>2
<1>10. QED
  BY <1>8, <1>9 DEF Fifo!Pop

(***************************************************************************)
(* The store of the consumer's position is invisible: the slot it gives up *)
(* had left the contents before.                                           *)
(***************************************************************************)
LEMMA ReleaseUnseen ==
  ASSUME IInv, IInv', PopRelease
  PROVE  UNCHANGED Fifo!vars
<1>1. /\ popPc = "release" /\ popPc' = "idle" /\ consumer_pos' = Inc(consumer_pos)
      /\ UNCHANGED << buf, producer_pos, out >>
  BY DEF PopRelease, producerVars
<1>2. Taken = 1 /\ Taken' = 0
  BY <1>1 DEF Taken
<1>3. producer_pos \in Pos /\ consumer_pos \in Pos
  BY DEF IInv, TypeOK
<1>4. Occupancy \in 1 .. Capacity
  BY <1>2, SizeType, CapacityAssumption
<1>5. Occupancy' = Occupancy - 1
  BY <1>1, <1>3, <1>4, PosModAssumption, CapacityAssumption DEF Occupancy, Sub, Inc, Pos
<1>6. \A i \in 1 .. Occupancy - 1 : Plus(consumer_pos', i - 1) = Plus(consumer_pos, i)
  BY <1>1, <1>3, <1>4, PosModAssumption, CapacityAssumption DEF Plus, Inc, Pos
<1>7. Contents = [i \in 1 .. Occupancy - 1 |-> buf[Slot(Plus(consumer_pos, i))]]
  <2>1. \A i \in 1 .. Occupancy - 1 : i - 1 + 1 = i
    BY <1>4, CapacityAssumption
  <2>2. Contents = [i \in 1 .. Occupancy - 1 |-> buf[Slot(Plus(consumer_pos, i - 1 + 1))]]
    BY <1>2 DEF Contents
  <2>3. QED
    BY <2>1, <2>2
<1>8. Contents' = [i \in 1 .. Occupancy - 1 |-> buf[Slot(Plus(consumer_pos', i - 1))]]
  <2>1. \A i \in 1 .. Occupancy - 1 : i - 1 + 0 = i - 1
    BY <1>4, CapacityAssumption
  <2>2. (Occupancy - 1) - 0 = Occupancy - 1
    BY <1>4, CapacityAssumption
  <2>3. Contents' = [i \in 1 .. (Occupancy - 1) - 0 |-> buf[Slot(Plus(consumer_pos', i - 1 + 0))]]
    BY <1>1, <1>2, <1>5 DEF Contents
  <2>4. QED
    BY <2>1, <2>2, <2>3
<1>9. Contents' = Contents
  BY <1>6, <1>7, <1>8
<1>10. QED
  BY <1>1, <1>9 DEF Fifo!vars

(***************************************************************************)
(* Every step of the ring is a step of the FIFO or leaves it alone.        *)
(***************************************************************************)
LEMMA FifoStep == IInv /\ IInv' /\ Staged /\ [Next]_vars => [Fifo!Next]_(Fifo!vars)
<1> SUFFICES ASSUME IInv, IInv', Staged, [Next]_vars
             PROVE  Fifo!Next \/ UNCHANGED Fifo!vars
  OBVIOUS
<1> USE DEF producerVars, consumerVars
<1>1. ASSUME NEW v \in Value, PushBegin(v) PROVE UNCHANGED Fifo!vars
  BY <1>1, Unseen DEF PushBegin, Taken
<1>2. CASE PushRefresh
  BY <1>2, Unseen DEF PushRefresh, Taken
<1>3. CASE PushWrite
  BY <1>3, WriteUnseen
<1>4. CASE PushPublish
  <2>1. arg \in Value
    BY DEF IInv, TypeOK
  <2>2. QED
    BY <1>4, <2>1, PublishIsPush DEF Fifo!Next
<1>5. CASE PopBegin
  BY <1>5, Unseen DEF PopBegin, Taken
<1>6. CASE PopRefresh
  BY <1>6, Unseen DEF PopRefresh, Taken
<1>7. CASE PopRead
  BY <1>7, ReadIsPop DEF Fifo!Next
<1>8. CASE PopRelease
  BY <1>8, ReleaseUnseen
<1>9. CASE UNCHANGED vars
  BY <1>9, Unseen DEF vars, Taken
<1>10. QED
  BY <1>1, <1>2, <1>3, <1>4, <1>5, <1>6, <1>7, <1>8, <1>9 DEF Next, Push, Pop

(***************************************************************************)
(* The ring of spsc_queue.hpp is a bounded FIFO: whatever push() accepted  *)
(* comes out of pop() once, unchanged and in order, for every capacity and *)
(* every position width, through wrap-around and with stale snapshots.     *)
(***************************************************************************)
THEOREM RingIsFifo == Spec => ImplementsFifo
<1>1. Spec => [](IInv /\ Staged)
  BY Inductive, StagedInv, PTL
<1>2. QED
  BY <1>1, FifoInit, FifoStep, PTL DEF Spec, ImplementsFifo, Fifo!Spec
=============================================================================
