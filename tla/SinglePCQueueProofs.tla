------------------------ MODULE SinglePCQueueProofs ------------------------
(***************************************************************************)
(* For every limit_ and every set of elements: the ring keeps its shape,   *)
(* no exchange hits a slot in the wrong state, and the ring implements     *)
(* the bounded FIFO, which is about what it stores and removes.            *)
(***************************************************************************)
EXTENDS SinglePCQueue, TLAPS

\* What the threads know between their size test and their exchange: the other
\* thread can only have moved size_ the safe way.
SizeTests ==
  /\ producer # "idle" => size_ < Limit
  /\ consumer # "idle" => size_ > 0
  /\ Stored + (IF producer = "exchange" THEN 1 ELSE 0) <= Limit
  /\ Stored >= (IF consumer = "exchange" THEN 1 ELSE 0)

IInv == TypeOK /\ RingShape /\ SizeTests

\* FromHead maps the offsets one to one onto the slots.
LEMMA FromHeadFacts ==
  ASSUME head_ \in Slots
  PROVE  /\ \A i \in Slots : FromHead(i) \in Slots
         /\ \A i, j \in Slots : FromHead(i) = FromHead(j) => i = j
         /\ \A k \in Slots : \E i \in Slots : FromHead(i) = k
<1>1. \A i \in Slots : FromHead(i) \in Slots
  BY LimitAssumption DEF Slots, FromHead
<1>2. \A i, j \in Slots : FromHead(i) = FromHead(j) => i = j
  BY LimitAssumption DEF Slots, FromHead
<1>3. ASSUME NEW k \in Slots PROVE \E i \in Slots : FromHead(i) = k
  <2>1. CASE k >= head_
    <3>1. k - head_ \in Slots
      BY <2>1, LimitAssumption DEF Slots
    <3>2. FromHead(k - head_) = k
      BY <2>1, LimitAssumption DEF Slots, FromHead
    <3> QED BY <3>1, <3>2
  <2>2. CASE k < head_
    <3>1. k + Limit - head_ \in Slots
      BY <2>2, LimitAssumption DEF Slots
    <3>2. FromHead(k + Limit - head_) = k
      BY <2>2, LimitAssumption DEF Slots, FromHead
    <3> QED BY <3>1, <3>2
  <2> QED BY <2>1, <2>2, LimitAssumption DEF Slots
<1> QED BY <1>1, <1>2, <1>3

\* The slot behind the stored ones is empty, and the one at the head is not.
LEMMA EndSlots ==
  ASSUME IInv
  PROVE  /\ Stored < Limit => Stored \in Slots /\ tail_ = FromHead(Stored) /\ queue_[tail_] = None
         /\ Stored > 0 => FromHead(0) = head_ /\ queue_[head_] \in Item
<1>1. ASSUME Stored < Limit PROVE Stored \in Slots /\ tail_ = FromHead(Stored) /\ queue_[tail_] = None
  <2>1. Stored \in Slots /\ tail_ = FromHead(Stored)
    BY <1>1, LimitAssumption DEF IInv, RingShape, Slots
  <2>2. queue_[FromHead(Stored)] \notin Item
    BY <2>1 DEF IInv, RingShape, Slots
  <2>3. queue_[tail_] \in Item \cup {None}
    BY DEF IInv, TypeOK
  <2> QED BY <2>1, <2>2, <2>3
<1>2. ASSUME Stored > 0 PROVE FromHead(0) = head_ /\ queue_[head_] \in Item
  <2>1. FromHead(0) = head_ /\ 0 \in Slots
    BY LimitAssumption DEF IInv, TypeOK, FromHead, Slots
  <2> QED BY <1>2, <2>1 DEF IInv, RingShape
<1> QED BY <1>1, <1>2

LEMMA InitIInv == Init => IInv
  BY LimitAssumption, ItemAssumption
  DEF Init, IInv, TypeOK, RingShape, SizeTests, Stored, FromHead, Slots

\* A step that leaves the ring alone keeps its shape if Stored does not change.
LEMMA ShapeKept ==
  ASSUME RingShape, UNCHANGED <<queue_, head_, tail_>>, Stored' = Stored
  PROVE  RingShape'
  BY DEF RingShape, FromHead

LEMMA StoreSlotShape ==
  ASSUME IInv, StoreSlot
  PROVE  RingShape' /\ Stored' = Stored + 1
<1>1. Stored \in 0 .. Limit /\ Stored < Limit /\ Stored' = Stored + 1
  BY LimitAssumption DEF IInv, SizeTests, RingShape, StoreSlot, Stored, ConsumerSide, TypeOK
<1>2. head_' = head_ /\ head_ \in Slots /\ Stored \in Slots /\ tail_ = FromHead(Stored)
  BY <1>1, EndSlots DEF IInv, TypeOK, StoreSlot, ConsumerSide
<1>3. ASSUME NEW i \in Slots PROVE FromHead(i)' = FromHead(i)
  BY <1>2 DEF FromHead
<1>4. ASSUME NEW i \in Slots PROVE (queue_'[FromHead(i)'] \in Item) <=> i < Stored'
  <2>1. FromHead(i) \in Slots /\ (FromHead(i) = tail_ <=> i = Stored)
    BY <1>2, FromHeadFacts
  <2>2. queue_'[FromHead(i)] = IF i = Stored THEN value ELSE queue_[FromHead(i)]
    BY <2>1 DEF IInv, TypeOK, StoreSlot
  <2>3. value \in Item
    BY DEF IInv, TypeOK, StoreSlot
  <2>4. (queue_[FromHead(i)] \in Item) <=> i < Stored
    BY DEF IInv, RingShape
  <2> QED BY <2>2, <2>3, <2>4, <1>1, <1>3 DEF Slots
<1>5. (tail_ = IF Stored = Limit THEN head_ ELSE FromHead(Stored))'
  BY <1>1, <1>2, LimitAssumption DEF StoreSlot, NextTail, FromHead, Slots
<1>6. Stored' \in 0 .. Limit
  BY <1>1, LimitAssumption
<1> QED BY <1>1, <1>4, <1>5, <1>6 DEF RingShape

LEMMA TakeSlotShape ==
  ASSUME IInv, TakeSlot
  PROVE  RingShape' /\ Stored' = Stored - 1
<1>1. Stored \in 0 .. Limit /\ Stored > 0 /\ Stored' = Stored - 1
  BY LimitAssumption DEF IInv, SizeTests, RingShape, TakeSlot, Stored, ProducerSide, TypeOK
<1>2. head_ \in Slots /\ FromHead(0) = head_ /\ 0 \in Slots /\ tail_' = tail_
  BY <1>1, EndSlots, LimitAssumption DEF IInv, TypeOK, TakeSlot, ProducerSide, Slots
<1>3. head_' \in Slots
  BY <1>2, LimitAssumption DEF TakeSlot, NextHead, Slots
<1>4. ASSUME NEW i \in Slots PROVE FromHead(i)' = IF i = Limit - 1 THEN head_ ELSE FromHead(i + 1)
  BY <1>2, LimitAssumption DEF FromHead, TakeSlot, NextHead, Slots
<1>5. ASSUME NEW i \in Slots PROVE (queue_'[FromHead(i)'] \in Item) <=> i < Stored'
  <2>1. CASE i = Limit - 1
    <3>1. queue_'[head_] = None
      BY <1>2 DEF IInv, TypeOK, TakeSlot
    <3> QED BY <2>1, <3>1, <1>1, <1>4, ItemAssumption, LimitAssumption DEF Slots
  <2>2. CASE i # Limit - 1
    <3>1. i + 1 \in Slots
      BY <2>2, LimitAssumption DEF Slots
    <3>2. FromHead(i + 1) \in Slots /\ FromHead(i + 1) # head_
      BY <3>1, <1>2, FromHeadFacts, LimitAssumption DEF Slots, FromHead
    <3>3. queue_'[FromHead(i + 1)] = queue_[FromHead(i + 1)]
      BY <3>2 DEF IInv, TypeOK, TakeSlot
    <3>4. (queue_[FromHead(i + 1)] \in Item) <=> i + 1 < Stored
      BY <3>1 DEF IInv, RingShape
    <3> QED BY <2>2, <3>3, <3>4, <1>1, <1>4 DEF Slots
  <2> QED BY <2>1, <2>2
<1>6. (tail_ = IF Stored = Limit THEN head_ ELSE FromHead(Stored))'
  BY <1>1, <1>2, LimitAssumption DEF IInv, RingShape, TakeSlot, NextHead, FromHead, Slots
<1>7. Stored' \in 0 .. Limit
  BY <1>1, LimitAssumption
<1> QED BY <1>1, <1>5, <1>6, <1>7 DEF RingShape

LEMMA NextIInv == IInv /\ [Next]_vars => IInv'
<1> SUFFICES ASSUME IInv, [Next]_vars PROVE IInv'
  OBVIOUS
<1> USE LimitAssumption
<1>1. CASE TryEnqueue
  <2>1. Stored' = Stored /\ UNCHANGED <<queue_, head_, tail_>>
    BY <1>1 DEF TryEnqueue, Stored, ConsumerSide, IInv, TypeOK
  <2>2. RingShape'
    BY <2>1, ShapeKept DEF IInv
  <2>3. TypeOK'
    BY <1>1 DEF IInv, TypeOK, TryEnqueue, ConsumerSide
  <2>4. SizeTests'
    BY <1>1, <2>1 DEF IInv, TypeOK, RingShape, SizeTests, TryEnqueue, Full, ConsumerSide, Stored
  <2> QED BY <2>2, <2>3, <2>4 DEF IInv
<1>2. CASE StoreSlot
  <2>1. TypeOK'
    BY <1>2 DEF IInv, TypeOK, StoreSlot, ConsumerSide, NextTail, Slots
  <2>2. SizeTests'
    BY <1>2, StoreSlotShape DEF IInv, TypeOK, RingShape, SizeTests, StoreSlot, ConsumerSide, Stored
  <2> QED BY <1>2, <2>1, <2>2, StoreSlotShape DEF IInv
<1>3. CASE IncrementSize
  <2>1. Stored' = Stored /\ UNCHANGED <<queue_, head_, tail_>>
    BY <1>3 DEF IncrementSize, Stored, ConsumerSide, IInv, TypeOK
  <2>2. RingShape'
    BY <2>1, ShapeKept DEF IInv
  <2>3. TypeOK'
    BY <1>3 DEF IInv, TypeOK, SizeTests, IncrementSize, ConsumerSide
  <2>4. SizeTests'
    BY <1>3, <2>1 DEF IInv, TypeOK, RingShape, SizeTests, IncrementSize, ConsumerSide, Stored
  <2> QED BY <2>2, <2>3, <2>4 DEF IInv
<1>4. CASE TryDequeue
  <2>1. Stored' = Stored /\ UNCHANGED <<queue_, head_, tail_>>
    BY <1>4 DEF TryDequeue, Stored, ProducerSide, IInv, TypeOK
  <2>2. RingShape'
    BY <2>1, ShapeKept DEF IInv
  <2>3. TypeOK'
    BY <1>4 DEF IInv, TypeOK, TryDequeue, ProducerSide
  <2>4. SizeTests'
    BY <1>4, <2>1 DEF IInv, TypeOK, RingShape, SizeTests, TryDequeue, ProducerSide, Stored
  <2> QED BY <2>2, <2>3, <2>4 DEF IInv
<1>5. CASE TakeSlot
  <2>1. TypeOK'
    BY <1>5 DEF IInv, TypeOK, TakeSlot, ProducerSide, NextHead, Slots
  <2>2. SizeTests'
    BY <1>5, TakeSlotShape DEF IInv, TypeOK, RingShape, SizeTests, TakeSlot, ProducerSide, Stored
  <2> QED BY <1>5, <2>1, <2>2, TakeSlotShape DEF IInv
<1>6. CASE DecrementSize
  <2>1. Stored' = Stored /\ UNCHANGED <<queue_, head_, tail_>>
    BY <1>6 DEF DecrementSize, Stored, ProducerSide, IInv, TypeOK
  <2>2. RingShape'
    BY <2>1, ShapeKept DEF IInv
  <2>3. TypeOK'
    BY <1>6 DEF IInv, TypeOK, SizeTests, DecrementSize, ProducerSide
  <2>4. SizeTests'
    BY <1>6, <2>1 DEF IInv, TypeOK, RingShape, SizeTests, DecrementSize, ProducerSide, Stored
  <2> QED BY <2>2, <2>3, <2>4 DEF IInv
<1>7. CASE UNCHANGED vars
  <2>1. Stored' = Stored /\ UNCHANGED <<queue_, head_, tail_>>
    BY <1>7 DEF vars, Stored
  <2>2. RingShape'
    BY <2>1, ShapeKept DEF IInv
  <2> QED BY <1>7, <2>1, <2>2 DEF IInv, TypeOK, SizeTests, vars
<1> QED BY <1>1, <1>2, <1>3, <1>4, <1>5, <1>6, <1>7 DEF Next, Enqueuer, Dequeuer

\* The invariant of the ring: its shape and what each thread knows after its
\* size test.
THEOREM Invariance == Spec => []IInv
  BY InitIInv, NextIInv, PTL DEF Spec

\* Every variable keeps its type; in particular size_ stays within 0 .. limit_.
THEOREM TypeCorrect == Spec => []TypeOK
  BY Invariance, PTL DEF IInv

\* The slots in use are the Stored ones from the head on.
THEOREM RingShapeHolds == Spec => []RingShape
  BY Invariance, PTL DEF IInv

\* No element is overwritten and no empty slot is exchanged, although the size test
\* and the exchange are two steps.
THEOREM ExchangeIsSafeHolds == Spec => []ExchangeIsSafe
<1>1. IInv => ExchangeIsSafe
  <2> SUFFICES ASSUME IInv PROVE ExchangeIsSafe
    OBVIOUS
  <2>1. producer = "exchange" => Stored < Limit
    BY LimitAssumption DEF IInv, SizeTests, RingShape
  <2>2. consumer = "exchange" => Stored > 0
    BY LimitAssumption DEF IInv, SizeTests, RingShape
  <2> QED BY <2>1, <2>2, EndSlots DEF ExchangeIsSafe
<1> QED BY <1>1, Invariance, PTL

----------------------------------------------------------------------------
(* The refinement.                                                         *)

\* Contents is a sequence of Stored elements.
ContentsIsSeq ==
  /\ Contents \in Seq(Item)
  /\ Len(Contents) = Stored
  /\ \A i \in 1 .. Stored : Contents[i] = queue_[FromHead(i - 1)]

LEMMA ContentsSeq == IInv => ContentsIsSeq
<1> SUFFICES ASSUME IInv PROVE ContentsIsSeq
  OBVIOUS
<1>1. Stored \in 0 .. Limit
  BY DEF IInv, RingShape
<1>2. ASSUME NEW i \in 1 .. Stored PROVE queue_[FromHead(i - 1)] \in Item
  <2>1. i - 1 \in Slots /\ i - 1 < Stored
    BY <1>1, LimitAssumption DEF Slots
  <2> QED BY <2>1 DEF IInv, RingShape
<1>3. Contents \in [1 .. Stored -> Item]
  BY <1>2 DEF Contents
<1>4. Contents \in Seq(Item) /\ Len(Contents) = Stored
  BY <1>1, <1>3, LimitAssumption
<1> QED BY <1>4 DEF ContentsIsSeq, Contents

LEMMA ContentsSeqNext == IInv' => ContentsIsSeq'
  BY ContentsSeq, PTL

LEMMA InitRefines == Init => Fifo!Init
<1> SUFFICES ASSUME Init PROVE Fifo!Init
  OBVIOUS
<1>1. Contents \in Seq(Item) /\ Len(Contents) = 0
  BY ContentsSeq, InitIInv DEF ContentsIsSeq, Init, Stored
<1> QED BY <1>1 DEF Fifo!Init

\* The exchange of TryEnqueue puts its argument at the end.
LEMMA StoreSlotPuts ==
  ASSUME IInv, IInv', StoreSlot
  PROVE  Fifo!Put
<1>1. Stored \in Nat /\ Stored < Limit /\ Stored' = Stored + 1
  BY LimitAssumption, StoreSlotShape DEF IInv, SizeTests, RingShape, StoreSlot
<1>2. value \in Item /\ head_' = head_ /\ head_ \in Slots
  BY DEF IInv, TypeOK, StoreSlot, ConsumerSide
<1>3. Contents \in Seq(Item) /\ Len(Contents) = Stored
  BY ContentsSeq DEF ContentsIsSeq
<1>4. Contents' \in Seq(Item) /\ Len(Contents') = Stored + 1
  BY ContentsSeqNext, <1>1 DEF ContentsIsSeq
<1>5. Append(Contents, value) \in Seq(Item) /\ Len(Append(Contents, value)) = Stored + 1
  BY <1>2, <1>3
<1>6. ASSUME NEW i \in 1 .. Stored + 1 PROVE Contents'[i] = Append(Contents, value)[i]
  <2>1. i - 1 \in Slots /\ (i - 1 = Stored <=> i = Stored + 1) /\ i \in 1 .. Stored'
    BY <1>1, LimitAssumption DEF Slots
  <2>2. FromHead(i - 1)' = FromHead(i - 1)
    BY <1>2 DEF FromHead
  <2>3. Contents'[i] = queue_'[FromHead(i - 1)]
    BY <2>1, <2>2, ContentsSeqNext DEF ContentsIsSeq
  <2>4. FromHead(i - 1) \in Slots /\ (FromHead(i - 1) = tail_ <=> i - 1 = Stored)
    BY <2>1, <1>1, <1>2, EndSlots, FromHeadFacts
  <2>5. queue_'[FromHead(i - 1)] = IF i = Stored + 1 THEN value ELSE queue_[FromHead(i - 1)]
    BY <2>1, <2>4 DEF IInv, TypeOK, StoreSlot
  <2>6. CASE i = Stored + 1
    BY <2>3, <2>5, <2>6, <1>1, <1>2, <1>3
  <2>7. CASE i # Stored + 1
    <3>1. i \in 1 .. Stored
      BY <2>7, <1>1
    <3>2. Contents[i] = queue_[FromHead(i - 1)]
      BY <3>1, ContentsSeq DEF ContentsIsSeq
    <3>3. Append(Contents, value)[i] = Contents[i]
      BY <3>1, <1>1, <1>2, <1>3
    <3> QED BY <3>2, <3>3, <2>3, <2>5, <2>7
  <2> QED BY <2>6, <2>7
<1>7. Contents' = Append(Contents, value)
  BY <1>1, <1>4, <1>5, <1>6
<1> QED BY <1>1, <1>2, <1>3, <1>7 DEF Fifo!Put

\* The exchange of TryDequeue removes the oldest element.
LEMMA TakeSlotRemoves ==
  ASSUME IInv, IInv', TakeSlot
  PROVE  Fifo!Remove
<1>1. Stored \in Nat /\ Stored > 0 /\ Stored <= Limit /\ Stored' = Stored - 1
  BY LimitAssumption, TakeSlotShape DEF IInv, SizeTests, RingShape, TakeSlot
<1>2. head_ \in Slots /\ FromHead(0) = head_ /\ head_' = NextHead
  BY <1>1, EndSlots DEF IInv, TypeOK, TakeSlot
<1>3. Contents \in Seq(Item) /\ Len(Contents) = Stored /\ Contents # << >>
  BY <1>1, ContentsSeq DEF ContentsIsSeq
<1>4. Contents' \in Seq(Item) /\ Len(Contents') = Stored - 1
  BY ContentsSeqNext, <1>1 DEF ContentsIsSeq
<1>5. Tail(Contents) \in Seq(Item) /\ Len(Tail(Contents)) = Stored - 1
  BY <1>1, <1>3
<1>6. ASSUME NEW i \in 1 .. Stored - 1 PROVE Contents'[i] = Tail(Contents)[i]
  <2>1. i - 1 \in Slots /\ i \in Slots /\ i # 0 /\ i \in 1 .. Stored' /\ i + 1 \in 1 .. Stored
    BY <1>1, LimitAssumption DEF Slots
  <2>2. FromHead(i - 1)' = FromHead(i)
    BY <2>1, <1>2, LimitAssumption DEF FromHead, NextHead, Slots
  <2>3. Contents'[i] = queue_'[FromHead(i)]
    BY <2>1, <2>2, ContentsSeqNext DEF ContentsIsSeq
  <2>4. FromHead(i) \in Slots /\ FromHead(i) # head_
    BY <2>1, <1>2, FromHeadFacts, LimitAssumption DEF Slots, FromHead
  <2>5. queue_'[FromHead(i)] = queue_[FromHead(i)]
    BY <2>4 DEF IInv, TypeOK, TakeSlot
  <2>6. Contents[i + 1] = queue_[FromHead(i)]
    <3>1. (i + 1) - 1 = i
      BY <2>1
    <3> QED BY <2>1, <3>1, ContentsSeq DEF ContentsIsSeq
  <2>7. Tail(Contents)[i] = Contents[i + 1]
    BY <2>1, <1>1, <1>3, <1>5
  <2> QED BY <2>3, <2>5, <2>6, <2>7
<1>7. Contents' = Tail(Contents)
  BY <1>1, <1>4, <1>5, <1>6
<1> QED BY <1>3, <1>7 DEF Fifo!Remove

\* A step on size_ alone does not show.
LEMMA OthersStutter ==
  ASSUME IInv, IInv', UNCHANGED <<queue_, head_>>, Stored' = Stored
  PROVE  UNCHANGED Contents
  BY DEF Contents, FromHead

\* The ring implements the bounded FIFO of BoundedFifo, for every limit_: each
\* stored element is removed once and in the order of the exchanges that stored
\* them.  That TryDequeue hands it to its caller is not claimed: it does not.
THEOREM RingContractHolds == Spec => RingContract
<1>1. IInv /\ IInv' /\ [Next]_vars => [Fifo!Next]_Contents
  <2> SUFFICES ASSUME IInv, IInv', [Next]_vars PROVE [Fifo!Next]_Contents
    OBVIOUS
  <2>1. CASE StoreSlot
    BY <2>1, StoreSlotPuts DEF Fifo!Next
  <2>2. CASE TakeSlot
    BY <2>2, TakeSlotRemoves DEF Fifo!Next
  <2>3. CASE TryEnqueue \/ IncrementSize \/ TryDequeue \/ DecrementSize \/ UNCHANGED vars
    <3>1. UNCHANGED <<queue_, head_>>
      BY <2>3
      DEF TryEnqueue, IncrementSize, TryDequeue, DecrementSize, vars, ConsumerSide, ProducerSide
    <3>2. Stored' = Stored
      <4>1. CASE TryEnqueue
        BY <4>1 DEF TryEnqueue, Stored, ConsumerSide
      <4>2. CASE IncrementSize
        BY <4>2, LimitAssumption DEF IncrementSize, Stored, ConsumerSide, IInv, TypeOK
      <4>3. CASE TryDequeue
        BY <4>3 DEF TryDequeue, Stored, ProducerSide
      <4>4. CASE DecrementSize
        BY <4>4, LimitAssumption DEF DecrementSize, Stored, ProducerSide, IInv, TypeOK
      <4>5. CASE UNCHANGED vars
        BY <4>5 DEF vars, Stored
      <4> QED BY <2>3, <4>1, <4>2, <4>3, <4>4, <4>5
    <3> QED BY <3>1, <3>2, OthersStutter
  <2> QED BY <2>1, <2>2, <2>3 DEF Next, Enqueuer, Dequeuer
<1> QED BY <1>1, InitRefines, Invariance, PTL DEF Spec, RingContract, Fifo!Spec
=============================================================================
