------------------------- MODULE MyMpScQueueProofs -------------------------
(***************************************************************************)
(* Proofs about MyMpScQueue for any set of producers, any list capacity    *)
(* and any number of enqueue calls.                                        *)
(***************************************************************************)
EXTENDS MyMpScQueue, FiniteSetTheorems, TLAPS

\* A claimed index is below the counter and claimed by one producer only.
ClaimsDistinct ==
  /\ \A p \in Uncounted : req[p] < req_tail_index_
  /\ \A p, q \in Uncounted : req[p] = req[q] => p = q

\* A producer that has passed the spin works on the current tail list, and
\* the producers that grow it found it complete.
OnTail ==
  /\ \A p \in Producers : pc[p] \in {"data", "set", "count", "link", "publish"}
                             => mine[p] = tailOfQueue_
  /\ \A p \in Producers : pc[p] \in {"link", "publish"}
                             => enqueued_count_[tailOfQueue_] = Capacity

IInv == TypeOK /\ ClaimsDistinct /\ OnTail /\ RightList /\ CountIsExact

----------------------------------------------------------------------------
(* Arithmetic of lists: list k holds the indices k*Capacity to             *)
(* k*Capacity + Capacity - 1.                                              *)

\* The next list starts where this one ends.
LEMMA ListStep ==
  ASSUME NEW k \in Nat
  PROVE  /\ k * Capacity \in Nat
         /\ (k + 1) * Capacity = k * Capacity + Capacity
BY CapacityAssumption

\* Lists are laid out in order.
LEMMA ListOrder ==
  ASSUME NEW j \in Nat, NEW k \in Nat, j < k
  PROVE  (j + 1) * Capacity <= k * Capacity
<1>1. k - (j + 1) \in Nat
  OBVIOUS
<1>2. (k - (j + 1)) * Capacity >= 0
  BY <1>1, CapacityAssumption
<1>3. QED
  BY <1>2, CapacityAssumption

\* Every index is in some list.
LEMMA ListOf ==
  ASSUME NEW r \in Nat
  PROVE  r \div Capacity \in Nat /\ InList(r, r \div Capacity)
BY CapacityAssumption DEF InList

\* An index is in one list only.
LEMMA ListUnique ==
  ASSUME NEW r \in Nat, NEW j \in Nat, NEW k \in Nat, InList(r, j), InList(r, k)
  PROVE  j = k
<1>1. CASE j < k
  BY <1>1, ListOrder, ListStep DEF InList
<1>2. CASE k < j
  BY <1>2, ListOrder, ListStep DEF InList
<1>3. QED
  BY <1>1, <1>2

\* The slot of an index is its offset in its list (line 34), so two indices of
\* one list never share a slot.
LEMMA SlotOf ==
  ASSUME NEW r \in Nat, NEW k \in Nat, InList(r, k)
  PROVE  (r % Capacity) \in Slots /\ r = k * Capacity + (r % Capacity)
<1>1. r \div Capacity = k
  BY ListOf, ListUnique
<1>2. (r % Capacity) \in Slots
  BY CapacityAssumption DEF Slots
<1>3. r = Capacity * (r \div Capacity) + (r % Capacity)
  BY CapacityAssumption
<1>4. QED
  BY <1>1, <1>2, <1>3, CapacityAssumption

----------------------------------------------------------------------------
(* Counted(k), the claims enqueued_count_[k] stands for.                   *)

\* A list can only have counted the indices it holds.
LEMMA CountedSubset ==
  ASSUME TypeOK, NEW k \in Nat
  PROVE  /\ Counted(k) \subseteq (k * Capacity) .. (k * Capacity + Capacity - 1)
         /\ IsFiniteSet(Counted(k))
         /\ Cardinality(Counted(k)) \in Nat
         /\ Cardinality(Counted(k)) <= Capacity
<1> DEFINE I == (k * Capacity) .. (k * Capacity + Capacity - 1)
<1>1. Counted(k) \subseteq I
  BY ListStep, CapacityAssumption DEF Counted, InList, TypeOK
<1>2. IsFiniteSet(I) /\ Cardinality(I) = Capacity
  BY ListStep, FS_Interval, CapacityAssumption
<1>3. QED
  BY <1>1, <1>2, FS_Subset, FS_CardinalityType

\* A list that has counted Capacity claims has no unfinished claim left: all
\* its indices were handed out and nobody is still working on one of them.
LEMMA FullList ==
  ASSUME TypeOK, NEW k \in Nat, Cardinality(Counted(k)) = Capacity,
         NEW r \in Nat, InList(r, k)
  PROVE  r < req_tail_index_ /\ \A p \in Uncounted : req[p] # r
<1> DEFINE I == (k * Capacity) .. (k * Capacity + Capacity - 1)
<1>1. IsFiniteSet(I) /\ Cardinality(I) = Capacity
  BY ListStep, FS_Interval, CapacityAssumption
<1>2. Counted(k) = I
  BY <1>1, CountedSubset, FS_Subset
<1>3. r \in Counted(k)
  BY <1>2, ListStep, CapacityAssumption DEF InList
<1>4. QED
  BY <1>3 DEF Counted, TypeOK

----------------------------------------------------------------------------
(* The inductive step, one lemma per action that disturbs the counting.    *)

LEMMA InitIInv == Init => IInv
<1> SUFFICES ASSUME Init PROVE IInv
  OBVIOUS
<1>1. TypeOK
  BY CapacityAssumption, MaxEnqueueAssumption DEF Init, TypeOK, Lists, Slots, Value
<1>2. ClaimsDistinct /\ OnTail /\ RightList
  BY DEF Init, ClaimsDistinct, OnTail, RightList, Uncounted
<1>3. \A k \in Lists : Counted(k) = {}
  BY DEF Init, Counted
<1>4. \A k \in Lists : enqueued_count_[k] = Cardinality(Counted(k))
  BY <1>3, FS_EmptySet DEF Init
<1>5. CountIsExact
  BY <1>4, MaxEnqueueAssumption DEF Init, CountIsExact, Lists
<1>6. QED
  BY <1>1, <1>2, <1>5 DEF IInv

LEMMA ClaimIInv ==
  ASSUME IInv, NEW p \in Producers, Claim(p)
  PROVE  IInv'
<1> USE DEF IInv
<1>1. TypeOK'
  BY MaxEnqueueAssumption DEF TypeOK, Claim, Goto
<1>2. ClaimsDistinct'
  BY DEF ClaimsDistinct, TypeOK, Claim, Goto, Uncounted
<1>3. OnTail' /\ RightList'
  BY DEF OnTail, RightList, InList, TypeOK, Claim, Goto
<1>4. \A k \in Lists : Counted(k)' = Counted(k)
  <2> SUFFICES ASSUME NEW k \in Lists PROVE Counted(k)' = Counted(k)
    OBVIOUS
  <2>1. Uncounted' = Uncounted \cup {p} /\ p \notin Uncounted
    BY DEF Uncounted, Claim, Goto, TypeOK
  <2>2. \A q \in Uncounted : req'[q] = req[q]
    BY <2>1 DEF Uncounted, Claim, TypeOK
  <2>3. req'[p] = req_tail_index_ /\ req_tail_index_' = req_tail_index_ + 1
    BY DEF Claim, TypeOK
  <2>4. ASSUME NEW r \in Counted(k)' PROVE r \in Counted(k)
    <3>1. /\ r \in 0 .. req_tail_index_ /\ InList(r, k)
          /\ \A q \in Uncounted' : req'[q] # r
      BY <2>3, MaxEnqueueAssumption DEF Counted, InList, TypeOK
    <3>2. r # req_tail_index_ /\ \A q \in Uncounted : req[q] # r
      BY <2>1, <2>2, <2>3, <3>1
    <3>3. QED
      BY <3>1, <3>2, MaxEnqueueAssumption DEF Counted, TypeOK
  <2>5. ASSUME NEW r \in Counted(k) PROVE r \in Counted(k)'
    <3>1. r \in 0 .. req_tail_index_ /\ r # req_tail_index_ /\ InList(r, k)
      BY MaxEnqueueAssumption DEF Counted, TypeOK
    <3>2. \A q \in Uncounted' : req'[q] # r
      BY <2>1, <2>2, <2>3, <3>1 DEF Counted
    <3>3. QED
      BY <2>3, <3>1, <3>2 DEF Counted, InList, TypeOK
  <2>6. QED
    BY <2>4, <2>5
<1>5. CountIsExact'
  BY <1>4 DEF CountIsExact, TypeOK, Claim, Goto
<1>6. QED
  BY <1>1, <1>2, <1>3, <1>5

LEMMA LoadTailIInv ==
  ASSUME IInv, NEW p \in Producers, LoadTail(p)
  PROVE  IInv'
<1> USE DEF IInv
<1>1. TypeOK'
  BY DEF TypeOK, LoadTail, Goto
<1>2. Uncounted' = Uncounted /\ p \in Uncounted
  BY DEF LoadTail, Goto, Uncounted, TypeOK
<1>3. ClaimsDistinct'
  BY <1>2 DEF ClaimsDistinct, TypeOK, LoadTail
<1>4. CountIsExact'
  <2>1. \A k \in Lists : Counted(k)' = Counted(k)
    BY <1>2 DEF Counted, InList, LoadTail
  <2>2. QED
    BY <2>1 DEF CountIsExact, LoadTail, Goto, TypeOK
<1>5. InList(req[p], tailOfQueue_)
  <2>1. req[p] \in Nat /\ tailOfQueue_ \in Nat
    BY DEF TypeOK, Lists
  <2>2. req[p] < (tailOfQueue_ + 1) * Capacity
    BY <2>1, ListStep, CapacityAssumption DEF LoadTail, OutsideTail
  <2>3. PICK k \in Nat : InList(req[p], k)
    BY <2>1, ListOf
  <2>4. ~ (k < tailOfQueue_)
    <3> SUFFICES ASSUME k < tailOfQueue_ PROVE FALSE
      OBVIOUS
    <3>1. k \in Lists
      BY <2>1, MaxEnqueueAssumption DEF TypeOK, Lists
    <3>2. Cardinality(Counted(k)) = Capacity
      BY <3>1 DEF CountIsExact
    <3>3. QED
      BY <3>2, <2>1, <2>3, <1>2, FullList
  <2>5. ~ (tailOfQueue_ < k)
    BY <2>1, <2>2, <2>3, ListOrder, ListStep DEF InList
  <2>6. QED
    BY <2>1, <2>3, <2>4, <2>5
<1>6. OnTail' /\ RightList'
  BY <1>5 DEF OnTail, RightList, InList, LoadTail, Goto, TypeOK
<1>7. QED
  BY <1>1, <1>3, <1>4, <1>6

\* The two stores into the slot change neither the claims nor the counts.
LEMMA StoreIInv ==
  ASSUME IInv, NEW p \in Producers, StoreData(p) \/ StoreIsSet(p)
  PROVE  IInv'
<1> USE DEF IInv
<1>1. Slot(p) \in Slots
  BY SlotOf, CapacityAssumption DEF RightList, TypeOK, Slot, Lists, StoreData, StoreIsSet, Goto
<1>2. TypeOK'
  <2>1. CASE StoreData(p)
    BY <1>1, <2>1, MaxEnqueueAssumption DEF TypeOK, StoreData, Goto, Value
  <2>2. CASE StoreIsSet(p)
    BY <1>1, <2>2 DEF TypeOK, StoreIsSet, Goto
  <2>3. QED
    BY <2>1, <2>2
<1>3. /\ Uncounted' = Uncounted
      /\ UNCHANGED <<req_tail_index_, tailOfQueue_, enqueued_count_, req, mine>>
  BY DEF StoreData, StoreIsSet, Goto, Uncounted, TypeOK
<1>4. ClaimsDistinct'
  BY <1>3 DEF ClaimsDistinct
<1>5. \A k \in Lists : Counted(k)' = Counted(k)
  BY <1>3 DEF Counted, InList
<1>6. OnTail' /\ RightList'
  BY <1>3 DEF OnTail, RightList, InList, StoreData, StoreIsSet, Goto, TypeOK
<1>7. CountIsExact'
  BY <1>3, <1>5 DEF CountIsExact, StoreData, StoreIsSet, Goto, TypeOK
<1>8. QED
  BY <1>2, <1>4, <1>6, <1>7

\* Counting a slot moves exactly the producer's own claim into Counted.
LEMMA CountIInv ==
  ASSUME IInv, NEW p \in Producers, Count(p)
  PROVE  IInv'
<1> USE DEF IInv
<1>0. PICK t \in Lists : t = tailOfQueue_ /\ t = tailOfQueue_'
  BY DEF TypeOK, Count
<1>1. /\ mine[p] = t /\ t \in Nat /\ req[p] \in Nat
      /\ p \in Uncounted /\ InList(req[p], t) /\ req[p] < req_tail_index_
  BY <1>0 DEF TypeOK, OnTail, RightList, ClaimsDistinct, Uncounted, Count, Goto, Lists
<1>2. Uncounted' = Uncounted \ {p}
  BY DEF Uncounted, Count, Goto, TypeOK
<1>3. Counted(t)' = Counted(t) \cup {req[p]} /\ req[p] \notin Counted(t)
  BY <1>1, <1>2, MaxEnqueueAssumption
     DEF Counted, InList, ClaimsDistinct, TypeOK, Count
<1>4. \A k \in Lists : k # t => Counted(k)' = Counted(k)
  <2> SUFFICES ASSUME NEW k \in Lists, k # t PROVE Counted(k)' = Counted(k)
    OBVIOUS
  <2>1. k \in Nat /\ ~ InList(req[p], k)
    BY <1>1, ListUnique DEF Lists
  <2>2. QED
    BY <1>1, <1>2, <2>1 DEF Counted, InList, Count
<1>5. Cardinality(Counted(t)') = Cardinality(Counted(t)) + 1
  BY <1>1, <1>3, CountedSubset, FS_AddElement
<1>6. Cardinality(Counted(t)) + 1 <= Capacity
  <2>1. Cardinality(Counted(t)) # Capacity
    BY <1>1, FullList
  <2>2. QED
    BY <1>1, <2>1, CountedSubset, CapacityAssumption
<1>7. /\ enqueued_count_'[t] = Cardinality(Counted(t)')
      /\ \A k \in Lists : k # t => enqueued_count_'[k] = enqueued_count_[k]
      /\ enqueued_count_[t] = Cardinality(Counted(t))
      /\ enqueued_count_[t] \in Nat
  BY <1>1, <1>5 DEF CountIsExact, Count, TypeOK
<1>8. TypeOK'
  BY <1>1, <1>6, <1>7, CapacityAssumption DEF TypeOK, Count, Goto
<1>9. ClaimsDistinct'
  BY <1>2 DEF ClaimsDistinct, Count
<1>10. \A q \in Producers : pc[q] \notin {"link", "publish"}
  BY <1>0, <1>1, <1>6, <1>7, CapacityAssumption DEF OnTail
<1>11. OnTail'
  BY <1>0, <1>1, <1>5, <1>7, <1>10, CapacityAssumption
     DEF OnTail, Count, Goto, TypeOK, FillsList
<1>12. RightList'
  BY DEF RightList, InList, Count, Goto, TypeOK
<1>13. \A k \in Lists : enqueued_count_'[k] = Cardinality(Counted(k)')
  BY <1>4, <1>7 DEF CountIsExact
<1>14. \A q \in Producers : pc'[q] \in {"link", "publish"} => q = p
  BY <1>10 DEF Count, Goto, TypeOK
<1>15. \A k \in Lists : k < t => enqueued_count_'[k] = Capacity
  BY <1>0, <1>1, <1>7 DEF CountIsExact, Lists
<1>16. CountIsExact'
  BY <1>0, <1>13, <1>14, <1>15 DEF CountIsExact
<1>17. QED
  BY <1>8, <1>9, <1>11, <1>12, <1>16

LEMMA LinkNextIInv ==
  ASSUME IInv, NEW p \in Producers, LinkNext(p)
  PROVE  IInv'
<1> USE DEF IInv
<1>1. TypeOK'
  BY DEF TypeOK, LinkNext, Linked, Goto
<1>2. Uncounted' = Uncounted
  BY DEF LinkNext, Goto, Uncounted, TypeOK
<1>3. ClaimsDistinct' /\ OnTail' /\ RightList'
  BY <1>2 DEF ClaimsDistinct, OnTail, RightList, InList, LinkNext, Goto, TypeOK
<1>4. \A k \in Lists : Counted(k)' = Counted(k)
  BY <1>2 DEF Counted, InList, LinkNext
<1>5. CountIsExact'
  BY <1>4 DEF CountIsExact, LinkNext, Goto, TypeOK
<1>6. QED
  BY <1>1, <1>3, <1>5

\* The tail moves only when nobody is left working on the old tail list.
LEMMA PublishTailIInv ==
  ASSUME IInv, NEW p \in Producers, PublishTail(p)
  PROVE  IInv'
<1> USE DEF IInv
<1> DEFINE t == tailOfQueue_
<1>1. /\ mine[p] = t /\ t \in Lists /\ t \in Nat /\ enqueued_count_[t] = Capacity
      /\ Cardinality(Counted(t)) = Capacity
  BY DEF TypeOK, OnTail, CountIsExact, PublishTail, Goto, Lists
<1>2. \A r \in Nat : InList(r, t) => r < req_tail_index_ /\ \A q \in Uncounted : req[q] # r
  BY <1>1, FullList
<1>3. t + 1 <= MaxEnqueue
  <2>1. InList(t * Capacity + Capacity - 1, t) /\ t * Capacity + Capacity - 1 \in Nat
    BY <1>1, ListStep, CapacityAssumption DEF InList
  <2>2. t * Capacity + Capacity - 1 < MaxEnqueue
    BY <1>2, <2>1, MaxEnqueueAssumption DEF TypeOK
  <2>3. t <= t * Capacity
    BY <1>1, CapacityAssumption
  <2>4. QED
    BY <1>1, <2>1, <2>2, <2>3, ListStep, CapacityAssumption, MaxEnqueueAssumption
<1>4. TypeOK'
  BY <1>1, <1>3, MaxEnqueueAssumption DEF TypeOK, PublishTail, Goto, Lists
<1>5. Uncounted' = Uncounted
  BY DEF PublishTail, Goto, Uncounted, TypeOK
<1>6. \A q \in Producers : pc[q] \notin {"data", "set", "count"}
  <2> SUFFICES ASSUME NEW q \in Producers, pc[q] \in {"data", "set", "count"} PROVE FALSE
    OBVIOUS
  <2>1. q \in Uncounted /\ req[q] \in Nat /\ InList(req[q], t)
    BY DEF Uncounted, RightList, OnTail, TypeOK
  <2>2. QED
    BY <1>2, <2>1
<1>7. \A q \in Producers : q # p => pc[q] \notin {"link", "publish"}
  BY DEF CountIsExact, PublishTail, Goto
<1>8. OnTail' /\ RightList' /\ ClaimsDistinct'
  BY <1>5, <1>6, <1>7 DEF OnTail, RightList, ClaimsDistinct, PublishTail, Goto, TypeOK
<1>9. \A k \in Lists : Counted(k)' = Counted(k)
  BY <1>5 DEF Counted, InList, PublishTail
<1>10. CountIsExact'
  BY <1>1, <1>7, <1>9 DEF CountIsExact, PublishTail, Goto, TypeOK, Lists
<1>11. QED
  BY <1>4, <1>8, <1>10

LEMMA NextIInv == IInv /\ [Next]_vars => IInv'
<1> SUFFICES ASSUME IInv, [Next]_vars PROVE IInv'
  OBVIOUS
<1>1. CASE UNCHANGED vars
  <2>1. Uncounted' = Uncounted
    BY <1>1 DEF vars, Uncounted
  <2>2. \A k \in Lists : Counted(k)' = Counted(k)
    BY <1>1, <2>1 DEF vars, Counted, InList
  <2>3. QED
    BY <1>1, <2>1, <2>2 DEF vars, IInv, TypeOK, ClaimsDistinct, OnTail,
                            RightList, InList, CountIsExact
<1>2. ASSUME NEW p \in Producers, enqueue(p) PROVE IInv'
  BY <1>2, ClaimIInv, LoadTailIInv, StoreIInv, CountIInv, LinkNextIInv,
     PublishTailIInv DEF enqueue
<1>3. QED
  BY <1>1, <1>2 DEF Next, Finished

\* The inductive invariant holds in every reachable state.
THEOREM Invariance == Spec => []IInv
BY InitIInv, NextIInv, PTL DEF Spec

\* Every variable keeps its type; in particular the tail never leaves the
\* lists the claims need, however the producers interleave.
THEOREM TypeCorrect == Spec => []TypeOK
BY Invariance, PTL DEF IInv

\* enqueue only ever writes into the list its request index belongs to.
THEOREM RightListHolds == Spec => []RightList
BY Invariance, PTL DEF IInv

\* enqueued_count_ is exact and one producer at a time grows the queue.
THEOREM CountIsExactHolds == Spec => []CountIsExact
BY Invariance, PTL DEF IInv

----------------------------------------------------------------------------
(* Set slots are never written again.                                      *)

\* A set slot belongs to a claim that was handed out and whose producer is
\* past the store of is_set_.
SetSlotsOwned ==
  \A k \in Lists, i \in Slots :
    is_set_[k][i] = 1 => /\ k * Capacity + i < req_tail_index_
                         /\ \A p \in Unset : req[p] # k * Capacity + i

LEMMA InitSetSlotsOwned == Init => SetSlotsOwned
BY DEF Init, SetSlotsOwned

\* The index a writing producer holds is the one of the slot it writes.
LEMMA WriterSlot ==
  ASSUME IInv, NEW p \in Producers, pc[p] \in {"data", "set", "count"}
  PROVE  /\ mine[p] \in Lists /\ Slot(p) \in Slots
         /\ req[p] = mine[p] * Capacity + Slot(p)
BY SlotOf DEF IInv, TypeOK, RightList, Slot, Lists

LEMMA NextSetSlotsOwned ==
  ASSUME IInv, SetSlotsOwned, [Next]_vars
  PROVE  SetSlotsOwned'
<1> USE DEF IInv
<1>1. ASSUME UNCHANGED <<req_tail_index_, is_set_, req>>, Unset' \subseteq Unset
      PROVE  SetSlotsOwned'
  BY <1>1 DEF SetSlotsOwned
<1>2. ASSUME NEW p \in Producers, Claim(p) PROVE SetSlotsOwned'
  <2>1. Unset' = Unset \cup {p} /\ p \notin Unset
    BY <1>2 DEF Unset, Claim, Goto, TypeOK
  <2>2. \A q \in Unset : req'[q] = req[q]
    BY <1>2, <2>1 DEF Unset, Claim, TypeOK
  <2>3. req'[p] = req_tail_index_ /\ req_tail_index_' = req_tail_index_ + 1
        /\ is_set_' = is_set_ /\ req_tail_index_ \in Nat
    BY <1>2, MaxEnqueueAssumption DEF Claim, TypeOK
  <2> SUFFICES ASSUME NEW k \in Lists, NEW i \in Slots, is_set_[k][i] = 1
               PROVE  /\ k * Capacity + i < req_tail_index_'
                      /\ \A q \in Unset' : req'[q] # k * Capacity + i
    BY <2>3 DEF SetSlotsOwned
  <2>4. k * Capacity + i < req_tail_index_ /\ k * Capacity + i \in Nat
    BY ListStep DEF SetSlotsOwned, Lists, Slots
  <2>5. QED
    BY <2>1, <2>2, <2>3, <2>4 DEF SetSlotsOwned
<1>3. ASSUME NEW p \in Producers, StoreIsSet(p) PROVE SetSlotsOwned'
  <2>1. /\ p \in Unset /\ p \in Uncounted /\ Unset' = Unset \ {p}
        /\ Unset \subseteq Uncounted /\ Unset' \subseteq Unset
    BY <1>3 DEF Unset, Uncounted, StoreIsSet, Goto, TypeOK
  <2>2. /\ mine[p] \in Lists /\ Slot(p) \in Slots
        /\ req[p] = mine[p] * Capacity + Slot(p)
    BY <1>3, WriterSlot DEF StoreIsSet, Goto
  <2>3. req[p] < req_tail_index_ /\ \A q \in Unset' : req[q] # req[p]
    BY <2>1 DEF ClaimsDistinct
  <2>4. UNCHANGED <<req, req_tail_index_>>
    BY <1>3 DEF StoreIsSet
  <2> SUFFICES ASSUME NEW k \in Lists, NEW i \in Slots, is_set_'[k][i] = 1
               PROVE  /\ k * Capacity + i < req_tail_index_
                      /\ \A q \in Unset' : req[q] # k * Capacity + i
    BY <2>4 DEF SetSlotsOwned
  <2>5. CASE k = mine[p] /\ i = Slot(p)
    BY <2>2, <2>3, <2>5
  <2>6. CASE ~ (k = mine[p] /\ i = Slot(p))
    <3>1. is_set_[k][i] = 1
      BY <1>3, <2>2, <2>6 DEF StoreIsSet, TypeOK
    <3>2. QED
      BY <2>1, <3>1 DEF SetSlotsOwned
  <2>7. QED
    BY <2>5, <2>6
<1>4. ASSUME NEW p \in Producers,
             LoadTail(p) \/ StoreData(p) \/ Count(p) \/ LinkNext(p) \/ PublishTail(p)
      PROVE  SetSlotsOwned'
  <2>1. UNCHANGED <<req_tail_index_, is_set_, req>>
    BY <1>4 DEF LoadTail, StoreData, Count, LinkNext, PublishTail
  <2>2. Unset' \subseteq Unset
    BY <1>4 DEF LoadTail, StoreData, Count, LinkNext, PublishTail, Goto, Unset, TypeOK
  <2>3. QED
    BY <1>1, <2>1, <2>2
<1>5. CASE UNCHANGED vars
  <2>1. Unset' \subseteq Unset
    BY <1>5 DEF vars, Unset
  <2>2. QED
    BY <1>1, <1>5, <2>1 DEF vars
<1>6. QED
  BY <1>2, <1>3, <1>4, <1>5 DEF Next, enqueue, Finished

LEMMA StepKeepsSetSlots ==
  ASSUME IInv, SetSlotsOwned, [Next]_vars, NEW k \in Lists, NEW i \in Slots,
         is_set_[k][i] = 1
  PROVE  is_set_'[k][i] = 1 /\ data_'[k][i] = data_[k][i]
<1> USE DEF IInv
<1>1. ASSUME NEW p \in Producers, StoreData(p)
      PROVE  is_set_'[k][i] = 1 /\ data_'[k][i] = data_[k][i]
  <2>1. p \in Unset /\ mine[p] \in Lists /\ Slot(p) \in Slots
        /\ req[p] = mine[p] * Capacity + Slot(p)
    BY <1>1, WriterSlot DEF StoreData, Goto, Unset
  <2>2. ~ (k = mine[p] /\ i = Slot(p))
    BY <2>1 DEF SetSlotsOwned
  <2>3. QED
    BY <1>1, <2>1, <2>2 DEF StoreData, TypeOK
<1>2. ASSUME NEW p \in Producers, StoreIsSet(p)
      PROVE  is_set_'[k][i] = 1 /\ data_'[k][i] = data_[k][i]
  BY <1>2, WriterSlot DEF StoreIsSet, Goto, TypeOK
<1>3. ASSUME UNCHANGED <<is_set_, data_>>
      PROVE  is_set_'[k][i] = 1 /\ data_'[k][i] = data_[k][i]
  BY <1>3
<1>4. QED
  BY <1>1, <1>2, <1>3 DEF Next, enqueue, Claim, LoadTail, Count, LinkNext,
                          PublishTail, Finished, vars

\* A published value is never overwritten: once is_set_ is up, neither the
\* flag nor the data of the slot changes again (lines 34 to 36).
THEOREM SetSlotsFrozenHolds == Spec => SetSlotsFrozen
<1>1. IInv /\ SetSlotsOwned /\ [Next]_vars => SetSlotsOwned'
  BY NextSetSlotsOwned
<1>2. IInv /\ SetSlotsOwned /\ [Next]_vars
        => [\A k \in Lists, i \in Slots :
              is_set_[k][i] = 1 => is_set_'[k][i] = 1 /\ data_'[k][i] = data_[k][i]]_vars
  BY StepKeepsSetSlots
<1>3. QED
  BY <1>1, <1>2, Invariance, InitSetSlotsOwned, PTL DEF Spec, SetSlotsFrozen

----------------------------------------------------------------------------
(* What verify() finds.                                                    *)

\* A claim's slot is set as soon as its producer is past the store of is_set_.
ClaimsSet ==
  \A k \in Lists, i \in Slots :
    k * Capacity + i < req_tail_index_ /\ (\A p \in Unset : req[p] # k * Capacity + i)
      => is_set_[k][i] = 1

\* The walk over next_ reaches every list that holds a set slot.
SetReached ==
  /\ \A k \in Lists : k < tailOfQueue_ => next_[k]
  /\ \A p \in Producers : pc[p] = "publish" => next_[mine[p]]
  /\ \A k \in Lists, i \in Slots : is_set_[k][i] = 1 => k <= tailOfQueue_

\* The set slots hold the values of the calls that are past that store.
SetValue(k, i, v) == is_set_[k][i] = 1 /\ data_[k][i] = v

ValuesExact ==
  /\ \A p \in Producers : sent[p] <= req_tail_index_ /\ (p \in Unset => sent[p] > 0)
  /\ \A k \in Lists, i \in Slots : is_set_[k][i] = 1 =>
       \E p \in Producers : \E n \in 1 .. sent[p] : data_[k][i] = <<p, n>>
  /\ \A p \in Producers : \A n \in 1 .. sent[p] : n < sent[p] \/ p \notin Unset =>
       \E k \in Lists, i \in Slots : SetValue(k, i, <<p, n>>)
  /\ \A p \in Producers : pc[p] = "set" => data_[mine[p]][Slot(p)] = <<p, sent[p]>>

SetInv == SetSlotsOwned /\ ClaimsSet /\ SetReached /\ ValuesExact

LEMMA InitSetInv == Init => SetInv
<1> SUFFICES ASSUME Init PROVE SetInv
  OBVIOUS
<1>1. \A k \in Lists, i \in Slots : is_set_[k][i] # 1 /\ k * Capacity + i \in Nat
  <2>1. (\A k \in Lists : k \in Nat) /\ (\A i \in Slots : i \in Nat)
    BY CapacityAssumption DEF Lists, Slots
  <2>2. \A k \in Lists, i \in Slots : is_set_[k][i] # 1
    BY DEF Init
  <2>3. \A k \in Lists : k * Capacity \in Nat
    BY <2>1, ListStep
  <2> QED BY <2>1, <2>2, <2>3
<1>2. SetSlotsOwned /\ ClaimsSet
  BY <1>1, InitSetSlotsOwned DEF ClaimsSet, Init
<1>3. SetReached
  BY <1>1, MaxEnqueueAssumption DEF SetReached, Init, Lists
<1>4. ValuesExact
  <2>1. \A p \in Producers : sent[p] = 0 /\ p \notin Unset /\ pc[p] # "set"
    BY DEF Init, Unset
  <2>2. \A p \in Producers : 1 .. sent[p] = {}
    BY <2>1
  <2>3. \A p \in Producers : sent[p] <= req_tail_index_
    BY <2>1 DEF Init
  <2> QED BY <1>1, <2>1, <2>2, <2>3 DEF ValuesExact
<1> QED BY <1>2, <1>3, <1>4 DEF SetInv

\* An unset claim that stays as it is leaves its slot alone.
LEMMA NextClaimsSet ==
  ASSUME IInv, SetInv, [Next]_vars
  PROVE  ClaimsSet'
<1> USE DEF IInv, SetInv
<1>1. ASSUME UNCHANGED <<req_tail_index_, is_set_, req>>, Unset \subseteq Unset'
      PROVE  ClaimsSet'
  BY <1>1 DEF ClaimsSet
<1>2. ASSUME NEW p \in Producers, Claim(p) PROVE ClaimsSet'
  <2>1. Unset' = Unset \cup {p} /\ p \notin Unset
    BY <1>2 DEF Unset, Claim, Goto, TypeOK
  <2>2. \A q \in Unset : req'[q] = req[q]
    BY <1>2, <2>1 DEF Unset, Claim, TypeOK
  <2>3. req'[p] = req_tail_index_ /\ req_tail_index_' = req_tail_index_ + 1
        /\ is_set_' = is_set_ /\ req_tail_index_ \in Nat
    BY <1>2, MaxEnqueueAssumption DEF Claim, TypeOK
  <2> SUFFICES ASSUME NEW k \in Lists, NEW i \in Slots,
                      k * Capacity + i < req_tail_index_',
                      \A q \in Unset' : req'[q] # k * Capacity + i
               PROVE  is_set_[k][i] = 1
    BY <2>3 DEF ClaimsSet
  <2>4. k * Capacity + i \in Nat
    BY ListStep DEF Lists, Slots
  <2>5. k * Capacity + i # req_tail_index_ /\ \A q \in Unset : req[q] # k * Capacity + i
    BY <2>1, <2>2, <2>3
  <2>6. k * Capacity + i < req_tail_index_
    BY <2>3, <2>4, <2>5
  <2> QED BY <2>5, <2>6 DEF ClaimsSet
<1>3. ASSUME NEW p \in Producers, StoreIsSet(p) PROVE ClaimsSet'
  <2>1. /\ mine[p] \in Lists /\ Slot(p) \in Slots
        /\ req[p] = mine[p] * Capacity + Slot(p)
    BY <1>3, WriterSlot DEF StoreIsSet, Goto
  <2>2. Unset' = Unset \ {p} /\ UNCHANGED <<req, req_tail_index_>>
    BY <1>3 DEF Unset, StoreIsSet, Goto, TypeOK
  <2>3. /\ is_set_'[mine[p]][Slot(p)] = 1
        /\ \A k \in Lists, i \in Slots : is_set_[k][i] = 1 => is_set_'[k][i] = 1
    BY <1>3, <2>1 DEF StoreIsSet, TypeOK
  <2> SUFFICES ASSUME NEW k \in Lists, NEW i \in Slots,
                      k * Capacity + i < req_tail_index_,
                      \A q \in Unset' : req[q] # k * Capacity + i
               PROVE  is_set_'[k][i] = 1
    BY <2>2 DEF ClaimsSet
  <2>4. CASE req[p] = k * Capacity + i
    <3>1. k \in Nat /\ mine[p] \in Nat /\ i \in Nat /\ i < Capacity /\ req[p] \in Nat
      BY <2>1, CapacityAssumption DEF Lists, Slots, TypeOK
    <3>2. InList(req[p], k)
      BY <2>4, <3>1, ListStep, CapacityAssumption DEF InList
    <3>3. InList(req[p], mine[p])
      BY <1>3 DEF RightList, StoreIsSet, Goto
    <3>4. k = mine[p] /\ k * Capacity \in Nat /\ Slot(p) \in Nat
      <4>1. k = mine[p]
        BY <3>1, <3>2, <3>3, ListUnique
      <4>2. k * Capacity \in Nat
        BY <3>1, ListStep
      <4>3. Slot(p) \in Nat
        BY <2>1, CapacityAssumption DEF Slots
      <4> QED BY <4>1, <4>2, <4>3
    <3>5. i = Slot(p)
      BY <2>1, <2>4, <3>1, <3>4
    <3> QED BY <2>3, <3>4, <3>5
  <2>5. CASE req[p] # k * Capacity + i
    BY <2>2, <2>3, <2>5 DEF ClaimsSet
  <2> QED BY <2>4, <2>5
<1>4. ASSUME NEW p \in Producers,
             LoadTail(p) \/ StoreData(p) \/ Count(p) \/ LinkNext(p) \/ PublishTail(p)
      PROVE  ClaimsSet'
  <2>1. UNCHANGED <<req_tail_index_, is_set_, req>>
    BY <1>4 DEF LoadTail, StoreData, Count, LinkNext, PublishTail
  <2>2. Unset \subseteq Unset'
    BY <1>4 DEF LoadTail, StoreData, Count, LinkNext, PublishTail, Goto, Unset, TypeOK
  <2> QED BY <1>1, <2>1, <2>2
<1>5. CASE UNCHANGED vars
  <2>1. Unset \subseteq Unset'
    BY <1>5 DEF vars, Unset
  <2> QED BY <1>1, <1>5, <2>1 DEF vars
<1> QED BY <1>2, <1>3, <1>4, <1>5 DEF Next, enqueue, Finished

\* The tail moves on over a link, and slots are set in the tail list.
LEMMA NextSetReached ==
  ASSUME IInv, SetReached, [Next]_vars
  PROVE  SetReached'
<1> USE DEF IInv
<1>1. tailOfQueue_ \in Nat /\ \A k \in Lists : k \in Nat
  BY DEF TypeOK, Lists
<1>2. ASSUME NEW p \in Producers, StoreIsSet(p) PROVE SetReached'
  <2>1. mine[p] = tailOfQueue_ /\ mine[p] \in Lists /\ Slot(p) \in Slots
    BY <1>2, WriterSlot DEF StoreIsSet, Goto, OnTail
  <2>2. \A k \in Lists, i \in Slots : is_set_'[k][i] = 1 => k = tailOfQueue_ \/ is_set_[k][i] = 1
    BY <1>2, <2>1 DEF StoreIsSet, TypeOK
  <2>3. \A k \in Lists, i \in Slots : is_set_'[k][i] = 1 => k <= tailOfQueue_
    BY <1>1, <2>2 DEF SetReached
  <2> QED BY <1>2, <2>3 DEF SetReached, StoreIsSet, Goto, TypeOK
<1>3. ASSUME NEW p \in Producers, LinkNext(p) PROVE SetReached'
  <2>1. mine[p] \in Lists /\ next_'[mine[p]] /\ \A k \in Lists : next_[k] => next_'[k]
    BY <1>3 DEF LinkNext, Linked, TypeOK
  <2>2. \A q \in Producers : mine[q] \in Lists
    BY DEF TypeOK
  <2> QED BY <1>3, <2>1, <2>2 DEF SetReached, LinkNext, Goto, TypeOK
<1>4. ASSUME NEW p \in Producers, PublishTail(p) PROVE SetReached'
  <2>1. mine[p] = tailOfQueue_ /\ next_[tailOfQueue_] /\ tailOfQueue_' = tailOfQueue_ + 1
    BY <1>4 DEF PublishTail, Goto, OnTail, SetReached
  <2>2. UNCHANGED <<next_, is_set_, mine>>
    BY <1>4 DEF PublishTail
  <2>3. \A k \in Lists : k < tailOfQueue_' => k < tailOfQueue_ \/ k = tailOfQueue_
    BY <1>1, <2>1
  <2>4. \A k \in Lists : k < tailOfQueue_' => next_'[k]
    BY <2>1, <2>2, <2>3 DEF SetReached
  <2>5. \A k \in Lists : k <= tailOfQueue_ => k <= tailOfQueue_'
    BY <1>1, <2>1
  <2>6. \A q \in Producers : pc'[q] = "publish" => pc[q] = "publish"
    BY <1>4 DEF PublishTail, Goto, TypeOK
  <2> QED BY <2>2, <2>4, <2>5, <2>6 DEF SetReached
<1>5. ASSUME UNCHANGED <<tailOfQueue_, next_, is_set_>>,
             \A q \in Producers : pc'[q] = "publish" => pc[q] = "publish" /\ mine'[q] = mine[q]
      PROVE  SetReached'
  BY <1>5 DEF SetReached
<1>6. ASSUME NEW p \in Producers, Claim(p) \/ LoadTail(p) \/ StoreData(p) \/ Count(p)
      PROVE  SetReached'
  <2>1. UNCHANGED <<tailOfQueue_, next_, is_set_>>
    BY <1>6 DEF Claim, LoadTail, StoreData, Count
  <2>2. \A q \in Producers : pc'[q] = "publish" => pc[q] = "publish" /\ mine'[q] = mine[q]
    BY <1>6 DEF Claim, LoadTail, StoreData, Count, Goto, TypeOK
  <2> QED BY <1>5, <2>1, <2>2
<1>7. CASE UNCHANGED vars
  BY <1>5, <1>7 DEF vars
<1> QED BY <1>2, <1>3, <1>4, <1>6, <1>7 DEF Next, enqueue, Finished

\* Steps that write no slot and take no claim.
LEMMA ValuesKept ==
  ASSUME ValuesExact, UNCHANGED <<sent, req_tail_index_, is_set_, data_>>, Unset' = Unset,
         \A p \in Producers : pc'[p] = "set" => pc[p] = "set" /\ mine'[p] = mine[p] /\ req'[p] = req[p]
  PROVE  ValuesExact'
<1>1. \A p \in Producers : pc'[p] = "set" => data_'[mine'[p]][Slot(p)'] = <<p, sent'[p]>>
  BY DEF ValuesExact, Slot
<1>2. /\ \A p \in Producers : sent'[p] <= req_tail_index_' /\ (p \in Unset' => sent'[p] > 0)
      /\ \A k \in Lists, i \in Slots : is_set_'[k][i] = 1 =>
           \E p \in Producers : \E n \in 1 .. sent'[p] : data_'[k][i] = <<p, n>>
      /\ \A p \in Producers : \A n \in 1 .. sent'[p] : n < sent'[p] \/ p \notin Unset' =>
           \E k \in Lists, i \in Slots : SetValue(k, i, <<p, n>>)'
  BY DEF ValuesExact, SetValue
<1> QED BY <1>1, <1>2, Zenon DEF ValuesExact

LEMMA NextValuesExact ==
  ASSUME IInv, SetInv, [Next]_vars
  PROVE  ValuesExact'
<1> USE DEF IInv, SetInv
<1>1. \A p \in Producers : sent[p] \in Nat
  BY DEF TypeOK
<1>2. ASSUME NEW p \in Producers, Claim(p) PROVE ValuesExact'
  <2>1. /\ Unset' = Unset \cup {p} /\ p \notin Unset
        /\ UNCHANGED <<is_set_, data_, mine>>
        /\ sent'[p] = sent[p] + 1 /\ \A q \in Producers : q # p => sent'[q] = sent[q]
        /\ req_tail_index_' = req_tail_index_ + 1 /\ req_tail_index_ \in Nat
    BY <1>2, MaxEnqueueAssumption DEF Unset, Claim, Goto, TypeOK
  <2>2. \A q \in Producers : pc'[q] = "set" => pc[q] = "set" /\ q # p /\ req'[q] = req[q]
    BY <1>2 DEF Claim, Goto, TypeOK
  <2>3. ASSUME NEW q \in Producers
        PROVE  sent'[q] <= req_tail_index_' /\ (q \in Unset' => sent'[q] > 0)
    <3>1. sent[q] <= req_tail_index_ /\ (q \in Unset => sent[q] > 0)
      BY DEF ValuesExact
    <3> QED BY <1>1, <2>1, <3>1
  <2>4. ASSUME NEW k \in Lists, NEW i \in Slots, is_set_'[k][i] = 1
        PROVE  \E q \in Producers : \E n \in 1 .. sent'[q] : data_'[k][i] = <<q, n>>
    <3>1. PICK q \in Producers : \E n \in 1 .. sent[q] : data_[k][i] = <<q, n>>
      BY <2>1, <2>4 DEF ValuesExact
    <3>2. PICK n \in 1 .. sent[q] : data_[k][i] = <<q, n>>
      BY <3>1
    <3>3. n \in 1 .. sent'[q]
      BY <1>1, <2>1
    <3> QED BY <2>1, <3>2, <3>3
  <2>5. ASSUME NEW q \in Producers, NEW n \in 1 .. sent'[q], n < sent'[q] \/ q \notin Unset'
        PROVE  \E k \in Lists, i \in Slots : SetValue(k, i, <<q, n>>)'
    <3>1. n \in 1 .. sent[q] /\ (n < sent[q] \/ q \notin Unset)
      <4>1. CASE q = p
        BY <1>1, <2>1, <2>5, <4>1
      <4>2. CASE q # p
        BY <2>1, <2>5, <4>2
      <4> QED BY <4>1, <4>2
    <3>2. \E k \in Lists, i \in Slots : SetValue(k, i, <<q, n>>)
      BY <3>1 DEF ValuesExact
    <3> QED BY <2>1, <3>2 DEF SetValue
  <2>6. \A q \in Producers : pc'[q] = "set" => data_'[mine'[q]][Slot(q)'] = <<q, sent'[q]>>
    BY <2>1, <2>2 DEF ValuesExact, Slot
  <2> QED BY <2>3, <2>4, <2>5, <2>6, Zenon DEF ValuesExact
<1>3. ASSUME NEW p \in Producers, StoreData(p) PROVE ValuesExact'
  <2>1. /\ mine[p] \in Lists /\ Slot(p) \in Slots /\ p \in Unset
        /\ req[p] = mine[p] * Capacity + Slot(p)
    BY <1>3, WriterSlot DEF StoreData, Goto, Unset
  <2>2. Unset' = Unset /\ UNCHANGED <<sent, req_tail_index_, is_set_, req, mine>>
    BY <1>3 DEF Unset, StoreData, Goto, TypeOK
  <2>3. /\ data_'[mine[p]][Slot(p)] = <<p, sent[p]>>
        /\ \A k \in Lists, i \in Slots : ~(k = mine[p] /\ i = Slot(p)) => data_'[k][i] = data_[k][i]
    BY <1>3, <2>1 DEF StoreData, TypeOK
  <2>4. \A k \in Lists, i \in Slots : is_set_[k][i] = 1 => data_'[k][i] = data_[k][i]
    <3>1. is_set_[mine[p]][Slot(p)] # 1
      BY <2>1 DEF SetSlotsOwned
    <3> QED BY <2>3, <3>1
  <2>5. ASSUME NEW q \in Producers, pc'[q] = "set"
        PROVE  data_'[mine[q]][Slot(q)] = <<q, sent[q]>>
    <3>1. CASE q = p
      BY <2>3, <3>1
    <3>2. CASE q # p
      <4>1. pc[q] = "set"
        BY <1>3, <2>5, <3>2 DEF StoreData, Goto, TypeOK
      <4>2. /\ mine[q] \in Lists /\ Slot(q) \in Slots
            /\ req[q] = mine[q] * Capacity + Slot(q)
        BY <4>1, WriterSlot
      <4>3. p \in Uncounted /\ q \in Uncounted
        BY <1>3, <4>1 DEF StoreData, Goto, Uncounted
      <4>4. req[q] # req[p]
        BY <3>2, <4>3 DEF ClaimsDistinct
      <4>5. ~(mine[q] = mine[p] /\ Slot(q) = Slot(p))
        BY <2>1, <4>2, <4>4
      <4> QED BY <2>3, <4>1, <4>2, <4>5 DEF ValuesExact
    <3> QED BY <3>1, <3>2
  <2>6. \A q \in Producers : Slot(q)' = Slot(q)
    BY <2>2 DEF Slot
  <2>7. \A q \in Producers : pc'[q] = "set" => data_'[mine'[q]][Slot(q)'] = <<q, sent'[q]>>
    BY <2>2, <2>5, <2>6
  <2>8. \A k \in Lists, i \in Slots : is_set_'[k][i] = 1 =>
           \E q \in Producers : \E n \in 1 .. sent'[q] : data_'[k][i] = <<q, n>>
    BY <2>2, <2>4 DEF ValuesExact
  <2>9. \A q \in Producers : \A n \in 1 .. sent'[q] : n < sent'[q] \/ q \notin Unset' =>
           \E k \in Lists, i \in Slots : SetValue(k, i, <<q, n>>)'
    BY <2>2, <2>4 DEF ValuesExact, SetValue
  <2>10. \A q \in Producers : sent'[q] <= req_tail_index_' /\ (q \in Unset' => sent'[q] > 0)
    BY <2>2 DEF ValuesExact
  <2> QED BY <2>7, <2>8, <2>9, <2>10, Zenon DEF ValuesExact
<1>4. ASSUME NEW p \in Producers, StoreIsSet(p) PROVE ValuesExact'
  <2>1. /\ mine[p] \in Lists /\ Slot(p) \in Slots /\ pc[p] = "set"
        /\ p \in Unset
    BY <1>4, WriterSlot DEF StoreIsSet, Goto, Unset
  <2>2. Unset' = Unset \ {p} /\ UNCHANGED <<sent, req_tail_index_, data_, req, mine>>
    BY <1>4 DEF Unset, StoreIsSet, Goto, TypeOK
  <2>3. /\ is_set_'[mine[p]][Slot(p)] = 1
        /\ \A k \in Lists, i \in Slots : is_set_[k][i] = 1 => is_set_'[k][i] = 1
        /\ \A k \in Lists, i \in Slots : ~(k = mine[p] /\ i = Slot(p)) => is_set_'[k][i] = is_set_[k][i]
    BY <1>4, <2>1 DEF StoreIsSet, TypeOK
  <2>4. data_[mine[p]][Slot(p)] = <<p, sent[p]>> /\ sent[p] \in 1 .. sent[p]
    <3>1. data_[mine[p]][Slot(p)] = <<p, sent[p]>> /\ sent[p] > 0
      BY <2>1 DEF ValuesExact
    <3> QED BY <1>1, <3>1
  <2>5. ASSUME NEW k \in Lists, NEW i \in Slots, is_set_'[k][i] = 1
        PROVE  \E q \in Producers : \E n \in 1 .. sent[q] : data_[k][i] = <<q, n>>
    <3>1. CASE k = mine[p] /\ i = Slot(p)
      BY <2>4, <3>1
    <3>2. CASE ~(k = mine[p] /\ i = Slot(p))
      BY <2>3, <2>5, <3>2 DEF ValuesExact
    <3> QED BY <3>1, <3>2
  <2>6. ASSUME NEW q \in Producers, NEW n \in 1 .. sent[q], n < sent[q] \/ q \notin Unset'
        PROVE  \E k \in Lists, i \in Slots : SetValue(k, i, <<q, n>>)'
    <3>1. CASE n < sent[q] \/ q \notin Unset
      <4>1. PICK k \in Lists, i \in Slots : is_set_[k][i] = 1 /\ data_[k][i] = <<q, n>>
        BY <3>1 DEF ValuesExact, SetValue
      <4> QED BY <2>2, <2>3, <4>1 DEF SetValue
    <3>2. CASE ~(n < sent[q] \/ q \notin Unset)
      <4>1. q = p
        BY <2>2, <2>6, <3>2
      <4>2. n = sent[p]
        BY <1>1, <3>2, <4>1
      <4> QED BY <2>1, <2>2, <2>3, <2>4, <4>1, <4>2 DEF SetValue
    <3> QED BY <3>1, <3>2
  <2>7. \A q \in Producers : pc'[q] = "set" => data_'[mine'[q]][Slot(q)'] = <<q, sent'[q]>>
    <3>1. \A q \in Producers : pc'[q] = "set" => pc[q] = "set"
      BY <1>4 DEF StoreIsSet, Goto, TypeOK
    <3> QED BY <2>2, <3>1 DEF ValuesExact, Slot
  <2>8. \A q \in Producers : sent'[q] <= req_tail_index_' /\ (q \in Unset' => sent'[q] > 0)
    BY <2>2 DEF ValuesExact
  <2> QED BY <2>2, <2>5, <2>6, <2>7, <2>8, Zenon DEF ValuesExact
<1>5. ASSUME NEW p \in Producers, LoadTail(p) \/ Count(p) \/ LinkNext(p) \/ PublishTail(p)
      PROVE  ValuesExact'
  <2>1. UNCHANGED <<sent, req_tail_index_, is_set_, data_>>
    BY <1>5 DEF LoadTail, Count, LinkNext, PublishTail
  <2>2. Unset' = Unset
    BY <1>5 DEF LoadTail, Count, LinkNext, PublishTail, Goto, Unset, TypeOK
  <2>3. \A q \in Producers : pc'[q] = "set" => pc[q] = "set" /\ mine'[q] = mine[q] /\ req'[q] = req[q]
    BY <1>5 DEF LoadTail, Count, LinkNext, PublishTail, Goto, TypeOK
  <2> QED BY <2>1, <2>2, <2>3, ValuesKept
<1>6. CASE UNCHANGED vars
  <2>1. Unset' = Unset /\ UNCHANGED <<sent, req_tail_index_, is_set_, data_, pc, mine, req>>
    BY <1>6 DEF vars, Unset
  <2> QED BY <2>1, ValuesKept
<1> QED BY <1>2, <1>3, <1>4, <1>5, <1>6 DEF Next, enqueue, Finished

\* After the join the set slots that verify() walks are those of the claims.
LEMMA VerifyFindsClaims ==
  ASSUME IInv, SetInv, Joined
  PROVE  VerifyCount = req_tail_index_
<1> USE DEF IInv, SetInv
<1>1. Unset = {} /\ req_tail_index_ \in Nat /\ tailOfQueue_ \in Nat
  BY MaxEnqueueAssumption DEF Joined, Unset, TypeOK, Lists
<1>2. \A k \in Lists, i \in Slots : k \in Nat /\ i \in Nat /\ i < Capacity /\ k * Capacity \in Nat
  <2>1. \A k \in Lists, i \in Slots : k \in Nat /\ i \in Nat /\ i < Capacity
    BY CapacityAssumption DEF Lists, Slots
  <2> QED BY <2>1, ListStep
<1>3. \A s \in SetSlots : s[1] \in Lists /\ s[2] \in Slots /\ s = <<s[1], s[2]>>
                          /\ is_set_[s[1]][s[2]] = 1
  BY DEF SetSlots, Walked
<1> DEFINE N == 0 .. req_tail_index_ - 1
           f == [s \in SetSlots |-> s[1] * Capacity + s[2]]
<1>4. f \in [SetSlots -> N]
  <2>1. ASSUME NEW s \in SetSlots PROVE s[1] * Capacity + s[2] \in N
    <3>1. s[1] * Capacity + s[2] < req_tail_index_
      BY <1>3 DEF SetSlotsOwned
    <3>2. s[1] * Capacity \in Nat /\ s[2] \in Nat
      BY <1>2, <1>3
    <3> QED BY <1>1, <3>1, <3>2
  <2> QED BY <2>1
<1>5. ASSUME NEW s \in SetSlots, NEW t \in SetSlots, f[s] = f[t] PROVE s = t
  <2>1. /\ s[1] \in Nat /\ s[2] \in Nat /\ s[2] < Capacity /\ s[1] * Capacity \in Nat
        /\ t[1] \in Nat /\ t[2] \in Nat /\ t[2] < Capacity /\ t[1] * Capacity \in Nat
    BY <1>2, <1>3
  <2>2. s[1] * Capacity + s[2] = t[1] * Capacity + t[2]
    BY <1>5
  <2>3. PICK r \in Nat : r = s[1] * Capacity + s[2] /\ r = t[1] * Capacity + t[2]
    BY <2>1, <2>2
  <2>4. InList(r, s[1]) /\ InList(r, t[1])
    BY <2>1, <2>3, ListStep, CapacityAssumption DEF InList
  <2>5. s[1] = t[1]
    BY <2>1, <2>4, ListUnique
  <2>6. s[2] = t[2]
    BY <2>1, <2>2, <2>5
  <2> QED BY <1>3, <2>5, <2>6
<1>6. ASSUME NEW r \in N PROVE \E s \in SetSlots : f[s] = r
  <2>1. r \in Nat /\ r < req_tail_index_
    BY <1>1
  <2>2. PICK k \in Nat : k = r \div Capacity /\ InList(r, k)
    BY <2>1, ListOf
  <2>3. PICK i \in Slots : r = k * Capacity + i
    BY <2>1, <2>2, SlotOf
  <2>4. k \in Lists
    <3>1. k * Capacity <= r /\ k * Capacity \in Nat
      BY <2>2, ListStep DEF InList
    <3>2. k <= k * Capacity
      BY <2>2, CapacityAssumption
    <3>3. req_tail_index_ <= MaxEnqueue
      BY DEF TypeOK
    <3> QED BY <1>1, <2>1, <2>2, <3>1, <3>2, <3>3, MaxEnqueueAssumption DEF Lists
  <2>5. is_set_[k][i] = 1
    BY <1>1, <2>1, <2>3, <2>4 DEF ClaimsSet
  <2>6. k \in Walked
    <3>1. k <= tailOfQueue_
      BY <2>4, <2>5 DEF SetReached
    <3>2. ASSUME NEW j \in Lists, j < k PROVE next_[j]
      <4>1. j < tailOfQueue_
        BY <1>1, <2>2, <3>1, <3>2 DEF Lists
      <4> QED BY <4>1 DEF SetReached
    <3> QED BY <2>4, <3>2 DEF Walked
  <2>7. <<k, i>> \in SetSlots /\ f[<<k, i>>] = r
    BY <2>3, <2>5, <2>6 DEF SetSlots
  <2> QED BY <2>7
<1> HIDE DEF f
<1>7. f \in Bijection(SetSlots, N)
  BY <1>4, <1>5, <1>6 DEF Bijection, Injection, Surjection, IsInjective
<1>8. IsFiniteSet(N) /\ Cardinality(N) = req_tail_index_
  BY <1>1, FS_Interval
<1>9. Cardinality(SetSlots) = Cardinality(N)
  <2>1. ExistsBijection(SetSlots, N)
    BY <1>7 DEF ExistsBijection
  <2>2. IsFiniteSet(SetSlots)
    BY <1>4, <1>5, <1>8, FS_Injection DEF Injection, IsInjective, ExistsInjection
  <2> QED BY <2>1, <2>2, <1>8, FS_Bijection
<1> QED BY <1>8, <1>9 DEF VerifyCount

\* ... and hold the values that were enqueued.
LEMMA VerifyFindsValues ==
  ASSUME IInv, SetInv, Joined
  PROVE  VerifySet = Enqueued
<1> USE DEF IInv, SetInv
<1>1. Unset = {} /\ tailOfQueue_ \in Nat /\ req_tail_index_ \in Nat /\ req_tail_index_ <= MaxEnqueue
  BY MaxEnqueueAssumption DEF Joined, Unset, TypeOK, Lists
<1>2. ASSUME NEW v \in VerifySet PROVE v \in Enqueued
  <2>1. PICK s \in SetSlots : v = data_[s[1]][s[2]]
    BY DEF VerifySet
  <2>2. s[1] \in Lists /\ s[2] \in Slots /\ is_set_[s[1]][s[2]] = 1
    BY DEF SetSlots, Walked
  <2>3. PICK p \in Producers : \E n \in 1 .. sent[p] : v = <<p, n>>
    BY <2>1, <2>2 DEF ValuesExact
  <2>4. PICK n \in 1 .. sent[p] : v = <<p, n>>
    BY <2>3
  <2>5. sent[p] \in Nat /\ sent[p] <= req_tail_index_
    BY DEF TypeOK, ValuesExact
  <2>6. n \in 1 .. MaxEnqueue /\ n <= sent[p]
    BY <1>1, <2>5, MaxEnqueueAssumption
  <2> QED BY <2>4, <2>6 DEF Enqueued
<1>3. ASSUME NEW v \in Enqueued PROVE v \in VerifySet
  <2>1. PICK p \in Producers, n \in 1 .. MaxEnqueue : v = <<p, n>> /\ n <= sent[p]
    BY DEF Enqueued
  <2>2. n \in 1 .. sent[p]
    BY <2>1, MaxEnqueueAssumption DEF TypeOK
  <2>3. PICK k \in Lists, i \in Slots : is_set_[k][i] = 1 /\ data_[k][i] = v
    BY <1>1, <2>1, <2>2 DEF ValuesExact, SetValue
  <2>4. k \in Walked
    <3>1. k <= tailOfQueue_
      BY <2>3 DEF SetReached
    <3>2. ASSUME NEW j \in Lists, j < k PROVE next_[j]
      <4>1. j < tailOfQueue_
        BY <1>1, <3>1, <3>2 DEF Lists
      <4> QED BY <4>1 DEF SetReached
    <3> QED BY <3>2 DEF Walked
  <2>5. <<k, i>> \in SetSlots
    BY <2>3, <2>4 DEF SetSlots
  <2> QED BY <2>3, <2>5 DEF VerifySet
<1> QED BY <1>2, <1>3

\* After every producer has been joined verify() finds as many set slots as
\* there were calls of enqueue, and in them the values of those calls.
THEOREM VerifyAlwaysSucceeds == Spec => []VerifySucceeds
<1>1. IInv /\ SetInv /\ [Next]_vars => SetInv'
  BY NextSetSlotsOwned, NextClaimsSet, NextSetReached, NextValuesExact DEF SetInv
<1>2. IInv /\ SetInv => VerifySucceeds
  BY VerifyFindsClaims, VerifyFindsValues DEF VerifySucceeds
<1> QED BY <1>1, <1>2, Invariance, InitSetInv, PTL DEF Spec
=============================================================================
