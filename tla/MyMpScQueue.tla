---------------------------- MODULE MyMpScQueue ----------------------------
(***************************************************************************)
(* The unbounded multi-producer queue of mpsc_benchmark/MyMpScQueue.h:     *)
(* a linked list of fixed-size ItemLists.  A producer claims a request     *)
(* index with one fetch_add, spins until the tail list is the one that     *)
(* holds its index, fills the slot and counts it; the producer whose count *)
(* completes the list allocates the next one.  The code has no dequeue:    *)
(* verify() walks the lists once every producer has been joined.           *)
(*                                                                         *)
(* One step is one access to shared memory.                                *)
(***************************************************************************)
EXTENDS Naturals, FiniteSets

CONSTANTS
  Producers,     \* threads that call enqueue
  Capacity,      \* ItemListCapacity
  MaxEnqueue,    \* bound on the number of enqueue calls
  NoData         \* contents of a slot cleared by the memset

ASSUME ProducersAssumption == IsFiniteSet(Producers)
ASSUME CapacityAssumption == Capacity \in Nat \ {0}
ASSUME MaxEnqueueAssumption == MaxEnqueue \in Nat
ASSUME NoDataAssumption == NoData \notin Producers \X Nat

VARIABLES
  req_tail_index_,   \* next request index
  tailOfQueue_,      \* index_ of the tail list
  next_,             \* next_[k]: list k has been linked to list k + 1
  enqueued_count_,   \* enqueued_count_[k]: slots of list k counted so far
  is_set_, data_,    \* the slots, per list
  pc,                \* next access of each producer
  req,               \* req_tail_index local of enqueue
  mine,              \* tailOfQueue local of enqueue
  sent               \* values each producer has passed to enqueue so far

vars == <<req_tail_index_, tailOfQueue_, next_, enqueued_count_, is_set_,
          data_, pc, req, mine, sent>>

Lists == 0 .. MaxEnqueue     \* at most one list per request is ever needed
Slots == 0 .. Capacity - 1
Value == Producers \X Nat    \* the n-th value of a producer; test.cc enqueues distinct ones

Init ==
  /\ req_tail_index_ = 0
  /\ tailOfQueue_ = 0
  /\ next_ = [k \in Lists |-> FALSE]
  /\ enqueued_count_ = [k \in Lists |-> 0]
  /\ is_set_ = [k \in Lists |-> [i \in Slots |-> 0]]
  /\ data_ = [k \in Lists |-> [i \in Slots |-> NoData]]
  /\ pc = [p \in Producers |-> "idle"]
  /\ req = [p \in Producers |-> 0]
  /\ mine = [p \in Producers |-> 0]
  /\ sent = [p \in Producers |-> 0]

Goto(p, from, to) ==
  /\ pc[p] = from
  /\ pc' = [pc EXCEPT ![p] = to]

Slot(p) == req[p] % Capacity

\* fetch_add on req_tail_index_ at the start of enqueue
Claim(p) ==
  /\ req_tail_index_ < MaxEnqueue
  /\ Goto(p, "idle", "load")
  /\ req' = [req EXCEPT ![p] = req_tail_index_]
  /\ req_tail_index_' = req_tail_index_ + 1
  /\ sent' = [sent EXCEPT ![p] = @ + 1]
  /\ UNCHANGED <<tailOfQueue_, next_, enqueued_count_, is_set_, data_, mine>>

OutsideTailByOne(r, k) == r > (k + 1) * Capacity     \* mutant: off by one

\* the index lies outside a tail list: spin
OutsideTail(r, k) == r >= (k + 1) * Capacity

\* load of tailOfQueue_; the spin on a list that does not hold the index yet
\* re-reads it and changes nothing, so only the successful load is a step
LoadTail(p) ==
  /\ ~OutsideTail(req[p], tailOfQueue_)
  /\ Goto(p, "load", "data")
  /\ mine' = [mine EXCEPT ![p] = tailOfQueue_]
  /\ UNCHANGED <<req_tail_index_, tailOfQueue_, next_, enqueued_count_,
                 is_set_, data_, req, sent>>

StoreData(p) ==
  /\ Goto(p, "data", "set")
  /\ data_' = [data_ EXCEPT ![mine[p]][Slot(p)] = <<p, sent[p]>>]
  /\ UNCHANGED <<req_tail_index_, tailOfQueue_, next_, enqueued_count_,
                 is_set_, req, mine, sent>>

StoreIsSet(p) ==
  /\ Goto(p, "set", "count")
  /\ is_set_' = [is_set_ EXCEPT ![mine[p]][Slot(p)] = 1]
  /\ UNCHANGED <<req_tail_index_, tailOfQueue_, next_, enqueued_count_,
                 data_, req, mine, sent>>

FillsEarly(count) == count = Capacity - 2            \* mutants: off by one
FillsLate(count) == count = Capacity

\* the fetch_add that returned count completed the list
FillsList(count) == count = Capacity - 1

Count(p) ==
  /\ Goto(p, "count", IF FillsList(enqueued_count_[mine[p]]) THEN "link" ELSE "idle")
  /\ enqueued_count_' = [enqueued_count_ EXCEPT ![mine[p]] = @ + 1]
  /\ UNCHANGED <<req_tail_index_, tailOfQueue_, next_, is_set_, data_, req,
                 mine, sent>>

Unlinked(k) == next_                                 \* mutant: next_ is not stored
Linked(k) == [next_ EXCEPT ![k] = TRUE]

\* new ItemList(index_ + 1), all zero, stored in next_
LinkNext(p) ==
  /\ Goto(p, "link", "publish")
  /\ next_' = Linked(mine[p])
  /\ UNCHANGED <<req_tail_index_, tailOfQueue_, enqueued_count_, is_set_,
                 data_, req, mine, sent>>

PublishTail(p) ==
  /\ Goto(p, "publish", "idle")
  /\ tailOfQueue_' = mine[p] + 1
  /\ UNCHANGED <<req_tail_index_, next_, enqueued_count_, is_set_, data_,
                 req, mine, sent>>

enqueue(p) ==
  \/ Claim(p) \/ LoadTail(p) \/ StoreData(p) \/ StoreIsSet(p) \/ Count(p)
  \/ LinkNext(p) \/ PublishTail(p)

\* every thread has been joined
Joined == \A p \in Producers : pc[p] = "idle"

\* test.cc reached verify(): the modelled calls are over
Finished ==
  /\ Joined
  /\ req_tail_index_ = MaxEnqueue
  /\ UNCHANGED vars

Next == (\E p \in Producers : enqueue(p)) \/ Finished

\* Producers are preemptively scheduled threads: none is stopped forever.
Spec == Init /\ [][Next]_vars /\ \A p \in Producers : WF_vars(enqueue(p))

----------------------------------------------------------------------------
(* verify(): what the walk from headOfQueue_ over next_ finds.             *)

Walked == {k \in Lists : \A j \in Lists : j < k => next_[j]}
SetSlots == {s \in Walked \X Slots : is_set_[s[1]][s[2]] = 1}
VerifyCount == Cardinality(SetSlots)
VerifySet == {data_[s[1]][s[2]] : s \in SetSlots}

Enqueued == {v \in Producers \X (1 .. MaxEnqueue) : v[2] <= sent[v[1]]}

----------------------------------------------------------------------------
\* Every variable keeps its type: in particular no list counts more elements than
\* it has slots, and the tail stays within the lists that MaxEnqueue claims need.
TypeOK ==
  /\ req_tail_index_ \in 0 .. MaxEnqueue
  /\ tailOfQueue_ \in Lists
  /\ next_ \in [Lists -> BOOLEAN]
  /\ enqueued_count_ \in [Lists -> 0 .. Capacity]
  /\ is_set_ \in [Lists -> [Slots -> {0, 1}]]
  /\ data_ \in [Lists -> [Slots -> Value \cup {NoData}]]
  /\ pc \in [Producers -> {"idle", "load", "data", "set", "count", "link", "publish"}]
  /\ req \in [Producers -> Nat]
  /\ mine \in [Producers -> Lists]
  /\ sent \in [Producers -> Nat]

\* request index r belongs to list k
InList(r, k) == k * Capacity <= r /\ r < (k + 1) * Capacity

\* producers whose claim is not counted yet, or whose slot is not set yet
Uncounted == {p \in Producers : pc[p] \in {"load", "data", "set", "count"}}
Unset == {p \in Producers : pc[p] \in {"load", "data", "set"}}

\* the claims on list k that have been counted
Counted(k) ==
  {r \in 0 .. req_tail_index_ - 1 : InList(r, k) /\ \A p \in Uncounted : req[p] # r}

\* The list a producer writes into is the one its request index belongs to:
\* the tail cannot move past a list while one of its claims is unfinished
\* (the code only tests the upper end of the list, line 27).
RightList ==
  \A p \in Producers :
    pc[p] \in {"data", "set", "count"} => InList(req[p], mine[p])

\* enqueued_count_ is exact: it counts each finished claim of its own list
\* once, and every list the tail has left is complete, so the producer that
\* reads Capacity - 1 at line 40 is the only one that grows the queue.
CountIsExact ==
  /\ \A k \in Lists : enqueued_count_[k] = Cardinality(Counted(k))
  /\ \A k \in Lists : k < tailOfQueue_ => enqueued_count_[k] = Capacity
  /\ \A p, q \in Producers :
       pc[p] \in {"link", "publish"} /\ pc[q] \in {"link", "publish"} => p = q

\* A slot whose is_set_ flag is up is never written again, so an enqueued
\* value cannot be overwritten by a later request.
SetSlotsFrozen ==
  [][\A k \in Lists, i \in Slots :
       is_set_[k][i] = 1 => is_set_'[k][i] = 1 /\ data_'[k][i] = data_[k][i]]_vars

\* What verify() reports after the join (test.cc line 45): as many set slots
\* as enqueue calls, and every enqueued value among them.
VerifySucceeds ==
  Joined => VerifyCount = req_tail_index_ /\ VerifySet = Enqueued

\* The spin of line 27 ends and enqueue returns: the producer that must grow
\* the list is never itself waiting for it.
EnqueueReturns == \A p \in Producers : pc[p] # "idle" ~> pc[p] = "idle"
=============================================================================
