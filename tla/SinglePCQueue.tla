--------------------------- MODULE SinglePCQueue ---------------------------
(***************************************************************************)
(* The ring of lock_free_queue.cc between one enqueuing and one dequeuing  *)
(* thread.  size_ is the only variable both use besides the slots, head_   *)
(* belongs to the consumer and tail_ to the producer; a step is one access *)
(* to size_ or to a slot.                                                  *)
(*                                                                         *)
(* TryDequeue has a reference parameter item, and inside its block a local *)
(* of the same name.  The element goes to the local and ends with it; what *)
(* the parameter refers to, the caller's t, is never assigned.             *)
(***************************************************************************)
EXTENDS Integers, Sequences

CONSTANTS Item, Limit      \* the elements, and limit_

None == << >>              \* the Item zero a slot holds when it is empty

ASSUME LimitAssumption == Limit \in Nat \ {0}
ASSUME ItemAssumption == None \notin Item

VARIABLES
  queue_, size_, head_, tail_,
  producer, value,   \* the thread in TryEnqueue: its next step and its argument
  consumer, local,   \* the thread in TryDequeue: its next step and the local item
  item               \* the caller's t, to which the parameter item refers

vars == <<queue_, size_, head_, tail_, producer, value, consumer, local, item>>

Slots == 0 .. Limit - 1

Init ==
  /\ queue_ = [i \in Slots |-> None]
  /\ size_ = 0 /\ head_ = 0 /\ tail_ = 0
  /\ producer = "idle" /\ consumer = "idle"
  /\ value = None /\ local = None /\ item = None

ProducerSide == <<tail_, producer, value>>
ConsumerSide == <<head_, consumer, local, item>>

FullLate == size_ > Limit                                    \* mutant
Full == size_ >= Limit

\* the size test; a call that returns false changes nothing
TryEnqueue ==
  /\ producer = "idle"
  /\ ~Full
  /\ producer' = "exchange"
  /\ value' \in Item
  /\ UNCHANGED <<queue_, size_, tail_, ConsumerSide>>

WrapsEarly == IF tail_ >= Limit - 2 THEN 0 ELSE tail_ + 1    \* mutant
NextTail == IF tail_ = Limit - 1 THEN 0 ELSE tail_ + 1

StoreSlot ==
  /\ producer = "exchange"
  /\ queue_' = [queue_ EXCEPT ![tail_] = value]
  /\ tail_' = NextTail
  /\ producer' = "count"
  /\ value' = None
  /\ UNCHANGED <<size_, ConsumerSide>>

IncrementSize ==
  /\ producer = "count"
  /\ size_' = size_ + 1
  /\ producer' = "idle"
  /\ UNCHANGED <<queue_, tail_, value, ConsumerSide>>

\* the size test; a call that returns false changes nothing.  The caller's t is
\* not initialised: it holds anything.
TryDequeue ==
  /\ consumer = "idle"
  /\ size_ > 0
  /\ consumer' = "exchange"
  /\ item' \in Item \cup {None}
  /\ UNCHANGED <<queue_, size_, head_, local, ProducerSide>>

NextHead == IF head_ = Limit - 1 THEN 0 ELSE head_ + 1

\* the exchange fills the local item, which shadows the parameter
TakeSlot ==
  /\ consumer = "exchange"
  /\ local' = queue_[head_]
  /\ queue_' = [queue_ EXCEPT ![head_] = None]
  /\ head_' = NextHead
  /\ consumer' = "count"
  /\ UNCHANGED <<size_, item, ProducerSide>>

\* and return true: the local's scope ends
DecrementSize ==
  /\ consumer = "count"
  /\ size_' = size_ - 1
  /\ consumer' = "idle"
  /\ local' = None
  /\ UNCHANGED <<queue_, head_, item, ProducerSide>>

Enqueuer == TryEnqueue \/ StoreSlot \/ IncrementSize
Dequeuer == TryDequeue \/ TakeSlot \/ DecrementSize

Next == Enqueuer \/ Dequeuer

\* Both threads call for ever and are scheduled by the kernel; nothing forces
\* the producer to start a call.
Fairness ==
  /\ WF_vars(StoreSlot \/ IncrementSize)
  /\ WF_vars(Dequeuer)

Spec == Init /\ [][Next]_vars /\ Fairness

----------------------------------------------------------------------------
\* Every variable keeps its type: head_ and tail_ stay inside the ring although
\* both advance without a test, and size_, which both threads change, stays in
\* 0..limit_.
TypeOK ==
  /\ queue_ \in [Slots -> Item \cup {None}]
  /\ size_ \in 0 .. Limit /\ head_ \in Slots /\ tail_ \in Slots
  /\ producer \in {"idle", "exchange", "count"}
  /\ consumer \in {"idle", "exchange", "count"}
  /\ value \in Item \cup {None} /\ local \in Item \cup {None} /\ item \in Item \cup {None}
  /\ producer = "exchange" => value \in Item

\* The size test still holds when it is used: TryEnqueue stores into an empty
\* slot and TryDequeue exchanges a full one, whatever the other thread did
\* since the load of size_.
ExchangeIsSafe ==
  /\ producer = "exchange" => queue_[tail_] = None
  /\ consumer = "exchange" => queue_[head_] \in Item

\* elements stored and not removed; size_ lags behind by the calls in progress
Stored ==
  size_ + (IF producer = "count" THEN 1 ELSE 0) - (IF consumer = "count" THEN 1 ELSE 0)

\* index of the i-th slot from the head
FromHead(i) == IF head_ + i < Limit THEN head_ + i ELSE head_ + i - Limit

\* The slots in use are the Stored ones from the head on, and tail_ follows them.
RingShape ==
  /\ Stored \in 0 .. Limit
  /\ \A i \in Slots : queue_[FromHead(i)] \in Item <=> i < Stored
  /\ tail_ = IF Stored = Limit THEN head_ ELSE FromHead(Stored)

Contents == [i \in 1 .. Stored |-> queue_[FromHead(i - 1)]]
Fifo == INSTANCE BoundedFifo WITH waiting <- Contents

\* The ring implements the bounded FIFO, an exchange being the moment an
\* element enters or is removed: each element that TryEnqueue accepted is
\* removed once, after those accepted before it, and none is overwritten.  The
\* contract does not say that the caller of TryDequeue gets it.
RingContract == Fifo!Spec

\* What the driver's popped.emplace_back(t) takes for granted: a TryDequeue that
\* returns true has put the element it removed into its caller's variable.
DequeueDelivers == [][DecrementSize => item = local]_vars
=============================================================================
