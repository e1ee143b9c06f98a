----------------------------- MODULE MpScQueue -----------------------------
(***************************************************************************)
(* The wait-free multi-producer single-consumer queue of                   *)
(* io_uring/MpScQueue.h: a linked list of buffers of NODE_SIZE slots.  A   *)
(* producer claims a location with one fetch_add on gTail and finds or     *)
(* allocates the buffer that holds it.  The consumer takes the element at  *)
(* the head; while the head's producer is still storing it looks further   *)
(* ahead, rescans for anything earlier, and unlinks ("folds") buffers it   *)
(* has emptied.                                                            *)
(*                                                                         *)
(* One step is one access to memory shared by two threads, with the thread *)
(* local work that follows it.  Buffers are named by positionInQueue; 0 is *)
(* the null pointer.  The model halts at the first access to a buffer that *)
(* is null or already freed: what happens after that is undefined.         *)
(* mpsc_benchmark/MpScQueue.h is an earlier copy of the same code.         *)
(***************************************************************************)
EXTENDS Integers, Sequences, FiniteSets

CONSTANTS
  Producers,   \* threads that call enqueue
  B,           \* NODE_SIZE, slots per buffer
  Quota,       \* Quota[p]: bound on the enqueue calls of p
  UIntMod      \* 2^32: range of the unsigned ints location and prevSize

ASSUME BAssumption == B \in Nat \ {0}
ASSUME UIntModAssumption == UIntMod \in Nat \ {0}
ASSUME QuotaAssumption == IsFiniteSet(Producers) /\ Quota \in [Producers -> Nat]

VARIABLES
  status,      \* status[k]: "absent", "live" or "freed"
  next, prev, head,
  is_set,      \* is_set[k][i]: 0 empty, 1 set, 2 handled
  data,        \* data[k][i]
  tailOfQueue, gTail, headOfQueue,
  ppc, w,      \* each producer's next access and its locals
  cpc, c,      \* the consumer's next access and its locals
  sent,        \* sent[p]: enqueue calls started by p
  delivered,   \* delivered[v]: how often dequeue has returned v
  before,      \* before[v]: values whose enqueue had returned when v's started
  waiting,     \* values enqueued and not delivered when dequeue was called
  overlap,     \* dequeue has run while one of several producers was in a call
  fault        \* a null or freed buffer was accessed

mem == <<status, next, prev, head, is_set, data>>
vars == <<mem, tailOfQueue, gTail, headOfQueue, ppc, w, cpc, c, sent,
          delivered, before, waiting, overlap, fault>>

NULL == 0
NoData == << >>                    \* a default constructed T
Value == UNION {{p} \X (1 .. Quota[p]) : p \in Producers}
Total == Cardinality(Value)
Buffers == 1 .. Total \div B + 3   \* positions the bounded calls can allocate
Slots == 0 .. B - 1

\* unsigned int arithmetic
UInt(x) == x % UIntMod
Minus(x, y) == (x + UIntMod - (y % UIntMod)) % UIntMod
PrevSize(k) == UInt(B * (k - 1))

\* locals of a producer, and of the consumer, outside a call; ticket is the
\* untruncated location and only the properties look at it
NoCall == [ticket |-> 0, loc |-> 0, tempTail |-> NULL, prevSize |-> 0,
           go_back |-> FALSE, nxt |-> NULL]
NoDequeue == [prevSize |-> 0, buf |-> NULL, tempHead |-> 0, tn |-> 0, moved |-> FALSE,
              handled |-> TRUE, scanBuf |-> NULL, scanHead |-> 0]

Init ==
  /\ status = [k \in Buffers |-> IF k = 1 THEN "live" ELSE "absent"]
  /\ next = [k \in Buffers |-> NULL]
  /\ prev = [k \in Buffers |-> NULL]
  /\ head = [k \in Buffers |-> 0]
  /\ is_set = [k \in Buffers |-> [i \in Slots |-> 0]]
  /\ data = [k \in Buffers |-> [i \in Slots |-> NoData]]
  /\ tailOfQueue = 1 /\ headOfQueue = 1 /\ gTail = 0
  /\ ppc = [p \in Producers |-> "idle"]
  /\ w = [p \in Producers |-> NoCall]
  /\ cpc = "idle" /\ c = NoDequeue
  /\ sent = [p \in Producers |-> 0]
  /\ delivered = [v \in Value |-> 0]
  /\ before = [v \in Value |-> {}]
  /\ waiting = {}
  /\ overlap = FALSE
  /\ fault = FALSE

Live(k) == k # NULL /\ status[k] = "live"

\* values whose enqueue call has returned
Returned == {v \in Value : \/ v[2] < sent[v[1]]
                           \/ v[2] = sent[v[1]] /\ ppc[v[1]] = "idle"}
Delivered == {v \in Value : delivered[v] > 0}

----------------------------------------------------------------------------
(* enqueue                                                                 *)

Goto(p, from, to) ==
  /\ ppc[p] = from
  /\ ppc' = [ppc EXCEPT ![p] = to]

Consumer == <<headOfQueue, head, cpc, c, delivered, waiting>>
Calls == <<gTail, sent, before>>

\* gTail.fetch_add; location keeps its low 32 bits
FetchAdd(p) ==
  /\ sent[p] < Quota[p]
  /\ Goto(p, "idle", "tail")
  /\ gTail' = gTail + 1
  /\ w' = [w EXCEPT ![p] = [NoCall EXCEPT !.ticket = gTail, !.loc = UInt(gTail)]]
  /\ sent' = [sent EXCEPT ![p] = @ + 1]
  /\ before' = [before EXCEPT ![<<p, sent[p] + 1>>] = Returned]
  /\ UNCHANGED <<mem, tailOfQueue, Consumer>>

\* where a producer goes when its buffer starts at location ps: back, into
\* the buffer, or on to the next one
Route(loc, ps) ==
  IF loc < ps THEN "walk" ELSE IF loc < UInt(B + ps) THEN "data" ELSE "next"

LoadTail(p) ==
  /\ Live(tailOfQueue)
  /\ w' = [w EXCEPT ![p].tempTail = tailOfQueue, ![p].prevSize = PrevSize(tailOfQueue)]
  /\ Goto(p, "tail", Route(w[p].loc, PrevSize(tailOfQueue)))
  /\ UNCHANGED <<mem, tailOfQueue, Calls, Consumer>>

StayPut(k) == k     \* mutant: the pointer is not moved
StepBack(k) == prev[k]

\* the location is back in the queue: one round of the inner loop
WalkBack(p) ==
  LET ps == Minus(w[p].prevSize, B) IN
  /\ Live(w[p].tempTail)
  /\ Goto(p, "walk", Route(w[p].loc, ps))
  /\ w' = [w EXCEPT ![p].tempTail = StepBack(@), ![p].prevSize = ps, ![p].go_back = TRUE]
  /\ UNCHANGED <<mem, tailOfQueue, Calls, Consumer>>

Index(p) == w[p].loc - w[p].prevSize

StoreData(p) ==
  /\ Live(w[p].tempTail)
  /\ Goto(p, "data", "flag")
  /\ data' = [data EXCEPT ![w[p].tempTail][Index(p)] = <<p, sent[p]>>]
  /\ UNCHANGED <<status, next, prev, is_set, tailOfQueue, w, Calls, Consumer>>

\* the producer of the second slot allocates the next buffer ahead of need
Allocates(p) == Index(p) = 1 /\ ~w[p].go_back

\* is_set.store(1): the element is visible from here on
StoreFlag(p) ==
  /\ Live(w[p].tempTail)
  /\ Goto(p, "flag", IF Allocates(p) THEN "grow" ELSE "idle")
  /\ is_set' = [is_set EXCEPT ![w[p].tempTail][Index(p)] = 1]
  /\ w' = IF Allocates(p) THEN w ELSE [w EXCEPT ![p] = NoCall]
  /\ UNCHANGED <<status, next, prev, data, tailOfQueue, Calls, Consumer>>

\* compare_exchange of k's next from null to a new buffer; a loser frees its own
LinkNew(k) ==
  IF next[k] = NULL
    THEN /\ next' = [next EXCEPT ![k] = k + 1]
         /\ prev' = [prev EXCEPT ![k + 1] = k]
         /\ status' = [status EXCEPT ![k + 1] = "live"]
    ELSE UNCHANGED <<next, prev, status>>

Grow(p) ==
  /\ Live(w[p].tempTail)
  /\ Goto(p, "grow", "idle")
  /\ LinkNew(w[p].tempTail)
  /\ w' = [w EXCEPT ![p] = NoCall]
  /\ UNCHANGED <<is_set, data, tailOfQueue, Calls, Consumer>>

NoNext(k) == next[k] = NULL

LoadNext(p) ==
  /\ Live(w[p].tempTail)
  /\ Goto(p, "next", IF NoNext(w[p].tempTail) THEN "alloc" ELSE "castail")
  /\ w' = [w EXCEPT ![p].nxt = next[w[p].tempTail]]
  /\ UNCHANGED <<mem, tailOfQueue, Calls, Consumer>>

Alloc(p) ==
  /\ Live(w[p].tempTail)
  /\ Goto(p, "alloc", IF next[w[p].tempTail] = NULL THEN "settail" ELSE "tail")
  /\ LinkNew(w[p].tempTail)
  /\ UNCHANGED <<is_set, data, tailOfQueue, w, Calls, Consumer>>

\* the winner of the allocation stores its buffer whatever the tail is by now
SetTail(p) ==
  /\ Goto(p, "settail", "tail")
  /\ tailOfQueue' = w[p].tempTail + 1
  /\ UNCHANGED <<mem, w, Calls, Consumer>>

CasTail(p) ==
  /\ Goto(p, "castail", "tail")
  /\ tailOfQueue' = IF tailOfQueue = w[p].tempTail THEN w[p].nxt ELSE tailOfQueue
  /\ UNCHANGED <<mem, w, Calls, Consumer>>

enqueueStep(p) ==
  \/ LoadTail(p) \/ WalkBack(p) \/ StoreData(p) \/ StoreFlag(p) \/ Grow(p)
  \/ LoadNext(p) \/ Alloc(p) \/ SetTail(p) \/ CasTail(p)

----------------------------------------------------------------------------
(* dequeue                                                                 *)

Producer == <<ppc, w, gTail, sent, before, tailOfQueue, prev, data>>
Buffer == <<status, next, is_set>>     \* what only folding and taking change
H == headOfQueue

\* is_set of n, the element at the head
nSet == is_set[H][head[H]]

Return ==
  /\ cpc' = "idle"
  /\ c' = NoDequeue
  /\ waiting' = {}

ReturnFalse ==
  /\ Return
  /\ UNCHANGED <<Producer, status, next, is_set, head, headOfQueue, delivered>>

Deliver(v) == delivered' = [delivered EXCEPT ![v] = @ + 1]

\* the element at the head is set: head++ and take it
TakeHead ==
  /\ Return
  /\ head' = [head EXCEPT ![H] = @ + 1]
  /\ Deliver(data[H][head[H]])
  /\ UNCHANGED <<Producer, Buffer, headOfQueue>>

At(from) == cpc = from

\* a step that only moves the consumer's locals
Local(to, locals) ==
  /\ cpc' = to
  /\ c' = locals
  /\ UNCHANGED <<Producer, Buffer, head, headOfQueue, delivered, waiting>>

\* start of the call, and of each round of the outer loop: prevSize of the tail
LoadPrevSize ==
  /\ cpc \in {"idle", "again"}
  /\ Live(tailOfQueue)
  /\ cpc' = "tail"
  /\ c' = [NoDequeue EXCEPT !.prevSize = PrevSize(tailOfQueue)]
  /\ waiting' = IF cpc = "idle" THEN Returned \ Delivered ELSE waiting
  /\ UNCHANGED <<Producer, Buffer, head, headOfQueue, delivered>>

CompareTail ==
  /\ At("tail")
  /\ Local(IF H = tailOfQueue THEN "gtail" ELSE "elem", c)

EmptyAtTail == TRUE            \* mutant: gTail is not compared
\* head == gTail - prevSize, a 64 bit subtraction
Empty == head[H] + c.prevSize = gTail

CompareGTail ==
  /\ At("gtail")
  /\ IF Empty THEN ReturnFalse ELSE Local("elem", c)

StayOnHandled == head          \* mutant: continue without head++
SkipHandled == [head EXCEPT ![H] = @ + 1]

\* first look at the element at the head; a handled one is skipped
LookAtHead ==
  /\ At("elem")
  /\ head[H] < B
  /\ IF nSet = 2
       THEN /\ head' = SkipHandled
            /\ cpc' = "again" /\ c' = NoDequeue
            /\ UNCHANGED <<Producer, Buffer, headOfQueue, delivered, waiting>>
       ELSE Local("loop", [c EXCEPT !.buf = H, !.tempHead = head[H]])

\* condition of the inner loop
LoopHead ==
  /\ At("loop")
  /\ IF nSet = 0
       THEN Local(IF c.tempHead < B THEN "try" ELSE "edge", c)
       ELSE TakeHead

\* the look ahead: first load of tn
TryAhead ==
  LET seen == is_set[c.buf][c.tempHead]
      to == CASE seen = 1 -> "both" [] seen = 0 -> "second" [] OTHER -> "edge"
  IN  /\ At("try")
      /\ Local(to, [c EXCEPT !.tn = c.tempHead, !.tempHead = @ + 1])

NoScan == "scanned"            \* mutant: tn is taken without a scan
ScanFirst == "scan"

\* tn is set: is the head still in its insert process?
HeadStillEmpty ==
  /\ At("both")
  /\ IF nSet = 0
       THEN Local(ScanFirst, [c EXCEPT !.scanBuf = H, !.scanHead = head[H]])
       ELSE Local("edge", c)

\* second load of tn, which decides whether the buffer is all handled
SecondLook ==
  /\ At("second")
  /\ Local("edge", [c EXCEPT !.handled = @ /\ is_set[c.buf][c.tn] # 0])

\* condition of the scan loop; tempHead - 1 is unsigned, so 0 - 1 is no limit
ScanCond ==
  LET below == c.tempHead = 0 \/ c.scanHead < c.tempHead - 1
  IN  /\ At("scan")
      /\ Local(IF c.scanBuf # c.buf \/ (below /\ nSet = 0) THEN "scanN" ELSE "scanned", c)

\* the scan crosses into the next buffer; the loop's ++ also follows continue
ScanCross ==
  LET k == next[c.scanBuf]
  IN  /\ At("scanN")
      /\ c.scanHead >= B
      /\ k # NULL
      /\ Local("scan", [c EXCEPT !.scanBuf = k, !.scanHead = head[k] + 1])

\* an earlier element that is set becomes the one to evict, and the scan restarts
ScanPasses == [c EXCEPT !.scanHead = @ + 1]      \* mutant: it is passed over
ScanRestart ==
  [c EXCEPT !.buf = c.scanBuf, !.tempHead = c.scanHead, !.tn = c.scanHead,
            !.scanBuf = H, !.scanHead = head[H] + 1]

ScanSlot ==
  /\ At("scanN")
  /\ c.scanHead < B
  /\ Local("scan", IF is_set[c.scanBuf][c.scanHead] = 1
                     THEN ScanRestart ELSE [c EXCEPT !.scanHead = @ + 1])

\* an element taken out of order is marked, and a look ahead in another buffer
\* moves that buffer's head over it
MarkHandled(k, i) == [is_set EXCEPT ![k][i] = 2]
AdvancesHead(k) == c.moved /\ c.tempHead = head[k] + 1

\* end of the scan: the head if it is set by now, else tn, out of order
ScanEnd ==
  LET k == c.buf
  IN  /\ At("scanned")
      /\ IF nSet = 1
           THEN TakeHead
           ELSE /\ Return
                /\ Deliver(data[k][c.tn])
                /\ is_set' = MarkHandled(k, c.tn)
                /\ head' = IF AdvancesHead(k) THEN [head EXCEPT ![k] = @ + 1] ELSE head
                /\ UNCHANGED <<Producer, status, next, headOfQueue>>

\* the look ahead reached the end of a buffer: fold it or step past it
Edge ==
  /\ At("edge")
  /\ CASE c.tempHead < B -> Local("loop", c)
       [] c.tempHead >= B /\ c.handled /\ c.moved -> Local("fold", c)
       [] OTHER -> Local("ahead", c)

MoveTo(k) ==
  [c EXCEPT !.buf = k, !.tempHead = head[k], !.moved = TRUE, !.handled = TRUE]

StepAhead ==
  LET k == next[c.buf]
  IN  /\ At("ahead")
      /\ IF k = NULL THEN ReturnFalse ELSE Local("loop", MoveTo(k))

FoldCheckTail ==
  /\ At("fold")
  /\ IF c.buf = tailOfQueue THEN ReturnFalse ELSE Local("foldprev", c)

\* next->prev = prev
FoldPrev ==
  LET k == next[c.buf]
  IN  /\ At("foldprev")
      /\ \/ k = NULL /\ ReturnFalse
         \/ /\ k # NULL
            /\ prev' = [prev EXCEPT ![k] = prev[c.buf]]
            /\ cpc' = "foldnext"
            /\ UNCHANGED <<ppc, w, gTail, sent, before, tailOfQueue, data, Buffer,
                           head, headOfQueue, c, delivered, waiting>>

\* prev->next = next
FoldNext ==
  /\ At("foldnext")
  /\ next' = [next EXCEPT ![prev[c.buf]] = next[c.buf]]
  /\ cpc' = "foldfree"
  /\ UNCHANGED <<Producer, status, is_set, head, headOfQueue, c, delivered, waiting>>

FoldFree ==
  /\ At("foldfree")
  /\ status' = [status EXCEPT ![c.buf] = "freed"]
  /\ cpc' = "loop"
  /\ c' = MoveTo(next[c.buf])
  /\ UNCHANGED <<Producer, next, is_set, head, headOfQueue, delivered, waiting>>

\* the head buffer is used up: move on unless it is still the tail
CanMove == H # tailOfQueue

MoveHead ==
  /\ At("elem")
  /\ head[H] >= B
  /\ IF CanMove THEN Local("drop", c) ELSE ReturnFalse

Free(k) == [status EXCEPT ![k] = "freed"]

\* delete the used up buffer
DropHead ==
  /\ At("drop")
  /\ IF next[H] = NULL
       THEN ReturnFalse
       ELSE /\ status' = Free(H)
            /\ headOfQueue' = next[H]
            /\ cpc' = "again" /\ c' = NoDequeue
            /\ UNCHANGED <<Producer, next, is_set, head, delivered, waiting>>

dequeue ==
  \/ LoadPrevSize \/ CompareTail \/ CompareGTail \/ LookAtHead \/ LoopHead
  \/ TryAhead \/ HeadStillEmpty \/ SecondLook \/ ScanCond \/ ScanCross \/ ScanSlot
  \/ ScanEnd \/ Edge \/ StepAhead \/ FoldCheckTail \/ FoldPrev \/ FoldNext
  \/ FoldFree \/ MoveHead \/ DropHead

----------------------------------------------------------------------------
\* every thread has returned from its last modelled call
Joined == cpc = "idle" /\ \A p \in Producers : ppc[p] = "idle" /\ sent[p] = Quota[p]

\* ~MpScQueue: free the buffers from the head on
Destroy ==
  /\ Joined \/ cpc = "destroy"
  /\ status' = [status EXCEPT ![H] = "freed"]
  /\ IF next[H] # NULL
       THEN headOfQueue' = next[H] /\ cpc' = "destroy"
       ELSE headOfQueue' = headOfQueue /\ cpc' = "gone"
  /\ UNCHANGED <<Producer, next, is_set, head, c, delivered, waiting>>

\* the buffer a thread's next step dereferences
Accessed(p) ==
  CASE ppc[p] = "tail" -> tailOfQueue
    [] ppc[p] \in {"walk", "data", "flag", "grow", "next", "alloc"} -> w[p].tempTail
    [] OTHER -> H
ConsumerAccessed ==
  CASE cpc \in {"idle", "again"} -> tailOfQueue
    [] cpc = "scanN" /\ c.scanHead >= B -> next[c.scanBuf]
    [] cpc = "foldnext" -> prev[c.buf]
    [] OTHER -> H

Fault ==
  /\ ~fault
  /\ cpc # "gone"
  /\ ~Live(ConsumerAccessed) \/ \E p \in Producers : ~Live(Accessed(p))
  /\ fault' = TRUE
  /\ UNCHANGED <<mem, tailOfQueue, gTail, headOfQueue, ppc, w, cpc, c, sent,
                 delivered, before, waiting, overlap>>

Halted == (fault \/ cpc = "gone") /\ UNCHANGED vars

\* a producer is in a call and another one has used the queue, too
Contended == \E p, q \in Producers : p # q /\ ppc[p] # "idle" /\ sent[q] > 0

Produce(p) ==
  /\ ~fault
  /\ FetchAdd(p) \/ enqueueStep(p)
  /\ UNCHANGED <<overlap, fault>>

Consume ==
  /\ ~fault
  /\ dequeue
  /\ overlap' = (overlap \/ Contended)
  /\ UNCHANGED fault

Next ==
  \/ \E p \in Producers : Produce(p)
  \/ Consume
  \/ ~fault /\ Destroy /\ UNCHANGED <<overlap, fault>>
  \/ Fault
  \/ Halted

\* Threads are preemptively scheduled: a call in progress gets its steps, and
\* the consumer keeps polling.  Nothing forces a further enqueue call.
Fairness ==
  /\ \A p \in Producers : WF_vars(ppc[p] # "idle" /\ Produce(p))
  /\ WF_vars(Consume)

Spec == Init /\ [][Next]_vars /\ Fairness

----------------------------------------------------------------------------
\* No thread ever follows a null pointer or a pointer to a freed buffer.
NoFault == ~fault

\* enqueue stores into the buffer its location belongs to: it walks back only
\* from a later buffer and moves on only from an earlier one (lines 275 to 306).
RightBuffer ==
  \A p \in Producers :
    LET first == (w[p].tempTail - 1) * B
        ticket == w[p].ticket
    IN  /\ ppc[p] = "walk" => ticket < first
        /\ ppc[p] \in {"data", "flag"} => ticket = first + Index(p)
        /\ ppc[p] = "next" => ticket >= first + B

\* dequeue never returns an element twice.
NoDuplicate == \A v \in Value : delivered[v] <= 1

\* dequeue returns an element only after every element whose enqueue had
\* returned before that element's enqueue was called.
RealTimeOrder == \A v \in Delivered : before[v] \subseteq Delivered

\* Nothing is lost: an undelivered element is still in a slot of a live buffer.
NothingLost ==
  cpc \notin {"destroy", "gone"} /\ ~fault =>
    \A v \in Returned \ Delivered :
      \E k \in Buffers, i \in Slots :
        status[k] = "live" /\ is_set[k][i] = 1 /\ data[k][i] = v /\ i >= head[k]

\* Within one buffer no element is returned twice, overtaken by a later one or lost.
OrderedAndComplete == NoDuplicate /\ RealTimeOrder /\ NothingLost

\* dequeue returns false only if the queue held no element, i.e. none whose
\* enqueue had returned, when it was called.
FalseMeansEmpty ==
  [][cpc \notin {"idle", "destroy", "gone"} /\ cpc' = "idle" /\ delivered' = delivered
       => waiting = {}]_vars

\* The destructor frees every buffer that was ever linked.
NoLeak == cpc = "gone" => \A k \in Buffers : status[k] # "live"

\* While dequeue has only run next to a single producer, or with all producers
\* outside their calls as in bench_mark_jiffy, the queue is safe across buffers
\* and its destructor leaves none.
SafeWithoutOverlap ==
  ~overlap => /\ NoFault /\ NoDuplicate /\ NothingLost /\ RealTimeOrder
              /\ RightBuffer /\ NoLeak

\* An element whose enqueue returned is dequeued, unless the queue is destroyed.
EventuallyDelivered ==
  \A v \in Value : v \in Returned ~> (v \in Delivered \/ cpc \in {"destroy", "gone"})

\* how many elements of p are visible, i.e. their is_set was stored
Visible(p) == IF ppc[p] \in {"idle", "grow"} THEN sent[p] ELSE sent[p] - 1
Put == [p \in Producers |-> Visible(p)]
Inbox == {v \in Value : v[2] <= Visible(v[1]) /\ delivered[v] = 0}
Fifo == INSTANCE MpScFifo WITH put <- Put, inbox <- Inbox

\* dequeue keeps each producer's order: the queue implements MpScFifo, the
\* store of is_set being the moment an element enters it.
FifoContract == Fifo!Spec
=============================================================================
