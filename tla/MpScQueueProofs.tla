--------------------------- MODULE MpScQueueProofs --------------------------
(***************************************************************************)
(* Proofs about MpScQueue, for any producers, numbers of calls and         *)
(* NODE_SIZE.                                                              *)
(*                                                                         *)
(* Common is what the producers keep whatever the consumer does, as long   *)
(* as it unlinks nothing from the middle of the list: every location       *)
(* belongs to one call, every producer is where its location says, and the *)
(* slots that are set are those of the finished calls.  Two invariants of  *)
(* the consumer extend it: InOrderConsumer, while dequeue meets no two     *)
(* producers and so takes everything at the head, and OneBufferConsumer,   *)
(* while everything fits into one buffer and dequeue looks ahead and scans *)
(* among any number of producers.                                          *)
(***************************************************************************)
EXTENDS MpScQueue, FiniteSetTheorems, TLAPS

----------------------------------------------------------------------------
(* Locations and buffers                                                   *)

\* fewer locations than an unsigned int has values
NoWrap == Total + B <= UIntMod

\* first location of buffer k
First(k) == (k - 1) * B

LEMMA MulStep == ASSUME NEW b \in Nat, NEW k \in Int PROVE (k + 1 - 1) * b = (k - 1) * b + b
  BY SMT

LEMMA MulMono == ASSUME NEW b \in Nat, NEW k \in Int, NEW l \in Int, k < l
                 PROVE  (k - 1) * b + b <= (l - 1) * b
  <1>1. PICK d \in Nat : l = k + 1 + d
    <2>1. l - k - 1 \in Nat /\ l = k + 1 + (l - k - 1)
      BY SMT
    <2>. QED
      BY <2>1
  <1>2. (l - 1) * b = (k - 1) * b + b + d * b
    BY <1>1, SMT
  <1>3. d * b \in Nat
    BY SMT
  <1>4. (k - 1) * b \in Int /\ (l - 1) * b \in Int
    BY SMT
  <1>. QED
    BY <1>2, <1>3, <1>4, SMT

LEMMA FirstStep == \A k \in Int : First(k) \in Int /\ First(k + 1) = First(k) + B
  <1>. SUFFICES ASSUME NEW k \in Int PROVE First(k) \in Int /\ First(k + 1) = First(k) + B
    OBVIOUS
  <1>. B \in Nat
    BY BAssumption
  <1>1. First(k) \in Int
    BY DEF First
  <1>. QED
    BY <1>1, MulStep DEF First

LEMMA FirstOne == First(1) = 0
  BY BAssumption DEF First

LEMMA FirstNat == \A k \in Nat : k >= 1 => First(k) \in Nat
  <1>. SUFFICES ASSUME NEW k \in Nat, k >= 1 PROVE First(k) \in Nat
    OBVIOUS
  <1>1. PICK j \in Nat : j = k - 1
    OBVIOUS
  <1>2. PICK b \in Nat : b = B
    BY BAssumption
  <1>3. j * b \in Nat
    OBVIOUS
  <1>. QED
    BY <1>1, <1>2, <1>3 DEF First

LEMMA FirstMono == \A k, l \in Int : k < l => First(k) + B <= First(l)
  BY BAssumption, MulMono DEF First

LEMMA TicketUnique ==
  \A k, l \in Int, i, j \in Slots : First(k) + i = First(l) + j => k = l /\ i = j
  <1>. SUFFICES ASSUME NEW k \in Int, NEW l \in Int, NEW i \in Slots, NEW j \in Slots,
                       First(k) + i = First(l) + j
                PROVE  k = l /\ i = j
    OBVIOUS
  <1>1. /\ First(k) \in Int /\ First(l) \in Int /\ B \in Nat
        /\ i \in Int /\ j \in Int /\ 0 <= i /\ i < B /\ 0 <= j /\ j < B
    BY FirstStep, BAssumption DEF Slots
  <1>2. ~ k < l
    BY <1>1, FirstMono
  <1>3. ~ l < k
    BY <1>1, FirstMono
  <1>4. k = l
    BY <1>2, <1>3
  <1>. QED
    BY <1>1, <1>4

LEMMA ValueFinite == IsFiniteSet(Value) /\ Total \in Nat
  <1>. DEFINE f(p) == {p} \X (1 .. Quota[p])
  <1>1. \A p \in Producers : IsFiniteSet(f(p))
    <2>. SUFFICES ASSUME NEW p \in Producers PROVE IsFiniteSet(f(p))
      OBVIOUS
    <2>1. Quota[p] \in Nat
      BY QuotaAssumption
    <2>2. IsFiniteSet({p})
      BY FS_Singleton
    <2>3. IsFiniteSet(1 .. Quota[p])
      BY <2>1, FS_Interval
    <2>. QED
      BY <2>2, <2>3, FS_Product
  <1>2. IsFiniteSet({f(p) : p \in Producers})
    <2>. DEFINE g == [p \in Producers |-> f(p)]
    <2>1. g \in Surjection(Producers, {f(p) : p \in Producers})
      BY DEF Surjection
    <2>. QED
      BY <2>1, QuotaAssumption, FS_Surjection
  <1>. QED
    BY <1>1, <1>2, FS_UNION, FS_CardinalityType DEF Value, Total

LEMMA AddMod == ASSUME NEW m \in Nat, NEW x \in Nat, x < m PROVE (x + m) % m = x
  <1>1. PICK q \in Int : q = (x + m) \div m
    BY SMT
  <1>2. PICK r \in Int : r = (x + m) % m
    BY SMT
  <1>3. x + m = q * m + r /\ 0 <= r /\ r < m
    BY <1>1, <1>2, SMT
  <1>4. ~ q >= 2
    <2>1. q >= 2 => (q - 2) * m >= 0 /\ q * m = (q - 2) * m + m + m
      BY SMT
    <2>2. (q - 2) * m \in Int /\ q * m \in Int
      BY SMT
    <2>. QED
      BY <1>3, <2>1, <2>2, SMT
  <1>5. ~ q <= 0
    <2>1. q <= 0 => (-q) * m >= 0 /\ q * m = - ((-q) * m)
      BY SMT
    <2>2. (-q) * m \in Int /\ q * m \in Int
      BY SMT
    <2>. QED
      BY <1>3, <2>1, <2>2, SMT
  <1>6. q = 1
    BY <1>4, <1>5
  <1>. QED
    BY <1>2, <1>3, <1>6

\* A number in the range of an unsigned int is its own remainder.
LEMMA SmallMod == ASSUME NEW m \in Nat, NEW x \in Nat, x < m PROVE x % m = x
  <1>1. PICK q \in Int : q = x \div m
    BY SMT
  <1>2. PICK r \in Int : r = x % m
    BY SMT
  <1>3. x = q * m + r /\ 0 <= r /\ r < m
    BY <1>1, <1>2, SMT
  <1>4. ~ q >= 1
    <2>1. q >= 1 => q * m >= m
      <3>1. q >= 1 => (q - 1) * m >= 0 /\ q * m = (q - 1) * m + m
        BY SMT
      <3>2. (q - 1) * m \in Int /\ q * m \in Int
        BY SMT
      <3>. QED
        BY <3>1, <3>2, SMT
    <2>2. q * m \in Int
      BY SMT
    <2>. QED
      BY <1>3, <2>1, <2>2, SMT
  <1>5. ~ q <= -1
    <2>1. q <= -1 => q * m <= -m
      <3>1. q <= -1 => (-1 - q) * m >= 0 /\ q * m = - ((-1 - q) * m) - m
        BY SMT
      <3>2. (-1 - q) * m \in Int /\ q * m \in Int
        BY SMT
      <3>. QED
        BY <3>1, <3>2, SMT
    <2>2. q * m \in Int
      BY SMT
    <2>. QED
      BY <1>3, <2>1, <2>2, SMT
  <1>6. q = 0
    BY <1>4, <1>5
  <1>. QED
    BY <1>2, <1>3, <1>6

LEMMA DivBound == ASSUME NEW b \in Nat \ {0}, NEW t \in Nat, NEW n \in Int, n * b < t
                  PROVE  n <= t \div b
  <1>1. PICK q \in Int : q = t \div b
    BY SMT
  <1>2. PICK r \in Int : r = t % b
    BY SMT
  <1>3. t = q * b + r /\ 0 <= r /\ r < b
    BY <1>1, <1>2, SMT
  <1>4. ASSUME q < n PROVE FALSE
    <2>1. n * b = q * b + b + (n - q - 1) * b /\ (n - q - 1) * b >= 0
      BY <1>4, SMT
    <2>2. n * b \in Int /\ q * b \in Int /\ (n - q - 1) * b \in Int
      BY SMT
    <2>. QED
      BY <1>3, <2>1, <2>2, SMT
  <1>. QED
    BY <1>1, <1>4

\* Buffers are numbered from 1, and there is one after every one in use.
LEMMA BufferRange == 1 \in Buffers /\ 2 \in Buffers /\ \A k \in Buffers : k \in Nat /\ k >= 1
  <1>1. Total \div B \in Nat
    BY ValueFinite, BAssumption, SMT
  <1>. QED
    BY <1>1 DEF Buffers

LEMMA Room == ASSUME NEW k \in Buffers, k = 1 \/ First(k) < Total PROVE k + 1 \in Buffers
  <1>1. CASE k = 1
    BY <1>1, BufferRange
  <1>2. CASE First(k) < Total
    <2>1. k \in Int /\ k >= 1 /\ Total \in Nat /\ B \in Nat \ {0}
      BY BufferRange, ValueFinite, BAssumption
    <2>2. k - 1 \in Int /\ (k - 1) * B < Total
      BY <1>2, <2>1 DEF First
    <2>3. k - 1 <= Total \div B
      BY <2>1, <2>2, DivBound
    <2>4. Total \div B \in Int
      BY <2>1, SMT
    <2>. QED
      BY <2>1, <2>3, <2>4 DEF Buffers
  <1>. QED
    BY <1>1, <1>2

\* With the locations in the range of an unsigned int, prevSize is where the
\* buffer begins.
LEMMA PrevSizeIs ==
  ASSUME NoWrap, NEW k \in Buffers, k = 1 \/ First(k) < Total
  PROVE  PrevSize(k) = First(k)
  <1>1. k \in Int /\ k >= 1 /\ Total \in Nat /\ B \in Nat /\ B > 0 /\ UIntMod \in Nat
    BY BufferRange, ValueFinite, BAssumption, UIntModAssumption
  <1>2. First(k) \in Nat
    BY <1>1, BufferRange, FirstNat
  <1>3. First(k) < UIntMod
    BY <1>1, <1>2, FirstOne DEF NoWrap
  <1>4. B * (k - 1) = First(k)
    BY <1>1, SMT DEF First
  <1>. QED
    BY <1>1, <1>2, <1>3, <1>4, SmallMod DEF PrevSize, UInt

LEMMA BackStep ==
  ASSUME NoWrap, NEW k \in Buffers, k > 1, First(k) < Total
  PROVE  Minus(First(k), B) = First(k - 1) /\ k - 1 \in Buffers
  <1>1. k \in Int /\ Total \in Nat /\ B \in Nat /\ B > 0 /\ UIntMod \in Nat
    BY BufferRange, ValueFinite, BAssumption, UIntModAssumption
  <1>2. First(k - 1) \in Int /\ First(k) = First(k - 1) + B
    BY <1>1, FirstStep, k - 1 \in Int, k - 1 + 1 = k
  <1>3. First(k - 1) \in Nat
    <2>1. k - 1 = 1 \/ First(1) + B <= First(k - 1)
      BY <1>1, FirstMono
    <2>. QED
      BY <1>1, <1>2, <2>1, FirstOne
  <1>4. B % UIntMod = B
    BY <1>1, <1>2, <1>3, SmallMod DEF NoWrap
  <1>5. First(k) + UIntMod - B = First(k - 1) + UIntMod
    BY <1>1, <1>2
  <1>6. (First(k - 1) + UIntMod) % UIntMod = First(k - 1)
    <2>1. First(k - 1) < UIntMod
      BY <1>1, <1>2, <1>3 DEF NoWrap
    <2>2. First(k - 1) % UIntMod = First(k - 1)
      BY <1>1, <1>3, <2>1, SmallMod
    <2>. QED
      BY <1>1, <1>3, <2>1, <2>2, AddMod
  <1>7. k - 1 \in Buffers
    BY <1>1, ValueFinite DEF Buffers
  <1>. QED
    BY <1>4, <1>5, <1>6, <1>7 DEF Minus

LEMMA RouteIs ==
  ASSUME NoWrap, NEW k \in Buffers, k = 1 \/ First(k) < Total,
         NEW t \in Nat, t < Total
  PROVE  /\ Route(t, First(k)) \in {"walk", "data", "next"}
         /\ Route(t, First(k)) = "walk" => t < First(k)
         /\ Route(t, First(k)) = "data" => First(k) <= t /\ t < First(k) + B
         /\ Route(t, First(k)) = "next" => First(k) + B <= t
  <1>1. k \in Int /\ k >= 1 /\ Total \in Nat /\ B \in Nat /\ B > 0 /\ UIntMod \in Nat
    BY BufferRange, ValueFinite, BAssumption, UIntModAssumption
  <1>2. First(k) \in Nat
    BY <1>1, BufferRange, FirstNat
  <1>3. B + First(k) < UIntMod
    BY <1>1, <1>2, FirstOne DEF NoWrap
  <1>4. UInt(B + First(k)) = First(k) + B
    BY <1>1, <1>2, <1>3, SmallMod DEF UInt
  <1>. QED
    BY <1>1, <1>2, <1>4 DEF Route

----------------------------------------------------------------------------
(* The invariant of the memory and of the producers                        *)

\* producers that have not stored their flag, and those that hold a buffer
Open == {p \in Producers : ppc[p] \notin {"idle", "grow"}}
Holding == {p \in Producers : ppc[p] \notin {"idle", "tail"}}
Moving == {"next", "alloc", "settail", "castail"}

Mine(p) == <<p, sent[p]>>
Started == {v \in Value : v[2] <= sent[v[1]]}
Stored == {v \in Value : v[2] < sent[v[1]] \/ (v[2] = sent[v[1]] /\ v[1] \notin Open)}
Linked == {k \in Buffers : status[k] # "absent"}

ProducerLocals ==
  [ticket : Nat, loc : Nat, tempTail : Nat, prevSize : Nat, go_back : BOOLEAN, nxt : Nat]
ConsumerLocals ==
  [prevSize : Nat, buf : Nat, tempHead : Nat, tn : Nat, moved : BOOLEAN,
   handled : BOOLEAN, scanBuf : Nat, scanHead : Nat]

MemType ==
  /\ status \in [Buffers -> {"absent", "live", "freed"}]
  /\ next \in [Buffers -> Nat] /\ prev \in [Buffers -> Nat] /\ head \in [Buffers -> 0 .. B]
  /\ is_set \in [Buffers -> [Slots -> {0, 1, 2}]]
  /\ data \in [Buffers -> [Slots -> Value \cup {NoData}]]
CallType ==
  /\ gTail \in Nat
  /\ ppc \in [Producers -> {"idle", "tail", "walk", "data", "flag", "grow"} \cup Moving]
  /\ w \in [Producers -> ProducerLocals] /\ c \in ConsumerLocals
  /\ sent \in [Producers -> Nat] /\ \A p \in Producers : sent[p] <= Quota[p]
  /\ delivered \in [Value -> Nat] /\ before \in [Value -> SUBSET Value]

\* Buffers are linked in the order of their positions, without a gap.
Chain ==
  /\ 1 \in Linked
  /\ \A k \in Buffers : next[k] # NULL => next[k] = k + 1 /\ k + 1 \in Linked
  /\ \A j \in Buffers, k \in Linked : j < k => j \in Linked /\ next[j] = j + 1
  /\ \A k \in Linked : k > 1 => prev[k] = k - 1

\* Those before the head are freed; the head and the tail are not.
InUse(k) == k = 1 \/ First(k) < gTail
Reachable ==
  /\ \A k \in Buffers : status[k] = "freed" <=> k < H
  /\ H \in Linked /\ tailOfQueue \in Linked /\ H <= tailOfQueue /\ InUse(tailOfQueue)

\* A location belongs to one producer until it is stored, and is not before the head.
Claims ==
  /\ gTail = Cardinality(Started)
  /\ \A p \in Open : /\ sent[p] > 0 /\ w[p].ticket < gTail /\ w[p].loc = w[p].ticket
                     /\ First(H) <= w[p].ticket
  /\ \A p, q \in Open : w[p].ticket = w[q].ticket => p = q

\* Where a producer is, seen from its location.
Placed(p) ==
  LET k == w[p].tempTail IN
  /\ k \in Linked /\ H <= k /\ InUse(k) /\ w[p].prevSize = First(k)
  /\ ppc[p] = "walk" => w[p].ticket < First(k)
  /\ ppc[p] \in {"data", "flag"} => First(k) <= w[p].ticket /\ w[p].ticket < First(k) + B
  /\ ppc[p] \in Moving => First(k) + B <= w[p].ticket
  /\ ppc[p] \in {"settail", "castail"} => next[k] = k + 1
  /\ ppc[p] = "castail" => w[p].nxt = k + 1
AllPlaced == \A p \in Holding : Placed(p)

\* The slots that are set are those of the locations stored, and each value
\* stored is in one of them.
Filled(t) == t < gTail /\ \A p \in Open : w[p].ticket # t
Contents ==
  /\ \A k \in Buffers, i \in Slots : is_set[k][i] # 0 <=> Filled(First(k) + i)
  /\ \A k \in Buffers, i \in Slots : is_set[k][i] # 0 => k \in Linked /\ data[k][i] \in Stored
  /\ \A v \in Stored : \E k \in Buffers, i \in Slots : is_set[k][i] # 0 /\ data[k][i] = v
  /\ \A k, l \in Buffers, i, j \in Slots :
       is_set[k][i] # 0 /\ is_set[l][j] # 0 /\ data[k][i] = data[l][j] => k = l /\ i = j
  /\ \A p \in Producers : ppc[p] = "flag" => data[w[p].tempTail][Index(p)] = Mine(p)

\* Values are stored at locations in the order of their calls.
Order ==
  /\ \A v \in Value : before[v] \subseteq Returned
  /\ \A k, l \in Buffers, i, j \in Slots :
       is_set[k][i] # 0 /\ is_set[l][j] # 0 /\ data[k][i] \in before[data[l][j]] =>
         First(k) + i < First(l) + j
  /\ \A p \in Open, k \in Buffers, i \in Slots :
       is_set[k][i] # 0 /\ data[k][i] \in before[Mine(p)] => First(k) + i < w[p].ticket
  /\ \A v \in Started : \A n \in 1 .. v[2] - 1 : <<v[1], n>> \in before[v]

Common == MemType /\ CallType /\ Chain /\ Reachable /\ Claims /\ AllPlaced /\ Contents /\ Order

----------------------------------------------------------------------------
(* A consumer that meets no two producers                                  *)

Front == First(H) + head[H]
Alone(p) == \A q \in Producers : q # p => sent[q] = 0

\* A producer that is alone is at the tail.
AloneAtTail ==
  \A p \in Producers : Alone(p) =>
    /\ p \in Open => w[p].ticket = gTail - 1
    /\ p \in Holding => w[p].tempTail = tailOfQueue

\* What was delivered is what is stored before the front.
FrontInv ==
  /\ \A k \in Buffers, i \in Slots : is_set[k][i] # 2
  /\ Front <= gTail /\ \A p \in Open : Front <= w[p].ticket
  /\ \A k \in Buffers : k > H => head[k] = 0
  /\ \A k \in Buffers, i \in Slots :
       is_set[k][i] # 0 => delivered[data[k][i]] = IF First(k) + i < Front THEN 1 ELSE 0
  /\ \A v \in Value : delivered[v] > 0 => v \in Stored

\* The look ahead finds the head set whenever it finds anything set, so that it
\* neither scans nor folds.
LookingAhead == {"loop", "try", "both", "second", "edge", "ahead"}
AheadInv ==
  /\ c.buf \in Linked /\ c.tempHead <= B
  /\ head[H] < B /\ H <= c.buf /\ (c.moved <=> c.buf > H)
  /\ c.buf = H => head[H] <= c.tempHead
  /\ B = 1 /\ c.moved => cpc = "loop" /\ nSet = 1
  /\ cpc = "try" => c.tempHead < B /\ (c.moved /\ c.tempHead > 0 => ~c.handled)
  /\ cpc = "both" => nSet = 1
  /\ cpc \in {"both", "second"} => c.tn + 1 = c.tempHead /\ (c.buf = H => head[H] <= c.tn)
  /\ cpc \in {"both", "second", "edge"} => (c.moved /\ c.tempHead > 1 => ~c.handled)
  /\ cpc \in {"loop", "edge"} => (c.moved /\ c.handled /\ c.tempHead > 0 => nSet = 1)

DropInv ==
  /\ head[H] = B /\ H < tailOfQueue
  /\ \A p \in Holding : H < w[p].tempTail

InOrderConsumer ==
  /\ AloneAtTail /\ FrontInv
  /\ cpc \in {"idle", "again", "tail", "gtail", "elem", "drop"} \cup LookingAhead
  /\ cpc \in {"tail", "gtail", "elem"} => ~c.moved
  /\ cpc \in LookingAhead => AheadInv
  /\ cpc = "drop" => DropInv

\* The destructor follows the list from the head.
Destroyed ==
  /\ ~fault /\ MemType /\ Chain /\ H \in Linked /\ RealTimeOrder /\ NoDuplicate
  /\ cpc \in {"destroy", "gone"}
  /\ \A p \in Producers : ppc[p] = "idle" /\ sent[p] = Quota[p]
  /\ \A k \in Buffers : k < H => status[k] # "live"
  /\ cpc = "destroy" => \A k \in Buffers : k >= H => status[k] # "freed"
  /\ cpc = "gone" => \A k \in Buffers : status[k] # "live"

\* Buffers of one slot have no index 1, so that none is allocated ahead.
NoneAhead == B = 1 => /\ \A k \in Linked : InUse(k)
                      /\ \A p \in Producers : ppc[p] # "grow"

Uncontended == ~fault /\ Common /\ InOrderConsumer /\ NoneAhead
UncontendedInv == ~overlap => Uncontended \/ Destroyed

----------------------------------------------------------------------------
(* The steps of enqueue keep the common invariant                          *)

LEMMA TotalBound == ASSUME CallType, Claims PROVE gTail <= Total
  <1>1. Started \subseteq Value
    BY DEF Started
  <1>. QED
    BY <1>1, ValueFinite, FS_Subset DEF Claims, Total

LEMMA ValueIs == \A p \in Producers, n \in Nat : n >= 1 /\ n <= Quota[p] => <<p, n>> \in Value
  BY QuotaAssumption DEF Value

LEMMA ValueParts == \A v \in Value : /\ v[1] \in Producers /\ v[2] \in Nat /\ v[2] >= 1
                                     /\ v[2] <= Quota[v[1]] /\ v = <<v[1], v[2]>>
  BY QuotaAssumption DEF Value

LEMMA LinkedRange == \A k \in Linked : k \in Buffers /\ k \in Nat /\ k >= 1 /\ First(k) \in Nat
  BY BufferRange, FirstNat DEF Linked

\* a step of p within its call that does not store the flag
Moves(p) ==
  /\ p \in Open /\ p \in Open' /\ w' \in [Producers -> ProducerLocals]
  /\ w'[p].ticket = w[p].ticket /\ w'[p].loc = w[p].loc
  /\ \A q \in Producers : q # p => w'[q] = w[q]
  /\ \E s \in {"tail", "walk", "data", "flag"} \cup Moving : ppc' = [ppc EXCEPT ![p] = s]
  /\ UNCHANGED <<is_set, head, headOfQueue, gTail, sent, before, delivered, cpc, c, waiting>>

LEMMA MovesSets ==
  ASSUME CallType, NEW p \in Producers, Moves(p)
  PROVE  /\ Open' = Open /\ Stored' = Stored /\ Started' = Started /\ Returned' = Returned
         /\ \A q \in Open : w'[q].ticket = w[q].ticket /\ w'[q].loc = w[q].loc
         /\ \A q \in Producers : q # p => ppc'[q] = ppc[q]
         /\ \A q \in Producers : q # p => Index(q)' = Index(q)
  <1>0. PICK s \in {"tail", "walk", "data", "flag"} \cup Moving : ppc' = [ppc EXCEPT ![p] = s]
    BY DEF Moves
  <1>1. \A q \in Producers : ppc'[q] = IF q = p THEN s ELSE ppc[q]
    BY <1>0 DEF CallType
  <1>2. s \notin {"idle", "grow"}
    BY DEF Moving
  <1>3. Open' = Open
    BY <1>1, <1>2 DEF Moves, Open
  <1>4. Started' = Started /\ Stored' = Stored
    BY <1>3 DEF Moves, Started, Stored
  <1>5. Returned' = Returned
    <2>1. \A v \in Value : ppc'[v[1]] = "idle" <=> ppc[v[1]] = "idle"
      BY <1>1, <1>2, ValueParts DEF Moves, Open
    <2>. QED
      BY <2>1 DEF Moves, Returned
  <1>6. \A q \in Open : q \in Producers /\ w'[q].ticket = w[q].ticket /\ w'[q].loc = w[q].loc
    BY DEF Moves, Open
  <1>. QED
    BY <1>1, <1>3, <1>4, <1>5, <1>6 DEF Moves, Index

LEMMA MovesCommon ==
  ASSUME Common, NEW p \in Producers, Moves(p), data' = data, ppc'[p] # "flag",
         Linked \subseteq Linked'
  PROVE  CallType' /\ Claims' /\ Contents' /\ Order'
  <1>1. CallType
    BY DEF Common
  <1>2. /\ Open' = Open /\ Stored' = Stored /\ Started' = Started /\ Returned' = Returned
        /\ \A q \in Open : w'[q].ticket = w[q].ticket /\ w'[q].loc = w[q].loc
        /\ \A q \in Producers : q # p => ppc'[q] = ppc[q]
        /\ \A q \in Producers : q # p => Index(q)' = Index(q)
    BY <1>1, MovesSets
  <1>3. UNCHANGED <<is_set, headOfQueue, gTail, sent, before, delivered, c>>
    BY DEF Moves
  <1>4. CallType'
    BY <1>1, <1>3 DEF Moves, CallType, Moving
  <1>5. Claims'
    BY <1>2, <1>3 DEF Common, Claims, H
  <1>6. Contents'
    <2>1. \A t : Filled(t)' <=> Filled(t)
      BY <1>2, <1>3 DEF Filled
    <2>2. \A q \in Producers : ppc'[q] = "flag" => data'[w'[q].tempTail][Index(q)'] = Mine(q)'
      BY <1>2, <1>3 DEF Common, Contents, Mine, Moves
    <2>. QED
      BY <1>2, <1>3, <2>1, <2>2 DEF Common, Contents
  <1>7. Order'
    BY <1>2, <1>3 DEF Common, Order, Mine
  <1>. QED
    BY <1>4, <1>5, <1>6, <1>7

LEMMA PlacedOthers ==
  ASSUME Common, NEW p \in Producers, Linked \subseteq Linked', H' = H, gTail' \in Nat, gTail <= gTail',
         \A k \in Buffers : next[k] # NULL => next'[k] = next[k],
         \A q \in Producers : q # p => w'[q] = w[q] /\ ppc'[q] = ppc[q]
  PROVE  \A q \in Holding' : q # p => Placed(q)'
  <1>. SUFFICES ASSUME NEW q \in Holding', q # p PROVE Placed(q)'
    OBVIOUS
  <1>1. q \in Producers /\ w'[q] = w[q] /\ ppc'[q] = ppc[q] /\ q \in Holding
    BY DEF Holding
  <1>2. Placed(q)
    BY <1>1 DEF Common, AllPlaced
  <1>3. w[q].tempTail \in Buffers /\ gTail \in Nat /\ w[q].tempTail \in Nat /\ First(w[q].tempTail) \in Nat
    BY <1>2, LinkedRange DEF Placed, Common, CallType
  <1>4. InUse(w[q].tempTail)'
    BY <1>1, <1>2, <1>3 DEF Placed, InUse
  <1>5. ppc[q] \in {"settail", "castail"} => next'[w[q].tempTail] = w[q].tempTail + 1
    BY <1>2, <1>3 DEF Placed, NULL
  <1>. QED
    BY <1>1, <1>2, <1>4, <1>5 DEF Placed

LEMMA LoadTailCommon ==
  ASSUME NoWrap, Common, NEW p \in Producers, LoadTail(p) PROVE Common' /\ Moves(p)
  <1>1. /\ CallType /\ MemType /\ Claims /\ Reachable /\ gTail <= Total /\ gTail \in Nat
    BY TotalBound DEF Common, CallType
  <1>2. /\ tailOfQueue \in Buffers /\ InUse(tailOfQueue) /\ tailOfQueue \in Linked
        /\ PrevSize(tailOfQueue) = First(tailOfQueue) /\ First(tailOfQueue) \in Nat /\ tailOfQueue \in Nat
        /\ (tailOfQueue = 1 \/ First(tailOfQueue) < Total)
    <2>1. tailOfQueue \in Linked /\ tailOfQueue \in Buffers /\ InUse(tailOfQueue)
      BY <1>1, LinkedRange DEF Reachable
    <2>2. tailOfQueue = 1 \/ First(tailOfQueue) < Total
      BY <1>1, <2>1, LinkedRange, ValueFinite DEF InUse
    <2>. QED
      BY <2>1, <2>2, LinkedRange, PrevSizeIs
  <1>3. /\ ppc[p] = "tail" /\ p \in Open /\ w[p] \in ProducerLocals /\ w[p].loc = w[p].ticket
        /\ w[p].ticket \in Nat /\ w[p].ticket < gTail
    BY <1>1 DEF LoadTail, Goto, Open, Claims, CallType, ProducerLocals
  <1>4. PICK s \in {"walk", "data", "next"} :
          /\ ppc' = [ppc EXCEPT ![p] = s]
          /\ s = "walk" => w[p].ticket < First(tailOfQueue)
          /\ s = "data" => First(tailOfQueue) <= w[p].ticket /\ w[p].ticket < First(tailOfQueue) + B
          /\ s = "next" => First(tailOfQueue) + B <= w[p].ticket
    <2>1. w[p].ticket < Total
      BY <1>1, <1>3, ValueFinite
    <2>2. PICK s : s = Route(w[p].loc, PrevSize(tailOfQueue))
      OBVIOUS
    <2>3. s = Route(w[p].ticket, First(tailOfQueue))
      BY <1>2, <1>3, <2>2
    <2>4. /\ s \in {"walk", "data", "next"}
          /\ s = "walk" => w[p].ticket < First(tailOfQueue)
          /\ s = "data" => First(tailOfQueue) <= w[p].ticket /\ w[p].ticket < First(tailOfQueue) + B
          /\ s = "next" => First(tailOfQueue) + B <= w[p].ticket
      BY <1>2, <1>3, <2>1, <2>3, RouteIs
    <2>. QED
      BY <2>2, <2>4 DEF LoadTail, Goto
  <1>5. /\ w' \in [Producers -> ProducerLocals]
        /\ w'[p].ticket = w[p].ticket /\ w'[p].loc = w[p].loc
        /\ w'[p].tempTail = tailOfQueue /\ w'[p].prevSize = First(tailOfQueue)
        /\ \A q \in Producers : q # p => w'[q] = w[q]
    BY <1>1, <1>2 DEF LoadTail, ProducerLocals, CallType
  <1>6. /\ UNCHANGED <<mem, tailOfQueue, gTail, sent, before, Consumer>>
    BY DEF LoadTail, Calls
  <1>7. ppc'[p] = s /\ \A q \in Producers : q # p => ppc'[q] = ppc[q]
    BY <1>1, <1>4 DEF CallType
  <1>8. Moves(p)
    <2>1. s \in {"tail", "walk", "data", "flag"} \cup Moving
      BY DEF Moving
    <2>2. p \in Open'
      BY <1>4, <1>7 DEF Open
    <2>. QED
      BY <1>3, <1>4, <1>5, <1>6, <2>1, <2>2 DEF Moves, mem, Consumer
  <1>9. Linked' = Linked /\ H' = H /\ next' = next /\ gTail' = gTail /\ data' = data
    BY <1>6 DEF mem, Linked, Consumer, H
  <1>10. CallType' /\ Claims' /\ Contents' /\ Order'
    BY <1>4, <1>7, <1>8, <1>9, MovesCommon
  <1>11. MemType' /\ Chain' /\ Reachable'
    BY <1>6, <1>9 DEF Common, MemType, Chain, Reachable, InUse, mem, Consumer
  <1>12. AllPlaced'
    <2>1. \A q \in Holding' : q # p => Placed(q)'
      BY <1>1, <1>5, <1>7, <1>9, PlacedOthers
    <2>2. Placed(p)'
      BY <1>1, <1>2, <1>4, <1>5, <1>6, <1>7, <1>9 DEF Placed, Reachable, InUse, Moving
    <2>. QED
      BY <2>1, <2>2 DEF AllPlaced
  <1>. QED
    BY <1>8, <1>10, <1>11, <1>12 DEF Common

\* What a producer within its call knows of itself.
LEMMA HolderFacts ==
  ASSUME Common, NEW p \in Producers, p \in Open
  PROVE  /\ w[p] \in ProducerLocals /\ w[p].loc = w[p].ticket /\ w[p].ticket \in Nat
         /\ w[p].ticket < gTail /\ gTail \in Nat /\ gTail <= Total /\ Total \in Nat
         /\ First(H) <= w[p].ticket /\ sent[p] > 0 /\ sent[p] \in Nat /\ Mine(p) \in Value
         /\ Mine(p) \in Started /\ Mine(p) \notin Stored /\ Mine(p) \notin Returned
         /\ p \in Holding =>
              /\ w[p].tempTail \in Linked /\ w[p].tempTail \in Buffers /\ w[p].tempTail \in Nat
              /\ w[p].tempTail >= 1 /\ First(w[p].tempTail) \in Nat /\ H <= w[p].tempTail
              /\ InUse(w[p].tempTail) /\ (w[p].tempTail = 1 \/ First(w[p].tempTail) < Total)
              /\ w[p].prevSize = First(w[p].tempTail)
  <1>1. /\ w[p] \in ProducerLocals /\ w[p].loc = w[p].ticket /\ w[p].ticket \in Nat
        /\ w[p].ticket < gTail /\ gTail \in Nat /\ gTail <= Total /\ Total \in Nat
        /\ First(H) <= w[p].ticket /\ sent[p] > 0 /\ sent[p] \in Nat /\ sent[p] <= Quota[p]
    BY TotalBound, ValueFinite DEF Common, CallType, Claims, ProducerLocals
  <1>2. Mine(p) \in Value
    BY <1>1, ValueIs DEF Mine
  <1>3. Mine(p) \in Started /\ Mine(p) \notin Stored /\ Mine(p) \notin Returned
    BY <1>1, <1>2 DEF Mine, Started, Stored, Returned, Open
  <1>4. ASSUME p \in Holding
        PROVE  /\ w[p].tempTail \in Linked /\ H <= w[p].tempTail /\ InUse(w[p].tempTail)
               /\ w[p].prevSize = First(w[p].tempTail)
    BY <1>4 DEF Common, AllPlaced, Placed
  <1>5. ASSUME p \in Holding
        PROVE  /\ w[p].tempTail \in Buffers /\ w[p].tempTail \in Nat /\ w[p].tempTail >= 1
               /\ First(w[p].tempTail) \in Nat
    BY <1>4, <1>5, LinkedRange
  <1>6. ASSUME p \in Holding
        PROVE  w[p].tempTail = 1 \/ First(w[p].tempTail) < Total
    BY <1>1, <1>4, <1>5, <1>6 DEF InUse
  <1>. QED
    BY <1>1, <1>2, <1>3, <1>4, <1>5, <1>6

LEMMA WalkBackCommon ==
  ASSUME NoWrap, Common, NEW p \in Producers, WalkBack(p) PROVE Common' /\ Moves(p)
  <1>. DEFINE k == w[p].tempTail
  <1>1. CallType /\ MemType /\ Claims /\ Reachable /\ Chain /\ Placed(p)
    BY DEF Common, AllPlaced, Holding, WalkBack, Goto
  <1>2. ppc[p] = "walk" /\ p \in Open /\ p \in Holding
    BY DEF WalkBack, Goto, Open, Holding
  <1>3. /\ w[p] \in ProducerLocals /\ w[p].loc = w[p].ticket /\ w[p].ticket \in Nat
        /\ w[p].ticket < gTail /\ gTail \in Nat /\ gTail <= Total /\ Total \in Nat
        /\ First(H) <= w[p].ticket /\ k \in Linked /\ k \in Buffers /\ k \in Nat
        /\ k >= 1 /\ First(k) \in Nat /\ H <= k /\ InUse(k) /\ (k = 1 \/ First(k) < Total)
        /\ w[p].prevSize = First(k)
    BY <1>2, HolderFacts
  <1>4. w[p].ticket < First(k)
    BY <1>1, <1>2 DEF Placed
  <1>5. k > 1 /\ First(k) < Total /\ k - 1 \in Int /\ H \in Int /\ H \in Buffers
    BY <1>1, <1>3, <1>4, FirstOne, LinkedRange DEF Reachable
  <1>6. Minus(w[p].prevSize, B) = First(k - 1) /\ k - 1 \in Buffers /\ StepBack(k) = k - 1
    BY <1>1, <1>3, <1>5, BackStep DEF Chain, StepBack
  <1>7. k - 1 \in Linked /\ H <= k - 1
    <2>1. k - 1 \in Linked
      BY <1>1, <1>3, <1>5, <1>6 DEF Chain
    <2>2. H # k
      BY <1>3, <1>4
    <2>. QED
      BY <2>1, <2>2, <1>3, <1>5
  <1>8. First(k - 1) \in Nat /\ First(k - 1) < First(k) /\ k - 1 \in Nat
    <2>1. First(k - 1) + B <= First(k)
      BY <1>3, <1>5, FirstMono
    <2>2. First(k - 1) \in Nat /\ k - 1 \in Nat
      BY <1>7, LinkedRange
    <2>. QED
      BY <2>1, <2>2, <1>3, BAssumption
  <1>9. InUse(k - 1) /\ (k - 1 = 1 \/ First(k - 1) < Total)
    BY <1>3, <1>5, <1>8 DEF InUse
  <1>10. PICK s :
           /\ s \in {"walk", "data", "next"}
           /\ ppc' = [ppc EXCEPT ![p] = s]
           /\ s = "walk" => w[p].ticket < First(k - 1)
           /\ s = "data" => First(k - 1) <= w[p].ticket /\ w[p].ticket < First(k - 1) + B
           /\ s = "next" => First(k - 1) + B <= w[p].ticket
    <2>1. w[p].ticket < Total
      BY <1>3
    <2>2. PICK s : s = Route(w[p].loc, Minus(w[p].prevSize, B))
      OBVIOUS
    <2>3. s = Route(w[p].ticket, First(k - 1))
      BY <1>3, <1>6, <2>2
    <2>4. /\ s \in {"walk", "data", "next"}
          /\ s = "walk" => w[p].ticket < First(k - 1)
          /\ s = "data" => First(k - 1) <= w[p].ticket /\ w[p].ticket < First(k - 1) + B
          /\ s = "next" => First(k - 1) + B <= w[p].ticket
      BY <1>3, <1>6, <1>9, <2>1, <2>3, RouteIs
    <2>. QED
      BY <2>2, <2>4 DEF WalkBack, Goto
  <1>11. /\ w' \in [Producers -> ProducerLocals]
         /\ w'[p].ticket = w[p].ticket /\ w'[p].loc = w[p].loc
         /\ w'[p].tempTail = k - 1 /\ w'[p].prevSize = First(k - 1)
         /\ \A q \in Producers : q # p => w'[q] = w[q]
    <2>. DEFINE ps == Minus(w[p].prevSize, B)
    <2>1. w' = [w EXCEPT ![p].tempTail = StepBack(@), ![p].prevSize = ps, ![p].go_back = TRUE]
      BY DEF WalkBack
    <2>2. ps \in Nat /\ ps = First(k - 1)
      BY <1>6, <1>8
    <2>. HIDE DEF ps
    <2>3. w' = [w EXCEPT ![p].tempTail = k - 1, ![p].prevSize = ps, ![p].go_back = TRUE]
      BY <2>1, <1>6
    <2>4. w \in [Producers -> ProducerLocals] /\ w[p] \in ProducerLocals /\ k - 1 \in Nat
      BY <1>1, <1>8 DEF CallType
    <2>. DEFINE l == [w[p] EXCEPT !.tempTail = k - 1, !.prevSize = ps, !.go_back = TRUE]
    <2>5. w' = [w EXCEPT ![p] = l]
      BY <2>3, <2>4
    <2>6. /\ l \in ProducerLocals /\ l.ticket = w[p].ticket /\ l.loc = w[p].loc
          /\ l.tempTail = k - 1 /\ l.prevSize = ps
      BY <2>2, <2>4 DEF ProducerLocals
    <2>. HIDE DEF l
    <2>. QED
      BY <2>2, <2>4, <2>5, <2>6
  <1>12. UNCHANGED <<mem, tailOfQueue, gTail, sent, before, Consumer>>
    BY DEF WalkBack, Calls
  <1>13. ppc'[p] = s /\ \A q \in Producers : q # p => ppc'[q] = ppc[q]
    BY <1>1, <1>10 DEF CallType
  <1>14. Moves(p)
    <2>1. s \in {"tail", "walk", "data", "flag"} \cup Moving
      BY <1>10 DEF Moving
    <2>2. p \in Open'
      BY <1>10, <1>13 DEF Open
    <2>. QED
      BY <1>2, <1>10, <1>11, <1>12, <2>1, <2>2 DEF Moves, mem, Consumer
  <1>15. Linked' = Linked /\ H' = H /\ next' = next /\ gTail' = gTail /\ data' = data
    BY <1>12 DEF mem, Linked, Consumer, H
  <1>16. CallType' /\ Claims' /\ Contents' /\ Order'
    BY <1>10, <1>13, <1>14, <1>15, MovesCommon
  <1>17. MemType' /\ Chain' /\ Reachable'
    BY <1>1, <1>12, <1>15 DEF MemType, Chain, Reachable, InUse, mem, Consumer
  <1>18. AllPlaced'
    <2>1. \A q \in Holding' : q # p => Placed(q)'
      BY <1>3, <1>11, <1>13, <1>15, PlacedOthers
    <2>2. Placed(p)'
      BY <1>7, <1>9, <1>10, <1>11, <1>13, <1>15 DEF Placed, InUse, Moving
    <2>. QED
      BY <2>1, <2>2 DEF AllPlaced
  <1>. QED
    BY <1>14, <1>16, <1>17, <1>18 DEF Common

LEMMA LoadNextCommon ==
  ASSUME NoWrap, Common, NEW p \in Producers, LoadNext(p) PROVE Common' /\ Moves(p)
  <1>. DEFINE k == w[p].tempTail
  <1>1. CallType /\ MemType /\ Chain /\ Reachable /\ Placed(p)
    BY DEF Common, AllPlaced, Holding, LoadNext, Goto
  <1>2. ppc[p] = "next" /\ p \in Open /\ p \in Holding
    BY DEF LoadNext, Goto, Open, Holding
  <1>3. k \in Linked /\ k \in Buffers /\ k \in Nat /\ gTail \in Nat /\ next[k] \in Nat
    BY <1>1, <1>2, HolderFacts DEF MemType
  <1>4. PICK s \in {"alloc", "castail"} :
          /\ ppc' = [ppc EXCEPT ![p] = s]
          /\ s = "castail" => next[k] = k + 1
    BY <1>1, <1>3 DEF LoadNext, Goto, NoNext, Chain
  <1>5. /\ w' \in [Producers -> ProducerLocals]
        /\ w'[p].ticket = w[p].ticket /\ w'[p].loc = w[p].loc
        /\ w'[p].tempTail = k /\ w'[p].prevSize = w[p].prevSize /\ w'[p].nxt = next[k]
        /\ \A q \in Producers : q # p => w'[q] = w[q]
    BY <1>1, <1>3 DEF LoadNext, ProducerLocals, CallType
  <1>6. UNCHANGED <<mem, tailOfQueue, gTail, sent, before, Consumer>>
    BY DEF LoadNext, Calls
  <1>7. ppc'[p] = s /\ \A q \in Producers : q # p => ppc'[q] = ppc[q]
    BY <1>1, <1>4 DEF CallType
  <1>8. Moves(p)
    <2>1. s \in {"tail", "walk", "data", "flag"} \cup Moving
      BY DEF Moving
    <2>2. p \in Open'
      BY <1>4, <1>7 DEF Open
    <2>. QED
      BY <1>2, <1>4, <1>5, <1>6, <2>1, <2>2 DEF Moves, mem, Consumer
  <1>9. Linked' = Linked /\ H' = H /\ next' = next /\ gTail' = gTail /\ data' = data
    BY <1>6 DEF mem, Linked, Consumer, H
  <1>10. CallType' /\ Claims' /\ Contents' /\ Order'
    BY <1>4, <1>7, <1>8, <1>9, MovesCommon
  <1>11. MemType' /\ Chain' /\ Reachable'
    BY <1>1, <1>6, <1>9 DEF MemType, Chain, Reachable, InUse, mem, Consumer
  <1>12. AllPlaced'
    <2>1. \A q \in Holding' : q # p => Placed(q)'
      BY <1>3, <1>5, <1>7, <1>9, PlacedOthers
    <2>2. Placed(p)'
      BY <1>1, <1>2, <1>4, <1>5, <1>7, <1>9 DEF Placed, InUse, Moving
    <2>. QED
      BY <2>1, <2>2 DEF AllPlaced
  <1>. QED
    BY <1>8, <1>10, <1>11, <1>12 DEF Common

LEMMA SetTailCommon ==
  ASSUME NoWrap, Common, NEW p \in Producers, SetTail(p) \/ CasTail(p) PROVE Common' /\ Moves(p)
  <1>. DEFINE k == w[p].tempTail
  <1>1. CallType /\ MemType /\ Chain /\ Reachable /\ Placed(p)
    BY DEF Common, AllPlaced, Holding, SetTail, CasTail, Goto
  <1>2. ppc[p] \in {"settail", "castail"} /\ p \in Open /\ p \in Holding
    BY DEF SetTail, CasTail, Goto, Open, Holding
  <1>3. /\ k \in Linked /\ k \in Buffers /\ k \in Nat /\ gTail \in Nat /\ w[p].ticket < gTail
        /\ w[p].ticket \in Nat /\ First(k) \in Nat /\ H <= k
    BY <1>2, HolderFacts
  <1>4. next[k] = k + 1 /\ k + 1 \in Linked /\ First(k) + B <= w[p].ticket
    BY <1>1, <1>2, <1>3 DEF Placed, Moving, Chain, NULL
  <1>5. InUse(k + 1) /\ H <= k + 1
    BY <1>1, <1>3, <1>4, FirstStep, LinkedRange, BAssumption DEF InUse, Reachable
  <1>6. tailOfQueue' \in {tailOfQueue, k + 1}
    BY <1>1, <1>2 DEF SetTail, CasTail, Goto, Placed
  <1>7. UNCHANGED <<mem, w, gTail, sent, before, Consumer>> /\ ppc' = [ppc EXCEPT ![p] = "tail"]
    BY DEF SetTail, CasTail, Calls, Goto
  <1>8. ppc'[p] = "tail" /\ \A q \in Producers : q # p => ppc'[q] = ppc[q]
    BY <1>1, <1>7 DEF CallType
  <1>9. Moves(p)
    <2>1. p \in Open'
      BY <1>8 DEF Open
    <2>. QED
      BY <1>1, <1>2, <1>7, <2>1 DEF Moves, mem, Consumer, CallType
  <1>10. Linked' = Linked /\ H' = H /\ next' = next /\ gTail' = gTail /\ data' = data
    BY <1>7 DEF mem, Linked, Consumer, H
  <1>11. CallType' /\ Claims' /\ Contents' /\ Order'
    BY <1>8, <1>9, <1>10, MovesCommon
  <1>12. MemType' /\ Chain'
    BY <1>1, <1>7, <1>10 DEF MemType, Chain, mem, Consumer
  <1>13. Reachable'
    BY <1>1, <1>4, <1>5, <1>6, <1>7, <1>10 DEF Reachable, InUse, mem
  <1>14. AllPlaced'
    <2>1. \A q \in Holding' : q # p => Placed(q)'
      BY <1>3, <1>7, <1>8, <1>10, PlacedOthers
    <2>2. p \notin Holding'
      BY <1>8 DEF Holding
    <2>. QED
      BY <2>1, <2>2 DEF AllPlaced
  <1>. QED
    BY <1>9, <1>11, <1>12, <1>13, <1>14 DEF Common

\* Linking a buffer after k, which is in use, extends the list by at most one.
LEMMA LinkNewChain ==
  ASSUME MemType, Chain, Reachable, NEW k \in Linked, H <= k, k + 1 \in Buffers, LinkNew(k),
         UNCHANGED <<is_set, data, head, tailOfQueue, headOfQueue, gTail>>
  PROVE  /\ MemType' /\ Chain' /\ Reachable' /\ Linked' = Linked \cup {k + 1}
         /\ next'[k] = k + 1 /\ \A j \in Buffers : next[j] # NULL => next'[j] = next[j]
  <1>1. k \in Buffers /\ k \in Nat /\ k >= 1 /\ H \in Buffers /\ H \in Nat
    BY LinkedRange DEF Reachable
  <1>2. CASE next[k] # NULL
    <2>1. UNCHANGED <<next, prev, status>> /\ next[k] = k + 1 /\ k + 1 \in Linked
      BY <1>1, <1>2 DEF LinkNew, Chain
    <2>2. Linked' = Linked
      BY <2>1 DEF Linked
    <2>. QED
      BY <2>1, <2>2 DEF MemType, Chain, Reachable, InUse, H
  <1>3. CASE next[k] = NULL
    <2>1. /\ next' = [next EXCEPT ![k] = k + 1]
          /\ prev' = [prev EXCEPT ![k + 1] = k]
          /\ status' = [status EXCEPT ![k + 1] = "live"]
      BY <1>3 DEF LinkNew
    <2>2. MemType'
      BY <1>1, <2>1 DEF MemType
    <2>3. Linked' = Linked \cup {k + 1}
      BY <2>1 DEF Linked, MemType
    <2>4. k + 1 \notin Linked
      BY <1>1, <1>3 DEF Chain, NULL
    <2>5. \A j \in Buffers : j # k => next'[j] = next[j]
      BY <2>1 DEF MemType
    <2>6. next'[k] = k + 1
      BY <1>1, <2>1 DEF MemType
    <2>7. Chain'
      <3>1. 1 \in Linked'
        BY <2>3 DEF Chain
      <3>2. \A j \in Buffers : next'[j] # NULL => next'[j] = j + 1 /\ j + 1 \in Linked'
        BY <2>3, <2>5, <2>6 DEF Chain
      <3>3. ASSUME NEW j \in Buffers, NEW l \in Linked', j < l
            PROVE  j \in Linked' /\ next'[j] = j + 1
        <4>1. CASE l \in Linked
          BY <3>3, <4>1, <2>3, <2>5, <2>6 DEF Chain
        <4>2. CASE l = k + 1
          <5>1. j \in Nat /\ (j = k \/ j < k)
            BY <3>3, <4>2, <1>1, BufferRange
          <5>. QED
            BY <5>1, <2>3, <2>5, <2>6, <1>1 DEF Chain
        <4>. QED
          BY <4>1, <4>2, <2>3, <3>3
      <3>4. ASSUME NEW l \in Linked', l > 1 PROVE prev'[l] = l - 1
        <4>1. CASE l \in Linked
          <5>1. prev'[l] = prev[l]
            BY <4>1, <2>1, <2>4, LinkedRange DEF MemType
          <5>. QED
            BY <3>4, <4>1, <5>1 DEF Chain
        <4>2. CASE l = k + 1
          BY <4>2, <1>1, <2>1 DEF MemType
        <4>. QED
          BY <4>1, <4>2, <2>3, <3>4
      <3>. QED
        BY <3>1, <3>2, <3>3, <3>4 DEF Chain
    <2>8. Reachable'
      <3>1. \A j \in Buffers : status'[j] = IF j = k + 1 THEN "live" ELSE status[j]
        BY <2>1 DEF MemType
      <3>2. \A j \in Buffers : status'[j] = "freed" <=> j < H
        BY <3>1, <1>1 DEF Reachable
      <3>. QED
        BY <3>2, <2>3 DEF Reachable, InUse, H
    <2>. QED
      BY <2>2, <2>3, <2>5, <2>6, <2>7, <2>8, <1>3
  <1>. QED
    BY <1>2, <1>3

LEMMA AllocCommon ==
  ASSUME NoWrap, Common, NEW p \in Producers, Alloc(p) PROVE Common' /\ Moves(p)
  <1>. DEFINE k == w[p].tempTail
  <1>1. CallType /\ MemType /\ Chain /\ Reachable /\ Placed(p)
    BY DEF Common, AllPlaced, Holding, Alloc, Goto
  <1>2. ppc[p] = "alloc" /\ p \in Open /\ p \in Holding
    BY DEF Alloc, Goto, Open, Holding
  <1>3. /\ k \in Linked /\ k \in Buffers /\ k \in Nat /\ gTail \in Nat /\ H <= k
        /\ (k = 1 \/ First(k) < Total)
    BY <1>2, HolderFacts
  <1>4. PICK s \in {"settail", "tail"} : ppc' = [ppc EXCEPT ![p] = s]
    BY DEF Alloc, Goto
  <1>5. LinkNew(k) /\ UNCHANGED <<is_set, data, tailOfQueue, w, gTail, sent, before, Consumer>>
    BY DEF Alloc, Calls
  <1>6. ppc'[p] = s /\ \A q \in Producers : q # p => ppc'[q] = ppc[q]
    BY <1>1, <1>4 DEF CallType
  <1>7. k + 1 \in Buffers
    BY <1>3, Room
  <1>8. /\ MemType' /\ Chain' /\ Reachable' /\ Linked' = Linked \cup {k + 1}
        /\ next'[k] = k + 1 /\ \A j \in Buffers : next[j] # NULL => next'[j] = next[j]
    BY <1>1, <1>3, <1>5, <1>7, LinkNewChain DEF Consumer
  <1>9. Moves(p)
    <2>1. p \in Open'
      BY <1>4, <1>6 DEF Open
    <2>. QED
      BY <1>1, <1>2, <1>4, <1>5, <2>1 DEF Moves, Consumer, CallType, Moving
  <1>10. Linked \subseteq Linked' /\ H' = H /\ gTail' = gTail /\ data' = data
    BY <1>5, <1>8 DEF Consumer, H
  <1>11. CallType' /\ Claims' /\ Contents' /\ Order'
    BY <1>4, <1>6, <1>9, <1>10, MovesCommon
  <1>12. AllPlaced'
    <2>1. \A q \in Holding' : q # p => Placed(q)'
      BY <1>3, <1>5, <1>6, <1>8, <1>10, PlacedOthers
    <2>2. Placed(p)'
      BY <1>1, <1>2, <1>4, <1>5, <1>6, <1>8, <1>10 DEF Placed, InUse, Moving
    <2>. QED
      BY <2>1, <2>2 DEF AllPlaced
  <1>. QED
    BY <1>9, <1>8, <1>11, <1>12 DEF Common

\* A producer about to store has the free slot of its location.
LEMMA CellFacts ==
  ASSUME Common, NEW p \in Producers, ppc[p] \in {"data", "flag"}
  PROVE  /\ p \in Open /\ p \in Holding /\ w[p].tempTail \in Buffers /\ w[p].tempTail \in Linked
         /\ Index(p) \in Slots /\ First(w[p].tempTail) + Index(p) = w[p].ticket
         /\ is_set[w[p].tempTail][Index(p)] = 0
  <1>. DEFINE k == w[p].tempTail
  <1>1. p \in Open /\ p \in Holding
    BY DEF Open, Holding
  <1>2. /\ k \in Linked /\ k \in Buffers /\ w[p].ticket \in Nat /\ First(k) \in Nat
        /\ w[p].loc = w[p].ticket /\ w[p].prevSize = First(k)
    BY <1>1, HolderFacts
  <1>3. First(k) <= w[p].ticket /\ w[p].ticket < First(k) + B
    BY <1>1 DEF Common, AllPlaced, Placed
  <1>4. Index(p) \in Slots /\ First(k) + Index(p) = w[p].ticket
    BY <1>2, <1>3, BAssumption DEF Index, Slots
  <1>5. ~ Filled(w[p].ticket)
    BY <1>1 DEF Filled
  <1>6. is_set[k][Index(p)] = 0
    BY <1>2, <1>4, <1>5 DEF Common, Contents
  <1>. QED
    BY <1>1, <1>2, <1>4, <1>6

LEMMA StoreDataCommon ==
  ASSUME NoWrap, Common, NEW p \in Producers, StoreData(p) PROVE Common' /\ Moves(p)
  <1>. DEFINE k == w[p].tempTail
              x == Index(p)
  <1>1. CallType /\ MemType /\ Chain /\ Reachable /\ Contents /\ Order /\ Claims
    BY DEF Common
  <1>2. ppc[p] = "data" /\ ppc' = [ppc EXCEPT ![p] = "flag"]
    BY DEF StoreData, Goto
  <1>3. /\ p \in Open /\ p \in Holding /\ k \in Buffers /\ k \in Linked /\ x \in Slots
        /\ First(k) + x = w[p].ticket /\ is_set[k][x] = 0
    BY <1>2, CellFacts
  <1>4. Mine(p) \in Value /\ gTail \in Nat
    BY <1>3, HolderFacts
  <1>5. /\ data' = [data EXCEPT ![k][x] = Mine(p)]
        /\ UNCHANGED <<status, next, prev, is_set, tailOfQueue, w, gTail, sent, before, Consumer>>
    BY DEF StoreData, Calls, Mine
  <1>6. ppc'[p] = "flag" /\ \A q \in Producers : q # p => ppc'[q] = ppc[q]
    BY <1>1, <1>2 DEF CallType
  <1>7. Moves(p)
    <2>1. p \in Open'
      BY <1>6 DEF Open
    <2>. QED
      BY <1>1, <1>2, <1>3, <1>5, <2>1 DEF Moves, Consumer, CallType
  <1>8. /\ Open' = Open /\ Stored' = Stored /\ Started' = Started /\ Returned' = Returned
        /\ \A q \in Producers : q # p => Index(q)' = Index(q)
    BY <1>1, <1>7, MovesSets
  <1>9. Linked' = Linked /\ H' = H
    BY <1>5 DEF Linked, Consumer, H
  <1>10. /\ \A l \in Buffers, j \in Slots : is_set[l][j] # 0 => data'[l][j] = data[l][j]
         /\ data'[k][x] = Mine(p)
         /\ \A l \in Buffers, j \in Slots : (l # k \/ j # x) => data'[l][j] = data[l][j]
    <2>. HIDE DEF k, x
    <2>. QED
      BY <1>1, <1>3, <1>5 DEF MemType
  <1>11. MemType'
    <2>. HIDE DEF k, x
    <2>1. data' \in [Buffers -> [Slots -> Value \cup {NoData}]]
      BY <1>1, <1>3, <1>4, <1>5 DEF MemType
    <2>. QED
      BY <1>1, <1>5, <2>1 DEF MemType, Consumer
  <1>12. CallType'
    BY <1>1, <1>2, <1>5 DEF CallType, Moving, Consumer
  <1>13. Chain' /\ Reachable'
    BY <1>1, <1>5, <1>9 DEF Chain, Reachable, InUse
  <1>14. Claims'
    BY <1>1, <1>5, <1>8, <1>9 DEF Claims
  <1>15. AllPlaced'
    <2>1. \A q \in Holding' : q # p => Placed(q)'
      BY <1>4, <1>5, <1>6, <1>9, PlacedOthers
    <2>2. Placed(p)
      BY <1>3 DEF Common, AllPlaced
    <2>3. Placed(p)'
      BY <1>2, <1>5, <1>6, <1>9, <2>2 DEF Placed, InUse, Moving
    <2>. QED
      BY <2>1, <2>3 DEF AllPlaced
  <1>16. Contents'
    <2>1. \A t : Filled(t)' <=> Filled(t)
      BY <1>5, <1>8 DEF Filled
    <2>2. ASSUME NEW q \in Producers, ppc'[q] = "flag"
          PROVE  data'[w'[q].tempTail][Index(q)'] = Mine(q)'
      <3>1. CASE q = p
        BY <3>1, <1>5, <1>10 DEF Index, Mine
      <3>2. CASE q # p
        <4>1. ppc[q] = "flag" /\ Index(q)' = Index(q) /\ w'[q].tempTail = w[q].tempTail
          BY <2>2, <3>2, <1>5, <1>6, <1>8
        <4>2. /\ q \in Open /\ w[q].tempTail \in Buffers /\ Index(q) \in Slots
              /\ First(w[q].tempTail) + Index(q) = w[q].ticket
          BY <4>1, CellFacts
        <4>3. w[q].tempTail # k \/ Index(q) # x
          BY <4>2, <1>1, <1>3, <3>2 DEF Claims
        <4>4. data'[w[q].tempTail][Index(q)] = data[w[q].tempTail][Index(q)]
          BY <4>2, <4>3, <1>10
        <4>. QED
          BY <4>1, <4>4, <1>1, <1>5 DEF Contents, Mine
      <3>. QED
        BY <3>1, <3>2
    <2>3. \A l \in Buffers, j \in Slots : is_set[l][j] # 0 => l \in Linked /\ data'[l][j] \in Stored
      BY <1>1, <1>10 DEF Contents
    <2>4. \A v \in Stored : \E l \in Buffers, j \in Slots : is_set[l][j] # 0 /\ data'[l][j] = v
      BY <1>1, <1>10 DEF Contents
    <2>5. \A l, m \in Buffers, i, j \in Slots :
            is_set[l][i] # 0 /\ is_set[m][j] # 0 /\ data'[l][i] = data'[m][j] => l = m /\ i = j
      BY <1>1, <1>10 DEF Contents
    <2>6. \A l \in Buffers, i \in Slots : is_set[l][i] # 0 <=> Filled(First(l) + i)
      BY <1>1 DEF Contents
    <2>. QED
      BY <1>5, <1>8, <1>9, <2>1, <2>2, <2>3, <2>4, <2>5, <2>6 DEF Contents
  <1>17. Order'
    BY <1>1, <1>5, <1>8, <1>10 DEF Order, Mine
  <1>. QED
    BY <1>7, <1>11, <1>12, <1>13, <1>14, <1>15, <1>16, <1>17 DEF Common

\* What storing the flag does.
LEMMA StoreFlagSets ==
  ASSUME Common, NEW p \in Producers, StoreFlag(p)
  PROVE  /\ ppc[p] = "flag" /\ ppc'[p] \in {"grow", "idle"}
         /\ \A q \in Producers : q # p => ppc'[q] = ppc[q] /\ w'[q] = w[q]
         /\ ppc'[p] = "grow" => w' = w
         /\ is_set' = [is_set EXCEPT ![w[p].tempTail][Index(p)] = 1]
         /\ UNCHANGED <<status, next, prev, data, tailOfQueue, gTail, sent, before, Consumer>>
         /\ Open' = Open \ {p} /\ Stored' = Stored \cup {Mine(p)} /\ Started' = Started
         /\ Returned \subseteq Returned' /\ CallType'
  <1>1. CallType /\ p \in Open
    BY DEF Common, StoreFlag, Goto, Open
  <1>2. PICK s \in {"grow", "idle"} :
          /\ ppc[p] = "flag" /\ ppc' = [ppc EXCEPT ![p] = s]
          /\ w' = IF s = "grow" THEN w ELSE [w EXCEPT ![p] = NoCall]
    BY DEF StoreFlag, Goto
  <1>3. ppc'[p] = s /\ \A q \in Producers : q # p => ppc'[q] = ppc[q] /\ w'[q] = w[q]
    BY <1>1, <1>2 DEF CallType
  <1>4. /\ is_set' = [is_set EXCEPT ![w[p].tempTail][Index(p)] = 1]
        /\ UNCHANGED <<status, next, prev, data, tailOfQueue, gTail, sent, before, Consumer>>
    BY DEF StoreFlag, Calls
  <1>5. Open' = Open \ {p}
    BY <1>3 DEF Open
  <1>6. Mine(p) \in Value /\ sent[p] \in Nat
    BY <1>1, HolderFacts
  <1>7. Stored' = Stored \cup {Mine(p)}
    <2>1. \A v \in Value : v[1] = p /\ v[2] = sent[p] <=> v = Mine(p)
      BY ValueParts DEF Mine
    <2>2. \A v \in Value : v \in Stored' <=> (v \in Stored \/ v = Mine(p))
      <3>1. \A v \in Value : v \in Stored' <=> (v[2] < sent[v[1]] \/ (v[2] = sent[v[1]] /\ v[1] \notin Open'))
        BY <1>4 DEF Stored
      <3>2. \A v \in Value : v \in Stored <=> (v[2] < sent[v[1]] \/ (v[2] = sent[v[1]] /\ v[1] \notin Open))
        BY DEF Stored
      <3>. QED
        BY <3>1, <3>2, <2>1, <1>5
    <2>3. Stored \subseteq Value /\ Stored' \subseteq Value
      BY DEF Stored
    <2>. QED
      BY <1>6, <2>2, <2>3
  <1>8. Started' = Started
    BY <1>4 DEF Started
  <1>9. Returned \subseteq Returned'
    <2>1. \A v \in Value : ppc[v[1]] = "idle" => ppc'[v[1]] = "idle"
      BY <1>2, <1>3, ValueParts
    <2>. QED
      BY <1>4, <2>1 DEF Returned
  <1>10. CallType'
    <2>1. NoCall \in ProducerLocals
      BY DEF NoCall, ProducerLocals, NULL
    <2>2. w' \in [Producers -> ProducerLocals]
      BY <1>1, <1>2, <2>1 DEF CallType
    <2>. QED
      BY <1>1, <1>2, <1>4, <2>2 DEF CallType, Consumer
  <1>. QED
    BY <1>2, <1>3, <1>4, <1>5, <1>7, <1>8, <1>9, <1>10

LEMMA StoreFlagCommon ==
  ASSUME NoWrap, Common, NEW p \in Producers, StoreFlag(p) PROVE Common'
  <1>. DEFINE k == w[p].tempTail
              x == Index(p)
              m == Mine(p)
  <1>1. CallType /\ MemType /\ Chain /\ Reachable /\ Contents /\ Order /\ Claims
    BY DEF Common
  <1>2. /\ ppc[p] = "flag" /\ ppc'[p] \in {"grow", "idle"}
        /\ \A q \in Producers : q # p => ppc'[q] = ppc[q] /\ w'[q] = w[q]
        /\ ppc'[p] = "grow" => w' = w
        /\ is_set' = [is_set EXCEPT ![k][x] = 1]
        /\ UNCHANGED <<status, next, prev, data, tailOfQueue, gTail, sent, before, Consumer>>
        /\ Open' = Open \ {p} /\ Stored' = Stored \cup {m} /\ Started' = Started
        /\ Returned \subseteq Returned' /\ CallType'
    BY StoreFlagSets
  <1>3. /\ p \in Open /\ p \in Holding /\ k \in Buffers /\ k \in Linked /\ x \in Slots
        /\ First(k) + x = w[p].ticket /\ is_set[k][x] = 0
    BY <1>2, CellFacts
  <1>4. m \in Value /\ gTail \in Nat /\ m \notin Stored /\ m \notin Returned /\ w[p].ticket < gTail
    BY <1>3, HolderFacts
  <1>5. data[k][x] = m
    BY <1>1, <1>2 DEF Contents
  <1>6. Linked' = Linked /\ H' = H
    BY <1>2 DEF Linked, Consumer, H
  <1>7. Open \subseteq Producers
    BY DEF Open
  <1>. HIDE DEF k, x, m
  <1>8. /\ is_set'[k][x] = 1 /\ MemType'
        /\ \A l \in Buffers, j \in Slots : (l # k \/ j # x) => is_set'[l][j] = is_set[l][j]
    <2>1. is_set' \in [Buffers -> [Slots -> {0, 1, 2}]]
      BY <1>1, <1>2, <1>3 DEF MemType
    <2>2. MemType'
      BY <1>1, <1>2, <2>1 DEF MemType, Consumer
    <2>. QED
      BY <1>1, <1>2, <1>3, <2>2 DEF MemType
  <1>9. \A l \in Buffers, j \in Slots : is_set'[l][j] # 0 <=> (is_set[l][j] # 0 \/ (l = k /\ j = x))
    BY <1>3, <1>8
  <1>10. Chain' /\ Reachable'
    BY <1>1, <1>2, <1>6 DEF Chain, Reachable, InUse
  <1>11. Claims'
    BY <1>1, <1>2, <1>6, <1>7 DEF Claims
  <1>12. AllPlaced'
    <2>1. \A q \in Holding' : q # p => Placed(q)'
      BY <1>2, <1>4, <1>6, PlacedOthers
    <2>2. Placed(p)
      BY <1>3 DEF Common, AllPlaced
    <2>3. ppc'[p] = "grow" => Placed(p)'
      BY <1>2, <1>6, <2>2 DEF Placed, InUse, Moving
    <2>4. p \in Holding' => ppc'[p] = "grow"
      BY <1>2 DEF Holding
    <2>. QED
      BY <2>1, <2>3, <2>4 DEF AllPlaced
  <1>13. Contents'
    <2>1. \A t : Filled(t)' <=> (Filled(t) \/ t = w[p].ticket)
      <3>1. \A q \in Open : q # p => w'[q].ticket = w[q].ticket /\ w[q].ticket # w[p].ticket
        BY <1>1, <1>2, <1>3, <1>7 DEF Claims
      <3>. QED
        BY <3>1, <1>2, <1>3, <1>4 DEF Filled
    <2>2. \A l \in Buffers, j \in Slots : is_set'[l][j] # 0 <=> Filled(First(l) + j)'
      <3>1. \A l \in Buffers, j \in Slots : First(l) + j = w[p].ticket <=> (l = k /\ j = x)
        BY <1>3, TicketUnique, BufferRange
      <3>2. \A l \in Buffers, j \in Slots : is_set[l][j] # 0 <=> Filled(First(l) + j)
        BY <1>1 DEF Contents
      <3>. QED
        BY <3>1, <3>2, <2>1, <1>9
    <2>3. \A l \in Buffers, j \in Slots : is_set'[l][j] # 0 => l \in Linked' /\ data'[l][j] \in Stored'
      BY <1>1, <1>2, <1>3, <1>5, <1>6, <1>9 DEF Contents
    <2>4. \A v \in Stored' : \E l \in Buffers, j \in Slots : is_set'[l][j] # 0 /\ data'[l][j] = v
      BY <1>1, <1>2, <1>3, <1>5, <1>9 DEF Contents
    <2>5. \A l, n \in Buffers, i, j \in Slots :
            is_set'[l][i] # 0 /\ is_set'[n][j] # 0 /\ data'[l][i] = data'[n][j] => l = n /\ i = j
      <3>1. \A l \in Buffers, j \in Slots : is_set[l][j] # 0 => data[l][j] # m
        BY <1>1, <1>4 DEF Contents
      <3>. QED
        BY <3>1, <1>1, <1>2, <1>5, <1>9 DEF Contents
    <2>6. \A q \in Producers : ppc'[q] = "flag" => data'[w'[q].tempTail][Index(q)'] = Mine(q)'
      BY <1>1, <1>2 DEF Contents, Mine, Index
    <2>. QED
      BY <2>2, <2>3, <2>4, <2>5, <2>6 DEF Contents
  <1>14. Order'
    <2>1. \A v \in Value : before'[v] \subseteq Returned'
      BY <1>1, <1>2 DEF Order
    <2>2. \A v \in Value : m \notin before[v]
      BY <1>1, <1>4 DEF Order
    <2>3. \A l \in Buffers, j \in Slots : is_set[l][j] # 0 => data[l][j] \in Value
      BY <1>1 DEF Contents, Stored
    <2>4. ASSUME NEW l \in Buffers, NEW n \in Buffers, NEW i \in Slots, NEW j \in Slots,
                 is_set'[l][i] # 0, is_set'[n][j] # 0, data'[l][i] \in before'[data'[n][j]]
          PROVE  First(l) + i < First(n) + j
      <3>1. data'[n][j] \in Value
        BY <2>3, <2>4, <1>2, <1>4, <1>5, <1>9
      <3>2. is_set[l][i] # 0
        BY <3>1, <2>2, <2>4, <1>2, <1>5, <1>9
      <3>3. CASE is_set[n][j] # 0
        BY <3>2, <3>3, <2>4, <1>1, <1>2 DEF Order
      <3>4. CASE n = k /\ j = x
        BY <3>2, <3>4, <2>4, <1>1, <1>2, <1>3, <1>5 DEF Order, m
      <3>. QED
        BY <3>3, <3>4, <2>4, <1>9
    <2>5. ASSUME NEW q \in Open', NEW l \in Buffers, NEW i \in Slots,
                 is_set'[l][i] # 0, data'[l][i] \in before'[Mine(q)']
          PROVE  First(l) + i < w'[q].ticket
      <3>1. q \in Open /\ q # p /\ w'[q] = w[q] /\ Mine(q)' = Mine(q)
        BY <1>2, <1>7 DEF Mine
      <3>2. Mine(q) \in Value
        BY <3>1, <1>7, HolderFacts
      <3>3. is_set[l][i] # 0
        BY <3>1, <3>2, <2>2, <2>5, <1>2, <1>5, <1>9
      <3>. QED
        BY <3>1, <3>3, <2>5, <1>1, <1>2 DEF Order
    <2>6. \A v \in Started' : \A n \in 1 .. v[2] - 1 : <<v[1], n>> \in before'[v]
      BY <1>1, <1>2 DEF Order
    <2>. QED
      BY <2>1, <2>4, <2>5, <2>6 DEF Order
  <1>. QED
    BY <1>2, <1>8, <1>10, <1>11, <1>12, <1>13, <1>14 DEF Common

LEMMA GrowCommon ==
  ASSUME NoWrap, Common, NEW p \in Producers, Grow(p)
  PROVE  Common' /\ Open' = Open /\ Stored' = Stored /\ Holding' = Holding \ {p}
  <1>. DEFINE k == w[p].tempTail
  <1>1. CallType /\ MemType /\ Chain /\ Reachable /\ Contents /\ Order /\ Claims
    BY DEF Common
  <1>2. ppc[p] = "grow" /\ ppc' = [ppc EXCEPT ![p] = "idle"] /\ p \in Holding
    BY DEF Grow, Goto, Holding
  <1>3. LinkNew(k) /\ w' = [w EXCEPT ![p] = NoCall]
    BY DEF Grow
  <1>4. UNCHANGED <<is_set, data, tailOfQueue, gTail, sent, before, Consumer>>
    BY DEF Grow, Calls
  <1>5. ppc'[p] = "idle" /\ \A q \in Producers : q # p => ppc'[q] = ppc[q] /\ w'[q] = w[q]
    BY <1>1, <1>2, <1>3 DEF CallType
  <1>6. Placed(p)
    BY <1>2 DEF Common, AllPlaced
  <1>7. k \in Linked /\ k \in Buffers /\ H <= k /\ k + 1 \in Buffers /\ gTail \in Nat
    <2>1. k \in Linked /\ H <= k /\ InUse(k)
      BY <1>6 DEF Placed
    <2>2. k \in Buffers /\ (k = 1 \/ First(k) < Total)
      BY <2>1, <1>1, TotalBound, ValueFinite, LinkedRange DEF InUse, CallType
    <2>. QED
      BY <2>1, <2>2, <1>1, Room DEF CallType
  <1>8. /\ MemType' /\ Chain' /\ Reachable' /\ Linked' = Linked \cup {k + 1}
        /\ \A j \in Buffers : next[j] # NULL => next'[j] = next[j]
    BY <1>1, <1>3, <1>4, <1>7, LinkNewChain DEF Consumer
  <1>9. Open' = Open /\ Holding' = Holding \ {p} /\ Open \subseteq Producers /\ p \notin Open
    BY <1>2, <1>5 DEF Open, Holding
  <1>10. Stored' = Stored /\ Started' = Started
    BY <1>4, <1>9 DEF Stored, Started
  <1>11. Returned \subseteq Returned'
    <2>1. \A v \in Value : ppc[v[1]] = "idle" => ppc'[v[1]] = "idle"
      BY <1>2, <1>5, ValueParts
    <2>. QED
      BY <1>4, <2>1 DEF Returned
  <1>12. CallType'
    <2>1. NoCall \in ProducerLocals
      BY DEF NoCall, ProducerLocals, NULL
    <2>. QED
      BY <1>1, <1>2, <1>3, <1>4, <2>1 DEF CallType, Consumer
  <1>13. \A q \in Open : w'[q] = w[q]
    BY <1>5, <1>9
  <1>14. H' = H /\ Linked \subseteq Linked'
    BY <1>4, <1>8 DEF Consumer, H
  <1>15. Claims'
    BY <1>1, <1>4, <1>9, <1>10, <1>13, <1>14 DEF Claims
  <1>16. AllPlaced'
    <2>1. \A q \in Holding' : q # p => Placed(q)'
      BY <1>4, <1>5, <1>7, <1>8, <1>14, PlacedOthers
    <2>. QED
      BY <2>1, <1>9 DEF AllPlaced
  <1>17. Contents'
    <2>1. \A t : Filled(t)' <=> Filled(t)
      BY <1>4, <1>9, <1>13 DEF Filled
    <2>2. \A q \in Producers : ppc'[q] = "flag" => data'[w'[q].tempTail][Index(q)'] = Mine(q)'
      BY <1>1, <1>4, <1>5 DEF Contents, Mine, Index
    <2>. QED
      BY <1>1, <1>4, <1>10, <1>14, <2>1, <2>2 DEF Contents
  <1>18. Order'
    BY <1>1, <1>4, <1>9, <1>10, <1>11, <1>13 DEF Order, Mine
  <1>. QED
    BY <1>8, <1>9, <1>10, <1>12, <1>15, <1>16, <1>17, <1>18 DEF Common

\* What starting a call does.
LEMMA FetchAddSets ==
  ASSUME NoWrap, Common, NEW p \in Producers, FetchAdd(p)
  PROVE  /\ ppc[p] = "idle" /\ ppc'[p] = "tail" /\ p \notin Open /\ p \notin Holding
         /\ \A q \in Producers : q # p => ppc'[q] = ppc[q] /\ w'[q] = w[q]
         /\ w'[p].ticket = gTail /\ w'[p].loc = gTail /\ gTail' = gTail + 1
         /\ Open' = Open \cup {p} /\ Holding' = Holding /\ Stored' = Stored /\ Returned' = Returned
         /\ <<p, sent[p] + 1>> \in Value \ Started
         /\ Started' = Started \cup {<<p, sent[p] + 1>>}
         /\ before' = [before EXCEPT ![<<p, sent[p] + 1>>] = Returned]
         /\ sent' = [sent EXCEPT ![p] = @ + 1] /\ gTail < Total
         /\ UNCHANGED <<mem, tailOfQueue, Consumer>> /\ CallType' /\ gTail' = Cardinality(Started')
  <1>. DEFINE new == <<p, sent[p] + 1>>
  <1>1. CallType /\ Claims
    BY DEF Common
  <1>2. /\ ppc[p] = "idle" /\ ppc' = [ppc EXCEPT ![p] = "tail"] /\ sent[p] < Quota[p]
        /\ gTail' = gTail + 1 /\ before' = [before EXCEPT ![new] = Returned]
        /\ w' = [w EXCEPT ![p] = [NoCall EXCEPT !.ticket = gTail, !.loc = UInt(gTail)]]
        /\ sent' = [sent EXCEPT ![p] = @ + 1] /\ UNCHANGED <<mem, tailOfQueue, Consumer>>
    BY DEF FetchAdd, Goto
  <1>3. /\ ppc'[p] = "tail" /\ \A q \in Producers : q # p => ppc'[q] = ppc[q] /\ w'[q] = w[q]
        /\ sent[p] \in Nat /\ Quota[p] \in Nat /\ sent'[p] = sent[p] + 1
        /\ \A q \in Producers : q # p => sent'[q] = sent[q]
    BY <1>1, <1>2, QuotaAssumption DEF CallType
  <1>4. p \notin Open /\ p \notin Holding /\ Open' = Open \cup {p} /\ Holding' = Holding
    BY <1>2, <1>3 DEF Open, Holding
  <1>5. new \in Value \ Started
    <2>1. new \in Value
      BY <1>2, <1>3, ValueIs
    <2>. QED
      BY <2>1, <1>3 DEF Started
  <1>6. \A v \in Value : v[1] = p /\ v[2] = sent[p] + 1 <=> v = new
    BY ValueParts
  <1>7. Started' = Started \cup {new}
    <2>1. \A v \in Value : v \in Started' <=> (v \in Started \/ v = new)
      <3>1. \A v \in Value : v \in Started' <=> v[2] <= sent'[v[1]]
        BY DEF Started
      <3>2. \A v \in Value : v \in Started <=> v[2] <= sent[v[1]]
        BY DEF Started
      <3>. QED
        BY <3>1, <3>2, <1>3, <1>6, ValueParts
    <2>2. Started \subseteq Value /\ Started' \subseteq Value
      BY DEF Started
    <2>. QED
      BY <1>5, <2>1, <2>2
  <1>8. Stored' = Stored
    <2>1. \A v \in Value : v \in Stored' <=> v \in Stored
      <3>1. \A v \in Value : v \in Stored' <=> (v[2] < sent'[v[1]] \/ (v[2] = sent'[v[1]] /\ v[1] \notin Open'))
        BY DEF Stored
      <3>2. \A v \in Value : v \in Stored <=> (v[2] < sent[v[1]] \/ (v[2] = sent[v[1]] /\ v[1] \notin Open))
        BY DEF Stored
      <3>. QED
        BY <3>1, <3>2, <1>3, <1>4, ValueParts
    <2>2. Stored \subseteq Value /\ Stored' \subseteq Value
      BY DEF Stored
    <2>. QED
      BY <2>1, <2>2
  <1>9. Returned' = Returned
    <2>1. \A v \in Value : v \in Returned' <=> v \in Returned
      <3>1. \A v \in Value : v \in Returned' <=> (v[2] < sent'[v[1]] \/ (v[2] = sent'[v[1]] /\ ppc'[v[1]] = "idle"))
        BY DEF Returned
      <3>2. \A v \in Value : v \in Returned <=> (v[2] < sent[v[1]] \/ (v[2] = sent[v[1]] /\ ppc[v[1]] = "idle"))
        BY DEF Returned
      <3>. QED
        BY <3>1, <3>2, <1>2, <1>3, ValueParts
    <2>2. Returned \subseteq Value /\ Returned' \subseteq Value
      BY DEF Returned
    <2>. QED
      BY <2>1, <2>2
  <1>10. gTail' = Cardinality(Started') /\ gTail < Total
    <2>1. Started \subseteq Value /\ Started' \subseteq Value /\ IsFiniteSet(Value)
      BY ValueFinite DEF Started
    <2>2. IsFiniteSet(Started) /\ Cardinality(Started') <= Total
      BY <2>1, FS_Subset DEF Total
    <2>3. Cardinality(Started') = Cardinality(Started) + 1
      BY <2>2, <1>5, <1>7, FS_AddElement
    <2>. QED
      BY <2>2, <2>3, <1>1, <1>2, ValueFinite DEF Claims, CallType
  <1>11. UInt(gTail) = gTail
    <2>1. gTail \in Nat /\ UIntMod \in Nat /\ Total \in Nat /\ B \in Nat
      BY <1>1, UIntModAssumption, BAssumption, ValueFinite DEF CallType
    <2>2. gTail < UIntMod
      BY <1>10, <2>1 DEF NoWrap
    <2>. QED
      BY <2>1, <2>2, SmallMod DEF UInt
  <1>12. /\ w'[p].ticket = gTail /\ w'[p].loc = gTail /\ w' \in [Producers -> ProducerLocals]
    <2>1. gTail \in Nat
      BY <1>1 DEF CallType
    <2>2. w' = [w EXCEPT ![p] = [NoCall EXCEPT !.ticket = gTail, !.loc = gTail]]
      BY <1>2, <1>11
    <2>3. [NoCall EXCEPT !.ticket = gTail, !.loc = gTail] \in ProducerLocals
      BY <2>1 DEF NoCall, ProducerLocals, NULL
    <2>4. w'[p] = [NoCall EXCEPT !.ticket = gTail, !.loc = gTail]
      BY <1>1, <2>2 DEF CallType
    <2>. QED
      BY <1>1, <2>2, <2>3, <2>4 DEF CallType, NoCall
  <1>13. CallType'
    <2>1. before' \in [Value -> SUBSET Value]
      BY <1>1, <1>2, <1>5 DEF CallType, Returned
    <2>2. sent' \in [Producers -> Nat] /\ \A q \in Producers : sent'[q] <= Quota[q]
      BY <1>1, <1>2, <1>3 DEF CallType
    <2>3. delivered' = delivered /\ c' = c
      BY <1>2 DEF Consumer
    <2>. QED
      BY <1>1, <1>2, <1>12, <2>1, <2>2, <2>3 DEF CallType
  <1>. QED
    BY <1>2, <1>3, <1>4, <1>5, <1>7, <1>8, <1>9, <1>10, <1>12, <1>13

LEMMA FetchAddCommon ==
  ASSUME NoWrap, Common, NEW p \in Producers, FetchAdd(p) PROVE Common'
  <1>. DEFINE new == <<p, sent[p] + 1>>
  <1>1. CallType /\ MemType /\ Chain /\ Reachable /\ Contents /\ Order /\ Claims
    BY DEF Common
  <1>2. /\ ppc[p] = "idle" /\ ppc'[p] = "tail" /\ p \notin Open /\ p \notin Holding
        /\ \A q \in Producers : q # p => ppc'[q] = ppc[q] /\ w'[q] = w[q]
        /\ w'[p].ticket = gTail /\ w'[p].loc = gTail /\ gTail' = gTail + 1
        /\ Open' = Open \cup {p} /\ Holding' = Holding /\ Stored' = Stored /\ Returned' = Returned
        /\ new \in Value \ Started /\ Started' = Started \cup {new}
        /\ before' = [before EXCEPT ![new] = Returned]
        /\ sent' = [sent EXCEPT ![p] = @ + 1] /\ gTail < Total
        /\ UNCHANGED <<mem, tailOfQueue, Consumer>> /\ CallType' /\ gTail' = Cardinality(Started')
    BY FetchAddSets
  <1>3. /\ gTail \in Nat /\ sent[p] \in Nat /\ sent'[p] = sent[p] + 1
        /\ \A q \in Producers : q # p => sent'[q] = sent[q]
        /\ before'[new] = Returned /\ \A v \in Value : v # new => before'[v] = before[v]
    BY <1>1, <1>2 DEF CallType
  <1>4. /\ Open \subseteq Producers /\ \A q \in Open : q # p
        /\ Mine(p)' = new /\ \A q \in Open : Mine(q)' = Mine(q) /\ Mine(q) # new /\ w'[q] = w[q]
    BY <1>2, <1>3 DEF Open, Mine
  <1>5. Linked' = Linked /\ H' = H
    BY <1>2 DEF Linked, mem, Consumer, H
  <1>6. First(H) <= gTail
    <2>1. H \in Nat /\ tailOfQueue \in Nat /\ First(H) \in Nat /\ First(tailOfQueue) \in Nat /\ H >= 1
          /\ H <= tailOfQueue /\ InUse(tailOfQueue)
      BY <1>1, LinkedRange DEF Reachable
    <2>2. H < tailOfQueue => First(H) + B <= First(tailOfQueue)
      BY <2>1, FirstMono
    <2>. QED
      BY <2>1, <2>2, <1>3, FirstOne, BAssumption DEF InUse
  <1>7. MemType' /\ Chain' /\ Reachable'
    <2>1. \A k \in Linked : InUse(k) => InUse(k)'
      BY <1>2, <1>3, LinkedRange DEF InUse
    <2>2. MemType' /\ Chain'
      BY <1>1, <1>2, <1>5 DEF MemType, Chain, mem, Consumer
    <2>3. status' = status /\ tailOfQueue' = tailOfQueue
      BY <1>2 DEF mem
    <2>4. InUse(tailOfQueue)'
      BY <2>1, <2>3, <1>1 DEF Reachable, InUse
    <2>. QED
      BY <2>2, <2>3, <2>4, <1>1, <1>5 DEF Reachable
  <1>8. Claims'
    <2>1. ASSUME NEW q \in Open'
          PROVE  /\ sent'[q] > 0 /\ w'[q].ticket < gTail' /\ w'[q].loc = w'[q].ticket
                 /\ First(H) <= w'[q].ticket
      <3>1. CASE q = p
        BY <3>1, <1>2, <1>3, <1>6
      <3>2. CASE q \in Open
        <4>1. /\ sent[q] > 0 /\ w[q].ticket < gTail /\ w[q].loc = w[q].ticket
              /\ First(H) <= w[q].ticket /\ w[q].ticket \in Nat
          BY <3>2, <1>4, HolderFacts
        <4>. QED
          BY <3>2, <4>1, <1>2, <1>3, <1>4
      <3>. QED
        BY <3>1, <3>2, <1>2
    <2>2. ASSUME NEW q \in Open', NEW r \in Open', w'[q].ticket = w'[r].ticket PROVE q = r
      <3>1. \A s \in Open : w'[s].ticket = w[s].ticket /\ w[s].ticket # gTail
        BY <1>1, <1>3, <1>4, HolderFacts
      <3>2. q \in Open /\ r \in Open => q = r
        BY <2>2, <3>1, <1>1 DEF Claims
      <3>. QED
        BY <2>2, <3>1, <3>2, <1>2
    <2>. QED
      BY <2>1, <2>2, <1>2, <1>5 DEF Claims
  <1>9. AllPlaced'
    <2>1. \A q \in Holding' : q # p => Placed(q)'
      BY <1>2, <1>3, <1>5, PlacedOthers DEF mem
    <2>. QED
      BY <2>1, <1>2 DEF AllPlaced
  <1>10. \A l \in Buffers, j \in Slots : First(l) + j \in Nat
    BY BufferRange, FirstNat, BAssumption DEF Slots
  <1>11. Contents'
    <2>1. \A t \in Nat : Filled(t)' <=> Filled(t)
      BY <1>2, <1>3, <1>4 DEF Filled
    <2>2. \A q \in Producers : ppc'[q] = "flag" => data'[w'[q].tempTail][Index(q)'] = Mine(q)'
      <3>. SUFFICES ASSUME NEW q \in Producers, ppc'[q] = "flag"
                    PROVE  data'[w'[q].tempTail][Index(q)'] = Mine(q)'
        OBVIOUS
      <3>1. q # p /\ ppc[q] = "flag" /\ q \in Open
        BY <1>2 DEF Open
      <3>2. Mine(q)' = Mine(q) /\ w'[q] = w[q] /\ Index(q)' = Index(q)
        BY <3>1, <1>4 DEF Index
      <3>. QED
        BY <3>1, <3>2, <1>1, <1>2 DEF Contents, mem
    <2>3. is_set' = is_set /\ data' = data
      BY <1>2 DEF mem
    <2>. QED
      BY <1>1, <1>2, <1>5, <1>10, <2>1, <2>2, <2>3 DEF Contents
  <1>12. Order'
    <2>1. \A v \in Value : before'[v] \subseteq Returned'
      BY <1>1, <1>2, <1>3 DEF Order
    <2>2. is_set' = is_set /\ data' = data
      BY <1>2 DEF mem
    <2>3. Stored \subseteq Started /\ Started \subseteq Value
      BY <1>1 DEF Stored, Started, CallType, Value
    <2>4. \A l \in Buffers, j \in Slots : is_set[l][j] # 0 => data[l][j] \in Value /\ data[l][j] # new
      BY <1>1, <1>2, <2>3 DEF Contents
    <2>5. \A k, l \in Buffers, i, j \in Slots :
            is_set'[k][i] # 0 /\ is_set'[l][j] # 0 /\ data'[k][i] \in before'[data'[l][j]] =>
              First(k) + i < First(l) + j
      BY <2>2, <2>4, <1>1, <1>3 DEF Order
    <2>6. ASSUME NEW q \in Open', NEW l \in Buffers, NEW i \in Slots,
                 is_set'[l][i] # 0, data'[l][i] \in before'[Mine(q)']
          PROVE  First(l) + i < w'[q].ticket
      <3>1. CASE q = p
        <4>1. Filled(First(l) + i)
          BY <2>2, <2>6, <1>1 DEF Contents
        <4>. QED
          BY <3>1, <4>1, <1>2 DEF Filled
      <3>2. CASE q \in Open
        <4>1. Mine(q) \in Value
          BY <3>2, <1>4, HolderFacts
        <4>. QED
          BY <3>2, <4>1, <2>2, <2>6, <1>1, <1>3, <1>4 DEF Order
      <3>. QED
        BY <3>1, <3>2, <1>2
    <2>7. ASSUME NEW v \in Started', NEW n \in 1 .. v[2] - 1 PROVE <<v[1], n>> \in before'[v]
      <3>1. CASE v = new
        <4>1. n \in Nat /\ n >= 1 /\ n <= sent[p]
          BY <3>1, <1>3
        <4>2. <<p, n>> \in Value
          BY <4>1, <1>1, <1>3, ValueIs, QuotaAssumption DEF CallType
        <4>3. <<p, n>> \in Returned
          BY <4>1, <4>2, <1>2, <1>3 DEF Returned
        <4>. QED
          BY <3>1, <4>3, <1>3
      <3>2. CASE v \in Started
        BY <3>2, <2>3, <1>1, <1>2, <1>3 DEF Order
      <3>. QED
        BY <3>1, <3>2, <1>2
    <2>. QED
      BY <2>1, <2>5, <2>6, <2>7 DEF Order
  <1>. QED
    BY <1>2, <1>7, <1>8, <1>9, <1>11, <1>12 DEF Common

LEMMA ProduceCommon ==
  ASSUME NoWrap, Common, NEW p \in Producers, Produce(p) PROVE Common'
  BY FetchAddCommon, LoadTailCommon, WalkBackCommon, StoreDataCommon, StoreFlagCommon,
     GrowCommon, LoadNextCommon, AllocCommon, SetTailCommon DEF Produce, enqueueStep

\* A step of the consumer that frees nothing.
LEMMA ConsumeCommon ==
  ASSUME Common, UNCHANGED <<Producer, status, next, headOfQueue>>,
         head' \in [Buffers -> 0 .. B], is_set' \in [Buffers -> [Slots -> {0, 1, 2}]],
         delivered' \in [Value -> Nat], c' \in ConsumerLocals,
         \A k \in Buffers, i \in Slots : is_set'[k][i] # 0 <=> is_set[k][i] # 0
  PROVE  Common' /\ Open' = Open /\ Holding' = Holding /\ Stored' = Stored /\ Linked' = Linked
  <1>1. UNCHANGED <<ppc, w, gTail, sent, before, tailOfQueue, prev, data, status, next, headOfQueue>>
    BY DEF Producer
  <1>2. /\ Open' = Open /\ Holding' = Holding /\ Linked' = Linked /\ H' = H
        /\ Started' = Started /\ Returned' = Returned
    BY <1>1 DEF Open, Holding, Linked, Started, Returned, H
  <1>3. Stored' = Stored
    BY <1>1, <1>2 DEF Stored
  <1>4. MemType' /\ CallType'
    BY <1>1 DEF Common, MemType, CallType
  <1>5. Chain' /\ Reachable' /\ Claims'
    BY <1>1, <1>2 DEF Common, Chain, Reachable, Claims, InUse
  <1>6. AllPlaced'
    BY <1>1, <1>2 DEF Common, AllPlaced, Placed, InUse
  <1>7. Contents'
    <2>1. \A t : Filled(t)' <=> Filled(t)
      BY <1>1, <1>2 DEF Filled
    <2>2. \A q \in Producers : ppc'[q] = "flag" => data'[w'[q].tempTail][Index(q)'] = Mine(q)'
      BY <1>1 DEF Common, Contents, Mine, Index
    <2>. QED
      BY <1>1, <1>2, <1>3, <2>1, <2>2 DEF Common, Contents
  <1>8. Order'
    BY <1>1, <1>2 DEF Common, Order, Mine
  <1>. QED
    BY <1>2, <1>3, <1>4, <1>5, <1>6, <1>7, <1>8 DEF Common

LEMMA InitCommon == ASSUME NoWrap, Init PROVE Common
  <1>1. Buffers \subseteq Nat /\ 1 \in Buffers /\ \A k \in Buffers : k >= 1
    BY BufferRange
  <1>2. MemType
    BY <1>1, BAssumption DEF Init, MemType, NULL
  <1>3. CallType
    BY QuotaAssumption DEF Init, CallType, NoCall, NoDequeue, NULL, ProducerLocals, ConsumerLocals
  <1>4. Open = {} /\ Holding = {} /\ Linked = {1}
    BY <1>1 DEF Init, Open, Holding, Linked
  <1>5. Started = {} /\ Stored = {} /\ Returned = {}
    BY ValueParts DEF Init, Started, Stored, Returned
  <1>6. Chain /\ Reachable
    BY <1>1, <1>4 DEF Init, Chain, Reachable, InUse, NULL, H
  <1>7. Claims
    BY <1>4, <1>5, FS_EmptySet DEF Init, Claims
  <1>8. AllPlaced
    BY <1>4 DEF AllPlaced
  <1>9. \A k \in Buffers, i \in Slots : First(k) + i \in Nat /\ is_set[k][i] = 0
    BY BufferRange, FirstNat, BAssumption DEF Slots, Init
  <1>10. Contents
    BY <1>5, <1>9 DEF Init, Contents, Filled
  <1>11. Order
    BY <1>4, <1>5, <1>9 DEF Init, Order
  <1>. QED
    BY <1>2, <1>3, <1>6, <1>7, <1>8, <1>10, <1>11 DEF Common

----------------------------------------------------------------------------
(* What a step of a producer leaves alone                                  *)

\* What a step of a producer does to what others rely on.
LEMMA ProduceFacts ==
  ASSUME NoWrap, Common, NEW p \in Producers, Produce(p)
  PROVE  /\ UNCHANGED <<Consumer, overlap, fault>> /\ H' = H
         /\ Linked \subseteq Linked' /\ Stored \subseteq Stored' /\ Returned \subseteq Returned'
         /\ gTail <= gTail'
         /\ \A k \in Buffers, i \in Slots : is_set[k][i] # 0 =>
              is_set'[k][i] = is_set[k][i] /\ data'[k][i] = data[k][i]
         /\ \A k \in Buffers, i \in Slots : is_set[k][i] = 0 /\ is_set'[k][i] # 0 =>
              /\ is_set'[k][i] = 1 /\ p \in Open /\ data'[k][i] = Mine(p)
              /\ First(k) + i = w[p].ticket /\ Stored' = Stored \cup {Mine(p)}
         /\ \A q \in Open' : IF q \in Open
              THEN w'[q].ticket = w[q].ticket /\ Mine(q)' = Mine(q) /\ before'[Mine(q)] = before[Mine(q)]
              ELSE w'[q].ticket = gTail /\ q = p
         /\ \A v \in Stored : before'[v] = before[v]
         /\ \A q \in Open : before'[Mine(q)] = before[Mine(q)]
  <1>1. CallType /\ MemType /\ gTail \in Nat
    BY DEF Common, CallType
  <1>2. UNCHANGED <<Consumer, overlap, fault>>
    BY DEF Produce, FetchAdd, enqueueStep, LoadTail, WalkBack, StoreData, StoreFlag, Grow,
           LoadNext, Alloc, SetTail, CasTail
  <1>3. H' = H
    BY <1>2 DEF Consumer, H
  <1>4. Linked \subseteq Linked'
    <2>1. status' = status \/ \E k : status' = [status EXCEPT ![k] = "live"]
      BY DEF Produce, FetchAdd, enqueueStep, LoadTail, WalkBack, StoreData, StoreFlag, Grow,
             LoadNext, Alloc, SetTail, CasTail, mem, LinkNew
    <2>. QED
      BY <2>1, <1>1 DEF Linked, MemType
  <1>5. CASE FetchAdd(p)
    <2>1. /\ p \notin Open /\ w'[p].ticket = gTail /\ gTail' = gTail + 1
          /\ \A q \in Producers : q # p => w'[q] = w[q]
          /\ Open' = Open \cup {p} /\ Stored' = Stored /\ Returned' = Returned
          /\ <<p, sent[p] + 1>> \in Value \ Started
          /\ before' = [before EXCEPT ![<<p, sent[p] + 1>>] = Returned]
          /\ sent' = [sent EXCEPT ![p] = @ + 1] /\ UNCHANGED mem
      BY <1>5, FetchAddSets
    <2>2. is_set' = is_set /\ data' = data
      BY <2>1 DEF mem
    <2>3. Stored \subseteq Started /\ Started \subseteq Value
      BY <1>1 DEF Stored, Started, CallType, Value
    <2>4. \A v \in Started : before'[v] = before[v]
      BY <2>1, <2>3, <1>1 DEF CallType
    <2>5. \A q \in Open : q \in Producers /\ q # p /\ Mine(q)' = Mine(q) /\ Mine(q) \in Started
      <3>1. \A q \in Open : q \in Producers /\ q # p
        BY <2>1 DEF Open
      <3>2. \A q \in Open : Mine(q) \in Started
        BY <3>1, HolderFacts
      <3>3. \A q \in Open : Mine(q)' = Mine(q)
        BY <3>1, <2>1, <1>1 DEF Mine, CallType
      <3>. QED
        BY <3>1, <3>2, <3>3
    <2>. QED
      BY <1>1, <1>2, <1>3, <1>4, <2>1, <2>2, <2>3, <2>4, <2>5
  <1>6. ASSUME Moves(p), data' = data \/ StoreData(p)
        PROVE  /\ Stored \subseteq Stored' /\ Returned \subseteq Returned' /\ gTail <= gTail'
               /\ \A k \in Buffers, i \in Slots : is_set[k][i] # 0 =>
                    is_set'[k][i] = is_set[k][i] /\ data'[k][i] = data[k][i]
               /\ is_set' = is_set
               /\ \A q \in Open' : /\ q \in Open
                    /\ w'[q].ticket = w[q].ticket /\ Mine(q)' = Mine(q) /\ before'[Mine(q)] = before[Mine(q)]
               /\ \A v \in Stored : before'[v] = before[v]
               /\ \A q \in Open : before'[Mine(q)] = before[Mine(q)]
    <2>1. /\ Open' = Open /\ Stored' = Stored /\ Returned' = Returned
          /\ \A q \in Open : w'[q].ticket = w[q].ticket
      BY <1>1, <1>6, MovesSets
    <2>2. UNCHANGED <<is_set, gTail, sent, before>>
      BY <1>6 DEF Moves
    <2>3. \A k \in Buffers, i \in Slots : is_set[k][i] # 0 => data'[k][i] = data[k][i]
      <3>1. CASE data' = data
        BY <3>1
      <3>2. CASE StoreData(p)
        <4>. DEFINE l == w[p].tempTail
                    x == Index(p)
        <4>1. data' = [data EXCEPT ![l][x] = Mine(p)] /\ ppc[p] = "data"
          BY <3>2 DEF StoreData, Goto, Mine
        <4>2. l \in Buffers /\ x \in Slots /\ is_set[l][x] = 0
          BY <4>1, CellFacts
        <4>. HIDE DEF l, x
        <4>. QED
          BY <4>1, <4>2, <1>1 DEF MemType
      <3>. QED
        BY <3>1, <3>2, <1>6
    <2>. QED
      BY <2>1, <2>2, <2>3, <1>1 DEF Mine
  <1>7. CASE LoadTail(p) \/ WalkBack(p) \/ StoreData(p) \/ LoadNext(p) \/ Alloc(p) \/ SetTail(p) \/ CasTail(p)
    <2>1. Moves(p)
      BY <1>7, LoadTailCommon, WalkBackCommon, StoreDataCommon, LoadNextCommon, AllocCommon, SetTailCommon
    <2>2. data' = data \/ StoreData(p)
      BY <1>7 DEF LoadTail, WalkBack, LoadNext, Alloc, SetTail, CasTail, mem
    <2>. QED
      BY <1>2, <1>3, <1>4, <1>6, <2>1, <2>2
  <1>8. CASE StoreFlag(p)
    <2>. DEFINE k == w[p].tempTail
                x == Index(p)
    <2>1. /\ ppc[p] = "flag"
          /\ \A q \in Producers : q # p => w'[q] = w[q]
          /\ is_set' = [is_set EXCEPT ![k][x] = 1]
          /\ UNCHANGED <<data, gTail, sent, before>>
          /\ Open' = Open \ {p} /\ Stored' = Stored \cup {Mine(p)} /\ Returned \subseteq Returned'
      BY <1>8, StoreFlagSets
    <2>2. /\ p \in Open /\ k \in Buffers /\ x \in Slots
          /\ First(k) + x = w[p].ticket /\ is_set[k][x] = 0
      BY <2>1, CellFacts
    <2>3. data[k][x] = Mine(p)
      BY <2>1 DEF Common, Contents
    <2>4. Open \subseteq Producers
      BY DEF Open
    <2>. HIDE DEF k, x
    <2>5. /\ is_set'[k][x] = 1
          /\ \A l \in Buffers, j \in Slots : (l # k \/ j # x) => is_set'[l][j] = is_set[l][j]
      BY <1>1, <2>1, <2>2 DEF MemType
    <2>6. \A l \in Buffers, i \in Slots : is_set[l][i] # 0 =>
              is_set'[l][i] = is_set[l][i] /\ data'[l][i] = data[l][i]
      BY <2>1, <2>2, <2>5
    <2>7. \A l \in Buffers, i \in Slots : is_set[l][i] = 0 /\ is_set'[l][i] # 0 =>
              /\ is_set'[l][i] = 1 /\ p \in Open /\ data'[l][i] = Mine(p)
              /\ First(l) + i = w[p].ticket /\ Stored' = Stored \cup {Mine(p)}
      BY <2>1, <2>2, <2>3, <2>5
    <2>8. \A q \in Open' : q \in Open /\ w'[q].ticket = w[q].ticket /\ Mine(q)' = Mine(q)
                           /\ before'[Mine(q)] = before[Mine(q)]
      BY <2>1, <2>4 DEF Mine
    <2>. QED
      BY <1>1, <1>2, <1>3, <1>4, <2>1, <2>6, <2>7, <2>8
  <1>9. CASE Grow(p)
    <2>1. Open' = Open /\ Stored' = Stored
      BY <1>9, GrowCommon
    <2>2. /\ ppc[p] = "grow" /\ ppc' = [ppc EXCEPT ![p] = "idle"]
          /\ w' = [w EXCEPT ![p] = NoCall] /\ UNCHANGED <<is_set, data, gTail, sent, before>>
      BY <1>9 DEF Grow, Goto, Calls
    <2>3. \A q \in Open : q \in Producers /\ q # p
      BY <2>2 DEF Open
    <2>4. \A q \in Open : w'[q] = w[q] /\ Mine(q)' = Mine(q)
      BY <2>2, <2>3, <1>1 DEF CallType, Mine
    <2>5. Returned \subseteq Returned'
      <3>1. \A v \in Value : ppc[v[1]] = "idle" => ppc'[v[1]] = "idle"
        BY <2>2, <1>1, ValueParts DEF CallType
      <3>. QED
        BY <2>2, <3>1 DEF Returned
    <2>. QED
      BY <1>1, <1>2, <1>3, <1>4, <2>1, <2>2, <2>4, <2>5
  <1>. QED
    BY <1>5, <1>7, <1>8, <1>9 DEF Produce, enqueueStep

----------------------------------------------------------------------------
(* Next to at most one producer everything is taken at the head            *)

\* Where a step of a producer leaves it and the tail.
LEMMA ProduceMoves ==
  ASSUME NoWrap, Common, NEW p \in Producers, Produce(p)
  PROVE  /\ \A q \in Producers : q # p => w'[q] = w[q] /\ ppc'[q] = ppc[q]
         /\ \/ tailOfQueue' = tailOfQueue
            \/ /\ p \in Holding /\ p \notin Holding' /\ p \in Open
               /\ tailOfQueue' = w[p].tempTail + 1
         /\ p \in Holding' =>
              \/ w'[p].tempTail = tailOfQueue /\ tailOfQueue' = tailOfQueue
              \/ p \in Holding /\ w'[p].tempTail = w[p].tempTail /\ tailOfQueue' = tailOfQueue
              \/ /\ WalkBack(p) /\ p \in Holding /\ w'[p].tempTail = w[p].tempTail - 1
                 /\ w[p].ticket < First(w[p].tempTail) /\ p \in Open
  <1>1. CallType /\ MemType
    BY DEF Common
  <1>2. CASE FetchAdd(p)
    <2>1. /\ p \notin Holding /\ Holding' = Holding
          /\ \A q \in Producers : q # p => ppc'[q] = ppc[q] /\ w'[q] = w[q]
          /\ tailOfQueue' = tailOfQueue
      BY <1>2, FetchAddSets
    <2>. QED
      BY <2>1
  <1>3. CASE LoadTail(p)
    BY <1>1, <1>3 DEF LoadTail, Goto, CallType, ProducerLocals
  <1>4. CASE WalkBack(p)
    <2>1. ppc[p] = "walk" /\ p \in Holding /\ p \in Open
      BY <1>4 DEF WalkBack, Goto, Holding, Open
    <2>2. w[p].ticket < First(w[p].tempTail) /\ w[p].tempTail \in Linked
      BY <2>1 DEF Common, AllPlaced, Placed
    <2>3. w[p].tempTail > 1
      BY <2>1, <2>2, FirstOne, HolderFacts
    <2>4. StepBack(w[p].tempTail) = w[p].tempTail - 1
      BY <2>2, <2>3 DEF StepBack, Common, Chain
    <2>5. /\ \A q \in Producers : q # p => w'[q] = w[q] /\ ppc'[q] = ppc[q]
          /\ tailOfQueue' = tailOfQueue /\ w'[p].tempTail = StepBack(w[p].tempTail)
      BY <1>1, <1>4 DEF WalkBack, Goto, CallType, ProducerLocals
    <2>. QED
      BY <1>4, <2>1, <2>2, <2>4, <2>5
  <1>5. CASE StoreData(p) \/ LoadNext(p) \/ Alloc(p)
    <2>1. p \in Holding
      BY <1>5 DEF StoreData, LoadNext, Alloc, Goto, Holding
    <2>2. /\ \A q \in Producers : q # p => w'[q] = w[q] /\ ppc'[q] = ppc[q]
          /\ tailOfQueue' = tailOfQueue /\ w'[p].tempTail = w[p].tempTail
      BY <1>1, <1>5 DEF StoreData, LoadNext, Alloc, Goto, CallType, ProducerLocals
    <2>. QED
      BY <2>1, <2>2
  <1>6. CASE StoreFlag(p)
    <2>1. /\ ppc[p] = "flag" /\ ppc'[p] \in {"grow", "idle"}
          /\ \A q \in Producers : q # p => ppc'[q] = ppc[q] /\ w'[q] = w[q]
          /\ ppc'[p] = "grow" => w' = w
          /\ tailOfQueue' = tailOfQueue
      BY <1>6, StoreFlagSets
    <2>. QED
      BY <2>1 DEF Holding
  <1>7. CASE Grow(p)
    BY <1>1, <1>7 DEF Grow, Goto, CallType, Holding
  <1>8. CASE SetTail(p) \/ CasTail(p)
    <2>1. ppc[p] \in {"settail", "castail"} /\ p \in Holding /\ p \in Open
      BY <1>8 DEF SetTail, CasTail, Goto, Holding, Open
    <2>2. Placed(p)
      BY <2>1 DEF Common, AllPlaced
    <2>3. tailOfQueue' \in {tailOfQueue, w[p].tempTail + 1}
      BY <1>8, <2>2 DEF SetTail, CasTail, Placed, Goto
    <2>4. /\ w' = w /\ ppc' = [ppc EXCEPT ![p] = "tail"]
      BY <1>8 DEF SetTail, CasTail, Goto
    <2>. QED
      BY <1>1, <2>1, <2>3, <2>4 DEF CallType, Holding
  <1>. QED
    BY <1>2, <1>3, <1>4, <1>5, <1>6, <1>7, <1>8 DEF Produce, enqueueStep

LEMMA ProduceAlone ==
  ASSUME NoWrap, Common, NEW p \in Producers, Produce(p), AloneAtTail PROVE AloneAtTail'
  <1>1. CallType /\ gTail \in Nat /\ Common'
    BY ProduceCommon DEF Common, CallType
  <1>. SUFFICES ASSUME NEW q \in Producers, Alone(q)'
                PROVE  /\ q \in Open' => w'[q].ticket = gTail' - 1
                       /\ q \in Holding' => w'[q].tempTail = tailOfQueue'
    BY DEF AloneAtTail
  <1>2. CASE FetchAdd(p)
    <2>1. /\ p \notin Holding /\ Holding' = Holding /\ w'[p].ticket = gTail /\ gTail' = gTail + 1
          /\ sent' = [sent EXCEPT ![p] = @ + 1]
      BY <1>2, FetchAddSets
    <2>2. q = p
      BY <2>1, <1>1 DEF Alone, CallType
    <2>. QED
      BY <2>1, <2>2, <1>1
  <1>3. CASE ~ FetchAdd(p)
    <2>1. sent' = sent /\ gTail' = gTail
      BY <1>3 DEF Produce, enqueueStep, LoadTail, WalkBack, StoreData, StoreFlag, Grow,
                  LoadNext, Alloc, SetTail, CasTail, Calls
    <2>2. Alone(q)
      BY <2>1 DEF Alone
    <2>3. p # q => p \notin Open
      <3>1. p \in Open => sent[p] > 0
        BY HolderFacts
      <3>. QED
        BY <2>2, <3>1 DEF Alone
    <2>4. q \in Open' => w'[q].ticket = gTail' - 1
      <3>1. q \in Open' => q \in Open \/ FetchAdd(p)
        <4>1. p \notin Open => Grow(p)
          BY <1>3 DEF Produce, enqueueStep, LoadTail, WalkBack, StoreData, StoreFlag, Grow,
                  LoadNext, Alloc, SetTail, CasTail, Goto, Open
        <4>2. p \in Open => p = q
          BY <2>3
        <4>3. Grow(p) => Open' = Open
          BY GrowCommon
        <4>. QED
          BY <4>1, <4>2, <4>3
      <3>2. q \in Open' /\ q \in Open => w'[q].ticket = w[q].ticket
        BY ProduceFacts
      <3>. QED
        BY <1>3, <3>1, <3>2, <2>1, <2>2 DEF AloneAtTail
    <2>5. q \in Holding' => w'[q].tempTail = tailOfQueue'
      <3>1. CASE p # q
        <4>1. tailOfQueue' = tailOfQueue /\ w'[q] = w[q] /\ ppc'[q] = ppc[q]
          BY <2>3, <3>1, ProduceMoves
        <4>2. q \in Holding' => q \in Holding
          BY <4>1 DEF Holding
        <4>. QED
          BY <4>1, <4>2, <2>2 DEF AloneAtTail
      <3>2. CASE p = q
        <4>1. ASSUME q \in Holding', w[q].ticket < First(w[q].tempTail), q \in Holding, q \in Open PROVE FALSE
          <5>1. w[q].ticket = gTail - 1 /\ w[q].ticket \in Nat
            BY <4>1, <2>2, HolderFacts DEF AloneAtTail
          <5>2. InUse(w[q].tempTail) /\ First(w[q].tempTail) \in Nat
            BY <4>1, HolderFacts
          <5>. QED
            BY <4>1, <5>1, <5>2, <1>1, FirstOne DEF InUse
        <4>. QED
          BY <3>2, <4>1, <2>2, ProduceMoves DEF AloneAtTail
      <3>. QED
        BY <3>1, <3>2
    <2>. QED
      BY <2>4, <2>5
  <1>. QED
    BY <1>2, <1>3

LEMMA FrontIs == ASSUME Common PROVE /\ First(H) \in Nat /\ H \in Buffers /\ H \in Nat /\ H >= 1
                                     /\ head[H] \in 0 .. B /\ Front \in Nat /\ B \in Nat /\ B > 0
                                     /\ (head[H] < B => head[H] \in Slots)
  <1>1. H \in Buffers /\ H \in Nat /\ H >= 1 /\ First(H) \in Nat
    BY LinkedRange DEF Common, Reachable
  <1>2. head[H] \in 0 .. B
    BY <1>1 DEF Common, MemType
  <1>. QED
    BY <1>1, <1>2, BAssumption DEF Front, Slots

LEMMA ProduceFront ==
  ASSUME NoWrap, Common, NEW p \in Producers, Produce(p), FrontInv PROVE FrontInv'
  <1>1. /\ UNCHANGED <<Consumer, overlap, fault>> /\ H' = H
        /\ Stored \subseteq Stored' /\ gTail <= gTail'
        /\ \A k \in Buffers, i \in Slots : is_set[k][i] # 0 =>
              is_set'[k][i] = is_set[k][i] /\ data'[k][i] = data[k][i]
        /\ \A k \in Buffers, i \in Slots : is_set[k][i] = 0 /\ is_set'[k][i] # 0 =>
              /\ is_set'[k][i] = 1 /\ p \in Open /\ data'[k][i] = Mine(p)
              /\ First(k) + i = w[p].ticket
        /\ \A q \in Open' : IF q \in Open THEN w'[q].ticket = w[q].ticket ELSE w'[q].ticket = gTail
    BY ProduceFacts
  <1>2. Front' = Front /\ head' = head /\ delivered' = delivered
    BY <1>1 DEF Consumer, Front
  <1>3. Front \in Nat /\ gTail \in Nat /\ gTail' \in Nat /\ delivered \in [Value -> Nat]
    BY FrontIs, ProduceCommon DEF Common, CallType
  <1>4. \A k \in Buffers, i \in Slots : is_set'[k][i] # 2
    BY <1>1 DEF FrontInv
  <1>5. Front' <= gTail' /\ \A q \in Open' : Front' <= w'[q].ticket
    BY <1>1, <1>2, <1>3 DEF FrontInv
  <1>6. ASSUME NEW k \in Buffers, NEW i \in Slots, is_set'[k][i] # 0
        PROVE  delivered'[data'[k][i]] = IF First(k) + i < Front' THEN 1 ELSE 0
    <2>1. CASE is_set[k][i] # 0
      BY <2>1, <1>1, <1>2 DEF FrontInv
    <2>2. CASE is_set[k][i] = 0
      <3>1. p \in Open /\ data'[k][i] = Mine(p) /\ First(k) + i = w[p].ticket
        BY <2>2, <1>1, <1>6
      <3>2. Mine(p) \in Value /\ Mine(p) \notin Stored /\ w[p].ticket \in Nat
        BY <3>1, HolderFacts
      <3>3. delivered[Mine(p)] = 0
        BY <3>2, <1>3 DEF FrontInv
      <3>4. ~ w[p].ticket < Front
        BY <3>1, <3>2, <1>3 DEF FrontInv
      <3>. QED
        BY <3>1, <3>3, <3>4, <1>2
    <2>. QED
      BY <2>1, <2>2
  <1>. QED
    BY <1>1, <1>2, <1>4, <1>5, <1>6 DEF FrontInv

LEMMA ProduceAhead ==
  ASSUME NoWrap, Common, NEW p \in Producers, Produce(p), AheadInv PROVE AheadInv'
  <1>1. /\ UNCHANGED <<Consumer, overlap, fault>> /\ H' = H /\ Linked \subseteq Linked'
        /\ \A k \in Buffers, i \in Slots : is_set[k][i] # 0 => is_set'[k][i] = is_set[k][i]
    BY ProduceFacts
  <1>2. head' = head /\ c' = c /\ cpc' = cpc
    BY <1>1 DEF Consumer
  <1>3. H \in Buffers /\ head[H] \in Slots
    BY FrontIs DEF AheadInv
  <1>4. nSet = 1 => nSet' = 1
    BY <1>1, <1>2, <1>3 DEF nSet
  <1>. QED
    BY <1>1, <1>2, <1>4 DEF AheadInv

LEMMA ProduceDrop ==
  ASSUME NoWrap, Common, NEW p \in Producers, Produce(p), FrontInv, DropInv PROVE DropInv'
  <1>1. UNCHANGED <<Consumer, overlap, fault>> /\ H' = H
    BY ProduceFacts
  <1>2. head' = head
    BY <1>1 DEF Consumer
  <1>3. H \in Nat /\ First(H) \in Nat /\ B \in Nat
    BY FrontIs
  <1>4. tailOfQueue \in Nat
    BY LinkedRange DEF Common, Reachable
  <1>5. p \in Holding => w[p].tempTail \in Nat /\ First(w[p].tempTail) \in Nat
    BY LinkedRange DEF Common, AllPlaced, Placed
  <1>6. H < tailOfQueue'
    BY <1>3, <1>4, <1>5, ProduceMoves DEF DropInv
  <1>7. \A q \in Holding' : q # p => q \in Holding /\ w'[q] = w[q]
    BY ProduceMoves DEF Holding
  <1>8. p \in Holding' => H < w'[p].tempTail
    <2>1. ASSUME p \in Holding, p \in Open, w[p].ticket < First(w[p].tempTail)
          PROVE  H < w[p].tempTail - 1
      <3>1. First(H) + B <= w[p].ticket /\ w[p].ticket \in Nat
        BY <2>1, HolderFacts DEF FrontInv, DropInv, Front
      <3>2. First(H + 1) = First(H) + B
        BY <1>3, FirstStep
      <3>3. w[p].tempTail # H + 1
        BY <2>1, <3>1, <3>2, <1>3, <1>5
      <3>. QED
        BY <2>1, <3>3, <1>3, <1>5 DEF DropInv
    <2>. QED
      BY <2>1, ProduceMoves DEF DropInv
  <1>. QED
    BY <1>1, <1>2, <1>6, <1>7, <1>8 DEF DropInv

LEMMA ProduceInOrder ==
  ASSUME NoWrap, Common, NEW p \in Producers, Produce(p), InOrderConsumer PROVE InOrderConsumer'
  <1>1. cpc' = cpc /\ c' = c
    BY ProduceFacts DEF Consumer
  <1>. QED
    BY <1>1, ProduceAlone, ProduceFront, ProduceAhead, ProduceDrop DEF InOrderConsumer

LEMMA ProduceNoneAhead ==
  ASSUME NoWrap, Common, NEW p \in Producers, Produce(p), NoneAhead PROVE NoneAhead'
  <1>. SUFFICES ASSUME B = 1
                PROVE  /\ \A k \in Linked' : InUse(k)'
                       /\ \A q \in Producers : ppc'[q] # "grow"
    BY DEF NoneAhead
  <1>1. gTail <= gTail' /\ gTail \in Nat /\ gTail' \in Nat /\ CallType /\ MemType
    BY ProduceFacts, ProduceCommon DEF Common, CallType
  <1>2. \A k \in Linked : InUse(k)'
    <2>. SUFFICES ASSUME NEW k \in Linked PROVE InUse(k)'
      OBVIOUS
    <2>1. InUse(k) /\ First(k) \in Nat
      BY LinkedRange DEF NoneAhead
    <2>. QED
      BY <1>1, <2>1 DEF InUse
  <1>3. CASE Alloc(p)
    <2>. PICK k : k = w[p].tempTail
      OBVIOUS
    <2>1. p \in Open /\ p \in Holding /\ ppc[p] = "alloc" /\ LinkNew(k) /\ gTail' = gTail
          /\ ppc' = [ppc EXCEPT ![p] = IF next[k] = NULL THEN "settail" ELSE "tail"]
      BY <1>3 DEF Alloc, Goto, Open, Holding, Calls
    <2>2. k \in Nat /\ First(k) + B <= w[p].ticket /\ w[p].ticket < gTail /\ w[p].ticket \in Nat
      BY <2>1, HolderFacts DEF Common, AllPlaced, Placed, Moving
    <2>3. First(k) \in Int /\ First(k + 1) = First(k) + B
      BY <2>2, FirstStep
    <2>4. InUse(k + 1)'
      BY <1>1, <2>1, <2>2, <2>3 DEF InUse
    <2>5. \A l \in Linked' : l \in Linked \/ l = k + 1
      BY <1>1, <2>1 DEF LinkNew, Linked, MemType
    <2>. QED
      BY <1>1, <1>2, <2>1, <2>4, <2>5 DEF NoneAhead, CallType
  <1>4. CASE StoreFlag(p)
    <2>1. Index(p) \in Slots
      BY <1>4, CellFacts DEF StoreFlag, Goto
    <2>2. ~ Allocates(p)
      BY <2>1 DEF Allocates, Slots
    <2>3. ppc' = [ppc EXCEPT ![p] = "idle"] /\ status' = status
      BY <1>4, <2>2 DEF StoreFlag, Goto
    <2>. QED
      BY <1>1, <1>2, <2>3 DEF NoneAhead, Linked, CallType
  <1>5. CASE ~ Alloc(p) /\ ~ StoreFlag(p)
    <2>1. ~ Grow(p)
      BY DEF Grow, Goto, NoneAhead
    <2>2. /\ status' = status
          /\ \E s \in {"tail", "walk", "data", "flag"} \cup Moving : ppc' = [ppc EXCEPT ![p] = s]
      BY <1>5, <2>1 DEF Produce, FetchAdd, enqueueStep, LoadTail, WalkBack, StoreData, LoadNext,
                        SetTail, CasTail, Goto, Route, mem, Moving
    <2>. QED
      BY <1>1, <1>2, <2>2 DEF NoneAhead, Linked, CallType, Moving
  <1>. QED
    BY <1>3, <1>4, <1>5

LEMMA ConsumeNoneAhead ==
  ASSUME Common, InOrderConsumer, dequeue, NoneAhead PROVE NoneAhead'
  <1>1. ppc' = ppc /\ gTail' = gTail /\ status' \in {status, Free(H)}
    BY DEF InOrderConsumer, LookingAhead, dequeue, LoadPrevSize, CompareTail, CompareGTail, LookAtHead,
           LoopHead, TryAhead, HeadStillEmpty, SecondLook, ScanCond, ScanCross, ScanSlot, ScanEnd,
           Edge, StepAhead, FoldCheckTail, FoldPrev, FoldNext, FoldFree, MoveHead, DropHead,
           Local, ReturnFalse, TakeHead, Producer, Buffer, At
  <1>2. Linked' = Linked
    BY <1>1 DEF Linked, Free, Common, Reachable, MemType
  <1>. QED
    BY <1>1, <1>2 DEF NoneAhead, InUse

\* Next to at most one producer the consumer meets no set slot behind an empty head.
LEMMA HeadFirst ==
  ASSUME Common, AloneAtTail, FrontInv, ~ Contended, head[H] < B,
         \/ Front + 1 < gTail
         \/ \E k \in Buffers, i \in Slots : is_set[k][i] # 0 /\ Front <= First(k) + i
  PROVE  nSet = 1
  <1>1. /\ H \in Buffers /\ head[H] \in Slots /\ Front \in Nat /\ Front = First(H) + head[H]
    BY FrontIs DEF Front
  <1>2. gTail \in Nat
    BY DEF Common, CallType
  <1>3. Front + 1 < gTail \/ \E t \in Nat : Front <= t /\ Filled(t)
    <2>. SUFFICES ASSUME NEW k \in Buffers, NEW i \in Slots, is_set[k][i] # 0, Front <= First(k) + i
                  PROVE  First(k) + i \in Nat /\ Filled(First(k) + i)
      OBVIOUS
    <2>. QED
      BY BufferRange, FirstNat, BAssumption DEF Slots, Common, Contents
  <1>4. Filled(Front)
    <2>1. ASSUME NEW p \in Open PROVE w[p].ticket # Front
      <3>1. p \in Producers /\ ppc[p] # "idle"
        BY DEF Open
      <3>2. Alone(p)
        BY <3>1 DEF Contended, Alone, Common, CallType
      <3>3. w[p].ticket = gTail - 1
        BY <3>1, <3>2 DEF AloneAtTail
      <3>. QED
        BY <3>3, <1>1, <1>2, <1>3 DEF Filled
    <2>. QED
      BY <2>1, <1>1, <1>2, <1>3 DEF Filled
  <1>5. is_set[H][head[H]] # 0
    BY <1>1, <1>4 DEF Common, Contents
  <1>6. is_set[H][head[H]] \in {0, 1, 2} /\ is_set[H][head[H]] # 2
    BY <1>1 DEF FrontInv, Common, MemType
  <1>. QED
    BY <1>5, <1>6 DEF nSet

LEMMA QuietStep ==
  ASSUME Common, AloneAtTail, FrontInv, c' \in ConsumerLocals,
         UNCHANGED <<Producer, Buffer, head, headOfQueue, delivered>>
  PROVE  /\ Common' /\ AloneAtTail' /\ FrontInv' /\ nSet' = nSet /\ H' = H
         /\ Linked' = Linked /\ Holding' = Holding /\ head' = head
         /\ tailOfQueue' = tailOfQueue /\ w' = w
  <1>1. UNCHANGED <<ppc, w, gTail, sent, before, tailOfQueue, prev, data, status, next, is_set, head, headOfQueue, delivered>>
    BY DEF Producer, Buffer
  <1>2. Common' /\ Open' = Open /\ Holding' = Holding /\ Stored' = Stored /\ Linked' = Linked
    <2>1. /\ head' \in [Buffers -> 0 .. B] /\ is_set' \in [Buffers -> [Slots -> {0, 1, 2}]]
          /\ delivered' \in [Value -> Nat]
      BY <1>1 DEF Common, MemType, CallType
    <2>. QED
      BY <1>1, <2>1, ConsumeCommon
  <1>3. H' = H /\ nSet' = nSet /\ Front' = Front
    BY <1>1 DEF H, nSet, Front
  <1>4. AloneAtTail'
    BY <1>1, <1>2 DEF AloneAtTail, Alone
  <1>5. FrontInv'
    BY <1>1, <1>2, <1>3 DEF FrontInv
  <1>. QED
    BY <1>1, <1>2, <1>3, <1>4, <1>5

LEMMA IdleLocals == NoDequeue \in ConsumerLocals
  BY DEF NoDequeue, ConsumerLocals, NULL

LEMMA FalseInOrder ==
  ASSUME Common, AloneAtTail, FrontInv, ReturnFalse PROVE Common' /\ InOrderConsumer'
  <1>1. cpc' = "idle" /\ c' = NoDequeue
    BY DEF ReturnFalse, Return
  <1>2. Common' /\ AloneAtTail' /\ FrontInv'
    BY <1>1, IdleLocals, QuietStep DEF ReturnFalse, Buffer
  <1>. QED
    BY <1>1, <1>2 DEF InOrderConsumer, LookingAhead

LEMMA TakeHeadInOrder ==
  ASSUME Common, AloneAtTail, FrontInv, head[H] < B, nSet = 1, TakeHead
  PROVE  Common' /\ InOrderConsumer'
  <1>. DEFINE x == head[H]
              v == data[H][head[H]]
  <1>1. /\ H \in Buffers /\ H \in Nat /\ x \in Slots /\ Front \in Nat /\ Front = First(H) + x /\ x \in Nat
        /\ B \in Nat /\ First(H) \in Nat
    BY FrontIs DEF Front
  <1>2. /\ cpc' = "idle" /\ c' = NoDequeue /\ UNCHANGED <<Producer, Buffer, headOfQueue>>
        /\ head' = [head EXCEPT ![H] = @ + 1]
        /\ delivered' = [delivered EXCEPT ![v] = @ + 1]
    BY DEF TakeHead, Return, Deliver
  <1>3. UNCHANGED <<ppc, w, gTail, sent, before, tailOfQueue, prev, data, status, next, is_set, headOfQueue>>
    BY <1>2 DEF Producer, Buffer
  <1>4. is_set[H][x] = 1 /\ v \in Stored /\ Filled(Front) /\ v \in Value
    BY <1>1 DEF nSet, Common, Contents, Stored
  <1>5. head' \in [Buffers -> 0 .. B] /\ head'[H] = x + 1 /\ \A k \in Buffers : k # H => head'[k] = head[k]
    BY <1>1, <1>2 DEF Common, MemType
  <1>6. /\ delivered' \in [Value -> Nat] /\ delivered'[v] = delivered[v] + 1
        /\ \A u \in Value : u # v => delivered'[u] = delivered[u]
    BY <1>2, <1>4 DEF Common, CallType
  <1>7. Common' /\ Open' = Open /\ Holding' = Holding /\ Stored' = Stored /\ Linked' = Linked
    <2>1. is_set' \in [Buffers -> [Slots -> {0, 1, 2}]] /\ c' \in ConsumerLocals
      BY <1>2, <1>3, IdleLocals DEF Common, MemType
    <2>. QED
      BY <1>2, <1>3, <1>5, <1>6, <2>1, ConsumeCommon
  <1>8. H' = H /\ Front' = Front + 1
    BY <1>1, <1>3, <1>5 DEF H, Front
  <1>9. AloneAtTail'
    BY <1>3, <1>7 DEF AloneAtTail, Alone
  <1>. HIDE DEF x, v
  <1>10. FrontInv'
    <2>1. Front' <= gTail' /\ \A p \in Open' : Front' <= w'[p].ticket
      <3>1. Front < gTail /\ gTail \in Nat
        BY <1>4 DEF Filled, Common, CallType
      <3>2. \A p \in Open : Front <= w[p].ticket /\ w[p].ticket # Front /\ w[p].ticket \in Nat
        BY <1>4, HolderFacts DEF Filled, FrontInv, Open
      <3>. QED
        BY <3>1, <3>2, <1>1, <1>3, <1>7, <1>8
    <2>2. ASSUME NEW k \in Buffers, NEW i \in Slots, is_set'[k][i] # 0
          PROVE  delivered'[data'[k][i]] = IF First(k) + i < Front' THEN 1 ELSE 0
      <3>1. data[k][i] \in Value /\ is_set[k][i] # 0 /\ First(k) + i \in Nat
        <4>1. is_set[k][i] # 0
          BY <2>2, <1>3
        <4>2. data[k][i] \in Value
          BY <4>1 DEF Common, Contents, Stored
        <4>. QED
          BY <4>1, <4>2, BufferRange, FirstNat, BAssumption DEF Slots
      <3>2. delivered[data[k][i]] = IF First(k) + i < Front THEN 1 ELSE 0
        BY <3>1 DEF FrontInv
      <3>3. CASE k = H /\ i = x
        BY <3>1, <3>2, <3>3, <1>1, <1>3, <1>6, <1>8 DEF v, x
      <3>4. CASE k # H \/ i # x
        <4>1. data[k][i] # v
          <5>1. data[H][x] = v
            BY DEF v, x
          <5>. QED
            BY <3>1, <3>4, <5>1, <1>1, <1>4 DEF Common, Contents
        <4>2. First(k) + i # Front
          BY <3>4, <1>1, TicketUnique, BufferRange
        <4>. QED
          BY <3>1, <3>2, <4>1, <4>2, <1>1, <1>3, <1>6, <1>8
      <3>. QED
        BY <3>3, <3>4
    <2>3. \A u \in Value : delivered'[u] > 0 => u \in Stored'
      BY <1>4, <1>6, <1>7 DEF FrontInv
    <2>4. \A k \in Buffers : k > H' => head'[k] = 0
      BY <1>1, <1>5, <1>8, BufferRange DEF FrontInv
    <2>5. \A k \in Buffers, i \in Slots : is_set'[k][i] # 2
      BY <1>3 DEF FrontInv
    <2>. QED
      BY <2>1, <2>2, <2>3, <2>4, <2>5 DEF FrontInv
  <1>. QED
    BY <1>2, <1>7, <1>9, <1>10 DEF InOrderConsumer, LookingAhead

\* The consumer leaves a buffer only after the producers have.
LEMMA DropHeadInOrder ==
  ASSUME NoWrap, Common, AloneAtTail, FrontInv, DropInv, DropHead
  PROVE  Common' /\ InOrderConsumer'
  <1>1. CallType /\ MemType /\ Chain /\ Reachable /\ Claims /\ AllPlaced /\ Contents /\ Order
    BY DEF Common
  <1>2. /\ H \in Buffers /\ H \in Nat /\ H >= 1 /\ First(H) \in Nat /\ B \in Nat /\ B > 0
        /\ tailOfQueue \in Buffers /\ tailOfQueue \in Nat /\ tailOfQueue \in Linked /\ H < tailOfQueue
        /\ head[H] = B
    BY <1>1, FrontIs, LinkedRange DEF Reachable, DropInv
  <1>3. next[H] = H + 1 /\ H + 1 \in Linked /\ H + 1 \in Buffers
    BY <1>1, <1>2, LinkedRange DEF Chain, NULL
  <1>4. /\ status' = [status EXCEPT ![H] = "freed"] /\ headOfQueue' = H + 1
        /\ cpc' = "again" /\ c' = NoDequeue
        /\ UNCHANGED <<Producer, next, is_set, head, delivered, waiting>>
    BY <1>2, <1>3 DEF DropHead, NULL, Free
  <1>5. UNCHANGED <<ppc, w, gTail, sent, before, tailOfQueue, prev, data, next, is_set, head, delivered>>
    BY <1>4 DEF Producer
  <1>6. H' = H + 1
    BY <1>4 DEF H
  <1>7. \A k \in Buffers : status'[k] = IF k = H THEN "freed" ELSE status[k]
    BY <1>1, <1>4 DEF MemType
  <1>8. /\ Open' = Open /\ Holding' = Holding /\ Stored' = Stored /\ Started' = Started /\ Returned' = Returned
    <2>1. Open' = Open /\ Holding' = Holding
      BY <1>5 DEF Open, Holding
    <2>. QED
      BY <1>5, <2>1 DEF Stored, Started, Returned
  <1>9. Linked' = Linked
    <2>1. status[H] # "absent"
      BY <1>1 DEF Reachable, Linked
    <2>. QED
      BY <1>7, <2>1 DEF Linked
  <1>10. MemType' /\ CallType'
    <2>1. status' \in [Buffers -> {"absent", "live", "freed"}]
      BY <1>1, <1>4 DEF MemType
    <2>. QED
      BY <1>1, <1>4, <1>5, <2>1, IdleLocals DEF MemType, CallType
  <1>11. Chain'
    BY <1>1, <1>5, <1>9 DEF Chain
  <1>12. Reachable'
    <2>1. \A k \in Buffers : status'[k] = "freed" <=> k < H + 1
      BY <1>1, <1>2, <1>7, BufferRange DEF Reachable
    <2>. QED
      BY <2>1, <1>1, <1>2, <1>3, <1>5, <1>6, <1>9 DEF Reachable, InUse
  <1>13. First(H + 1) = Front /\ First(H + 1) = First(H) + B
    BY <1>2, FirstStep DEF Front
  <1>14. Claims'
    BY <1>1, <1>5, <1>6, <1>8, <1>13 DEF Claims, FrontInv
  <1>15. AllPlaced'
    <2>. SUFFICES ASSUME NEW p \in Holding PROVE Placed(p)'
      BY <1>8 DEF AllPlaced
    <2>1. Placed(p) /\ H < w[p].tempTail /\ w[p].tempTail \in Nat
      BY <1>1, LinkedRange DEF AllPlaced, DropInv, Placed
    <2>. QED
      BY <2>1, <1>2, <1>5, <1>6, <1>9 DEF Placed, InUse
  <1>16. Contents'
    <2>1. \A t : Filled(t)' <=> Filled(t)
      BY <1>5, <1>8 DEF Filled
    <2>2. \A q \in Producers : ppc'[q] = "flag" => data'[w'[q].tempTail][Index(q)'] = Mine(q)'
      BY <1>1, <1>5 DEF Contents, Mine, Index
    <2>. QED
      BY <1>1, <1>5, <1>8, <1>9, <2>1, <2>2 DEF Contents
  <1>17. Order'
    BY <1>1, <1>5, <1>8 DEF Order, Mine
  <1>18. AloneAtTail'
    BY <1>5, <1>8 DEF AloneAtTail, Alone
  <1>19. head[H + 1] = 0
    BY <1>2, <1>3 DEF FrontInv
  <1>20. Front' = Front
    BY <1>2, <1>5, <1>6, <1>13, <1>19 DEF Front
  <1>21. FrontInv'
    <2>1. \A k \in Buffers : k > H' => head'[k] = 0
      BY <1>2, <1>5, <1>6, BufferRange DEF FrontInv
    <2>. QED
      BY <2>1, <1>5, <1>8, <1>20 DEF FrontInv
  <1>. QED
    BY <1>4, <1>10, <1>11, <1>12, <1>14, <1>15, <1>16, <1>17, <1>18, <1>21
       DEF Common, InOrderConsumer, LookingAhead

LEMMA AheadFacts ==
  ASSUME Common, AheadInv
  PROVE  /\ H \in Buffers /\ H \in Nat /\ head[H] \in Slots /\ head[H] \in Nat /\ B \in Nat
         /\ c \in ConsumerLocals /\ c.buf \in Buffers /\ c.buf \in Nat /\ c.tempHead \in Nat
         /\ c.tn \in Nat /\ c.moved \in BOOLEAN /\ c.handled \in BOOLEAN
         /\ \A i \in Slots : (c.buf = H => head[H] <= i) => Front <= First(c.buf) + i
  <1>1. /\ H \in Buffers /\ H \in Nat /\ head[H] \in Slots /\ B \in Nat /\ First(H) \in Nat
    BY FrontIs DEF AheadInv
  <1>2. c \in ConsumerLocals
    BY DEF Common, CallType
  <1>3. c.tempHead \in Nat /\ c.tn \in Nat /\ c.moved \in BOOLEAN /\ c.handled \in BOOLEAN
    BY <1>2 DEF ConsumerLocals
  <1>4. c.buf \in Buffers /\ c.buf \in Nat /\ First(c.buf) \in Nat
    BY LinkedRange DEF AheadInv
  <1>5. c.buf # H => First(H) + B <= First(c.buf)
    BY <1>1, <1>4, FirstMono DEF AheadInv
  <1>6. \A i \in Slots : (c.buf = H => head[H] <= i) => Front <= First(c.buf) + i
    BY <1>1, <1>4, <1>5 DEF Front, Slots
  <1>. QED
    BY <1>1, <1>2, <1>3, <1>4, <1>6 DEF Slots

LEMMA TryLocals ==
  ASSUME NEW l \in ConsumerLocals, NEW m, m = [l EXCEPT !.tn = l.tempHead, !.tempHead = @ + 1]
  PROVE  /\ m \in ConsumerLocals /\ m.tn = l.tempHead /\ m.tempHead = l.tempHead + 1
         /\ m.buf = l.buf /\ m.moved = l.moved /\ m.handled = l.handled /\ m.prevSize = l.prevSize
  <1>. DEFINE n == [l EXCEPT !.tn = l.tempHead]
  <1>1. /\ n \in ConsumerLocals /\ n.tn = l.tempHead /\ n.tempHead = l.tempHead /\ n.buf = l.buf
        /\ n.moved = l.moved /\ n.handled = l.handled /\ n.prevSize = l.prevSize
    BY DEF ConsumerLocals
  <1>2. m = [n EXCEPT !.tempHead = n.tempHead + 1]
    OBVIOUS
  <1>. HIDE DEF n
  <1>3. n.tempHead \in Nat /\ n.tempHead + 1 \in Nat
    BY <1>1 DEF ConsumerLocals
  <1>. QED
    BY <1>1, <1>2, <1>3 DEF ConsumerLocals

LEMMA ConsumeInOrder ==
  ASSUME NoWrap, Common, InOrderConsumer, NoneAhead, ~ Contended, dequeue
  PROVE  Common' /\ InOrderConsumer'
  <1>1. AloneAtTail /\ FrontInv /\ c \in ConsumerLocals
    BY DEF InOrderConsumer, Common, CallType
  <1>2. ASSUME ReturnFalse PROVE Common' /\ InOrderConsumer'
    BY <1>1, <1>2, FalseInOrder
  <1>3. ASSUME NEW s, NEW l \in ConsumerLocals, Local(s, l)
        PROVE  /\ Common' /\ AloneAtTail' /\ FrontInv' /\ nSet' = nSet /\ H' = H
               /\ Linked' = Linked /\ Holding' = Holding /\ head' = head
               /\ tailOfQueue' = tailOfQueue /\ w' = w /\ cpc' = s /\ c' = l
    BY <1>1, <1>3, QuietStep DEF Local
  <1>4. ASSUME NEW s \in {"tail", "gtail", "elem", "again", "idle"}, NEW l \in ConsumerLocals, Local(s, l), ~ l.moved
        PROVE  Common' /\ InOrderConsumer'
    BY <1>3, <1>4 DEF InOrderConsumer, LookingAhead
  <1>5. CASE LoadPrevSize
    <2>1. PrevSize(tailOfQueue) \in Nat
      <3>1. tailOfQueue \in Nat /\ B \in Nat /\ UIntMod \in Nat \ {0} /\ tailOfQueue >= 1
        BY LinkedRange, BAssumption, UIntModAssumption DEF Common, Reachable
      <3>2. B * (tailOfQueue - 1) \in Int
        BY <3>1
      <3>. QED
        BY <3>1, <3>2, SMT DEF PrevSize, UInt
    <2>2. /\ cpc' = "tail" /\ c' = [NoDequeue EXCEPT !.prevSize = PrevSize(tailOfQueue)]
          /\ UNCHANGED <<Producer, Buffer, head, headOfQueue, delivered>>
      BY <1>5 DEF LoadPrevSize
    <2>3. c' \in ConsumerLocals /\ ~ c'.moved
      BY <2>1, <2>2 DEF NoDequeue, ConsumerLocals, NULL
    <2>4. Common' /\ AloneAtTail' /\ FrontInv'
      BY <1>1, <2>2, <2>3, QuietStep
    <2>. QED
      BY <2>2, <2>3, <2>4 DEF InOrderConsumer, LookingAhead
  <1>6. CASE CompareTail
    <2>1. cpc = "tail" /\ ~ c.moved
      BY <1>6 DEF CompareTail, At, InOrderConsumer
    <2>. QED
      BY <1>1, <1>4, <1>6, <2>1 DEF CompareTail
  <1>7. CASE CompareGTail
    <2>1. cpc = "gtail" /\ ~ c.moved
      BY <1>7 DEF CompareGTail, At, InOrderConsumer
    <2>. QED
      BY <1>1, <1>2, <1>4, <1>7, <2>1 DEF CompareGTail
  <1>8. CASE LookAtHead
    <2>1. cpc = "elem" /\ ~ c.moved /\ head[H] < B
      BY <1>8 DEF LookAtHead, At, InOrderConsumer
    <2>2. H \in Buffers /\ head[H] \in Slots /\ H \in Nat /\ head[H] \in Nat /\ B \in Nat
      BY <2>1, FrontIs DEF Slots
    <2>3. nSet # 2
      BY <1>1, <2>2 DEF nSet, FrontInv
    <2>. DEFINE l == [c EXCEPT !.buf = H, !.tempHead = head[H]]
    <2>4. l \in ConsumerLocals /\ l.buf = H /\ l.tempHead = head[H] /\ l.moved = c.moved
      BY <1>1, <2>2 DEF ConsumerLocals
    <2>5. Local("loop", l)
      BY <1>8, <2>1, <2>3 DEF LookAtHead
    <2>. HIDE DEF l
    <2>6. H \in Linked
      BY DEF Common, Reachable
    <2>7. AheadInv'
      <3>1. cpc' = "loop" /\ c' = l /\ H' = H /\ head' = head /\ Linked' = Linked
        BY <1>3, <2>4, <2>5
      <3>. QED
        BY <3>1, <2>1, <2>2, <2>4, <2>6 DEF AheadInv
    <2>. QED
      BY <1>3, <2>4, <2>5, <2>7 DEF InOrderConsumer, LookingAhead
  <1>9. CASE LoopHead
    <2>1. cpc = "loop" /\ AheadInv
      BY <1>9 DEF LoopHead, At, InOrderConsumer, LookingAhead
    <2>2. /\ H \in Buffers /\ head[H] \in Slots /\ c.tempHead \in Nat /\ B \in Nat /\ head[H] < B
      BY <2>1, AheadFacts DEF AheadInv
    <2>3. nSet \in {0, 1}
      BY <1>1, <2>2 DEF nSet, FrontInv, Common, MemType
    <2>4. CASE nSet = 1
      BY <1>1, <1>9, <2>2, <2>4, TakeHeadInOrder DEF LoopHead
    <2>5. CASE nSet = 0
      <3>1. PICK s \in {"try", "edge"} : Local(s, c) /\ (s = "try" <=> c.tempHead < B)
        BY <1>9, <2>5 DEF LoopHead
      <3>2. AheadInv'
        BY <1>1, <1>3, <2>1, <2>2, <2>5, <3>1 DEF AheadInv
      <3>. QED
        BY <1>1, <1>3, <3>1, <3>2 DEF InOrderConsumer, LookingAhead
    <2>. QED
      BY <2>3, <2>4, <2>5
  <1>10. CASE TryAhead
    <2>1. cpc = "try" /\ AheadInv /\ c.tempHead < B
      BY <1>10 DEF TryAhead, At, InOrderConsumer, LookingAhead, AheadInv
    <2>2. /\ H \in Buffers /\ c.tempHead \in Nat /\ B \in Nat /\ c.buf \in Buffers /\ H \in Nat
          /\ c.moved \in BOOLEAN /\ c.handled \in BOOLEAN /\ c.buf \in Nat
      BY <2>1, AheadFacts
    <2>3. c.tempHead \in Slots
      BY <2>1, <2>2 DEF Slots
    <2>4. is_set[c.buf][c.tempHead] \in {0, 1}
      BY <1>1, <2>2, <2>3 DEF FrontInv, Common, MemType
    <2>5. is_set[c.buf][c.tempHead] = 1 => nSet = 1
      <3>1. Front <= First(c.buf) + c.tempHead /\ head[H] < B
        BY <2>1, <2>3, AheadFacts DEF AheadInv
      <3>. QED
        BY <3>1, <1>1, <2>2, <2>3, HeadFirst
    <2>. DEFINE l == [c EXCEPT !.tn = c.tempHead, !.tempHead = @ + 1]
    <2>6. /\ l \in ConsumerLocals /\ l.buf = c.buf /\ l.tempHead = c.tempHead + 1 /\ l.tn = c.tempHead
          /\ l.moved = c.moved /\ l.handled = c.handled
      BY <1>1, TryLocals
    <2>7. PICK s \in {"both", "second"} : Local(s, l) /\ (s = "both" => nSet = 1)
      BY <1>10, <2>4, <2>5 DEF TryAhead
    <2>. HIDE DEF l
    <2>8. AheadInv'
      <3>1. cpc' = s /\ c' = l /\ H' = H /\ head' = head /\ Linked' = Linked /\ nSet' = nSet
        BY <1>3, <2>6, <2>7
      <3>2. H <= l.buf /\ (l.moved <=> l.buf > H) /\ (l.buf = H => head[H] <= l.tn)
            /\ (l.moved /\ l.tempHead > 1 => ~l.handled) /\ l.buf \in Linked /\ head[H] < B
            /\ ~ (B = 1 /\ l.moved)
        BY <2>1, <2>2, <2>6 DEF AheadInv
      <3>3. head[H] \in Nat /\ l.tn + 1 = l.tempHead /\ l.tempHead <= B /\ l.tn \in Nat /\ l.tempHead \in Nat
        BY <2>1, <2>2, <2>6, AheadFacts
      <3>. QED
        BY <3>1, <3>2, <3>3, <2>7 DEF AheadInv
    <2>. QED
      BY <1>3, <2>6, <2>7, <2>8 DEF InOrderConsumer, LookingAhead
  <1>11. CASE HeadStillEmpty
    <2>1. cpc = "both" /\ AheadInv /\ nSet = 1
      BY <1>11 DEF HeadStillEmpty, At, InOrderConsumer, LookingAhead, AheadInv
    <2>2. Local("edge", c)
      BY <1>11, <2>1 DEF HeadStillEmpty
    <2>3. AheadInv'
      BY <1>1, <1>3, <2>1, <2>2 DEF AheadInv
    <2>. QED
      BY <1>1, <1>3, <2>2, <2>3 DEF InOrderConsumer, LookingAhead
  <1>12. CASE SecondLook
    <2>1. cpc = "second" /\ AheadInv
      BY <1>12 DEF SecondLook, At, InOrderConsumer, LookingAhead, AheadInv
    <2>2. /\ H \in Buffers /\ c.tempHead \in Nat /\ B \in Nat /\ c.buf \in Buffers /\ H \in Nat
          /\ c.moved \in BOOLEAN /\ c.handled \in BOOLEAN /\ c.tn \in Nat /\ c.buf \in Nat
      BY <2>1, AheadFacts
    <2>3. c.tn \in Slots /\ (c.buf = H => head[H] <= c.tn)
      BY <2>1, <2>2 DEF Slots, AheadInv
    <2>4. is_set[c.buf][c.tn] # 0 => nSet = 1
      <3>1. Front <= First(c.buf) + c.tn /\ head[H] < B
        BY <2>1, <2>3, AheadFacts DEF AheadInv
      <3>. QED
        BY <3>1, <1>1, <2>2, <2>3, HeadFirst
    <2>5. PICK h \in BOOLEAN : h <=> (c.handled /\ is_set[c.buf][c.tn] # 0)
      OBVIOUS
    <2>6. (c.handled /\ is_set[c.buf][c.tn] # 0) = h
      BY <2>2, <2>5
    <2>. DEFINE l == [c EXCEPT !.handled = h]
    <2>7. /\ l \in ConsumerLocals /\ l.buf = c.buf /\ l.tempHead = c.tempHead /\ l.moved = c.moved
          /\ l.handled = h
      BY <1>1, <2>2 DEF ConsumerLocals
    <2>8. Local("edge", l)
      <3>1. [c EXCEPT !.handled = @ /\ is_set[c.buf][c.tn] # 0] = l
        BY <1>1, <2>6 DEF ConsumerLocals
      <3>. QED
        BY <1>12, <3>1 DEF SecondLook
    <2>. HIDE DEF l
    <2>9. AheadInv'
      BY <1>3, <2>1, <2>2, <2>4, <2>5, <2>7, <2>8 DEF AheadInv
    <2>. QED
      BY <1>3, <2>7, <2>8, <2>9 DEF InOrderConsumer, LookingAhead
  <1>13. CASE Edge
    <2>1. cpc = "edge" /\ AheadInv
      BY <1>13 DEF Edge, At, InOrderConsumer, LookingAhead, AheadInv
    <2>2. c.tempHead \in Nat /\ B \in Nat /\ c.moved \in BOOLEAN /\ c.handled \in BOOLEAN
      BY <2>1, AheadFacts
    <2>3. ~ (c.tempHead >= B /\ c.handled /\ c.moved)
      BY <2>1, <2>2, BAssumption DEF AheadInv
    <2>4. PICK s \in {"loop", "ahead"} : Local(s, c)
      BY <1>13, <2>3 DEF Edge
    <2>5. AheadInv'
      BY <1>1, <1>3, <2>1, <2>4 DEF AheadInv
    <2>. QED
      BY <1>1, <1>3, <2>4, <2>5 DEF InOrderConsumer, LookingAhead
  <1>14. CASE StepAhead
    <2>1. cpc = "ahead" /\ AheadInv
      BY <1>14 DEF StepAhead, At, InOrderConsumer, LookingAhead, AheadInv
    <2>2. c.buf \in Buffers /\ c.buf \in Nat /\ H \in Nat /\ H <= c.buf
      BY <2>1, AheadFacts DEF AheadInv
    <2>3. CASE next[c.buf] = NULL
      BY <1>2, <1>14, <2>3 DEF StepAhead
    <2>4. CASE next[c.buf] # NULL
      <3>. DEFINE k == next[c.buf]
                  l == MoveTo(k)
      <3>1. k = c.buf + 1 /\ k \in Linked /\ k \in Buffers /\ k \in Nat /\ k > H
        BY <2>2, <2>4, LinkedRange DEF Common, Chain
      <3>2. head[k] = 0
        BY <1>1, <3>1 DEF FrontInv
      <3>. HIDE DEF k
      <3>3. l \in ConsumerLocals /\ l.buf = k /\ l.tempHead = 0 /\ l.moved
        <4>1. l = [c EXCEPT !.buf = k, !.tempHead = 0, !.moved = TRUE, !.handled = TRUE]
          BY <3>2 DEF MoveTo
        <4>. HIDE DEF l
        <4>. QED
          BY <4>1, <1>1, <3>1 DEF ConsumerLocals
      <3>4. Local("loop", l)
        BY <1>14, <2>4 DEF StepAhead, k
      <3>. HIDE DEF l
      <3>5. AheadInv'
        <4>1. B \in Nat /\ head[H] < B
          BY <2>1, AheadFacts DEF AheadInv
        <4>2. cpc' = "loop" /\ c' = l /\ H' = H /\ head' = head /\ Linked' = Linked
          BY <1>3, <3>3, <3>4
        <4>3. B = 1 => nSet = 1
          <5>. SUFFICES ASSUME B = 1 PROVE nSet = 1
            OBVIOUS
          <5>1. k # 1 /\ First(k) < gTail /\ First(H) + B <= First(k)
            BY <2>2, <3>1, FrontIs, FirstMono DEF NoneAhead, InUse
          <5>2. First(H) \in Nat /\ First(k) \in Nat /\ gTail \in Nat /\ head[H] = 0
            BY <3>1, <4>1, FrontIs, LinkedRange DEF Common, CallType
          <5>3. Front + 1 < gTail
            BY <5>1, <5>2 DEF Front
          <5>. QED
            BY <1>1, <4>1, <5>3, HeadFirst
        <4>. QED
          BY <1>3, <2>2, <3>1, <3>3, <3>4, <4>1, <4>2, <4>3 DEF AheadInv
      <3>. QED
        BY <1>3, <3>3, <3>4, <3>5 DEF InOrderConsumer, LookingAhead
    <2>. QED
      BY <2>3, <2>4
  <1>15. CASE MoveHead
    <2>1. cpc = "elem" /\ head[H] >= B
      BY <1>15 DEF MoveHead, At
    <2>2. CASE ~ CanMove
      BY <1>2, <1>15, <2>2 DEF MoveHead
    <2>3. CASE CanMove
      <3>1. Local("drop", c)
        BY <1>15, <2>3 DEF MoveHead
      <3>2. head[H] = B /\ H < tailOfQueue
        BY <2>1, <2>3, FrontIs, LinkedRange DEF CanMove, Common, Reachable
      <3>3. \A p \in Holding : w[p].tempTail = tailOfQueue
        <4>. SUFFICES ASSUME NEW p \in Holding PROVE w[p].tempTail = tailOfQueue
          OBVIOUS
        <4>1. p \in Producers /\ ppc[p] # "idle"
          BY DEF Holding
        <4>2. Alone(p)
          BY <4>1 DEF Contended, Alone, Common, CallType
        <4>. QED
          BY <4>1, <4>2, <1>1 DEF AloneAtTail
      <3>4. DropInv'
        BY <1>1, <1>3, <3>1, <3>2, <3>3 DEF DropInv
      <3>. QED
        BY <1>1, <1>3, <3>1, <3>4 DEF InOrderConsumer, LookingAhead
    <2>. QED
      BY <2>2, <2>3
  <1>16. CASE DropHead
    <2>1. DropInv
      BY <1>16 DEF DropHead, At, InOrderConsumer
    <2>. QED
      BY <1>1, <1>16, <2>1, DropHeadInOrder
  <1>17. ~ (ScanCond \/ ScanCross \/ ScanSlot \/ ScanEnd \/ FoldCheckTail \/ FoldPrev \/ FoldNext \/ FoldFree)
    BY DEF InOrderConsumer, LookingAhead, ScanCond, ScanCross, ScanSlot, ScanEnd, FoldCheckTail,
           FoldPrev, FoldNext, FoldFree, At
  <1>. QED
    BY <1>5, <1>6, <1>7, <1>8, <1>9, <1>10, <1>11, <1>12, <1>13, <1>14, <1>15, <1>16, <1>17
       DEF dequeue

----------------------------------------------------------------------------
(* No fault, nothing lost; the destructor                                  *)

LEMMA LiveFrom == ASSUME Common, NEW k \in Linked, H <= k PROVE Live(k)
  <1>1. k \in Buffers /\ k \in Nat /\ k >= 1 /\ H \in Nat
    BY LinkedRange, FrontIs
  <1>2. status[k] \in {"absent", "live", "freed"} /\ status[k] # "absent" /\ status[k] # "freed"
    BY <1>1 DEF Common, MemType, Reachable, Linked
  <1>. QED
    BY <1>1, <1>2 DEF Live, NULL

\* No thread is about to use a buffer that is not live.
LEMMA NoFaultStep ==
  ASSUME Common, cpc # "foldnext", cpc = "scanN" => c.scanHead < B /\ c.scanHead \in Nat
  PROVE  ~ Fault
  <1>1. Live(tailOfQueue) /\ Live(H)
    BY LiveFrom, FrontIs DEF Common, Reachable
  <1>2. Live(ConsumerAccessed)
    BY <1>1, BAssumption DEF ConsumerAccessed
  <1>3. ASSUME NEW p \in Producers PROVE Live(Accessed(p))
    <2>1. ppc[p] \in {"walk", "data", "flag", "grow", "next", "alloc"} => Live(w[p].tempTail)
      <3>1. ppc[p] \in {"walk", "data", "flag", "grow", "next", "alloc"} => p \in Holding
        BY DEF Holding
      <3>2. p \in Holding => w[p].tempTail \in Linked /\ H <= w[p].tempTail
        BY DEF Common, AllPlaced, Placed
      <3>. QED
        BY <3>1, <3>2, LiveFrom
    <2>. QED
      BY <1>1, <2>1 DEF Accessed
  <1>. QED
    BY <1>2, <1>3 DEF Fault

\* Values stored at earlier locations are delivered first.
LEMMA InOrderDelivery ==
  ASSUME Common, FrontInv
  PROVE  NoDuplicate /\ RealTimeOrder /\ NothingLost /\ RightBuffer
  <1>1. Delivered \subseteq Stored /\ Returned \subseteq Stored /\ Stored \subseteq Value
    <2>1. Delivered \subseteq Stored
      BY DEF FrontInv, Delivered
    <2>. QED
      BY <2>1 DEF Returned, Stored, Open
  <1>2. \A v \in Stored : \E k \in Buffers, i \in Slots :
          is_set[k][i] # 0 /\ data[k][i] = v /\ delivered[v] = IF First(k) + i < Front THEN 1 ELSE 0
    BY DEF Common, Contents, FrontInv
  <1>3. Front \in Nat /\ \A k \in Buffers, i \in Slots : First(k) + i \in Nat
    BY FrontIs, BufferRange, FirstNat, BAssumption DEF Slots
  <1>4. NoDuplicate
    <2>1. delivered \in [Value -> Nat]
      BY DEF Common, CallType
    <2>. SUFFICES ASSUME NEW v \in Value PROVE delivered[v] <= 1
      BY DEF NoDuplicate
    <2>2. CASE v \in Stored
      BY <2>2, <1>2
    <2>3. CASE v \notin Stored
      BY <2>1, <2>3 DEF FrontInv
    <2>. QED
      BY <2>2, <2>3
  <1>5. RealTimeOrder
    <2>. SUFFICES ASSUME NEW v \in Delivered, NEW u \in before[v] PROVE u \in Delivered
      BY DEF RealTimeOrder
    <2>1. v \in Value /\ v \in Stored /\ u \in Returned /\ u \in Stored /\ u \in Value /\ delivered[v] > 0
      BY <1>1 DEF Delivered, Common, Order
    <2>2. PICK l \in Buffers, j \in Slots :
            is_set[l][j] # 0 /\ data[l][j] = v /\ delivered[v] = IF First(l) + j < Front THEN 1 ELSE 0
      BY <1>2, <2>1
    <2>3. PICK k \in Buffers, i \in Slots :
            is_set[k][i] # 0 /\ data[k][i] = u /\ delivered[u] = IF First(k) + i < Front THEN 1 ELSE 0
      BY <1>2, <2>1
    <2>4. First(k) + i < First(l) + j
      BY <2>2, <2>3 DEF Common, Order
    <2>5. delivered[u] = 1
      BY <1>3, <2>1, <2>2, <2>3, <2>4
    <2>. QED
      BY <2>1, <2>5 DEF Delivered
  <1>6. NothingLost
    <2>. SUFFICES ASSUME NEW v \in Returned \ Delivered
                  PROVE  \E k \in Buffers, i \in Slots :
                           status[k] = "live" /\ is_set[k][i] = 1 /\ data[k][i] = v /\ i >= head[k]
      BY DEF NothingLost
    <2>1. v \in Value /\ v \in Stored /\ delivered[v] = 0
      BY <1>1 DEF Delivered, Common, CallType
    <2>2. PICK k \in Buffers, i \in Slots :
            is_set[k][i] # 0 /\ data[k][i] = v /\ delivered[v] = IF First(k) + i < Front THEN 1 ELSE 0
      BY <1>2, <2>1
    <2>3. is_set[k][i] = 1 /\ k \in Linked /\ Front <= First(k) + i
      <3>1. is_set[k][i] \in {0, 1, 2}
        BY DEF Common, MemType
      <3>. QED
        BY <3>1, <2>1, <2>2, <1>3 DEF FrontInv, Common, Contents
    <2>4. /\ H \in Nat /\ k \in Nat /\ First(H) \in Nat /\ First(k) \in Nat /\ head[H] \in Nat
          /\ Front = First(H) + head[H] /\ i \in Nat /\ i < B /\ B \in Nat
      BY FrontIs, BufferRange, FirstNat DEF Front, Slots
    <2>5. H <= k
      BY <2>3, <2>4, FirstMono
    <2>6. i >= head[k]
      <3>1. CASE k = H
        BY <3>1, <2>3, <2>4
      <3>2. CASE k # H
        BY <3>2, <2>4, <2>5 DEF FrontInv
      <3>. QED
        BY <3>1, <3>2
    <2>7. status[k] = "live"
      BY <2>3, <2>5, LiveFrom DEF Live
    <2>. QED
      BY <2>2, <2>3, <2>6, <2>7
  <1>7. RightBuffer
    <2>. SUFFICES ASSUME NEW p \in Producers
                  PROVE  /\ ppc[p] = "walk" => w[p].ticket < First(w[p].tempTail)
                         /\ ppc[p] \in {"data", "flag"} => w[p].ticket = First(w[p].tempTail) + Index(p)
                         /\ ppc[p] = "next" => w[p].ticket >= First(w[p].tempTail) + B
      BY DEF RightBuffer, First
    <2>1. ppc[p] \in {"walk", "next"} => Placed(p)
      BY DEF Common, AllPlaced, Holding
    <2>2. ppc[p] = "next" => w[p].ticket \in Nat /\ First(w[p].tempTail) \in Nat /\ B \in Nat
      BY HolderFacts, BAssumption DEF Open, Holding
    <2>. QED
      BY <2>1, <2>2, CellFacts DEF Placed, Moving
  <1>. QED
    BY <1>4, <1>5, <1>6, <1>7

LEMMA DestroyKeeps ==
  ASSUME MemType, Chain, H \in Linked, RealTimeOrder, NoDuplicate, ~ fault, fault' = fault, Destroy,
         \A p \in Producers : ppc[p] = "idle" /\ sent[p] = Quota[p],
         \A k \in Buffers : k < H => status[k] # "live",
         \A k \in Buffers : k >= H => status[k] # "freed"
  PROVE  Destroyed'
  <1>1. /\ status' = [status EXCEPT ![H] = "freed"]
        /\ UNCHANGED <<Producer, next, is_set, head, c, delivered, waiting>>
    BY DEF Destroy
  <1>2. UNCHANGED <<ppc, w, gTail, sent, before, tailOfQueue, prev, data, next, is_set, head, delivered>>
    BY <1>1 DEF Producer
  <1>3. H \in Buffers /\ H \in Nat
    BY LinkedRange
  <1>4. \A k \in Buffers : status'[k] = IF k = H THEN "freed" ELSE status[k]
    BY <1>1 DEF MemType
  <1>5. Linked' = Linked
    BY <1>4 DEF Linked
  <1>6. MemType'
    <2>1. status' \in [Buffers -> {"absent", "live", "freed"}]
      BY <1>1 DEF MemType
    <2>. QED
      BY <1>2, <2>1 DEF MemType
  <1>7. Chain'
    BY <1>2, <1>5 DEF Chain
  <1>8. RealTimeOrder' /\ NoDuplicate'
    BY <1>2 DEF RealTimeOrder, NoDuplicate, Delivered
  <1>9. CASE next[H] # NULL
    <2>1. H' = H + 1 /\ cpc' = "destroy" /\ H + 1 \in Linked
      BY <1>3, <1>9 DEF Destroy, Chain, H
    <2>2. \A k \in Buffers : k < H + 1 => status'[k] # "live"
      BY <1>3, <1>4, BufferRange
    <2>3. \A k \in Buffers : k >= H + 1 => status'[k] # "freed"
      BY <1>3, <1>4, BufferRange
    <2>. QED
      BY <1>2, <1>5, <1>6, <1>7, <1>8, <2>1, <2>2, <2>3 DEF Destroyed
  <1>10. CASE next[H] = NULL
    <2>1. H' = H /\ cpc' = "gone"
      BY <1>10 DEF Destroy, H
    <2>2. \A k \in Buffers : k > H => k \notin Linked
      BY <1>3, <1>10 DEF Chain, NULL
    <2>3. \A k \in Buffers : status'[k] # "live"
      BY <1>3, <1>4, <2>2, BufferRange DEF Linked
    <2>. QED
      BY <1>2, <1>5, <1>6, <1>7, <1>8, <2>1, <2>3 DEF Destroyed
  <1>. QED
    BY <1>9, <1>10

\* Only the destructor goes on after it has begun.
LEMMA DestroyedQuiet == ASSUME Destroyed PROVE ~ Consume /\ \A p \in Producers : ~ Produce(p)
  <1>1. ASSUME NEW p \in Producers, Produce(p) PROVE FALSE
    <2>1. ppc[p] = "idle" /\ sent[p] = Quota[p] /\ Quota[p] \in Nat
      BY QuotaAssumption DEF Destroyed
    <2>. QED
      BY <1>1, <2>1 DEF Produce, FetchAdd, enqueueStep, LoadTail, WalkBack, StoreData, StoreFlag, Grow,
                   LoadNext, Alloc, SetTail, CasTail, Goto
  <1>2. ~ Consume
    BY DEF Destroyed, Consume, dequeue, LoadPrevSize, CompareTail, CompareGTail, LookAtHead, LoopHead,
           TryAhead, HeadStillEmpty, SecondLook, ScanCond, ScanCross, ScanSlot, ScanEnd, Edge, StepAhead,
           FoldCheckTail, FoldPrev, FoldNext, FoldFree, MoveHead, DropHead, At
  <1>. QED
    BY <1>1, <1>2

LEMMA DestroyedKeeps == ASSUME Destroyed, Next PROVE Destroyed'
  <1>1. ~ Consume /\ \A p \in Producers : ~ Produce(p)
    BY DestroyedQuiet
  <1>3. CASE ~fault /\ Destroy /\ UNCHANGED <<overlap, fault>>
    <2>1. cpc = "destroy"
      BY <1>3 DEF Destroyed, Destroy, Joined
    <2>. QED
      BY <1>3, <2>1, DestroyKeeps DEF Destroyed
  <1>4. ~ Fault
    <2>. SUFFICES ASSUME Fault PROVE FALSE
      OBVIOUS
    <2>1. cpc = "destroy" /\ H \in Linked
      BY DEF Fault, Destroyed
    <2>2. H \in Buffers /\ H \in Nat /\ H >= 1
      BY <2>1, LinkedRange
    <2>3. Live(H)
      BY <2>1, <2>2 DEF Destroyed, MemType, Linked, Live, NULL
    <2>4. ConsumerAccessed = H /\ \A p \in Producers : Accessed(p) = H
      BY <2>1 DEF Destroyed, ConsumerAccessed, Accessed
    <2>. QED
      BY <2>3, <2>4 DEF Fault
  <1>5. CASE Halted
    <2>1. UNCHANGED <<mem, headOfQueue, ppc, cpc, sent, delivered, before, fault>>
      BY <1>5 DEF Halted, vars
    <2>2. UNCHANGED <<status, next, prev, head, is_set, data>>
      BY <2>1 DEF mem
    <2>3. Linked' = Linked /\ H' = H /\ RealTimeOrder' = RealTimeOrder /\ NoDuplicate' = NoDuplicate
      BY <2>1, <2>2 DEF Linked, H, RealTimeOrder, NoDuplicate, Delivered
    <2>4. MemType' /\ Chain'
      BY <2>1, <2>2, <2>3 DEF Destroyed, MemType, Chain
    <2>. QED
      BY <2>1, <2>2, <2>3, <2>4 DEF Destroyed
  <1>. QED
    BY <1>1, <1>3, <1>4, <1>5 DEF Next

LEMMA BeginsDestroyed ==
  ASSUME Common, RealTimeOrder, NoDuplicate, ~ fault, fault' = fault, Destroy, cpc # "destroy"
  PROVE  Destroyed'
  <1>1. Joined
    BY DEF Destroy
  <1>2. H \in Nat /\ H \in Linked /\ MemType /\ Chain
    BY FrontIs DEF Common, Reachable
  <1>3. \A k \in Buffers : (k < H => status[k] # "live") /\ (k >= H => status[k] # "freed")
    BY <1>2, BufferRange DEF Common, Reachable
  <1>. QED
    BY <1>1, <1>2, <1>3, DestroyKeeps DEF Joined

LEMMA StutterInOrder ==
  ASSUME Common, InOrderConsumer, UNCHANGED vars PROVE Common' /\ InOrderConsumer'
  <1>1. /\ UNCHANGED <<Producer, Buffer, head, headOfQueue, delivered>> /\ c' = c /\ cpc' = cpc
    BY DEF vars, mem, Producer, Buffer
  <1>2. /\ Common' /\ AloneAtTail' /\ FrontInv' /\ nSet' = nSet /\ H' = H
        /\ Linked' = Linked /\ Holding' = Holding /\ head' = head
        /\ tailOfQueue' = tailOfQueue /\ w' = w
    BY <1>1, QuietStep DEF InOrderConsumer, Common, CallType
  <1>3. AheadInv' = AheadInv /\ DropInv' = DropInv
    BY <1>1, <1>2 DEF AheadInv, DropInv
  <1>. QED
    BY <1>1, <1>2, <1>3 DEF InOrderConsumer

LEMMA StutterDestroyed == ASSUME Destroyed, UNCHANGED vars PROVE Destroyed'
  <1>1. UNCHANGED <<headOfQueue, ppc, cpc, sent, delivered, before, fault,
                    status, next, prev, head, is_set, data>>
    BY DEF vars, mem
  <1>2. Linked' = Linked /\ H' = H /\ RealTimeOrder' = RealTimeOrder /\ NoDuplicate' = NoDuplicate
    BY <1>1 DEF Linked, H, RealTimeOrder, NoDuplicate, Delivered
  <1>3. MemType' /\ Chain'
    BY <1>1, <1>2 DEF Destroyed, MemType, Chain
  <1>. QED
    BY <1>1, <1>2, <1>3 DEF Destroyed

LEMMA UncontendedNext ==
  ASSUME NoWrap, UncontendedInv, [Next]_vars PROVE UncontendedInv'
  <1>. SUFFICES ASSUME ~ overlap' PROVE Uncontended' \/ Destroyed'
    BY DEF UncontendedInv
  <1>1. ~ overlap
    BY DEF Next, Produce, Consume, Fault, Halted, vars
  <1>2. CASE Destroyed
    BY <1>2, DestroyedKeeps, StutterDestroyed
  <1>3. CASE Uncontended
    <2>. ~fault /\ Common /\ InOrderConsumer /\ NoneAhead
      BY <1>3 DEF Uncontended
    <2>1. CASE UNCHANGED vars
      <3>1. fault' = fault /\ UNCHANGED <<ppc, gTail, status>>
        BY <2>1 DEF vars, mem
      <3>2. NoneAhead'
        BY <3>1 DEF NoneAhead, Linked, InUse
      <3>. QED
        BY <2>1, <3>1, <3>2, StutterInOrder DEF Uncontended
    <2>2. ASSUME NEW p \in Producers, Produce(p) PROVE Uncontended'
      <3>1. fault' = fault
        BY <2>2 DEF Produce
      <3>. QED
        BY <2>2, <3>1, ProduceCommon, ProduceInOrder, ProduceNoneAhead DEF Uncontended
    <2>3. CASE Consume
      <3>1. ~ Contended /\ dequeue /\ fault' = fault
        BY <2>3 DEF Consume
      <3>. QED
        BY <3>1, ConsumeInOrder, ConsumeNoneAhead DEF Uncontended
    <2>4. CASE ~fault /\ Destroy /\ UNCHANGED <<overlap, fault>>
      <3>1. cpc # "destroy"
        BY DEF InOrderConsumer, LookingAhead
      <3>2. RealTimeOrder /\ NoDuplicate
        BY InOrderDelivery DEF InOrderConsumer
      <3>. QED
        BY <2>4, <3>1, <3>2, BeginsDestroyed
    <2>5. ~ Fault
      BY NoFaultStep DEF InOrderConsumer, LookingAhead
    <2>6. CASE Halted
      BY <2>1, <2>6 DEF Halted
    <2>. QED
      BY <2>1, <2>2, <2>3, <2>4, <2>5, <2>6 DEF Next
  <1>. QED
    BY <1>1, <1>2, <1>3 DEF UncontendedInv

LEMMA InitInOrder == ASSUME NoWrap, Init PROVE Uncontended
  <1>1. Common
    BY InitCommon
  <1>2. Open = {} /\ Holding = {}
    BY DEF Init, Open, Holding
  <1>3. Front = 0
    BY FirstOne, BufferRange DEF Init, Front, H
  <1>4. AloneAtTail
    BY <1>2 DEF AloneAtTail
  <1>5. FrontInv
    BY <1>2, <1>3 DEF Init, FrontInv
  <1>6. NoneAhead
    BY DEF Init, NoneAhead, Linked, InUse
  <1>. QED
    BY <1>1, <1>4, <1>5, <1>6 DEF Init, InOrderConsumer, LookingAhead, Uncontended

LEMMA UncontendedSafe == ASSUME UncontendedInv PROVE SafeWithoutOverlap
  <1>. SUFFICES ASSUME ~ overlap
                PROVE  /\ NoFault /\ NoDuplicate /\ NothingLost /\ RealTimeOrder
                       /\ RightBuffer /\ NoLeak
    BY DEF SafeWithoutOverlap
  <1>1. CASE Destroyed
    <2>1. NothingLost
      BY <1>1 DEF Destroyed, NothingLost
    <2>2. RightBuffer
      BY <1>1 DEF Destroyed, RightBuffer
    <2>3. NoLeak
      BY <1>1 DEF Destroyed, NoLeak
    <2>. QED
      BY <1>1, <2>1, <2>2, <2>3 DEF Destroyed, NoFault
  <1>2. CASE Uncontended
    <2>. ~fault /\ Common /\ InOrderConsumer
      BY <1>2 DEF Uncontended
    <2>1. NoDuplicate /\ RealTimeOrder /\ NothingLost /\ RightBuffer
      BY InOrderDelivery DEF InOrderConsumer
    <2>2. NoLeak
      BY DEF NoLeak, InOrderConsumer, LookingAhead
    <2>. QED
      BY <1>2, <2>1, <2>2 DEF NoFault
  <1>. QED
    BY <1>1, <1>2 DEF UncontendedInv

\* While dequeue has only run next to a producer that alone has used the queue, or
\* with every producer outside a call, every element is taken at the head, in the
\* order of the locations fetch_add gave out; then the destructor frees the list.
THEOREM UncontendedInductive == ASSUME NoWrap PROVE Spec => []UncontendedInv
  <1>1. Init => UncontendedInv
    BY InitInOrder DEF UncontendedInv
  <1>2. UncontendedInv /\ [Next]_vars => UncontendedInv'
    BY UncontendedNext
  <1>. QED
    BY <1>1, <1>2, PTL DEF Spec

\* enqueue and dequeue are safe across buffers, for any NODE_SIZE, until a
\* dequeue meets one of several producers in a call: no freed buffer is used, each
\* element is stored into its location's buffer and taken once, in real-time order,
\* none is lost and no buffer leaks.
THEOREM SafeWithoutOverlapHolds == ASSUME NoWrap PROVE Spec => []SafeWithoutOverlap
  <1>1. UncontendedInv => SafeWithoutOverlap
    BY UncontendedSafe
  <1>. QED
    BY <1>1, UncontendedInductive, PTL

----------------------------------------------------------------------------
(* Within one buffer, among any number of producers                        *)

\* all calls fit into the first buffer
OneBuffer == NoWrap /\ Total <= B

\* the head's slots that were taken
Taken(i) == is_set[1][i] = 2 \/ (is_set[1][i] = 1 /\ i < head[1])

OnlyBuffer ==
  /\ \A i \in Slots : i < head[1] => is_set[1][i] # 0
  /\ \A k \in Buffers : k > 1 => head[k] = 0
  /\ \A i \in Slots : is_set[1][i] # 0 => delivered[data[1][i]] = IF Taken(i) THEN 1 ELSE 0
  /\ \A v \in Value : delivered[v] > 0 => v \in Stored

\* No value stored at i had returned when the call at a location up to t began.
NotBefore(i, t) ==
  is_set[1][i] = 1 =>
    /\ \A j \in Slots : j <= t /\ is_set[1][j] # 0 => data[1][i] \notin before[data[1][j]]
    /\ \A p \in Open : w[p].ticket <= t => data[1][i] \notin before[Mine(p)]
PassedTo(i) == \A j \in Slots : head[1] <= j /\ j < i => NotBefore(j, c.tn)

LookInv ==
  /\ c.buf \in Linked /\ c.tempHead <= B /\ head[1] < B
  /\ c.moved <=> c.buf > 1
  /\ c.buf = 1 => head[1] <= c.tempHead
  /\ cpc = "try" => c.tempHead < B
  /\ cpc \in {"both", "second"} => c.tn + 1 = c.tempHead /\ (c.buf = 1 => head[1] <= c.tn)
  /\ cpc = "both" => c.buf = 1 /\ is_set[1][c.tn] = 1
  /\ c.buf > 1 /\ c.tempHead > 0 /\ cpc \in {"loop", "try", "edge", "ahead"} => ~c.handled

Scanning == {"scan", "scanN", "scanned"}
ScanInv ==
  /\ c.buf = 1 /\ c.scanBuf = 1 /\ ~c.moved /\ head[1] < B
  /\ c.tn \in Slots /\ head[1] <= c.tn /\ is_set[1][c.tn] = 1
  /\ \/ c.tempHead = c.tn + 1 /\ (cpc # "scanned" => PassedTo(c.scanHead))
     \/ c.tempHead = c.tn /\ PassedTo(c.tn)
  /\ cpc = "scanN" => c.scanHead < c.tempHead - 1 /\ head[1] <= c.scanHead
  /\ cpc = "scanned" /\ nSet = 0 => PassedTo(c.tn)
  /\ cpc = "scan" => head[1] <= c.scanHead

OneBufferConsumer ==
  /\ OnlyBuffer /\ RealTimeOrder
  /\ cpc \in {"idle", "again", "tail", "gtail", "elem"} \cup LookingAhead \cup Scanning
  /\ cpc \in {"tail", "gtail", "elem"} => ~c.moved
  /\ cpc \in LookingAhead \cup Scanning => nSet # 2
  /\ cpc \in LookingAhead => LookInv
  /\ cpc \in Scanning => ScanInv

OneBufferInv == (~fault /\ Common /\ OneBufferConsumer) \/ Destroyed

\* When all calls fit into one buffer, no other one is ever used.
LEMMA OnlyOne ==
  ASSUME OneBuffer, Common
  PROVE  /\ H = 1 /\ tailOfQueue = 1 /\ gTail \in Nat /\ gTail <= B /\ B \in Nat /\ B > 0
         /\ \A k \in Buffers, i \in Slots : is_set[k][i] # 0 => k = 1
         /\ head[1] \in 0 .. B /\ 1 \in Buffers /\ 1 \in Linked /\ First(1) = 0
         /\ nSet = is_set[1][head[1]] /\ NoWrap
         /\ \A i \in Slots : is_set[1][i] # 0 <=> Filled(i)
         /\ \A i \in Slots : is_set[1][i] \in {0, 1, 2}
         /\ \A i \in Slots : is_set[1][i] # 0 => data[1][i] \in Stored /\ data[1][i] \in Value
         /\ \A i, j \in Slots : is_set[1][i] # 0 /\ is_set[1][j] # 0 /\ data[1][i] = data[1][j] => i = j
         /\ \A v \in Stored : \E i \in Slots : is_set[1][i] # 0 /\ data[1][i] = v
  <1>1. /\ gTail \in Nat /\ gTail <= Total /\ Total \in Nat /\ B \in Nat /\ B > 0
        /\ Total <= B /\ NoWrap
    BY TotalBound, ValueFinite, BAssumption DEF Common, CallType, OneBuffer
  <1>2. First(1) = 0 /\ 1 \in Buffers
    BY FirstOne, BufferRange
  <1>3. \A k \in Buffers : k \in Nat /\ k >= 1 /\ First(k) \in Nat /\ (k # 1 => B <= First(k))
    <2>1. \A k \in Buffers : k \in Nat /\ k >= 1 /\ First(k) \in Nat
      BY BufferRange, FirstNat
    <2>2. \A k \in Buffers : k # 1 => First(1) + B <= First(k)
      BY <2>1, FirstMono
    <2>. QED
      BY <2>1, <2>2, <1>1, <1>2
  <1>4. tailOfQueue = 1 /\ H = 1
    <2>1. tailOfQueue \in Buffers /\ H \in Buffers /\ H <= tailOfQueue /\ InUse(tailOfQueue)
      BY LinkedRange DEF Common, Reachable
    <2>. QED
      BY <2>1, <1>1, <1>3 DEF InUse
  <1>5. ASSUME NEW k \in Buffers, NEW i \in Slots, is_set[k][i] # 0 PROVE k = 1
    <2>1. First(k) + i < gTail
      BY <1>5 DEF Common, Contents, Filled
    <2>. QED
      BY <2>1, <1>1, <1>3 DEF Slots
  <1>6. \A i \in Slots : is_set[1][i] # 0 <=> Filled(i)
    <2>1. \A i \in Slots : First(1) + i = i
      BY <1>2 DEF Slots
    <2>. QED
      BY <1>2, <2>1 DEF Common, Contents
  <1>7. /\ \A i \in Slots : is_set[1][i] # 0 => data[1][i] \in Stored /\ data[1][i] \in Value
        /\ \A i, j \in Slots : is_set[1][i] # 0 /\ is_set[1][j] # 0 /\ data[1][i] = data[1][j] => i = j
        /\ \A v \in Stored : \E i \in Slots : is_set[1][i] # 0 /\ data[1][i] = v
    <2>1. Stored \subseteq Value
      BY DEF Stored
    <2>. QED
      BY <1>2, <1>5, <2>1 DEF Common, Contents
  <1>. QED
    BY <1>1, <1>2, <1>4, <1>5, <1>6, <1>7 DEF Common, MemType, Chain, nSet

\* In one buffer, what happened before the call at a slot is at earlier slots.
LEMMA OneOrder ==
  ASSUME OneBuffer, Common
  PROVE  /\ \A i, j \in Slots : is_set[1][i] # 0 /\ is_set[1][j] # 0 /\ data[1][i] \in before[data[1][j]] => i < j
         /\ \A p \in Open, i \in Slots : is_set[1][i] # 0 /\ data[1][i] \in before[Mine(p)] => i < w[p].ticket
  <1>1. First(1) = 0 /\ 1 \in Buffers
    BY OnlyOne
  <1>2. \A i \in Slots : First(1) + i = i
    BY <1>1 DEF Slots
  <1>. QED
    BY <1>1, <1>2 DEF Common, Order

LEMMA ProduceOnly ==
  ASSUME OneBuffer, Common, NEW p \in Producers, Produce(p), OnlyBuffer PROVE OnlyBuffer'
  <1>0. NoWrap
    BY DEF OneBuffer
  <1>1. /\ UNCHANGED Consumer /\ Stored \subseteq Stored'
        /\ \A k \in Buffers, i \in Slots : is_set[k][i] # 0 =>
              is_set'[k][i] = is_set[k][i] /\ data'[k][i] = data[k][i]
        /\ \A k \in Buffers, i \in Slots : is_set[k][i] = 0 /\ is_set'[k][i] # 0 =>
              is_set'[k][i] = 1 /\ p \in Open /\ data'[k][i] = Mine(p)
    BY <1>0, ProduceFacts
  <1>2. head' = head /\ delivered' = delivered
    BY <1>1 DEF Consumer
  <1>3. 1 \in Buffers /\ head[1] \in Nat
    BY OnlyOne
  <1>4. \A i \in Slots : i < head'[1] => is_set'[1][i] # 0
    BY <1>1, <1>2, <1>3 DEF OnlyBuffer
  <1>5. ASSUME NEW i \in Slots, is_set'[1][i] # 0
        PROVE  delivered'[data'[1][i]] = IF Taken(i)' THEN 1 ELSE 0
    <2>1. CASE is_set[1][i] # 0
      <3>1. Taken(i)' <=> Taken(i)
        BY <2>1, <1>1, <1>2, <1>3 DEF Taken
      <3>. QED
        BY <2>1, <3>1, <1>1, <1>2, <1>3 DEF OnlyBuffer
    <2>2. CASE is_set[1][i] = 0
      <3>1. p \in Open /\ data'[1][i] = Mine(p) /\ is_set'[1][i] = 1
        BY <2>2, <1>1, <1>3, <1>5
      <3>2. Mine(p) \in Value /\ Mine(p) \notin Stored
        BY <3>1, HolderFacts
      <3>3. delivered[Mine(p)] = 0
        BY <3>2 DEF OnlyBuffer, Common, CallType
      <3>4. ~ Taken(i)'
        BY <3>1, <2>2, <1>2 DEF Taken, OnlyBuffer
      <3>. QED
        BY <3>1, <3>3, <3>4, <1>2
    <2>. QED
      BY <2>1, <2>2
  <1>. QED
    BY <1>1, <1>2, <1>4, <1>5 DEF OnlyBuffer

LEMMA ProduceOrder ==
  ASSUME OneBuffer, Common, NEW p \in Producers, Produce(p), OnlyBuffer, RealTimeOrder
  PROVE  RealTimeOrder'
  <1>0. NoWrap
    BY DEF OneBuffer
  <1>1. UNCHANGED Consumer /\ \A v \in Stored : before'[v] = before[v]
    BY <1>0, ProduceFacts
  <1>2. Delivered' = Delivered
    BY <1>1 DEF Consumer, Delivered
  <1>3. Delivered \subseteq Stored
    BY DEF Delivered, OnlyBuffer
  <1>. QED
    BY <1>1, <1>2, <1>3 DEF RealTimeOrder

LEMMA ProduceNot ==
  ASSUME OneBuffer, Common, NEW p \in Producers, Produce(p), NEW i \in Slots, NEW t \in Nat,
         t < gTail, NotBefore(i, t)
  PROVE  NotBefore(i, t)'
  <1>0. NoWrap /\ 1 \in Buffers /\ gTail \in Nat
    BY OnlyOne
  <1>1. /\ \A k \in Buffers, j \in Slots : is_set[k][j] # 0 =>
              is_set'[k][j] = is_set[k][j] /\ data'[k][j] = data[k][j]
        /\ \A k \in Buffers, j \in Slots : is_set[k][j] = 0 /\ is_set'[k][j] # 0 =>
              /\ is_set'[k][j] = 1 /\ p \in Open /\ data'[k][j] = Mine(p)
              /\ First(k) + j = w[p].ticket
        /\ \A q \in Open' : IF q \in Open
              THEN w'[q].ticket = w[q].ticket /\ Mine(q)' = Mine(q) /\ before'[Mine(q)] = before[Mine(q)]
              ELSE w'[q].ticket = gTail /\ q = p
        /\ \A v \in Stored : before'[v] = before[v]
        /\ \A q \in Open : before'[Mine(q)] = before[Mine(q)]
    BY <1>0, ProduceFacts
  <1>2. \A j \in Slots : First(1) + j = j
    BY OnlyOne DEF Slots
  <1>3. \A j \in Slots : is_set[1][j] # 0 => data[1][j] \in Stored
    BY OnlyOne
  <1>. SUFFICES ASSUME is_set'[1][i] = 1
                PROVE  /\ \A j \in Slots : j <= t /\ is_set'[1][j] # 0 => data'[1][i] \notin before'[data'[1][j]]
                       /\ \A q \in Open' : w'[q].ticket <= t => data'[1][i] \notin before'[Mine(q)']
    BY DEF NotBefore
  <1>4. CASE is_set[1][i] = 1
    <2>1. data'[1][i] = data[1][i]
      BY <1>4, <1>1, <1>0
    <2>2. ASSUME NEW j \in Slots, j <= t, is_set'[1][j] # 0 PROVE data[1][i] \notin before'[data'[1][j]]
      <3>1. CASE is_set[1][j] # 0
        BY <3>1, <2>2, <1>4, <1>0, <1>1, <1>3 DEF NotBefore
      <3>2. CASE is_set[1][j] = 0
        <4>1. p \in Open /\ data'[1][j] = Mine(p) /\ j = w[p].ticket
          BY <3>2, <2>2, <1>0, <1>1, <1>2
        <4>. QED
          BY <4>1, <2>2, <1>4, <1>1 DEF NotBefore
      <3>. QED
        BY <3>1, <3>2
    <2>3. ASSUME NEW q \in Open', w'[q].ticket <= t PROVE data[1][i] \notin before'[Mine(q)']
      BY <2>3, <1>0, <1>1, <1>4 DEF NotBefore
    <2>. QED
      BY <2>1, <2>2, <2>3
  <1>5. CASE is_set[1][i] # 1
    <2>0. is_set[1][i] = 0
      BY <1>5, <1>0, <1>1
    <2>1. p \in Open /\ data'[1][i] = Mine(p)
      BY <2>0, <1>0, <1>1
    <2>2. Mine(p) \notin Returned
      BY <2>1, HolderFacts
    <2>3. ASSUME NEW v \in Value, v \in Stored \/ \E q \in Open : v = Mine(q)
          PROVE  Mine(p) \notin before'[v]
      <3>1. before'[v] = before[v]
        BY <2>3, <1>1
      <3>2. before[v] \subseteq Returned
        BY DEF Common, Order
      <3>. QED
        BY <2>2, <3>1, <3>2
    <2>4. Stored \subseteq Value /\ \A q \in Open : Mine(q) \in Value
      BY HolderFacts DEF Stored, Open
    <2>5. \A j \in Slots : is_set'[1][j] # 0 => Mine(p) \notin before'[data'[1][j]]
      BY <1>0, <1>1, <1>3, <2>1, <2>3, <2>4
    <2>6. \A q \in Open' : w'[q].ticket <= t => Mine(p) \notin before'[Mine(q)']
      BY <1>0, <1>1, <2>3, <2>4
    <2>. QED
      BY <2>1, <2>5, <2>6
  <1>. QED
    BY <1>4, <1>5

LEMMA ProducePassed ==
  ASSUME OneBuffer, Common, NEW p \in Producers, Produce(p), NEW n \in Nat,
         c.tn \in Nat, c.tn < gTail, PassedTo(n)
  PROVE  PassedTo(n)'
  <1>1. head' = head /\ c' = c /\ head[1] \in Nat /\ B \in Nat
    BY OnlyOne, ProduceFacts DEF OneBuffer, Consumer
  <1>2. PICK t \in Nat : t = c.tn
    OBVIOUS
  <1>3. \A j \in Slots : head[1] <= j /\ j < n => NotBefore(j, t)'
    <2>1. \A j \in Slots : head[1] <= j /\ j < n => NotBefore(j, t)
      BY <1>2 DEF PassedTo
    <2>. QED
      BY <1>2, <2>1, ProduceNot
  <1>4. c'.tn = t
    BY <1>1, <1>2
  <1>. QED
    BY <1>1, <1>3, <1>4 DEF PassedTo, NotBefore

LEMMA ProduceLook ==
  ASSUME OneBuffer, Common, NEW p \in Producers, Produce(p), LookInv PROVE LookInv'
  <1>1. /\ UNCHANGED Consumer /\ Linked \subseteq Linked'
        /\ \A k \in Buffers, i \in Slots : is_set[k][i] # 0 => is_set'[k][i] = is_set[k][i]
    BY ProduceFacts DEF OneBuffer
  <1>2. head' = head /\ c' = c /\ cpc' = cpc
    BY <1>1 DEF Consumer
  <1>3. cpc = "both" => is_set'[1][c.tn] = 1
    <2>1. c.tn \in Nat /\ B \in Nat /\ c.tempHead \in Nat /\ 1 \in Buffers
      BY OnlyOne DEF Common, CallType, ConsumerLocals
    <2>. QED
      BY <2>1, <1>1 DEF LookInv, Slots
  <1>. QED
    BY <1>1, <1>2, <1>3 DEF LookInv

\* nSet stays as it is or is set.
LEMMA ProduceHead ==
  ASSUME OneBuffer, Common, NEW p \in Producers, Produce(p), head[1] < B
  PROVE  (nSet # 0 => nSet' = nSet) /\ (nSet = 0 => nSet' \in {0, 1})
  <1>1. /\ UNCHANGED Consumer /\ H' = H
        /\ \A k \in Buffers, i \in Slots : is_set[k][i] # 0 => is_set'[k][i] = is_set[k][i]
        /\ \A k \in Buffers, i \in Slots : is_set[k][i] = 0 /\ is_set'[k][i] # 0 => is_set'[k][i] = 1
    BY ProduceFacts DEF OneBuffer
  <1>2. H = 1 /\ 1 \in Buffers /\ head[1] \in Slots
    BY OnlyOne DEF Slots
  <1>3. head' = head
    BY <1>1 DEF Consumer
  <1>. QED
    BY <1>1, <1>2, <1>3 DEF nSet

LEMMA ProduceScan ==
  ASSUME OneBuffer, Common, NEW p \in Producers, Produce(p), ScanInv PROVE ScanInv'
  <1>1. /\ UNCHANGED Consumer
        /\ \A k \in Buffers, i \in Slots : is_set[k][i] # 0 => is_set'[k][i] = is_set[k][i]
    BY ProduceFacts DEF OneBuffer
  <1>2. head' = head /\ c' = c /\ cpc' = cpc
    BY <1>1 DEF Consumer
  <1>3. c.tn \in Slots /\ is_set[1][c.tn] = 1
    BY DEF ScanInv
  <1>4. is_set'[1][c.tn] = 1 /\ c.tn \in Nat /\ c.tn < gTail /\ c.scanHead \in Nat
    BY <1>1, <1>3, OnlyOne DEF Filled, Slots, Common, CallType, ConsumerLocals
  <1>5. (PassedTo(c.tn) => PassedTo(c.tn)') /\ (PassedTo(c.scanHead) => PassedTo(c.scanHead)')
    <2>1. PICK n \in Nat, m \in Nat : n = c.tn /\ m = c.scanHead
      BY <1>4
    <2>2. (PassedTo(n) => PassedTo(n)') /\ (PassedTo(m) => PassedTo(m)')
      BY <1>4, ProducePassed
    <2>. QED
      BY <2>1, <2>2, <1>2 DEF PassedTo
  <1>6. nSet' = 0 => nSet = 0
    BY ProduceHead DEF ScanInv
  <1>. QED
    BY <1>2, <1>4, <1>5, <1>6 DEF ScanInv

LEMMA ProduceOne ==
  ASSUME OneBuffer, Common, NEW p \in Producers, Produce(p), OneBufferConsumer
  PROVE  OneBufferConsumer'
  <1>1. cpc' = cpc /\ c' = c
    BY ProduceFacts DEF OneBuffer, Consumer
  <1>2. OnlyBuffer' /\ RealTimeOrder'
    BY ProduceOnly, ProduceOrder DEF OneBufferConsumer
  <1>3. cpc \in LookingAhead \cup Scanning => nSet' # 2
    <2>1. cpc \in LookingAhead \cup Scanning => head[1] < B /\ nSet # 2
      BY DEF OneBufferConsumer, LookInv, ScanInv
    <2>. QED
      BY <2>1, ProduceHead
  <1>. QED
    BY <1>1, <1>2, <1>3, ProduceLook, ProduceScan DEF OneBufferConsumer

LEMMA QuietOne ==
  ASSUME OneBuffer, Common, OnlyBuffer, RealTimeOrder, c' \in ConsumerLocals,
         UNCHANGED <<Producer, Buffer, head, headOfQueue, delivered>>
  PROVE  /\ Common' /\ OnlyBuffer' /\ RealTimeOrder' /\ nSet' = nSet /\ H' = H
         /\ Linked' = Linked /\ head' = head /\ is_set' = is_set
         /\ \A i, t : NotBefore(i, t)' <=> NotBefore(i, t)
  <1>1. UNCHANGED <<ppc, w, gTail, sent, before, tailOfQueue, prev, data, status, next, is_set, head, headOfQueue, delivered>>
    BY DEF Producer, Buffer
  <1>2. Common' /\ Open' = Open /\ Stored' = Stored /\ Linked' = Linked
    <2>1. /\ head' \in [Buffers -> 0 .. B] /\ is_set' \in [Buffers -> [Slots -> {0, 1, 2}]]
          /\ delivered' \in [Value -> Nat]
      BY <1>1 DEF Common, MemType, CallType
    <2>. QED
      BY <1>1, <2>1, ConsumeCommon
  <1>3. H' = H /\ nSet' = nSet /\ Delivered' = Delivered
    BY <1>1 DEF H, nSet, Delivered
  <1>4. RealTimeOrder'
    BY <1>1, <1>3 DEF RealTimeOrder
  <1>5. OnlyBuffer'
    BY <1>1, <1>2 DEF OnlyBuffer, Taken
  <1>6. \A i, t : NotBefore(i, t)' <=> NotBefore(i, t)
    BY <1>1, <1>2 DEF NotBefore, Mine
  <1>. QED
    BY <1>1, <1>2, <1>3, <1>4, <1>5, <1>6

LEMMA FalseOne ==
  ASSUME OneBuffer, Common, OnlyBuffer, RealTimeOrder, ReturnFalse
  PROVE  Common' /\ OneBufferConsumer'
  <1>1. cpc' = "idle" /\ c' = NoDequeue
    BY DEF ReturnFalse, Return
  <1>2. Common' /\ OnlyBuffer' /\ RealTimeOrder'
    BY <1>1, IdleLocals, QuietOne DEF ReturnFalse, Buffer
  <1>. QED
    BY <1>1, <1>2 DEF OneBufferConsumer, LookingAhead, Scanning

\* A value at slot i may be taken once everything before it is delivered.
LEMMA TakeOne ==
  ASSUME OneBuffer, Common, OnlyBuffer, RealTimeOrder,
         NEW i \in Slots, is_set[1][i] = 1, head[1] <= i, before[data[1][i]] \subseteq Delivered,
         Return, Deliver(data[1][i]), UNCHANGED <<Producer, status, next, headOfQueue>>,
         \/ i = head[1] /\ head' = [head EXCEPT ![1] = @ + 1] /\ is_set' = is_set
         \/ head' = head /\ is_set' = [is_set EXCEPT ![1][i] = 2]
  PROVE  Common' /\ OneBufferConsumer'
  <1>. DEFINE v == data[1][i]
  <1>1. /\ cpc' = "idle" /\ c' = NoDequeue /\ delivered' = [delivered EXCEPT ![v] = @ + 1]
    BY DEF Return, Deliver
  <1>2. UNCHANGED <<ppc, w, gTail, sent, before, tailOfQueue, prev, data, status, next, headOfQueue>>
    BY DEF Producer
  <1>3. /\ 1 \in Buffers /\ head[1] \in 0 .. B /\ B \in Nat /\ v \in Stored /\ v \in Value
    BY OnlyOne
  <1>4. /\ head' \in [Buffers -> 0 .. B] /\ is_set' \in [Buffers -> [Slots -> {0, 1, 2}]]
    <2>1. head \in [Buffers -> 0 .. B] /\ is_set \in [Buffers -> [Slots -> {0, 1, 2}]]
      BY DEF Common, MemType
    <2>2. i = head[1] => head[1] + 1 \in 0 .. B
      BY <1>3 DEF Slots
    <2>. QED
      BY <1>3, <2>1, <2>2
  <1>5. /\ \A k \in Buffers, j \in Slots : is_set'[k][j] # 0 <=> is_set[k][j] # 0
        /\ \A k \in Buffers : k # 1 => head'[k] = head[k]
        /\ \A j \in Slots : j # i => is_set'[1][j] = is_set[1][j]
    <2>1. head \in [Buffers -> 0 .. B] /\ is_set \in [Buffers -> [Slots -> {0, 1, 2}]]
      BY DEF Common, MemType
    <2>. QED
      BY <1>3, <2>1
  <1>6. /\ delivered' \in [Value -> Nat] /\ delivered'[v] = delivered[v] + 1
        /\ \A u \in Value : u # v => delivered'[u] = delivered[u]
    <2>1. delivered \in [Value -> Nat]
      BY DEF Common, CallType
    <2>. HIDE DEF v
    <2>. QED
      BY <1>1, <1>3, <2>1
  <1>7. Common' /\ Stored' = Stored
    BY <1>1, <1>4, <1>5, <1>6, IdleLocals, ConsumeCommon
  <1>8. ~ Taken(i) /\ Taken(i)' /\ \A j \in Slots : j # i => (Taken(j)' <=> Taken(j))
    <2>1. ~ Taken(i)
      BY <1>3 DEF Taken, Slots
    <2>2. Taken(i)'
      <3>1. head \in [Buffers -> 0 .. B] /\ is_set \in [Buffers -> [Slots -> {0, 1, 2}]]
        BY DEF Common, MemType
      <3>. QED
        BY <3>1, <1>3 DEF Taken, Slots
    <2>3. \A j \in Slots : j # i => (j < head'[1] <=> j < head[1])
      <3>1. head \in [Buffers -> 0 .. B]
        BY DEF Common, MemType
      <3>. QED
        BY <3>1, <1>3 DEF Slots
    <2>. QED
      BY <2>1, <2>2, <2>3, <1>5 DEF Taken
  <1>9. delivered[v] = 0
    BY <1>8 DEF OnlyBuffer
  <1>10. OnlyBuffer'
    <2>1. \A j \in Slots : j < head'[1] => is_set'[1][j] # 0
      <3>1. \A j \in Slots : j # i => (j < head'[1] => j < head[1])
        <4>1. head \in [Buffers -> 0 .. B]
          BY DEF Common, MemType
        <4>. QED
          BY <4>1, <1>3 DEF Slots
      <3>. QED
        BY <3>1, <1>3, <1>5 DEF OnlyBuffer
    <2>2. ASSUME NEW j \in Slots, is_set'[1][j] # 0
          PROVE  delivered'[data'[1][j]] = IF Taken(j)' THEN 1 ELSE 0
      <3>1. is_set[1][j] # 0 /\ data[1][j] \in Value
        BY <2>2, <1>3, <1>5, OnlyOne
      <3>2. CASE j = i
        BY <3>2, <1>2, <1>6, <1>8, <1>9
      <3>3. CASE j # i
        <4>1. data[1][j] # v
          BY <3>1, <3>3, OnlyOne
        <4>. QED
          BY <3>1, <3>3, <4>1, <1>2, <1>6, <1>8 DEF OnlyBuffer
      <3>. QED
        BY <3>2, <3>3
    <2>3. \A u \in Value : delivered'[u] > 0 => u \in Stored'
      BY <1>3, <1>6, <1>7 DEF OnlyBuffer
    <2>4. \A k \in Buffers : k > 1 => head'[k] = 0
      BY <1>5 DEF OnlyBuffer
    <2>. QED
      BY <2>1, <2>2, <2>3, <2>4 DEF OnlyBuffer
  <1>11. RealTimeOrder'
    <2>1. Delivered' = Delivered \cup {v}
      BY <1>3, <1>6, <1>9 DEF Delivered
    <2>. QED
      BY <2>1, <1>2 DEF RealTimeOrder
  <1>. QED
    BY <1>1, <1>7, <1>10, <1>11 DEF OneBufferConsumer, LookingAhead, Scanning

\* Everything at a slot before the head has been taken.
LEMMA BeforeHead ==
  ASSUME OneBuffer, Common, OnlyBuffer, NEW j \in Slots, is_set[1][j] # 0, j < head[1] \/ is_set[1][j] = 2
  PROVE  data[1][j] \in Delivered
  <1>1. Taken(j)
    BY OnlyOne DEF Taken
  <1>2. delivered[data[1][j]] = 1 /\ data[1][j] \in Value
    BY <1>1, OnlyOne DEF OnlyBuffer
  <1>. QED
    BY <1>2 DEF Delivered

LEMMA NothingBefore ==
  ASSUME OneBuffer, Common, OnlyBuffer, NEW i \in Slots, is_set[1][i] # 0,
         \A j \in Slots : head[1] <= j /\ j < i => NotBefore(j, i)
  PROVE  before[data[1][i]] \subseteq Delivered
  <1>. SUFFICES ASSUME NEW u \in before[data[1][i]] PROVE u \in Delivered
    OBVIOUS
  <1>1. u \in Stored
    <2>1. data[1][i] \in Value
      BY OnlyOne
    <2>. QED
      BY <2>1 DEF Common, Order, Returned, Stored, Open
  <1>2. PICK j \in Slots : is_set[1][j] # 0 /\ data[1][j] = u
    BY <1>1, OnlyOne
  <1>3. j < i
    BY <1>2, OneOrder
  <1>4. is_set[1][j] \in {0, 1, 2} /\ head[1] \in Nat
    BY OnlyOne
  <1>5. j < head[1] \/ is_set[1][j] = 2
    BY <1>2, <1>3, <1>4 DEF NotBefore, Slots
  <1>. QED
    BY <1>2, <1>5, BeforeHead

LEMMA TakeHeadOne ==
  ASSUME OneBuffer, Common, OnlyBuffer, RealTimeOrder, head[1] < B, nSet = 1, TakeHead
  PROVE  Common' /\ OneBufferConsumer'
  <1>1. H = 1 /\ head[1] \in Slots /\ is_set[1][head[1]] = 1 /\ head[1] \in Nat
    BY OnlyOne DEF Slots
  <1>2. before[data[1][head[1]]] \subseteq Delivered
    BY <1>1, NothingBefore DEF Slots
  <1>3. /\ Return /\ Deliver(data[1][head[1]]) /\ UNCHANGED <<Producer, status, next, headOfQueue>>
        /\ head' = [head EXCEPT ![1] = @ + 1] /\ is_set' = is_set
    BY <1>1 DEF TakeHead, Buffer
  <1>. QED
    BY <1>1, <1>2, <1>3, TakeOne

LEMMA LookFacts ==
  ASSUME OneBuffer, Common, LookInv
  PROVE  /\ H = 1 /\ 1 \in Buffers /\ head[1] \in Slots /\ head[1] \in Nat /\ B \in Nat /\ B > 0
         /\ c \in ConsumerLocals /\ c.buf \in Buffers /\ c.buf \in Nat /\ c.buf >= 1
         /\ c.tempHead \in Nat /\ c.tn \in Nat /\ c.moved \in BOOLEAN /\ c.handled \in BOOLEAN
         /\ nSet = is_set[1][head[1]] /\ nSet \in {0, 1, 2}
  <1>1. /\ H = 1 /\ 1 \in Buffers /\ head[1] \in Slots /\ head[1] \in Nat /\ B \in Nat /\ B > 0
        /\ nSet = is_set[1][head[1]]
    BY OnlyOne DEF LookInv, Slots
  <1>2. c \in ConsumerLocals
    BY DEF Common, CallType
  <1>3. c.tempHead \in Nat /\ c.tn \in Nat /\ c.moved \in BOOLEAN /\ c.handled \in BOOLEAN
    BY <1>2 DEF ConsumerLocals
  <1>4. c.buf \in Buffers /\ c.buf \in Nat /\ c.buf >= 1
    BY LinkedRange DEF LookInv
  <1>. QED
    BY <1>1, <1>2, <1>3, <1>4, OnlyOne

LEMMA RestartLocals ==
  ASSUME NEW l \in ConsumerLocals, NEW m, NEW h \in Nat,
         m = [l EXCEPT !.buf = l.scanBuf, !.tempHead = l.scanHead, !.tn = l.scanHead,
                       !.scanBuf = 1, !.scanHead = h + 1]
  PROVE  /\ m \in ConsumerLocals /\ m.buf = l.scanBuf /\ m.tempHead = l.scanHead /\ m.tn = l.scanHead
         /\ m.scanBuf = 1 /\ m.scanHead = h + 1 /\ m.moved = l.moved
  <1>1. l.scanBuf \in Nat /\ l.scanHead \in Nat /\ h + 1 \in Nat
    BY DEF ConsumerLocals
  <1>2. PICK a \in Nat, b \in Nat, d \in Nat : a = l.scanBuf /\ b = l.scanHead /\ d = h + 1
    BY <1>1
  <1>. DEFINE n == [l EXCEPT !.buf = a, !.tempHead = b, !.tn = b]
  <1>4. /\ n \in ConsumerLocals /\ n.buf = a /\ n.tempHead = b /\ n.tn = b /\ n.moved = l.moved
    BY DEF ConsumerLocals
  <1>5. m = [n EXCEPT !.scanBuf = 1, !.scanHead = d]
    <2>1. m = [l EXCEPT !.buf = a, !.tempHead = b, !.tn = b, !.scanBuf = 1, !.scanHead = d]
      BY <1>2
    <2>. QED
      BY <2>1
  <1>. HIDE DEF n
  <1>6. /\ m \in ConsumerLocals /\ m.buf = n.buf /\ m.tempHead = n.tempHead /\ m.tn = n.tn
        /\ m.scanBuf = 1 /\ m.scanHead = d /\ m.moved = n.moved
    <2>1. n \in ConsumerLocals /\ d \in Nat /\ 1 \in Nat
      BY <1>4
    <2>. QED
      BY <2>1, <1>5 DEF ConsumerLocals
  <1>. QED
    BY <1>2, <1>4, <1>6

LEMMA ScanStep ==
  ASSUME OneBuffer, Common, OneBufferConsumer, ScanCond \/ ScanCross \/ ScanSlot \/ ScanEnd
  PROVE  Common' /\ OneBufferConsumer'
  <1>0. /\ OnlyBuffer /\ RealTimeOrder /\ cpc \in Scanning /\ ScanInv /\ nSet # 2
    BY DEF OneBufferConsumer, Scanning, ScanCond, ScanCross, ScanSlot, ScanEnd, At
  <1>1. /\ c \in ConsumerLocals /\ c.tn \in Nat /\ c.tempHead \in Nat /\ c.scanHead \in Nat
        /\ c.tn \in Slots /\ c.tn < B /\ ~ c.moved
    <2>1. c \in ConsumerLocals
      BY DEF Common, CallType
    <2>2. c.tn \in Nat /\ c.tempHead \in Nat /\ c.scanHead \in Nat
      BY <2>1 DEF ConsumerLocals
    <2>. QED
      BY <2>1, <2>2, <1>0, BAssumption DEF ScanInv, Slots
  <1>2. /\ H = 1 /\ 1 \in Buffers /\ head[1] \in Slots /\ head[1] \in Nat /\ B \in Nat /\ B > 0
        /\ nSet = is_set[1][head[1]] /\ nSet \in {0, 1}
    <2>1. head[1] < B
      BY <1>0 DEF ScanInv
    <2>2. /\ H = 1 /\ 1 \in Buffers /\ head[1] \in Slots /\ head[1] \in Nat /\ B \in Nat /\ B > 0
          /\ nSet = is_set[1][head[1]]
      BY <2>1, OnlyOne DEF Slots
    <2>. QED
      BY <2>2, <1>0, OnlyOne
  <1>3. ASSUME NEW s, NEW l \in ConsumerLocals, Local(s, l)
        PROVE  /\ Common' /\ OnlyBuffer' /\ RealTimeOrder' /\ nSet' = nSet
               /\ head' = head /\ is_set' = is_set /\ cpc' = s /\ c' = l
               /\ \A i, t : NotBefore(i, t)' <=> NotBefore(i, t)
    BY <1>0, <1>3, QuietOne DEF Local
  <1>4. CASE ScanCond
    <2>1. c.tempHead = 0 => nSet = 1
      BY <1>0, <1>1, <1>2 DEF ScanInv
    <2>2. PICK s \in {"scanN", "scanned"} :
            /\ Local(s, c)
            /\ s = "scanN" => c.tempHead # 0 /\ c.scanHead < c.tempHead - 1
            /\ s = "scanned" /\ nSet = 0 => ~ c.scanHead < c.tempHead - 1
      BY <1>0, <1>2, <1>4, <2>1 DEF ScanCond, ScanInv
    <2>3. cpc' = s /\ c' = c /\ head' = head /\ is_set' = is_set /\ nSet' = nSet
      BY <1>1, <1>3, <2>2
    <2>4. \A n : PassedTo(n)' <=> PassedTo(n)
      <3>1. \A i : NotBefore(i, c.tn)' <=> NotBefore(i, c.tn)
        <4>1. \A i, t : NotBefore(i, t)' <=> NotBefore(i, t)
          BY <1>1, <1>3, <2>2
        <4>2. PICK t : t = c.tn
          OBVIOUS
        <4>3. c'.tn = t
          BY <2>3, <4>2
        <4>4. \A i : NotBefore(i, c.tn)' <=> NotBefore(i, t)'
          BY <4>3 DEF NotBefore
        <4>. QED
          BY <4>1, <4>2, <4>4
      <3>. QED
        BY <3>1, <2>3 DEF PassedTo
    <2>5. cpc = "scan"
      BY <1>4 DEF ScanCond, At
    <2>6. s = "scanned" /\ nSet = 0 => PassedTo(c.tn)
      <3>1. c.tempHead = c.tn + 1 /\ c.scanHead >= c.tn /\ PassedTo(c.scanHead) => PassedTo(c.tn)
        BY <1>1 DEF PassedTo, Slots
      <3>. QED
        BY <1>0, <1>1, <2>2, <2>5, <3>1 DEF ScanInv
    <2>7. ScanInv'
      BY <1>0, <2>2, <2>3, <2>4, <2>5, <2>6 DEF ScanInv
    <2>. QED
      BY <1>0, <1>1, <1>3, <2>2, <2>3, <2>7 DEF OneBufferConsumer, LookingAhead, Scanning
  <1>5. ASSUME cpc = "scanN"
        PROVE  c.scanHead < c.tempHead - 1 /\ head[1] <= c.scanHead /\ c.scanHead < c.tn /\ c.scanHead < B
               /\ c.scanHead \in Slots
    BY <1>0, <1>1, <1>2, <1>5 DEF ScanInv, Slots
  <1>6. ~ ScanCross
    BY <1>1, <1>2, <1>5 DEF ScanCross, At
  <1>7. CASE ScanSlot
    <2>1. cpc = "scanN" /\ c.scanBuf = 1 /\ c.buf = 1
      BY <1>0, <1>7 DEF ScanSlot, At, ScanInv
    <2>2. CASE is_set[1][c.scanHead] = 1
      <3>. DEFINE l == ScanRestart
      <3>1. Local("scan", l)
        BY <1>7, <2>1, <2>2 DEF ScanSlot
      <3>2. /\ l \in ConsumerLocals /\ l.buf = 1 /\ l.tempHead = c.scanHead /\ l.tn = c.scanHead
            /\ l.scanBuf = 1 /\ l.scanHead = head[1] + 1 /\ l.moved = c.moved
        <4>1. l = [c EXCEPT !.buf = c.scanBuf, !.tempHead = c.scanHead, !.tn = c.scanHead,
                            !.scanBuf = 1, !.scanHead = head[1] + 1]
          BY <1>2 DEF ScanRestart
        <4>. HIDE DEF l
        <4>. QED
          BY <4>1, <1>1, <1>2, <2>1, RestartLocals
      <3>. HIDE DEF l
      <3>3. /\ cpc' = "scan" /\ c' = l /\ head' = head /\ is_set' = is_set
            /\ \A i, t : NotBefore(i, t)' <=> NotBefore(i, t)
        BY <1>3, <3>1, <3>2
      <3>4. PassedTo(c.tn)'
        <4>1. \A j \in Slots : head[1] <= j /\ j < c.scanHead => NotBefore(j, c.tn)
          BY <1>0, <1>1, <1>5, <2>1 DEF ScanInv, PassedTo, Slots
        <4>2. PICK t \in Nat : t = c.scanHead
          BY <1>1
        <4>3. \A j \in Slots : head[1] <= j /\ j < t => NotBefore(j, t)
          <5>1. \A j \in Slots : NotBefore(j, c.tn) => NotBefore(j, t)
            <6>1. t < c.tn
              BY <4>2, <2>1, <1>5
            <6>2. \A j \in Slots : j <= t => j <= c.tn
              BY <6>1, <1>1 DEF Slots
            <6>3. \A p \in Open : w[p].ticket <= t => w[p].ticket <= c.tn
              BY <6>1, <1>1, HolderFacts DEF Open
            <6>. QED
              BY <6>2, <6>3 DEF NotBefore
          <5>. QED
            BY <4>1, <4>2, <5>1
        <4>4. c'.tn = t
          BY <3>2, <3>3, <4>2
        <4>5. \A j \in Slots : head'[1] <= j /\ j < t => NotBefore(j, t)'
          BY <3>3, <4>3
        <4>. QED
          BY <4>4, <4>5 DEF PassedTo, NotBefore
      <3>5. ScanInv'
        BY <1>0, <1>1, <1>2, <1>5, <2>1, <2>2, <3>2, <3>3, <3>4 DEF ScanInv
      <3>. QED
        BY <1>0, <1>3, <3>1, <3>2, <3>5 DEF OneBufferConsumer, LookingAhead, Scanning
    <2>3. CASE is_set[1][c.scanHead] # 1
      <3>. DEFINE l == [c EXCEPT !.scanHead = @ + 1]
      <3>1. Local("scan", l)
        BY <1>7, <2>1, <2>3 DEF ScanSlot
      <3>2. /\ l \in ConsumerLocals /\ l.buf = c.buf /\ l.tempHead = c.tempHead /\ l.tn = c.tn
            /\ l.scanBuf = c.scanBuf /\ l.scanHead = c.scanHead + 1 /\ l.moved = c.moved
        BY <1>1 DEF ConsumerLocals
      <3>. HIDE DEF l
      <3>3. /\ cpc' = "scan" /\ c' = l /\ head' = head /\ is_set' = is_set
            /\ \A i, t : NotBefore(i, t)' <=> NotBefore(i, t)
        BY <1>3, <3>1, <3>2
      <3>4. PICK t, n : t = c.tn /\ n = c.scanHead /\ t \in Nat /\ n \in Nat
        BY <1>1
      <3>5. c'.tn = t /\ c'.scanHead = n + 1
        BY <3>2, <3>3, <3>4
      <3>6. \A m : PassedTo(m)' <=> PassedTo(m)
        <4>1. \A i : NotBefore(i, c.tn)' <=> NotBefore(i, t)'
          BY <3>5 DEF NotBefore
        <4>2. \A i : NotBefore(i, c.tn)' <=> NotBefore(i, c.tn)
          BY <3>3, <3>4, <4>1
        <4>. QED
          BY <4>2, <3>3 DEF PassedTo
      <3>7. PassedTo(n) => PassedTo(n + 1)
        <4>1. NotBefore(n, c.tn)
          BY <2>3, <3>4 DEF NotBefore
        <4>. QED
          BY <3>4, <4>1 DEF PassedTo, Slots
      <3>8. ScanInv'
        <4>1. \/ c.tempHead = c.tn + 1 /\ PassedTo(n)
              \/ c.tempHead = c.tn /\ PassedTo(c.tn)
          BY <1>0, <2>1, <3>4 DEF ScanInv
        <4>2. \/ c'.tempHead = c'.tn + 1 /\ PassedTo(n + 1)'
              \/ c'.tempHead = c'.tn /\ PassedTo(t)'
          BY <4>1, <3>2, <3>3, <3>4, <3>6, <3>7
        <4>3. PassedTo(n + 1)' => PassedTo(c.scanHead)'
          BY <3>5 DEF PassedTo
        <4>4. PassedTo(t)' => PassedTo(c.tn)'
          BY <3>5 DEF PassedTo
        <4>. QED
          BY <4>2, <4>3, <4>4, <1>0, <1>1, <1>2, <1>5, <2>1, <3>2, <3>3 DEF ScanInv
      <3>. QED
        BY <1>0, <1>3, <3>1, <3>2, <3>8 DEF OneBufferConsumer, LookingAhead, Scanning
    <2>. QED
      BY <2>2, <2>3
  <1>8. CASE ScanEnd
    <2>1. cpc = "scanned" /\ c.buf = 1
      BY <1>0, <1>8 DEF ScanEnd, At, ScanInv
    <2>2. CASE nSet = 1
      <3>1. TakeHead /\ head[1] < B
        BY <1>2, <1>8, <2>2 DEF ScanEnd, Slots
      <3>. QED
        BY <1>0, <2>2, <3>1, TakeHeadOne
    <2>3. CASE nSet = 0
      <3>1. /\ Return /\ Deliver(data[1][c.tn]) /\ is_set' = [is_set EXCEPT ![1][c.tn] = 2]
            /\ head' = head /\ UNCHANGED <<Producer, status, next, headOfQueue>>
        BY <1>1, <1>8, <2>1, <2>3 DEF ScanEnd, MarkHandled, AdvancesHead
      <3>2. PassedTo(c.tn) /\ head[1] <= c.tn /\ is_set[1][c.tn] = 1
        BY <1>0, <2>1, <2>3 DEF ScanInv
      <3>3. before[data[1][c.tn]] \subseteq Delivered
        BY <1>0, <1>1, <3>2, NothingBefore DEF PassedTo
      <3>. QED
        BY <1>0, <1>1, <3>1, <3>2, <3>3, TakeOne
    <2>. QED
      BY <1>2, <2>2, <2>3
  <1>. QED
    BY <1>4, <1>6, <1>7, <1>8

\* The look ahead finds nothing beyond the one buffer and never folds.
LEMMA LookStep ==
  ASSUME OneBuffer, Common, OneBufferConsumer,
         LoopHead \/ TryAhead \/ HeadStillEmpty \/ SecondLook \/ Edge \/ StepAhead
  PROVE  Common' /\ OneBufferConsumer'
  <1>1. OnlyBuffer /\ RealTimeOrder /\ cpc \in LookingAhead /\ LookInv /\ nSet # 2
    BY DEF OneBufferConsumer, LookingAhead, LoopHead, TryAhead, HeadStillEmpty, SecondLook, Edge,
           StepAhead, At
  <1>2. /\ H = 1 /\ 1 \in Buffers /\ head[1] \in Slots /\ head[1] \in Nat /\ B \in Nat /\ B > 0
        /\ c \in ConsumerLocals /\ c.buf \in Buffers /\ c.buf \in Nat /\ c.buf >= 1
        /\ c.tempHead \in Nat /\ c.tn \in Nat /\ c.moved \in BOOLEAN /\ c.handled \in BOOLEAN
        /\ nSet = is_set[1][head[1]] /\ nSet \in {0, 1, 2}
    BY <1>1, LookFacts
  <1>3. ASSUME NEW s, NEW l \in ConsumerLocals, Local(s, l)
        PROVE  /\ Common' /\ OnlyBuffer' /\ RealTimeOrder' /\ nSet' = nSet /\ H' = H
               /\ Linked' = Linked /\ head' = head /\ is_set' = is_set /\ cpc' = s /\ c' = l
    BY <1>1, <1>3, QuietOne DEF Local
  <1>4. ASSUME NEW s \in LookingAhead, NEW l \in ConsumerLocals, Local(s, l), LookInv'
        PROVE  Common' /\ OneBufferConsumer'
    <2>1. s \notin Scanning \cup {"tail", "gtail", "elem"}
      BY DEF LookingAhead, Scanning
    <2>. QED
      BY <1>1, <1>3, <1>4, <2>1 DEF OneBufferConsumer
  <1>5. CASE LoopHead
    <2>1. cpc = "loop"
      BY <1>5 DEF LoopHead, At
    <2>2. CASE nSet = 0
      <3>1. PICK s \in {"try", "edge"} : Local(s, c) /\ (s = "try" => c.tempHead < B)
        BY <1>5, <2>2 DEF LoopHead
      <3>2. LookInv'
        BY <1>1, <1>2, <1>3, <2>1, <3>1 DEF LookInv
      <3>. QED
        BY <1>2, <1>4, <3>1, <3>2 DEF LookingAhead
    <2>3. CASE nSet = 1
      <3>1. TakeHead /\ head[1] < B
        BY <1>1, <1>5, <2>3 DEF LoopHead, LookInv
      <3>. QED
        BY <1>1, <2>3, <3>1, TakeHeadOne
    <2>. QED
      BY <1>1, <1>2, <2>2, <2>3
  <1>6. CASE TryAhead
    <2>1. cpc = "try" /\ c.tempHead < B /\ c.tempHead \in Slots
      BY <1>1, <1>2, <1>6 DEF TryAhead, At, LookInv, Slots
    <2>2. PICK seen \in {0, 1, 2} : seen = is_set[c.buf][c.tempHead]
      BY <1>2, <2>1 DEF Common, MemType
    <2>3. seen # 0 => c.buf = 1
      BY <1>2, <2>1, <2>2, OnlyOne
    <2>. DEFINE l == [c EXCEPT !.tn = c.tempHead, !.tempHead = @ + 1]
    <2>4. /\ l \in ConsumerLocals /\ l.buf = c.buf /\ l.tempHead = c.tempHead + 1 /\ l.tn = c.tempHead
          /\ l.moved = c.moved /\ l.handled = c.handled
      BY <1>2, TryLocals
    <2>5. PICK s \in {"both", "second", "edge"} : Local(s, l) /\ (s = "both" => seen = 1) /\ (s = "edge" => seen = 2)
      BY <1>6, <2>2 DEF TryAhead
    <2>. HIDE DEF l
    <2>6. cpc' = s /\ c' = l /\ H' = H /\ head' = head /\ Linked' = Linked /\ is_set' = is_set
      BY <1>3, <2>4, <2>5
    <2>7. LookInv'
      <3>1. /\ l.buf \in Linked /\ head[1] < B /\ (l.moved <=> l.buf > 1) /\ (l.buf = 1 => head[1] <= l.tn)
        BY <1>1, <2>1, <2>4 DEF LookInv
      <3>2. l.tn + 1 = l.tempHead /\ l.tempHead <= B /\ l.tn \in Nat /\ l.tempHead \in Nat
        BY <1>2, <2>1, <2>4
      <3>3. s = "both" => l.buf = 1 /\ is_set[1][l.tn] = 1
        BY <2>2, <2>3, <2>4, <2>5
      <3>4. s = "edge" => l.buf = 1
        BY <2>3, <2>4, <2>5
      <3>. QED
        BY <1>2, <2>5, <2>6, <3>1, <3>2, <3>3, <3>4 DEF LookInv
    <2>. QED
      BY <1>4, <2>4, <2>5, <2>7 DEF LookingAhead
  <1>7. CASE HeadStillEmpty
    <2>1. cpc = "both" /\ c.buf = 1 /\ is_set[1][c.tn] = 1 /\ c.tn + 1 = c.tempHead /\ head[1] <= c.tn
      BY <1>1, <1>7 DEF HeadStillEmpty, At, LookInv
    <2>2. CASE nSet = 0
      <3>. DEFINE l == [c EXCEPT !.scanBuf = H, !.scanHead = head[H]]
      <3>1. Local("scan", l)
        BY <1>7, <2>2 DEF HeadStillEmpty, ScanFirst
      <3>2. /\ l \in ConsumerLocals /\ l.buf = c.buf /\ l.tempHead = c.tempHead /\ l.tn = c.tn
            /\ l.moved = c.moved /\ l.scanBuf = 1 /\ l.scanHead = head[1]
        <4>1. l = [c EXCEPT !.scanBuf = 1, !.scanHead = head[1]]
          BY <1>2
        <4>. HIDE DEF l
        <4>. QED
          BY <4>1, <1>2 DEF ConsumerLocals
      <3>. HIDE DEF l
      <3>3. cpc' = "scan" /\ c' = l /\ head' = head /\ is_set' = is_set
        BY <1>3, <3>1, <3>2
      <3>4. c.tn \in Slots /\ ~ c.moved /\ head[1] < B
        BY <1>1, <1>2, <2>1 DEF LookInv, Slots
      <3>5. PassedTo(c.scanHead)'
        BY <1>2, <3>2, <3>3 DEF PassedTo, Slots
      <3>6. ScanInv'
        BY <2>1, <3>2, <3>3, <3>4, <3>5, <1>2 DEF ScanInv
      <3>. QED
        BY <1>1, <1>3, <3>1, <3>2, <3>6 DEF OneBufferConsumer, LookingAhead, Scanning
    <2>3. CASE nSet # 0
      <3>1. Local("edge", c)
        BY <1>7, <2>3 DEF HeadStillEmpty
      <3>2. LookInv'
        BY <1>1, <1>2, <1>3, <2>1, <3>1 DEF LookInv
      <3>. QED
        BY <1>2, <1>4, <3>1, <3>2 DEF LookingAhead
    <2>. QED
      BY <2>2, <2>3
  <1>8. CASE SecondLook
    <2>1. cpc = "second" /\ c.tn \in Slots
      BY <1>1, <1>2, <1>8 DEF SecondLook, At, LookInv, Slots
    <2>2. PICK h \in BOOLEAN : h <=> (c.handled /\ is_set[c.buf][c.tn] # 0)
      OBVIOUS
    <2>3. (c.handled /\ is_set[c.buf][c.tn] # 0) = h
      BY <1>2, <2>2
    <2>4. h => c.buf = 1
      BY <1>2, <2>1, <2>2, OnlyOne
    <2>. DEFINE l == [c EXCEPT !.handled = h]
    <2>5. /\ l \in ConsumerLocals /\ l.buf = c.buf /\ l.tempHead = c.tempHead /\ l.moved = c.moved
          /\ l.handled = h
      BY <1>2, <2>2 DEF ConsumerLocals
    <2>6. Local("edge", l)
      <3>1. [c EXCEPT !.handled = @ /\ is_set[c.buf][c.tn] # 0] = l
        BY <1>2, <2>3 DEF ConsumerLocals
      <3>. QED
        BY <1>8, <3>1 DEF SecondLook
    <2>. HIDE DEF l
    <2>7. cpc' = "edge" /\ c' = l /\ head' = head /\ Linked' = Linked
      BY <1>3, <2>5, <2>6
    <2>8. LookInv'
      BY <1>1, <1>2, <2>1, <2>4, <2>5, <2>7 DEF LookInv
    <2>. QED
      BY <1>4, <2>5, <2>6, <2>8 DEF LookingAhead
  <1>9. CASE Edge
    <2>1. cpc = "edge"
      BY <1>9 DEF Edge, At
    <2>2. ~ (c.tempHead >= B /\ c.handled /\ c.moved)
      BY <1>1, <1>2, <2>1 DEF LookInv
    <2>3. PICK s \in {"loop", "ahead"} : Local(s, c)
      BY <1>9, <2>2 DEF Edge
    <2>4. LookInv'
      BY <1>1, <1>2, <1>3, <2>1, <2>3 DEF LookInv
    <2>. QED
      BY <1>2, <1>4, <2>3, <2>4 DEF LookingAhead
  <1>10. CASE StepAhead
    <2>1. CASE next[c.buf] = NULL
      BY <1>1, <1>10, <2>1, FalseOne DEF StepAhead
    <2>2. CASE next[c.buf] # NULL
      <3>. DEFINE k == next[c.buf]
                  l == MoveTo(k)
      <3>1. k = c.buf + 1 /\ k \in Linked /\ k \in Buffers /\ k \in Nat /\ k > 1
        BY <1>2, <2>2, LinkedRange DEF Common, Chain
      <3>2. head[k] = 0
        BY <1>1, <3>1 DEF OnlyBuffer
      <3>. HIDE DEF k
      <3>3. l \in ConsumerLocals /\ l.buf = k /\ l.tempHead = 0 /\ l.moved
        <4>1. l = [c EXCEPT !.buf = k, !.tempHead = 0, !.moved = TRUE, !.handled = TRUE]
          BY <3>2 DEF MoveTo
        <4>. HIDE DEF l
        <4>. QED
          BY <4>1, <1>2, <3>1 DEF ConsumerLocals
      <3>4. Local("loop", l)
        BY <1>10, <2>2 DEF StepAhead, k
      <3>. HIDE DEF l
      <3>5. cpc' = "loop" /\ c' = l /\ head' = head /\ Linked' = Linked
        BY <1>3, <3>3, <3>4
      <3>6. LookInv'
        BY <1>1, <1>2, <3>1, <3>3, <3>5 DEF LookInv
      <3>. QED
        BY <1>4, <3>3, <3>4, <3>6 DEF LookingAhead
    <2>. QED
      BY <2>1, <2>2
  <1>. QED
    BY <1>5, <1>6, <1>7, <1>8, <1>9, <1>10

LEMMA ConsumeOne ==
  ASSUME OneBuffer, Common, OneBufferConsumer, dequeue
  PROVE  Common' /\ OneBufferConsumer'
  <1>1. OnlyBuffer /\ RealTimeOrder /\ c \in ConsumerLocals
    BY DEF OneBufferConsumer, Common, CallType
  <1>2. /\ H = 1 /\ tailOfQueue = 1 /\ 1 \in Buffers /\ head[1] \in 0 .. B /\ B \in Nat /\ B > 0
        /\ nSet = is_set[1][head[1]]
    BY OnlyOne
  <1>3. ASSUME ReturnFalse PROVE Common' /\ OneBufferConsumer'
    BY <1>1, <1>3, FalseOne
  <1>4. ASSUME NEW s, NEW l \in ConsumerLocals, Local(s, l)
        PROVE  /\ Common' /\ OnlyBuffer' /\ RealTimeOrder' /\ nSet' = nSet /\ H' = H
               /\ Linked' = Linked /\ head' = head /\ is_set' = is_set /\ cpc' = s /\ c' = l
    BY <1>1, <1>4, QuietOne DEF Local
  <1>5. ASSUME NEW s \in {"tail", "gtail", "elem"}, NEW l \in ConsumerLocals, Local(s, l), ~ l.moved
        PROVE  Common' /\ OneBufferConsumer'
    BY <1>4, <1>5 DEF OneBufferConsumer, LookingAhead, Scanning
  <1>6. CASE LoadPrevSize
    <2>1. PrevSize(tailOfQueue) \in Nat
      <3>1. UIntMod \in Nat \ {0} /\ B * (1 - 1) \in Int
        BY <1>2, UIntModAssumption
      <3>. QED
        BY <1>2, <3>1, SMT DEF PrevSize, UInt
    <2>2. /\ cpc' = "tail" /\ c' = [NoDequeue EXCEPT !.prevSize = PrevSize(tailOfQueue)]
          /\ UNCHANGED <<Producer, Buffer, head, headOfQueue, delivered>>
      BY <1>6 DEF LoadPrevSize
    <2>3. c' \in ConsumerLocals /\ ~ c'.moved
      BY <2>1, <2>2 DEF NoDequeue, ConsumerLocals, NULL
    <2>4. Common' /\ OnlyBuffer' /\ RealTimeOrder'
      BY <1>1, <2>2, <2>3, QuietOne
    <2>. QED
      BY <2>2, <2>3, <2>4 DEF OneBufferConsumer, LookingAhead, Scanning
  <1>7. CASE CompareTail
    <2>1. ~ c.moved
      BY <1>7 DEF CompareTail, At, OneBufferConsumer
    <2>. QED
      BY <1>1, <1>5, <1>7, <2>1 DEF CompareTail
  <1>8. CASE CompareGTail
    <2>1. ~ c.moved
      BY <1>8 DEF CompareGTail, At, OneBufferConsumer
    <2>. QED
      BY <1>1, <1>3, <1>5, <1>8, <2>1 DEF CompareGTail
  <1>9. CASE LookAtHead
    <2>1. cpc = "elem" /\ ~ c.moved /\ head[1] < B /\ head[1] \in Slots /\ head[1] \in Nat
      BY <1>2, <1>9 DEF LookAtHead, At, OneBufferConsumer, Slots
    <2>2. CASE nSet = 2
      <3>1. /\ head' = [head EXCEPT ![1] = @ + 1] /\ cpc' = "again" /\ c' = NoDequeue
            /\ UNCHANGED <<Producer, Buffer, headOfQueue, delivered>>
        BY <1>2, <1>9, <2>2 DEF LookAtHead, SkipHandled
      <3>2. UNCHANGED <<status, next, is_set, data, before>>
        BY <3>1 DEF Producer, Buffer
      <3>3. /\ head' \in [Buffers -> 0 .. B] /\ head'[1] = head[1] + 1
            /\ \A k \in Buffers : k # 1 => head'[k] = head[k]
        BY <1>2, <2>1, <3>1 DEF Common, MemType
      <3>4. /\ is_set' \in [Buffers -> [Slots -> {0, 1, 2}]] /\ delivered' \in [Value -> Nat]
        BY <3>1, <3>2 DEF Common, MemType, CallType
      <3>5. Common' /\ Stored' = Stored
        BY <3>1, <3>2, <3>3, <3>4, IdleLocals, ConsumeCommon
      <3>6. \A i \in Slots : Taken(i)' <=> Taken(i)
        <4>1. is_set[1][head[1]] = 2 /\ is_set' = is_set
          BY <1>2, <2>2, <3>2
        <4>2. \A i \in Slots : i # head[1] => (i < head'[1] <=> i < head[1])
          BY <2>1, <3>3 DEF Slots
        <4>. QED
          BY <4>1, <4>2 DEF Taken
      <3>7. OnlyBuffer'
        <4>1. \A i \in Slots : i < head'[1] => is_set'[1][i] # 0
          <5>1. \A i \in Slots : i < head'[1] => i < head[1] \/ i = head[1]
            BY <2>1, <3>3 DEF Slots
          <5>. QED
            <6>1. is_set[1][head[1]] = 2 /\ is_set' = is_set
              BY <1>2, <2>2, <3>2
            <6>. QED
              BY <5>1, <6>1, <1>1 DEF OnlyBuffer
        <4>2. \A k \in Buffers : k > 1 => head'[k] = 0
          BY <1>1, <3>3 DEF OnlyBuffer
        <4>. QED
          BY <4>1, <4>2, <1>1, <3>1, <3>2, <3>5, <3>6 DEF OnlyBuffer
      <3>8. RealTimeOrder'
        BY <1>1, <3>1, <3>2 DEF RealTimeOrder, Delivered
      <3>. QED
        BY <3>1, <3>5, <3>7, <3>8 DEF OneBufferConsumer, LookingAhead, Scanning
    <2>3. CASE nSet # 2
      <3>. DEFINE l == [c EXCEPT !.buf = H, !.tempHead = head[H]]
      <3>1. l \in ConsumerLocals /\ l.buf = 1 /\ l.tempHead = head[1] /\ l.moved = c.moved
        <4>1. l = [c EXCEPT !.buf = 1, !.tempHead = head[1]]
          BY <1>2
        <4>. HIDE DEF l
        <4>. QED
          BY <4>1, <1>1, <2>1 DEF ConsumerLocals
      <3>2. Local("loop", l)
        BY <1>9, <2>1, <2>3 DEF LookAtHead
      <3>. HIDE DEF l
      <3>3. cpc' = "loop" /\ c' = l /\ head' = head /\ Linked' = Linked /\ 1 \in Linked
        BY <1>4, <3>1, <3>2, OnlyOne
      <3>4. LookInv'
        BY <1>2, <2>1, <3>1, <3>3 DEF LookInv
      <3>. QED
        BY <1>4, <2>3, <3>1, <3>2, <3>4 DEF OneBufferConsumer, LookingAhead, Scanning
    <2>. QED
      BY <2>2, <2>3
  <1>10. CASE MoveHead
    BY <1>2, <1>3, <1>10 DEF MoveHead, CanMove
  <1>11. ~ (DropHead \/ FoldCheckTail \/ FoldPrev \/ FoldNext \/ FoldFree)
    BY DEF OneBufferConsumer, LookingAhead, Scanning, DropHead, FoldCheckTail, FoldPrev, FoldNext, FoldFree, At
  <1>. QED
    BY <1>6, <1>7, <1>8, <1>9, <1>10, <1>11, LookStep, ScanStep DEF dequeue

LEMMA StutterOne ==
  ASSUME OneBuffer, Common, OneBufferConsumer, UNCHANGED vars PROVE Common' /\ OneBufferConsumer'
  <1>1. UNCHANGED <<Producer, Buffer, head, headOfQueue, delivered>> /\ c' = c /\ cpc' = cpc
    BY DEF vars, mem, Producer, Buffer
  <1>2. /\ Common' /\ OnlyBuffer' /\ RealTimeOrder' /\ nSet' = nSet /\ H' = H
        /\ Linked' = Linked /\ head' = head /\ is_set' = is_set
        /\ \A i, t : NotBefore(i, t)' <=> NotBefore(i, t)
    BY <1>1, QuietOne DEF OneBufferConsumer, Common, CallType
  <1>3. LookInv' <=> LookInv
    BY <1>1, <1>2 DEF LookInv
  <1>4. \A n : PassedTo(n)' <=> PassedTo(n)
    <2>1. PICK t : t = c.tn
      OBVIOUS
    <2>2. c'.tn = t
      BY <1>1, <2>1
    <2>3. \A i : NotBefore(i, c.tn)' <=> NotBefore(i, t)'
      BY <2>2 DEF NotBefore
    <2>4. \A i : NotBefore(i, c.tn)' <=> NotBefore(i, c.tn)
      BY <1>2, <2>1, <2>3
    <2>. QED
      BY <2>4, <1>2 DEF PassedTo
  <1>5. ScanInv' <=> ScanInv
    BY <1>1, <1>2, <1>4 DEF ScanInv
  <1>. QED
    BY <1>1, <1>2, <1>3, <1>5 DEF OneBufferConsumer

LEMMA OneComplete == ASSUME OneBuffer, Common, OnlyBuffer PROVE NoDuplicate /\ NothingLost
  <1>1. \A v \in Stored : \E i \in Slots : is_set[1][i] # 0 /\ data[1][i] = v
    BY OnlyOne
  <1>2. delivered \in [Value -> Nat] /\ head[1] \in Nat
    BY OnlyOne DEF Common, CallType
  <1>3. NoDuplicate
    BY <1>1, <1>2 DEF NoDuplicate, OnlyBuffer
  <1>4. NothingLost
    <2>. SUFFICES ASSUME NEW v \in Returned \ Delivered
                  PROVE  \E k \in Buffers, i \in Slots :
                           status[k] = "live" /\ is_set[k][i] = 1 /\ data[k][i] = v /\ i >= head[k]
      BY DEF NothingLost
    <2>1. v \in Stored /\ delivered[v] = 0 /\ 1 \in Buffers
      BY <1>2, OnlyOne DEF Returned, Stored, Open, Delivered
    <2>2. PICK i \in Slots : is_set[1][i] # 0 /\ data[1][i] = v
      BY <1>1, <2>1
    <2>3. ~ Taken(i)
      BY <2>1, <2>2 DEF OnlyBuffer
    <2>4. is_set[1][i] = 1 /\ i >= head[1]
      BY <1>2, <2>2, <2>3, OnlyOne DEF Taken, Slots
    <2>5. status[1] = "live"
      BY OnlyOne, LiveFrom DEF Live
    <2>. QED
      BY <2>1, <2>2, <2>4, <2>5
  <1>. QED
    BY <1>3, <1>4

LEMMA OneBufferNext == ASSUME OneBuffer, OneBufferInv, [Next]_vars PROVE OneBufferInv'
  <1>0. NoWrap
    BY DEF OneBuffer
  <1>1. CASE Destroyed
    BY <1>1, DestroyedKeeps, StutterDestroyed DEF OneBufferInv
  <1>2. CASE ~fault /\ Common /\ OneBufferConsumer
    <2>1. CASE UNCHANGED vars
      <3>1. fault' = fault
        BY <2>1 DEF vars
      <3>. QED
        BY <1>2, <2>1, <3>1, StutterOne DEF OneBufferInv
    <2>2. ASSUME NEW p \in Producers, Produce(p) PROVE OneBufferInv'
      <3>1. fault' = fault
        BY <2>2 DEF Produce
      <3>. QED
        BY <1>0, <1>2, <2>2, <3>1, ProduceCommon, ProduceOne DEF OneBufferInv
    <2>3. CASE Consume
      <3>1. dequeue /\ fault' = fault
        BY <2>3 DEF Consume
      <3>. QED
        BY <1>2, <3>1, ConsumeOne DEF OneBufferInv
    <2>4. CASE ~fault /\ Destroy /\ UNCHANGED <<overlap, fault>>
      <3>1. cpc # "destroy" /\ RealTimeOrder /\ NoDuplicate
        BY <1>2, OneComplete DEF OneBufferConsumer, LookingAhead, Scanning
      <3>. QED
        BY <1>2, <2>4, <3>1, BeginsDestroyed DEF OneBufferInv
    <2>5. ~ Fault
      <3>1. cpc # "foldnext"
        BY <1>2 DEF OneBufferConsumer, LookingAhead, Scanning
      <3>2. cpc = "scanN" => c.scanHead < B /\ c.scanHead \in Nat
        <4>1. c.scanHead \in Nat /\ c.tempHead \in Nat /\ B \in Nat
          BY <1>2, BAssumption DEF Common, CallType, ConsumerLocals
        <4>2. cpc = "scanN" => ScanInv
          BY <1>2 DEF OneBufferConsumer, Scanning
        <4>. QED
          BY <4>1, <4>2 DEF ScanInv, Slots
      <3>. QED
        BY <1>2, <3>1, <3>2, NoFaultStep
    <2>6. CASE Halted
      BY <2>1, <2>6 DEF Halted
    <2>. QED
      BY <2>1, <2>2, <2>3, <2>4, <2>5, <2>6 DEF Next
  <1>. QED
    BY <1>1, <1>2 DEF OneBufferInv

LEMMA InitOne == ASSUME NoWrap, Init PROVE OneBufferInv
  <1>1. Common /\ ~ fault
    BY InitCommon DEF Init
  <1>2. OnlyBuffer
    BY BufferRange, BAssumption DEF Init, OnlyBuffer, Slots
  <1>3. RealTimeOrder
    BY DEF Init, RealTimeOrder, Delivered
  <1>. QED
    BY <1>1, <1>2, <1>3 DEF Init, OneBufferInv, OneBufferConsumer, LookingAhead, Scanning

LEMMA OneBufferSafe == ASSUME OneBuffer, OneBufferInv PROVE OrderedAndComplete
  <1>1. CASE Destroyed
    BY <1>1 DEF Destroyed, NothingLost, OrderedAndComplete
  <1>2. CASE ~fault /\ Common /\ OneBufferConsumer
    BY <1>2, OneComplete DEF OneBufferConsumer, OrderedAndComplete
  <1>. QED
    BY <1>1, <1>2 DEF OneBufferInv

\* While all calls fit into the first buffer, dequeue's look ahead never folds, and
\* what its scan has passed had not returned when the call of tn began.
THEOREM OneBufferInductive == ASSUME OneBuffer PROVE Spec => []OneBufferInv
  <1>1. Init => OneBufferInv
    BY InitOne DEF OneBuffer
  <1>2. OneBufferInv /\ [Next]_vars => OneBufferInv'
    BY OneBufferNext
  <1>. QED
    BY <1>1, <1>2, PTL DEF Spec

\* Among any number of producers that share one buffer, dequeue takes each element
\* once, never before an element whose enqueue had returned earlier, and an element
\* not taken is in a slot that dequeue will look at.
THEOREM OrderedAndCompleteHolds == ASSUME OneBuffer PROVE Spec => []OrderedAndComplete
  <1>1. OneBufferInv => OrderedAndComplete
    BY OneBufferSafe
  <1>. QED
    BY <1>1, OneBufferInductive, PTL

----------------------------------------------------------------------------
(* Within one buffer the queue implements MpScFifo                         *)

\* The abstract queue holds what is stored and not delivered.
LEMMA InboxIs == CallType => Inbox = {v \in Stored : delivered[v] = 0}
  <1>. SUFFICES ASSUME CallType PROVE Inbox = {v \in Stored : delivered[v] = 0}
    OBVIOUS
  <1>1. ASSUME NEW v \in Value PROVE v[2] <= Visible(v[1]) <=> v \in Stored
    <2>1. v[1] \in Producers /\ v[2] \in Nat /\ sent[v[1]] \in Nat
      BY ValueParts DEF CallType
    <2>2. v[1] \in Open <=> ppc[v[1]] \notin {"idle", "grow"}
      BY <2>1 DEF Open
    <2>. QED
      BY <2>1, <2>2 DEF Visible, Stored
  <1>. QED
    BY <1>1 DEF Inbox, Stored

LEMMA PutIs ==
  ASSUME CallType PROVE \A p \in Producers : Put[p] = IF p \in Open THEN sent[p] - 1 ELSE sent[p]
  BY DEF Put, Visible, Open

\* A producer adds an element to the abstract queue when it stores the flag.
LEMMA ProduceFifo ==
  ASSUME OneBuffer, Common, OnlyBuffer, NEW p \in Producers, Produce(p)
  PROVE  [Fifo!Next]_<<Put, Inbox>>
  <1>0. NoWrap /\ CallType /\ Common'
    BY ProduceCommon DEF OneBuffer, Common
  <1>1. CallType' /\ delivered' = delivered /\ \A q \in Producers : sent[q] \in Nat /\ sent'[q] \in Nat
    BY <1>0, ProduceFacts DEF Common, Consumer, CallType
  <1>2. /\ Inbox = {v \in Stored : delivered[v] = 0} /\ Inbox' = {v \in Stored' : delivered[v] = 0}
        /\ \A q \in Producers : Put[q] = IF q \in Open THEN sent[q] - 1 ELSE sent[q]
        /\ \A q \in Producers : Put'[q] = IF q \in Open' THEN sent'[q] - 1 ELSE sent'[q]
    <2>1. Inbox' = {v \in Stored' : delivered'[v] = 0}
      <3>1. (CallType => Inbox = {v \in Stored : delivered[v] = 0})'
        BY InboxIs, PTL
      <3>. QED
        BY <1>1, <3>1
    <2>2. \A q \in Producers : Put'[q] = IF q \in Open' THEN sent'[q] - 1 ELSE sent'[q]
      BY <1>1 DEF Put, Visible, Open
    <2>. QED
      BY <1>0, <1>1, <2>1, <2>2, InboxIs, PutIs
  <1>3. ASSUME Stored' = Stored, \A q \in Producers : Put'[q] = Put[q] PROVE UNCHANGED <<Put, Inbox>>
    <2>1. Put' = Put
      BY <1>3 DEF Put
    <2>. QED
      BY <2>1, <1>2, <1>3
  <1>4. CASE FetchAdd(p)
    <2>1. Open' = Open \cup {p} /\ p \notin Open /\ Stored' = Stored /\ sent' = [sent EXCEPT ![p] = @ + 1]
      BY <1>0, <1>4, FetchAddSets
    <2>2. \A q \in Producers : Put'[q] = Put[q]
      BY <1>0, <1>1, <1>2, <2>1 DEF CallType
    <2>. QED
      BY <1>3, <2>1, <2>2
  <1>5. ASSUME Moves(p) PROVE UNCHANGED <<Put, Inbox>>
    <2>1. Open' = Open /\ Stored' = Stored /\ sent' = sent
      BY <1>0, <1>5, MovesSets DEF Moves
    <2>. QED
      BY <1>2, <1>3, <2>1
  <1>6. CASE Grow(p)
    <2>1. Open' = Open /\ Stored' = Stored /\ sent' = sent
      BY <1>0, <1>6, GrowCommon DEF Grow, Calls
    <2>. QED
      BY <1>2, <1>3, <2>1
  <1>7. CASE StoreFlag(p)
    <2>1. ppc[p] = "flag" /\ Open' = Open \ {p} /\ Stored' = Stored \cup {Mine(p)} /\ sent' = sent
      BY <1>7, StoreFlagSets
    <2>2. p \in Open /\ Mine(p) \in Value /\ Mine(p) \notin Stored
      BY <2>1, CellFacts, HolderFacts
    <2>3. delivered[Mine(p)] = 0
      BY <1>0, <2>2 DEF OnlyBuffer, CallType
    <2>4. Put[p] = sent[p] - 1 /\ Put'[p] = sent[p] /\ \A q \in Producers : q # p => Put'[q] = Put[q]
      BY <1>2, <2>1, <2>2
    <2>5. Put' = [Put EXCEPT ![p] = @ + 1]
      <3>1. Put[p] + 1 = sent[p]
        BY <1>1, <2>4
      <3>. QED
        BY <2>4, <3>1 DEF Put
    <2>6. Inbox' = Inbox \cup {<<p, Put[p] + 1>>}
      <3>1. <<p, Put[p] + 1>> = Mine(p)
        BY <1>1, <2>4 DEF Mine
      <3>. QED
        BY <1>2, <2>1, <2>3, <3>1
    <2>. QED
      BY <2>5, <2>6 DEF Fifo!Next, Fifo!Enqueue
  <1>8. CASE LoadTail(p) \/ WalkBack(p) \/ StoreData(p) \/ LoadNext(p) \/ Alloc(p) \/ SetTail(p) \/ CasTail(p)
    <2>1. Moves(p)
      BY <1>0, <1>8, LoadTailCommon, WalkBackCommon, StoreDataCommon, LoadNextCommon, AllocCommon, SetTailCommon
    <2>. QED
      BY <1>5, <2>1
  <1>. QED
    BY <1>4, <1>6, <1>7, <1>8 DEF Produce, enqueueStep

LEMMA ConsumeDelivers ==
  ASSUME dequeue
  PROVE  delivered' = delivered \/ \E v : delivered' = [delivered EXCEPT ![v] = @ + 1]
  BY DEF dequeue, LoadPrevSize, CompareTail, CompareGTail, LookAtHead, LoopHead,
         TryAhead, HeadStillEmpty, SecondLook, ScanCond, ScanCross, ScanSlot, ScanEnd, Edge, StepAhead,
         FoldCheckTail, FoldPrev, FoldNext, FoldFree, MoveHead, DropHead, Local, ReturnFalse,
         TakeHead, Deliver

LEMMA StillNoDuplicate == ASSUME OneBuffer PROVE (Common /\ OnlyBuffer => NoDuplicate)'
  <1>1. Common /\ OnlyBuffer => NoDuplicate
    BY OneComplete
  <1>. QED
    BY <1>1, PTL

\* What dequeue delivers is the oldest element of its producer: an older one is
\* before it, and is delivered before it.
LEMMA ConsumeFifo ==
  ASSUME OneBuffer, Common, OneBufferConsumer, dequeue PROVE [Fifo!Next]_<<Put, Inbox>>
  <1>1. Common' /\ OneBufferConsumer' /\ CallType /\ CallType'
    BY ConsumeOne DEF Common
  <1>2. OnlyBuffer' /\ RealTimeOrder' /\ NoDuplicate'
    <2>1. OnlyBuffer' /\ RealTimeOrder'
      BY <1>1 DEF OneBufferConsumer
    <2>. QED
      BY <1>1, <2>1, StillNoDuplicate
  <1>3. UNCHANGED <<ppc, sent, before>>
    BY DEF dequeue, LoadPrevSize, CompareTail, CompareGTail, LookAtHead, LoopHead,
           TryAhead, HeadStillEmpty, SecondLook, ScanCond, ScanCross, ScanSlot, ScanEnd, Edge, StepAhead,
           FoldCheckTail, FoldPrev, FoldNext, FoldFree, MoveHead, DropHead, Local, ReturnFalse,
           TakeHead, Producer
  <1>4. Put' = Put /\ Open' = Open /\ Stored' = Stored
    <2>1. Open' = Open
      BY <1>3 DEF Open
    <2>. QED
      BY <1>3, <2>1 DEF Put, Visible, Stored
  <1>5. Inbox = {v \in Stored : delivered[v] = 0} /\ Inbox' = {v \in Stored : delivered'[v] = 0}
    <2>1. (CallType => Inbox = {v \in Stored : delivered[v] = 0})'
      BY InboxIs, PTL
    <2>. QED
      BY <1>1, <1>4, <2>1, InboxIs
  <1>6. CASE delivered' = delivered
    BY <1>4, <1>5, <1>6
  <1>7. ASSUME NEW v, delivered' = [delivered EXCEPT ![v] = @ + 1], delivered' # delivered
        PROVE  Fifo!Next
    <2>1. delivered \in [Value -> Nat]
      BY <1>1 DEF CallType
    <2>2. v \in Value
      BY <1>7, <2>1
    <2>3. /\ delivered'[v] = delivered[v] + 1 /\ delivered[v] \in Nat
          /\ \A u \in Value : u # v => delivered'[u] = delivered[u]
      BY <1>7, <2>1, <2>2
    <2>4. delivered[v] = 0 /\ v \in Stored
      BY <1>2, <1>4, <2>2, <2>3 DEF NoDuplicate, OnlyBuffer
    <2>5. v \in Inbox /\ Inbox' = Inbox \ {v}
      <3>1. Stored \subseteq Value
        BY DEF Stored
      <3>. QED
        BY <1>5, <2>3, <2>4, <3>1
    <2>6. ASSUME NEW u \in Inbox, u[1] = v[1] PROVE v[2] <= u[2]
      <3>. SUFFICES ASSUME ~ v[2] <= u[2] PROVE FALSE
        OBVIOUS
      <3>1. u \in Value /\ delivered[u] = 0 /\ v \in Started
        BY <1>1, <1>5, <2>4, <2>6, ValueParts DEF Stored, Started, CallType
      <3>2. /\ u = <<v[1], u[2]>> /\ u[2] \in 1 .. v[2] - 1
        BY <2>2, <2>6, <3>1, ValueParts
      <3>3. u \in before[v]
        BY <3>1, <3>2 DEF Common, Order
      <3>4. v \in Delivered'
        BY <2>2, <2>3, <2>4 DEF Delivered
      <3>5. u \in Delivered'
        BY <1>2, <1>3, <3>3, <3>4 DEF RealTimeOrder
      <3>6. u # v
        BY <3>2, <2>2, ValueParts
      <3>. QED
        BY <2>3, <3>1, <3>5, <3>6 DEF Delivered
    <2>. QED
      BY <1>4, <2>5, <2>6 DEF Fifo!Next, Fifo!Take, Fifo!Oldest
  <1>. QED
    BY <1>6, <1>7, ConsumeDelivers

LEMMA OneBufferFifo ==
  ASSUME OneBuffer, OneBufferInv, [Next]_vars PROVE [Fifo!Next]_<<Put, Inbox>>
  <1>1. ASSUME UNCHANGED <<ppc, sent, delivered>> PROVE UNCHANGED <<Put, Inbox>>
    BY <1>1 DEF Put, Inbox, Visible
  <1>2. CASE UNCHANGED vars \/ Fault \/ Halted \/ Destroy
    <2>1. UNCHANGED <<ppc, sent, delivered>>
      BY <1>2 DEF vars, Fault, Halted, Destroy, Producer
    <2>. QED
      BY <1>1, <2>1
  <1>3. CASE Destroyed
    BY <1>2, <1>3, DestroyedQuiet DEF Next
  <1>4. CASE Common /\ OneBufferConsumer
    BY <1>2, <1>4, ProduceFifo, ConsumeFifo DEF Next, Consume, OneBufferConsumer
  <1>. QED
    BY <1>3, <1>4 DEF OneBufferInv

\* Within one buffer enqueue and dequeue implement a queue that keeps each
\* producer's order: storing is_set adds an element, and what dequeue takes is the
\* oldest element of its producer.
THEOREM FifoContractHolds == ASSUME OneBuffer PROVE Spec => FifoContract
  <1>1. Init => Fifo!Init
    <2>. SUFFICES ASSUME Init PROVE Fifo!Init
      OBVIOUS
    <2>1. Put = [p \in Producers |-> 0]
      BY DEF Init, Put, Visible
    <2>2. Inbox = {}
      <3>1. \A v \in Value : v[1] \in Producers /\ v[2] \in Nat /\ v[2] >= 1
        BY ValueParts
      <3>. QED
        BY <3>1 DEF Init, Inbox, Visible
    <2>. QED
      BY <2>1, <2>2 DEF Fifo!Init
  <1>2. OneBufferInv /\ [Next]_vars => [Fifo!Next]_<<Put, Inbox>>
    BY OneBufferFifo
  <1>. QED
    BY <1>1, <1>2, OneBufferInductive, PTL DEF Spec, FifoContract, Fifo!Spec

----------------------------------------------------------------------------
(* dequeue does not pass what it found waiting                             *)

\* and one slot of it is never used
SlotToSpare == NoWrap /\ Total < B

\* Values that wait are set, and the look ahead does not pass them.
Waiting(i) == is_set[1][i] = 1 /\ head[1] <= i /\ data[1][i] \in waiting
WaitInv ==
  /\ waiting \subseteq Value
  /\ \A v \in waiting : \E i \in Slots : Waiting(i) /\ data[1][i] = v
  /\ cpc = "idle" => waiting = {}
  /\ cpc \in {"tail", "gtail"} => c.prevSize = 0
  /\ cpc \in {"try", "second"} =>
       \A i \in Slots : Waiting(i) => c.buf = 1 /\ c.tempHead <= i
  /\ cpc = "both" => \A i \in Slots : Waiting(i) => c.tn <= i
  /\ cpc = "loop" => \A i \in Slots : Waiting(i) => nSet # 0 \/ (c.buf = 1 /\ c.tempHead <= i)
  /\ cpc = "edge" => \A i \in Slots : Waiting(i) =>
       (c.buf = 1 /\ c.tempHead <= i) \/ (nSet # 0 /\ c.buf = 1 /\ c.tempHead <= i + 1)
  /\ cpc = "ahead" => waiting = {}

WaitingFirst == OneBufferInv /\ (cpc \notin {"destroy", "gone"} => WaitInv)

LEMMA SpareFacts ==
  ASSUME SlotToSpare, Common, OnlyBuffer
  PROVE  /\ OneBuffer /\ gTail \in Nat /\ gTail < B /\ B \in Nat /\ head[1] \in Nat /\ head[1] <= gTail
         /\ H = 1 /\ 1 \in Buffers /\ tailOfQueue = 1
         /\ \A i \in Slots : Waiting(i) => i \in Nat /\ i < gTail /\ head[1] <= i /\ is_set[1][i] = 1
  <1>1. OneBuffer /\ gTail \in Nat /\ gTail < B /\ B \in Nat /\ B > 0
    BY TotalBound, ValueFinite, BAssumption DEF SlotToSpare, OneBuffer, Common, CallType
  <1>2. /\ H = 1 /\ tailOfQueue = 1 /\ 1 \in Buffers /\ head[1] \in 0 .. B
        /\ \A i \in Slots : is_set[1][i] # 0 <=> Filled(i)
    BY <1>1, OnlyOne
  <1>3. head[1] <= gTail
    <2>. SUFFICES ASSUME head[1] > gTail PROVE FALSE
      BY <1>1, <1>2
    <2>1. gTail \in Slots /\ gTail < head[1]
      BY <1>1, <1>2 DEF Slots
    <2>2. Filled(gTail)
      BY <1>2, <2>1 DEF OnlyBuffer
    <2>. QED
      BY <1>1, <2>2 DEF Filled
  <1>. QED
    BY <1>1, <1>2, <1>3 DEF Waiting, Filled, Slots

LEMMA NobodyWaits ==
  ASSUME WaitInv, \A i \in Slots : ~ Waiting(i) PROVE waiting = {}
  BY DEF WaitInv

LEMMA ProduceWait ==
  ASSUME SlotToSpare, Common, OneBufferConsumer, WaitInv, NEW p \in Producers, Produce(p) PROVE WaitInv'
  <1>0. OnlyBuffer /\ OneBuffer /\ 1 \in Buffers /\ NoWrap
    BY SpareFacts DEF OneBufferConsumer, SlotToSpare
  <1>1. /\ UNCHANGED Consumer
        /\ \A k \in Buffers, i \in Slots : is_set[k][i] # 0 =>
              is_set'[k][i] = is_set[k][i] /\ data'[k][i] = data[k][i]
        /\ \A k \in Buffers, i \in Slots : is_set[k][i] = 0 /\ is_set'[k][i] # 0 =>
              p \in Open /\ data'[k][i] = Mine(p)
    BY <1>0, ProduceFacts
  <1>2. head' = head /\ c' = c /\ cpc' = cpc /\ waiting' = waiting
    BY <1>1 DEF Consumer
  <1>3. p \in Open => Mine(p) \notin waiting
    <2>1. waiting \subseteq Stored
      BY <1>0, OnlyOne DEF WaitInv, Waiting
    <2>2. p \in Open => Mine(p) \notin Stored
      BY HolderFacts
    <2>. QED
      BY <2>1, <2>2
  <1>4. \A i \in Slots : (Waiting(i)' <=> Waiting(i)) /\ (Waiting(i) => data'[1][i] = data[1][i])
    <2>. SUFFICES ASSUME NEW i \in Slots
                  PROVE  (Waiting(i)' <=> Waiting(i)) /\ (Waiting(i) => data'[1][i] = data[1][i])
      OBVIOUS
    <2>1. CASE is_set[1][i] = 0
      BY <1>0, <1>1, <1>2, <1>3, <2>1 DEF Waiting
    <2>2. CASE is_set[1][i] # 0
      BY <1>0, <1>1, <1>2, <2>2 DEF Waiting
    <2>. QED
      BY <2>1, <2>2
  <1>5. cpc \in {"loop", "edge"} /\ nSet # 0 => nSet' # 0
    <2>1. cpc \in {"loop", "edge"} => head[1] < B
      BY DEF OneBufferConsumer, LookingAhead, LookInv
    <2>. QED
      BY <1>0, <2>1, ProduceHead
  <1>6. waiting' \subseteq Value /\ \A v \in waiting' : \E i \in Slots : Waiting(i)' /\ data'[1][i] = v
    BY <1>2, <1>4 DEF WaitInv
  <1>. QED
    BY <1>2, <1>4, <1>5, <1>6 DEF WaitInv

LEMMA QuietWait ==
  ASSUME WaitInv, UNCHANGED <<Producer, Buffer, head, headOfQueue, waiting>>
  PROVE  /\ nSet' = nSet /\ \A i \in Slots : Waiting(i)' <=> Waiting(i)
         /\ waiting' \subseteq Value /\ waiting' = waiting
         /\ \A v \in waiting' : \E i \in Slots : Waiting(i)' /\ data'[1][i] = v
  <1>1. UNCHANGED <<data, is_set, head, headOfQueue, waiting>>
    BY DEF Producer, Buffer
  <1>2. nSet' = nSet
    BY <1>1 DEF nSet, H
  <1>3. \A i : Waiting(i)' <=> Waiting(i)
    BY <1>1 DEF Waiting
  <1>. QED
    BY <1>1, <1>2, <1>3 DEF WaitInv

LEMMA ReturnWait == ASSUME Return PROVE WaitInv'
  BY DEF Return, WaitInv, Waiting

\* What dequeue found waiting it does not pass.
LEMMA ConsumeWait ==
  ASSUME SlotToSpare, Common, OneBufferConsumer, WaitInv, dequeue PROVE WaitInv'
  <1>1. /\ OneBuffer /\ gTail \in Nat /\ gTail < B /\ B \in Nat /\ head[1] \in Nat /\ head[1] <= gTail
        /\ H = 1 /\ 1 \in Buffers /\ tailOfQueue = 1 /\ OnlyBuffer
        /\ \A i \in Slots : Waiting(i) => i \in Nat /\ i < gTail /\ head[1] <= i /\ is_set[1][i] = 1
    BY SpareFacts DEF OneBufferConsumer
  <1>2. ASSUME ReturnFalse \/ TakeHead PROVE WaitInv'
    BY <1>2, ReturnWait DEF ReturnFalse, TakeHead
  <1>3. ASSUME NEW s, NEW l, Local(s, l)
        PROVE  /\ nSet' = nSet /\ (\A i \in Slots : Waiting(i)' <=> Waiting(i))
               /\ waiting' \subseteq Value /\ waiting' = waiting /\ cpc' = s /\ c' = l
               /\ \A v \in waiting' : \E i \in Slots : Waiting(i)' /\ data'[1][i] = v
    BY <1>3, QuietWait DEF Local
  <1>4. cpc \in LookingAhead => LookInv
    BY DEF OneBufferConsumer
  <1>5. c \in ConsumerLocals /\ c.tempHead \in Nat /\ c.tn \in Nat
    BY DEF Common, CallType, ConsumerLocals
  <1>6. CASE LoadPrevSize
    <2>1. /\ cpc' = "tail" /\ c' = [NoDequeue EXCEPT !.prevSize = PrevSize(tailOfQueue)]
          /\ waiting' = IF cpc = "idle" THEN Returned \ Delivered ELSE waiting
          /\ UNCHANGED <<Producer, Buffer, head, headOfQueue>>
      BY <1>6 DEF LoadPrevSize
    <2>2. UNCHANGED <<data, is_set, head>>
      BY <2>1 DEF Producer, Buffer
    <2>3. c'.prevSize = 0
      <3>1. PrevSize(1) = 0
        <4>1. UIntMod \in Nat /\ UIntMod > 0 /\ 0 \in Nat /\ B * (1 - 1) = 0
          BY UIntModAssumption, <1>1
        <4>2. 0 % UIntMod = 0
          BY <4>1, SmallMod
        <4>. QED
          BY <4>1, <4>2 DEF PrevSize, UInt
      <3>. QED
        BY <1>1, <2>1, <3>1 DEF NoDequeue
    <2>4. \A v \in waiting' : \E i \in Slots : is_set[1][i] = 1 /\ head[1] <= i /\ data[1][i] = v
      <3>1. CASE cpc = "idle"
        <4>. SUFFICES ASSUME NEW v \in Returned \ Delivered
                      PROVE  \E i \in Slots : is_set[1][i] = 1 /\ head[1] <= i /\ data[1][i] = v
          BY <2>1, <3>1
        <4>1. v \in Stored /\ delivered[v] = 0
          BY DEF Returned, Stored, Open, Delivered, Common, CallType
        <4>2. PICK i \in Slots : is_set[1][i] # 0 /\ data[1][i] = v
          BY <1>1, <4>1, OnlyOne
        <4>3. ~ Taken(i)
          BY <1>1, <4>1, <4>2 DEF OnlyBuffer
        <4>4. is_set[1][i] = 1 /\ head[1] <= i
          BY <1>1, <4>2, <4>3, OnlyOne DEF Taken, Slots
        <4>. QED
          BY <4>2, <4>4
      <3>2. CASE cpc # "idle"
        BY <2>1, <3>2 DEF WaitInv, Waiting
      <3>. QED
        BY <3>1, <3>2
    <2>5. waiting' \subseteq Value
      BY <2>1 DEF WaitInv, Returned
    <2>6. \A v \in waiting' : \E i \in Slots : Waiting(i)' /\ data'[1][i] = v
      BY <2>2, <2>4 DEF Waiting
    <2>. QED
      BY <2>1, <2>3, <2>5, <2>6 DEF WaitInv
  <1>7. CASE CompareTail
    <2>1. PICK s \in {"gtail", "elem"} : Local(s, c)
      BY <1>7 DEF CompareTail
    <2>2. c.prevSize = 0
      BY <1>7 DEF CompareTail, At, WaitInv
    <2>. QED
      BY <1>3, <2>1, <2>2 DEF WaitInv
  <1>8. CASE CompareGTail
    <2>1. CASE Local("elem", c)
      BY <1>3, <2>1 DEF WaitInv
    <2>. QED
      BY <1>2, <1>8, <2>1 DEF CompareGTail
  <1>9. CASE LookAtHead
    <2>1. CASE nSet = 2
      <3>1. /\ head' = [head EXCEPT ![1] = @ + 1] /\ cpc' = "again"
            /\ UNCHANGED <<Producer, Buffer, headOfQueue, waiting>>
        BY <1>1, <1>9, <2>1 DEF LookAtHead, SkipHandled
      <3>2. UNCHANGED <<data, is_set, waiting>>
        BY <3>1 DEF Producer, Buffer
      <3>3. head'[1] = head[1] + 1 /\ is_set[1][head[1]] = 2
        BY <1>1, <2>1, <3>1 DEF Common, MemType, nSet
      <3>4. \A i \in Slots : Waiting(i) => Waiting(i)'
        <4>. SUFFICES ASSUME NEW i \in Slots, Waiting(i) PROVE Waiting(i)'
          OBVIOUS
        <4>1. i \in Nat /\ head[1] <= i /\ is_set[1][i] = 1
          BY <1>1
        <4>2. i # head[1]
          BY <3>3, <4>1
        <4>. QED
          BY <1>1, <3>2, <3>3, <4>1, <4>2 DEF Waiting
      <3>5. \A v \in waiting' : \E i \in Slots : Waiting(i)' /\ data'[1][i] = v
        BY <3>2, <3>4 DEF WaitInv
      <3>. QED
        BY <3>1, <3>2, <3>5 DEF WaitInv
    <2>2. CASE nSet # 2
      <3>1. Local("loop", [c EXCEPT !.buf = 1, !.tempHead = head[1]])
        BY <1>1, <1>9, <2>2 DEF LookAtHead
      <3>2. cpc' = "loop" /\ c'.buf = 1 /\ c'.tempHead = head[1]
        <4>1. cpc' = "loop" /\ c' = [c EXCEPT !.buf = 1, !.tempHead = head[1]]
          BY <3>1 DEF Local
        <4>. QED
          BY <1>5, <4>1 DEF ConsumerLocals
      <3>. QED
        BY <1>1, <1>3, <3>1, <3>2 DEF WaitInv
    <2>. QED
      BY <2>1, <2>2
  <1>10. CASE LoopHead
    <2>1. CASE nSet = 0
      <3>1. PICK s \in {"try", "edge"} : Local(s, c)
        BY <1>10, <2>1 DEF LoopHead
      <3>2. cpc = "loop"
        BY <1>10 DEF LoopHead, At
      <3>. QED
        BY <1>3, <2>1, <3>1, <3>2 DEF WaitInv
    <2>. QED
      BY <1>2, <1>10, <2>1 DEF LoopHead
  <1>11. CASE TryAhead
    <2>1. cpc = "try"
      BY <1>11 DEF TryAhead, At
    <2>. DEFINE l == [c EXCEPT !.tn = c.tempHead, !.tempHead = @ + 1]
    <2>2. l.buf = c.buf /\ l.tempHead = c.tempHead + 1 /\ l.tn = c.tempHead
      BY <1>5, TryLocals
    <2>3. PICK s \in {"both", "second", "edge"} : Local(s, l) /\ (s # "both" => is_set[c.buf][c.tempHead] # 1)
      BY <1>11 DEF TryAhead
    <2>. HIDE DEF l
    <2>4. ASSUME NEW i \in Slots, Waiting(i)
          PROVE  c.buf = 1 /\ c.tempHead <= i /\ (s # "both" => c.tempHead + 1 <= i)
      <3>1. c.buf = 1 /\ c.tempHead <= i /\ i \in Nat /\ is_set[1][i] = 1
        BY <1>1, <2>1, <2>4 DEF WaitInv
      <3>. QED
        BY <3>1, <1>5, <2>3
    <2>. QED
      BY <1>3, <2>2, <2>3, <2>4 DEF WaitInv
  <1>12. CASE HeadStillEmpty
    <2>1. cpc = "both" /\ c.buf = 1 /\ c.tn + 1 = c.tempHead
      BY <1>4, <1>12 DEF HeadStillEmpty, At, LookingAhead, LookInv
    <2>2. CASE nSet = 0
      <3>1. \E l : Local("scan", l)
        BY <1>12, <2>2 DEF HeadStillEmpty, ScanFirst
      <3>. QED
        BY <1>3, <3>1 DEF WaitInv
    <2>3. CASE nSet # 0
      <3>1. Local("edge", c)
        BY <1>12, <2>3 DEF HeadStillEmpty
      <3>2. \A i \in Slots : Waiting(i) => c.tempHead <= i + 1
        BY <1>1, <1>5, <2>1 DEF WaitInv
      <3>. QED
        BY <1>3, <2>1, <2>3, <3>1, <3>2 DEF WaitInv
    <2>. QED
      BY <2>2, <2>3
  <1>13. CASE SecondLook
    <2>1. cpc = "second"
      BY <1>13 DEF SecondLook, At
    <2>2. PICK h : Local("edge", [c EXCEPT !.handled = h])
      BY <1>13 DEF SecondLook
    <2>3. cpc' = "edge" /\ c'.buf = c.buf /\ c'.tempHead = c.tempHead
      BY <1>3, <1>5, <2>2 DEF ConsumerLocals
    <2>. QED
      BY <1>3, <2>1, <2>2, <2>3 DEF WaitInv
  <1>14. CASE Edge
    <2>1. cpc = "edge"
      BY <1>14 DEF Edge, At
    <2>2. PICK s \in {"loop", "fold", "ahead"} : Local(s, c) /\ (s # "loop" => ~ c.tempHead < B)
      <3>1. c.handled \in BOOLEAN /\ c.moved \in BOOLEAN
        BY <1>5 DEF ConsumerLocals
      <3>2. CASE c.tempHead < B
        BY <1>1, <1>5, <1>14, <3>2 DEF Edge
      <3>3. CASE ~ c.tempHead < B
        BY <1>1, <1>5, <1>14, <3>1, <3>3 DEF Edge
      <3>. QED
        BY <3>2, <3>3
    <2>3. ~ c.tempHead < B => waiting = {}
      <3>1. \A i \in Slots : Waiting(i) => c.tempHead <= i + 1 /\ i < gTail /\ i \in Nat
        BY <1>1, <1>5, <2>1 DEF WaitInv
      <3>. QED
        BY <1>1, <1>5, <3>1, NobodyWaits
    <2>. QED
      BY <1>3, <2>1, <2>2, <2>3 DEF WaitInv
  <1>15. CASE StepAhead
    <2>1. cpc = "ahead" /\ waiting = {}
      BY <1>15 DEF StepAhead, At, WaitInv
    <2>2. ASSUME NEW l, Local("loop", l) PROVE WaitInv'
      <3>1. cpc' = "loop" /\ waiting' = {}
        BY <1>3, <2>1, <2>2
      <3>. QED
        BY <3>1 DEF WaitInv, Waiting
    <2>. QED
      BY <1>2, <1>15, <2>2 DEF StepAhead
  <1>16. ASSUME ScanCond \/ ScanCross \/ ScanSlot PROVE WaitInv'
    <2>1. PICK s, l : s \in Scanning /\ Local(s, l)
      BY <1>16 DEF ScanCond, ScanCross, ScanSlot, Scanning
    <2>2. cpc' \in Scanning
      BY <1>3, <2>1
    <2>. QED
      BY <1>3, <2>1, <2>2 DEF WaitInv, Scanning
  <1>17. CASE ScanEnd
    BY <1>2, <1>17, ReturnWait DEF ScanEnd
  <1>18. CASE MoveHead
    BY <1>1, <1>2, <1>18 DEF MoveHead, CanMove
  <1>19. ~ (DropHead \/ FoldCheckTail \/ FoldPrev \/ FoldNext \/ FoldFree)
    BY DEF OneBufferConsumer, LookingAhead, Scanning, DropHead, FoldCheckTail, FoldPrev, FoldNext, FoldFree, At
  <1>. QED
    BY <1>6, <1>7, <1>8, <1>9, <1>10, <1>11, <1>12, <1>13, <1>14, <1>15, <1>16, <1>17, <1>18, <1>19
       DEF dequeue

LEMMA WaitingFirstNext == ASSUME SlotToSpare, WaitingFirst, [Next]_vars PROVE WaitingFirst'
  <1>1. OneBuffer
    BY ValueFinite, BAssumption DEF SlotToSpare, OneBuffer
  <1>2. OneBufferInv'
    BY <1>1, OneBufferNext DEF WaitingFirst
  <1>3. CASE Destroyed
    <2>1. Destroyed'
      BY <1>3, DestroyedKeeps, StutterDestroyed
    <2>. QED
      BY <1>2, <2>1 DEF Destroyed, WaitingFirst
  <1>4. CASE ~fault /\ Common /\ OneBufferConsumer
    <2>0. WaitInv
      BY <1>4 DEF WaitingFirst, OneBufferConsumer, LookingAhead, Scanning
    <2>1. CASE UNCHANGED vars \/ Fault \/ Halted
      <3>1. /\ UNCHANGED <<Producer, Buffer, head, headOfQueue, waiting>> /\ cpc' = cpc /\ c' = c
        BY <2>1 DEF Fault, Halted, vars, mem, Producer, Buffer
      <3>2. /\ nSet' = nSet /\ (\A i \in Slots : Waiting(i)' <=> Waiting(i))
            /\ waiting' \subseteq Value /\ waiting' = waiting
            /\ \A v \in waiting' : \E i \in Slots : Waiting(i)' /\ data'[1][i] = v
        BY <2>0, <3>1, QuietWait
      <3>3. WaitInv'
        BY <2>0, <3>1, <3>2 DEF WaitInv
      <3>. QED
        BY <1>2, <3>3 DEF WaitingFirst
    <2>2. ASSUME NEW p \in Producers, Produce(p) PROVE WaitingFirst'
      BY <1>2, <1>4, <2>0, <2>2, ProduceWait DEF WaitingFirst
    <2>3. CASE Consume
      BY <1>2, <1>4, <2>0, <2>3, ConsumeWait DEF WaitingFirst, Consume
    <2>4. CASE Destroy
      <3>1. cpc' \in {"destroy", "gone"}
        BY <2>4 DEF Destroy
      <3>. QED
        BY <1>2, <3>1 DEF WaitingFirst
    <2>. QED
      BY <2>1, <2>2, <2>3, <2>4 DEF Next
  <1>. QED
    BY <1>3, <1>4 DEF WaitingFirst, OneBufferInv

\* dequeue returns false in three places, and nothing waits at any of them.
LEMMA FalseStep ==
  ASSUME SlotToSpare, Common, OneBufferConsumer, WaitInv, dequeue,
         cpc # "idle", cpc' = "idle", delivered' = delivered
  PROVE  waiting = {}
  <1>1. /\ OneBuffer /\ gTail \in Nat /\ gTail < B /\ B \in Nat /\ head[1] \in Nat /\ head[1] <= gTail
        /\ H = 1 /\ 1 \in Buffers /\ OnlyBuffer
        /\ \A i \in Slots : Waiting(i) => i \in Nat /\ i < gTail /\ head[1] <= i /\ is_set[1][i] = 1
    BY SpareFacts DEF OneBufferConsumer
  <1>2. ASSUME NEW i \in Slots, is_set[1][i] # 0, Deliver(data[1][i]) PROVE FALSE
    <2>1. data[1][i] \in Value /\ delivered \in [Value -> Nat]
      BY <1>1, <1>2, OnlyOne DEF Common, CallType
    <2>2. delivered'[data[1][i]] = delivered[data[1][i]] + 1 /\ delivered[data[1][i]] \in Nat
      <3>1. PICK v \in Value : v = data[1][i]
        BY <2>1
      <3>. QED
        BY <1>2, <2>1, <3>1 DEF Deliver
    <2>. QED
      BY <2>2
  <1>3. CASE CompareGTail
    <2>1. Empty /\ c.prevSize = 0
      BY <1>3 DEF CompareGTail, Local, At, WaitInv
    <2>2. head[1] = gTail
      BY <1>1, <2>1 DEF Empty
    <2>. QED
      BY <1>1, <2>2, NobodyWaits
  <1>4. CASE StepAhead
    BY <1>4 DEF StepAhead, At, WaitInv
  <1>5. ~ MoveHead
    BY <1>1 DEF MoveHead
  <1>6. ~ LoopHead
    <2>. SUFFICES ASSUME LoopHead PROVE FALSE
      OBVIOUS
    <2>1. nSet # 0 /\ TakeHead /\ cpc = "loop"
      BY DEF LoopHead, Local, At
    <2>2. head[1] \in Slots /\ is_set[1][head[1]] # 0
      BY <1>1, <2>1 DEF Slots, nSet
    <2>. QED
      BY <1>1, <1>2, <2>1, <2>2 DEF TakeHead
  <1>7. ~ ScanEnd
    <2>. SUFFICES ASSUME ScanEnd PROVE FALSE
      OBVIOUS
    <2>1. c.buf = 1 /\ c.tn \in Slots /\ is_set[1][c.tn] = 1
      BY DEF ScanEnd, At, OneBufferConsumer, Scanning, ScanInv
    <2>2. CASE nSet = 1
      <3>1. head[1] \in Slots /\ is_set[1][head[1]] # 0
        BY <1>1, <2>2 DEF Slots, nSet
      <3>. QED
        BY <1>1, <1>2, <2>2, <3>1 DEF ScanEnd, TakeHead
    <2>3. CASE nSet # 1
      BY <1>2, <2>1, <2>3 DEF ScanEnd
    <2>. QED
      BY <2>2, <2>3
  <1>8. ~ (LoadPrevSize \/ CompareTail \/ LookAtHead)
    BY DEF LoadPrevSize, CompareTail, LookAtHead, Local
  <1>9. ~ (TryAhead \/ HeadStillEmpty \/ SecondLook \/ ScanCond \/ ScanCross \/ ScanSlot)
    BY DEF TryAhead, HeadStillEmpty, SecondLook, ScanCond, ScanCross, ScanSlot, Local, ScanFirst
  <1>10. ~ Edge
    BY DEF Edge, Local
  <1>11. ~ (DropHead \/ FoldCheckTail \/ FoldPrev \/ FoldNext \/ FoldFree)
    BY DEF OneBufferConsumer, LookingAhead, Scanning, DropHead, FoldCheckTail, FoldPrev, FoldNext, FoldFree, At
  <1>. QED
    BY <1>3, <1>4, <1>5, <1>6, <1>7, <1>8, <1>9, <1>10, <1>11 DEF dequeue

\* What was in the queue when dequeue was called is at or after the slot the look
\* ahead has reached, or the head is set and will be taken.
THEOREM WaitingFirstInductive == ASSUME SlotToSpare PROVE Spec => []WaitingFirst
  <1>1. Init => WaitingFirst
    BY InitOne DEF Init, WaitingFirst, WaitInv, Waiting, SlotToSpare
  <1>2. WaitingFirst /\ [Next]_vars => WaitingFirst'
    BY WaitingFirstNext
  <1>. QED
    BY <1>1, <1>2, PTL DEF Spec

\* With a slot of the buffer to spare, dequeue returns false, at any of its returns,
\* only if no element whose enqueue had returned was in the queue when it was called.
THEOREM FalseMeansEmptyHolds == ASSUME SlotToSpare PROVE Spec => FalseMeansEmpty
  <1>1. ASSUME WaitingFirst, [Next]_vars, cpc \notin {"idle", "destroy", "gone"}, cpc' = "idle",
               delivered' = delivered
        PROVE  waiting = {}
    <2>1. Common /\ OneBufferConsumer /\ WaitInv
      BY <1>1 DEF WaitingFirst, OneBufferInv, Destroyed
    <2>2. Consume
      <3>1. ASSUME NEW p \in Producers, Produce(p) PROVE cpc' = cpc
        BY <3>1, <2>1, ProduceFacts DEF SlotToSpare, Consumer
      <3>2. UNCHANGED vars \/ Fault \/ Halted => cpc' = cpc
        BY DEF vars, Fault, Halted
      <3>3. ~ Destroy
        BY <1>1 DEF Destroy, Joined
      <3>. QED
        BY <1>1, <3>1, <3>2, <3>3 DEF Next
    <2>. QED
      BY <1>1, <2>1, <2>2, FalseStep DEF Consume
  <1>2. WaitingFirst /\ [Next]_vars =>
          [cpc \notin {"idle", "destroy", "gone"} /\ cpc' = "idle" /\ delivered' = delivered
             => waiting = {}]_vars
    BY <1>1
  <1>. QED
    BY <1>2, WaitingFirstInductive, PTL DEF Spec, FalseMeansEmpty

=============================================================================
