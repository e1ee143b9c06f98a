--------------------------- MODULE CopyFileProofs --------------------------
(***************************************************************************)
(* For every size of file, block and ring: no transfer leaves its buffer,  *)
(* an entry of the ring is there for whatever has to be requeued, and a    *)
(* copy_file that met no trouble has copied the file when it returns 0.    *)
(***************************************************************************)
EXTENDS CopyFile, IoUringProofs

\* the units of the input that block b holds, and those not read yet
UnitsOf(b) == Offset(b) .. Offset(b) + FirstLen(b) - 1
Unread == {u \in Units : \E b \in Blocks : data[b].read /\ u \in UnitsOf(b)}

BlockCount == (Size + BS - 1) \div BS
IoData == [read : BOOLEAN, base : Nat, len : Nat]

TypeOK ==
  /\ next \in 0 .. BlockCount /\ write_left \in Int /\ reads \in Int /\ writes \in Int
  /\ data \in [Blocks -> IoData]
  /\ ring \in Rings(Blocks)

Memory ==
  /\ buf = [b \in Blocks |-> buf[b]] /\ \A b \in Blocks : DOMAIN buf[b] = 0 .. FirstLen(b) - 1
  /\ out = [u \in Units |-> out[u]]

\* Every block that was queued and is not done is in the ring once, and
\* copy_file counts the blocks in the ring.
Places ==
  /\ OnePlace(ring)
  /\ \A b \in Requests(ring) : b < next
  /\ \A b \in Blocks : b >= next => data[b].read
  /\ Len(ring.sq) + Cardinality(ring.flight) + Len(ring.cq) = reads + writes
  /\ reads + writes <= QD

\* What is left of a block's transfer is a part of its buffer, and the kernel
\* transfers a part of that or fails.
Lengths ==
  /\ \A b \in Blocks : data[b].len > 0 /\ data[b].base + data[b].len = FirstLen(b)
  /\ \A c \in Elements(ring.cq) : c.res \in {Again, Error} \cup 1 .. data[c.req].len

\* write_left is what was not read, although it is lowered before the write.
LeftExact == write_left = Cardinality(Unread)

InBuffer(b) == \A i \in 0 .. FirstLen(b) - 1 : buf[b][i] = Offset(b) + i
InOutput(b) == \A i \in 0 .. FirstLen(b) - 1 : out[Offset(b) + i] = Offset(b) + i

\* While all goes well nothing stays prepared, all transfers are whole, and a
\* block that was read is in its buffer until it is in the output.
Smooth ==
  /\ ring.sq = << >>
  /\ \A b \in Blocks : data[b].base = 0
  /\ \A c \in Elements(ring.cq) : c.res = data[c.req].len
  /\ \A b \in Blocks : ~data[b].read \/ b \in Completed(ring) => InBuffer(b)
  /\ \A b \in Blocks : ~data[b].read => b \in ring.flight \/ InOutput(b)

IInv ==
  /\ TypeOK /\ Memory /\ Places /\ Lengths /\ LeftExact
  /\ odd = {} => Smooth
  /\ pc = "returned 0" /\ odd = {} => Unread = {}

----------------------------------------------------------------------------
(* Blocks and units                                                        *)

LEMMA MinOfTwo ==
  ASSUME NEW a \in Int, NEW b \in Int
  PROVE  Min({a, b}) = IF a <= b THEN a ELSE b
<1> DEFINE m == IF a <= b THEN a ELSE b
<1>1. m \in {a, b} /\ \A y \in {a, b} : m <= y
  OBVIOUS
<1>2. \A x \in {a, b} : (\A y \in {a, b} : x <= y) => x = m
  OBVIOUS
<1> QED BY <1>1, <1>2 DEF Min

LEMMA BlockCountFacts ==
  /\ BlockCount \in Nat /\ Blocks = 0 .. BlockCount - 1
  /\ BlockCount * BS < Size + BS /\ BlockCount * BS >= Size
<1> DEFINE a == Size + BS - 1
<1>1. a \in Nat /\ BS \in Nat /\ BS > 0
  BY CopyAssumption
<1>2. a \div BS \in Nat /\ (a \div BS) * BS <= a /\ a < (a \div BS) * BS + BS
  BY <1>1
<1> QED BY <1>2, CopyAssumption DEF BlockCount, Blocks

LEMMA BlockFacts ==
  ASSUME NEW b \in Blocks
  PROVE  /\ Offset(b) \in Nat /\ FirstLen(b) \in Nat /\ Offset(b) + FirstLen(b) <= Size
         /\ FirstLen(b) > 0 /\ FirstLen(b) <= BS
<1>1. b \in Nat /\ b <= BlockCount - 1 /\ BlockCount \in Nat
  BY BlockCountFacts
<1>2. b * BS <= (BlockCount - 1) * BS
  BY <1>1, CopyAssumption
<1>3. Offset(b) \in Nat /\ Offset(b) < Size
  BY <1>1, <1>2, BlockCountFacts, CopyAssumption DEF Offset
<1>4. FirstLen(b) = IF BS <= Size - Offset(b) THEN BS ELSE Size - Offset(b)
  BY <1>3, MinOfTwo, CopyAssumption DEF FirstLen
<1> QED BY <1>3, <1>4, CopyAssumption

\* The blocks partition the file.
LEMMA UnitsDisjoint ==
  ASSUME NEW b \in Blocks, NEW c \in Blocks, b # c
  PROVE  UnitsOf(b) \cap UnitsOf(c) = {}
<1>1. ASSUME NEW x \in Blocks, NEW y \in Blocks, x < y
      PROVE  Offset(x) + FirstLen(x) <= Offset(y)
  <2>1. x \in Nat /\ y \in Nat
    BY BlockCountFacts
  <2>2. (x + 1) * BS <= y * BS
    BY <1>1, <2>1, CopyAssumption
  <2>3. (x + 1) * BS = x * BS + BS
    BY <2>1, CopyAssumption
  <2> QED BY <2>1, <2>2, <2>3, BlockFacts, CopyAssumption DEF Offset
<1>2. b < c \/ c < b
  BY BlockCountFacts
<1> QED BY <1>1, <1>2, BlockFacts DEF UnitsOf

LEMMA UnitsCovered ==
  /\ \A b \in Blocks : UnitsOf(b) \subseteq Units
  /\ \A u \in Units : \E b \in Blocks : u \in UnitsOf(b)
<1>1. \A b \in Blocks : UnitsOf(b) \subseteq Units
  BY BlockFacts, CopyAssumption DEF UnitsOf, Units
<1>2. ASSUME NEW u \in Units PROVE \E b \in Blocks : u \in UnitsOf(b)
  <2> DEFINE b == u \div BS
  <2>1. u \in Nat /\ u < Size /\ BS \in Nat /\ BS > 0
    BY CopyAssumption DEF Units
  <2>2. b \in Nat /\ b * BS <= u /\ u < b * BS + BS
    BY <2>1
  <2> HIDE DEF b
  <2>3. b < BlockCount
    <3> SUFFICES ASSUME b >= BlockCount PROVE FALSE
      BY <2>2, BlockCountFacts
    <3>1. b * BS >= BlockCount * BS
      BY <2>2, BlockCountFacts, CopyAssumption
    <3> QED BY <2>1, <2>2, <3>1, BlockCountFacts, CopyAssumption
  <2>4. b \in Blocks
    BY <2>2, <2>3, BlockCountFacts
  <2>5. FirstLen(b) = IF BS <= Size - Offset(b) THEN BS ELSE Size - Offset(b)
    BY <2>4, BlockFacts, MinOfTwo, CopyAssumption DEF FirstLen
  <2>6. u \in UnitsOf(b)
    <3>1. Offset(b) \in Nat /\ FirstLen(b) \in Nat /\ Offset(b) <= u /\ u < Offset(b) + BS
      BY <2>2, <2>4, BlockFacts DEF Offset
    <3>2. u < Offset(b) + FirstLen(b)
      BY <2>1, <2>5, <3>1, CopyAssumption
    <3> QED BY <2>1, <3>1, <3>2 DEF UnitsOf
  <2> QED BY <2>4, <2>6
<1> QED BY <1>1, <1>2

LEMMA FirstUnit ==
  ASSUME NEW b \in Blocks
  PROVE  Offset(b) \in UnitsOf(b)
<1>1. Offset(b) \in Nat /\ FirstLen(b) \in Nat /\ FirstLen(b) > 0
  BY BlockFacts
<1> QED BY <1>1 DEF UnitsOf

LEMMA BlocksFinite == IsFiniteSet(Blocks)
  BY BlockCountFacts, FS_Interval

LEMMA UnreadFinite == IsFiniteSet(Units) /\ IsFiniteSet(Unread)
<1>1. IsFiniteSet(Units)
  BY CopyAssumption, FS_Interval DEF Units
<1>2. Unread \in SUBSET Units
  BY DEF Unread
<1> QED BY <1>1, <1>2, FS_Subset

----------------------------------------------------------------------------
(* Facts about the state                                                   *)

LEMMA CounterTypes ==
  ASSUME IInv
  PROVE  /\ next \in Nat /\ next <= BlockCount /\ BlockCount \in Nat /\ QD \in Nat
         /\ reads \in Int /\ writes \in Int /\ reads + writes <= QD
         /\ ring \in Rings(Blocks) /\ OnePlace(ring) /\ Load(ring) = reads + writes
         /\ Len(ring.sq) \in Nat /\ Len(ring.sq) <= QD
         /\ ring.cq # << >> => Len(ring.sq) < QD
<1>1. next \in 0 .. BlockCount /\ reads \in Int /\ writes \in Int /\ ring \in Rings(Blocks)
  BY DEF IInv, TypeOK
<1>2. OnePlace(ring) /\ Load(ring) = reads + writes /\ reads + writes <= QD
  BY DEF IInv, Places, Load
<1>3. Len(ring.sq) \in Nat /\ Cardinality(ring.flight) \in Nat /\ Len(ring.cq) \in Nat
  BY <1>1, LoadType, BlocksFinite
<1>4. ring.cq # << >> => Len(ring.cq) > 0
  <2>1. ring.cq \in Seq(Completions(Blocks))
    BY <1>1 DEF Rings
  <2> QED BY <2>1, <1>3, EmptySeq
<1>5. Len(ring.sq) + Cardinality(ring.flight) + Len(ring.cq) <= QD /\ QD \in Nat
  BY <1>2, CopyAssumption DEF Load
<1>6. Len(ring.sq) <= QD /\ (ring.cq # << >> => Len(ring.sq) < QD)
  BY <1>3, <1>4, <1>5
<1> QED BY <1>1, <1>2, <1>3, <1>5, <1>6, BlockCountFacts

LEMMA DataType ==
  ASSUME IInv, NEW b \in Blocks
  PROVE  /\ data \in [Blocks -> IoData] /\ data[b] \in IoData
         /\ data[b].len \in Nat /\ data[b].len > 0 /\ data[b].base \in Nat
         /\ data[b].base + data[b].len = FirstLen(b)
<1>1. data \in [Blocks -> IoData] /\ data[b] \in IoData
  BY DEF IInv, TypeOK
<1>2. data[b].len \in Nat /\ data[b].base \in Nat
  BY <1>1 DEF IoData
<1>3. data[b].len > 0 /\ data[b].base + data[b].len = FirstLen(b)
  BY DEF IInv, Lengths
<1> QED BY <1>1, <1>2, <1>3

\* Whatever is in the ring is a block that was queued.
LEMMA RequestsType ==
  ASSUME IInv
  PROVE  Requests(ring) \subseteq Blocks /\ \A b \in Requests(ring) : b \in Nat /\ b < next
<1>1. ring.sq \in Seq(Blocks) /\ ring.cq \in Seq(Completions(Blocks)) /\ ring.flight \subseteq Blocks
  BY DEF IInv, TypeOK, Rings
<1>2. Elements(ring.sq) \subseteq Blocks
  BY <1>1 DEF Elements
<1>3. Elements(ring.cq) \subseteq Completions(Blocks)
  BY <1>1 DEF Elements
<1>4. Completed(ring) \subseteq Blocks
  BY <1>3 DEF Completed, Completions
<1>5. Requests(ring) \subseteq Blocks
  BY <1>1, <1>2, <1>4 DEF Requests, Prepared
<1>6. \A b \in Requests(ring) : b < next
  BY DEF IInv, Places
<1> QED BY <1>5, <1>6, BlockCountFacts

----------------------------------------------------------------------------
(* Steps of copy_file                                                      *)

LEMMA InitIInv == Init => IInv
<1> SUFFICES ASSUME Init PROVE IInv
  OBVIOUS
<1>1. /\ ring \in Rings(Blocks) /\ OnePlace(ring) /\ Requests(ring) = {}
      /\ ring.sq = << >> /\ ring.cq = << >> /\ ring.flight = {}
  BY EmptyRingFacts DEF Init, EmptyRing
<1>2. \A b \in Blocks : /\ data[b].read /\ data[b].base = 0 /\ data[b].len = FirstLen(b)
                        /\ FirstLen(b) \in Nat /\ FirstLen(b) > 0
  BY BlockFacts DEF Init
<1>3. TypeOK
  <2>1. data \in [Blocks -> IoData]
    BY <1>2 DEF Init, IoData
  <2>2. next \in 0 .. BlockCount /\ write_left \in Int /\ reads \in Int /\ writes \in Int
    BY BlockCountFacts, CopyAssumption DEF Init
  <2> QED BY <1>1, <2>1, <2>2 DEF TypeOK
<1>8. Memory
  BY DEF Init, Memory
<1>4. Places
  <2>1. reads = 0 /\ writes = 0 /\ Len(ring.sq) + Cardinality(ring.flight) + Len(ring.cq) = 0
    BY <1>1, FS_EmptySet DEF Init
  <2> QED BY <1>1, <1>2, <2>1, CopyAssumption DEF Places
<1>5. Lengths
  <2>1. Elements(ring.cq) = {}
    BY <1>1 DEF Elements
  <2> QED BY <1>2, <2>1 DEF Lengths
<1>6. LeftExact
  <2>1. Unread = Units
    BY <1>2, UnitsCovered DEF Unread
  <2>2. Cardinality(Units) = Size
    BY CopyAssumption, FS_Interval DEF Units
  <2> QED BY <2>1, <2>2 DEF LeftExact, Init
<1>7. Smooth
  <2>1. Elements(ring.cq) = {} /\ Completed(ring) = {}
    BY <1>1 DEF Elements, Completed
  <2> QED BY <1>1, <1>2, <2>1 DEF Smooth
<1>9. pc = "top"
  BY DEF Init
<1> QED BY <1>3, <1>4, <1>5, <1>6, <1>7, <1>8, <1>9 DEF IInv

\* The reads that are queued are the next n blocks, and fit the ring.
LEMMA QueuedFacts ==
  ASSUME IInv
  PROVE  \E n \in Nat : /\ n = Cardinality(Queued)
                        /\ next + n <= BlockCount /\ reads + writes + n <= QD
<1>1. /\ next \in Nat /\ next <= BlockCount /\ BlockCount \in Nat
      /\ reads \in Int /\ writes \in Int /\ reads + writes <= QD /\ QD \in Nat
      /\ Len(ring.sq) \in Nat /\ Len(ring.sq) <= QD
  BY CounterTypes
<1> DEFINE S == {b \in Blocks : b >= next /\ reads + writes + (b - next) < QD
                                          /\ Len(ring.sq) + (b - next) < QD}
<1>3. Queued = S
  <2>1. ASSUME NEW b \in Queued PROVE b \in S
    <3>1. b \in Blocks /\ b \in Nat /\ b >= next
      BY BlockCountFacts DEF Queued
    <3>2. b - next \in 0 .. b - next
      BY <1>1, <3>1
    <3> QED BY <3>1, <3>2 DEF Queued, BelowQD
  <2>2. ASSUME NEW b \in S PROVE b \in Queued
    <3>1. b \in Nat
      BY BlockCountFacts
    <3>2. ASSUME NEW k \in 0 .. b - next PROVE BelowQD(k) /\ Len(ring.sq) + k < QD
      BY <1>1, <3>1 DEF BelowQD
    <3> QED BY <3>2 DEF Queued
  <2> QED BY <2>1, <2>2
<1> DEFINE x == BlockCount - next
           y == QD - (reads + writes)
           z == QD - Len(ring.sq)
           xy == IF x <= y THEN x ELSE y
           n == IF xy <= z THEN xy ELSE z
<1>2. x \in Nat /\ y \in Nat /\ z \in Nat
  BY <1>1
<1>4. /\ n \in Nat /\ next + n <= BlockCount /\ reads + writes + n <= QD
      /\ n <= x /\ n <= y /\ n <= z /\ (n = x \/ n = y \/ n = z)
  <2> HIDE DEF x, y, z
  <2>1. n \in Nat /\ n <= x /\ n <= y /\ n <= z /\ (n = x \/ n = y \/ n = z)
    BY <1>2
  <2> HIDE DEF n
  <2> QED BY <1>1, <1>2, <2>1 DEF x, y
<1> HIDE DEF n
<1>5. S = next .. next + n - 1
  <2>1. ASSUME NEW b \in S PROVE b \in next .. next + n - 1
    BY <1>1, <1>4, BlockCountFacts
  <2>2. ASSUME NEW b \in next .. next + n - 1 PROVE b \in S
    BY <1>1, <1>4, BlockCountFacts
  <2> QED BY <2>1, <2>2
<1>6. Cardinality(next .. next + n - 1) = n
  BY <1>1, <1>4, FS_Interval
<1> QED BY <1>3, <1>4, <1>5, <1>6

LEMMA ReadsPrepared ==
  ASSUME IInv, NEW n \in Nat, next + n <= BlockCount,
         NEW r, r = [ring EXCEPT !.sq = @ \o [i \in 1 .. n |-> next + i - 1]]
  PROVE  /\ r \in Rings(Blocks) /\ OnePlace(r) /\ Load(r) = Load(ring) + n
         /\ \A b \in Requests(r) : b < next + n
         /\ r.flight = ring.flight /\ r.cq = ring.cq
<1> DEFINE t == [i \in 1 .. n |-> next + i - 1]
<1>1. next \in Nat /\ ring \in Rings(Blocks) /\ ring.sq \in Seq(Blocks) /\ OnePlace(ring)
  BY CounterTypes DEF Rings
<1>2. t \in Seq(Blocks) /\ Len(t) = n /\ DOMAIN t = 1 .. n
  BY <1>1, BlockCountFacts
<1>3. Elements(t) \subseteq next .. next + n - 1 /\ Distinct(t)
  BY <1>1 DEF Elements, Distinct
<1>4. \A b \in Requests(ring) : b \in Nat /\ b < next
  BY RequestsType
<1> HIDE DEF t
<1>5. r.sq = ring.sq \o t /\ r.flight = ring.flight /\ r.cq = ring.cq
  BY <1>1 DEF Rings, t
<1>6. Elements(ring.sq) \cap Elements(t) = {}
  BY <1>1, <1>3, <1>4 DEF Requests, Prepared
<1>7. /\ r.sq \in Seq(Blocks) /\ Len(r.sq) = Len(ring.sq) + n /\ Distinct(r.sq)
      /\ Elements(r.sq) = Elements(ring.sq) \cup Elements(t)
  <2>1. Distinct(ring.sq)
    BY <1>1 DEF OnePlace
  <2>2. /\ ring.sq \o t \in Seq(Blocks) /\ Len(ring.sq \o t) = Len(ring.sq) + Len(t)
        /\ Elements(ring.sq \o t) = Elements(ring.sq) \cup Elements(t)
        /\ Distinct(ring.sq \o t)
    <3>1. ring.sq \in Seq(Blocks) /\ t \in Seq(Blocks)
      BY <1>1, <1>2
    <3>2. Distinct(t) /\ Elements(ring.sq) \cap Elements(t) = {}
      BY <1>3, <1>6
    <3> QED BY <2>1, <3>1, <3>2, ConcatElements, Zenon
  <2> QED BY <1>2, <1>5, <2>2
<1>8. r \in Rings(Blocks)
  BY <1>1, <1>5, <1>7 DEF Rings, t
<1>9. Prepared(r) = Prepared(ring) \cup Elements(t) /\ Completed(r) = Completed(ring)
  BY <1>5, <1>7 DEF Prepared, Completed
<1>10. OnePlace(r)
  <2>1. Elements(t) \cap Requests(ring) = {}
    BY <1>1, <1>3, <1>4
  <2>2. \A i, j \in DOMAIN r.cq : r.cq[i].req = r.cq[j].req => i = j
    BY <1>1, <1>5 DEF OnePlace
  <2>3. /\ Prepared(ring) \cap ring.flight = {} /\ Prepared(ring) \cap Completed(ring) = {}
        /\ ring.flight \cap Completed(ring) = {}
    BY <1>1 DEF OnePlace
  <2>4. /\ Prepared(r) \cap r.flight = {} /\ Prepared(r) \cap Completed(r) = {}
        /\ r.flight \cap Completed(r) = {}
    BY <1>5, <1>9, <2>1, <2>3 DEF Requests
  <2> QED BY <1>7, <2>2, <2>4 DEF OnePlace
<1>11. \A b \in Requests(r) : b < next + n
  <2>1. ASSUME NEW b \in Requests(r) PROVE b < next + n
    <3>1. b \in Requests(ring) \/ b \in next .. next + n - 1
      BY <1>3, <1>5, <1>9 DEF Requests
    <3> QED BY <1>1, <1>4, <3>1
  <2> QED BY <2>1
<1>12. Load(r) = Load(ring) + n
  <2>1. Len(ring.sq) \in Nat /\ Cardinality(ring.flight) \in Nat /\ Len(ring.cq) \in Nat
    BY <1>1, BlocksFinite, LoadType
  <2>2. Load(r) = (Len(ring.sq) + n) + Cardinality(ring.flight) + Len(ring.cq)
    BY <1>5, <1>7, Zenon DEF Load
  <2>3. \A a, b, c \in Nat : (a + n) + b + c = (a + b + c) + n
    OBVIOUS
  <2> QED BY <2>1, <2>2, <2>3, Zenon DEF Load
<1> QED BY <1>5, <1>8, <1>10, <1>11, <1>12

\* Steps that leave the blocks' data alone leave what is unread alone.
LEMMA LeftKept ==
  ASSUME LeftExact, UNCHANGED <<write_left, data>>
  PROVE  LeftExact' /\ Unread' = Unread
  BY DEF LeftExact, Unread

LEMMA QueueReadsIInv ==
  ASSUME IInv, QueueReads
  PROVE  IInv'
<1>1. PICK n \in Nat : /\ n = Cardinality(Queued)
                      /\ next + n <= BlockCount /\ reads + writes + n <= QD
  BY QueuedFacts
<1>2. PICK r : r = [ring EXCEPT !.sq = @ \o [i \in 1 .. n |-> next + i - 1]]
  OBVIOUS
<1>3. /\ next' = next + n /\ reads' = reads + n
      /\ UNCHANGED <<write_left, writes, data, buf, out>>
  BY <1>1 DEF QueueReads
<1>13. \/ n > 0 /\ ring' = Submit(r) /\ pc' # "returned 0" /\ odd' = odd
       \/ n = 0 /\ ring' = ring /\ pc' # "returned 0" /\ odd' = odd
       \/ ring' = r /\ odd' # {}
  <2>1. \/ /\ ring' = IF n > 0 THEN Submit(r) ELSE ring
           /\ pc' = IF write_left # 0 THEN "wait" ELSE "top"
           /\ odd' = odd
        \/ ring' = r /\ odd' = odd \cup {"submit"}
    BY <1>1, <1>2, Zenon DEF QueueReads
  <2>2. (IF write_left # 0 THEN "wait" ELSE "top") # "returned 0"
    OBVIOUS
  <2>3. odd \cup {"submit"} # {}
    OBVIOUS
  <2>4. n > 0 \/ (n = 0 /\ ~(n > 0))
    OBVIOUS
  <2> QED BY <2>1, <2>2, <2>3, <2>4, Zenon
<1>4. /\ r \in Rings(Blocks) /\ OnePlace(r) /\ Load(r) = Load(ring) + n
      /\ \A b \in Requests(r) : b < next + n
      /\ r.flight = ring.flight /\ r.cq = ring.cq
  BY <1>1, <1>2, ReadsPrepared
<1>5. /\ Submit(r) \in Rings(Blocks) /\ OnePlace(Submit(r)) /\ Load(Submit(r)) = Load(r)
      /\ Requests(Submit(r)) = Requests(r) /\ Submit(r).cq = ring.cq
      /\ Submit(r).sq = << >> /\ ring.flight \subseteq Submit(r).flight
  BY <1>4, SubmitFacts, SubmitLoad, BlocksFinite
<1>6. /\ next \in Nat /\ reads \in Int /\ writes \in Int /\ ring \in Rings(Blocks)
      /\ OnePlace(ring) /\ Load(ring) = reads + writes
      /\ \A b \in Requests(ring) : b \in Nat /\ b < next
  BY CounterTypes, RequestsType
<1>7. /\ ring' \in Rings(Blocks) /\ OnePlace(ring') /\ Load(ring') = Load(ring) + n
      /\ \A b \in Requests(ring') : b < next + n
      /\ ring'.cq = ring.cq /\ ring.flight \subseteq ring'.flight
  <2>1. CASE n > 0 /\ ring' = Submit(r)
    BY <1>4, <1>5, <2>1
  <2>2. CASE n = 0 /\ ring' = ring
    BY <1>6, <2>2 DEF Load
  <2>3. CASE ring' = r
    BY <1>4, <2>3
  <2> QED BY <1>13, <2>1, <2>2, <2>3
<1>8. TypeOK'
  <2>1. next' \in 0 .. BlockCount /\ reads' \in Int
    BY <1>1, <1>3, <1>6
  <2> QED BY <1>3, <1>7, <2>1 DEF IInv, TypeOK
<1>9. Places'
  <2>1. \A b \in Blocks : b >= next' => data'[b].read
    <3>1. \A b \in Blocks : b \in Nat /\ (b >= next => data[b].read)
      <4>1. \A b \in Blocks : b \in Nat
        BY BlockCountFacts
      <4> QED BY <4>1 DEF IInv, Places
    <3> QED BY <1>3, <1>6, <3>1
  <2>2. Load(ring') = reads' + writes' /\ reads' + writes' <= QD
    BY <1>1, <1>3, <1>6, <1>7
  <2> QED BY <1>3, <1>7, <2>1, <2>2 DEF Places, Load
<1>10. Memory' /\ Lengths' /\ LeftExact' /\ Unread' = Unread
  BY <1>3, <1>7, LeftKept DEF IInv, Memory, Lengths
<1>11. ASSUME odd' = {} PROVE Smooth'
  <2>1. Smooth /\ odd = {}
    BY <1>11, <1>13 DEF IInv
  <2>2. ring'.sq = << >>
    BY <1>5, <1>11, <1>13, <2>1 DEF Smooth
  <2>3. Completed(ring') = Completed(ring)
    BY <1>7 DEF Completed
  <2> QED BY <1>3, <1>7, <2>1, <2>2, <2>3 DEF Smooth, InBuffer, InOutput
<1>12. ~(pc' = "returned 0" /\ odd' = {})
  BY <1>13
<1> QED BY <1>8, <1>9, <1>10, <1>11, <1>12 DEF IInv

\* No variable but pc changes; a return of 0 finds nothing left to read.
LEMMA MovesIInv ==
  ASSUME IInv, ReturnZero \/ PeekFindsNone \/ CqeFailed \/ UNCHANGED vars
  PROVE  IInv'
<1>1. UNCHANGED <<next, write_left, reads, writes, data, buf, out, ring, odd>>
  BY DEF ReturnZero, PeekFindsNone, CqeFailed, vars
<1>2. TypeOK' /\ Memory' /\ Places' /\ Lengths' /\ LeftExact' /\ Unread' = Unread
  BY <1>1, LeftKept DEF IInv, TypeOK, Memory, Places, Lengths
<1>3. odd' = {} => Smooth'
  BY <1>1 DEF IInv, Smooth, InBuffer, InOutput
<1>4. ASSUME pc' = "returned 0", odd' = {} PROVE Unread' = {}
  <2>1. CASE ReturnZero
    <3>1. Cardinality(Unread) = 0
      BY <2>1 DEF ReturnZero, BothZero, IInv, LeftExact
    <3> QED BY <1>2, <3>1, UnreadFinite, FS_EmptySet
  <2>2. CASE ~ReturnZero
    BY <1>1, <1>2, <1>4, <2>2 DEF PeekFindsNone, CqeFailed, vars, IInv
  <2> QED BY <2>1, <2>2
<1> QED BY <1>2, <1>3, <1>4 DEF IInv

\* A failed wait is trouble, and returns 1.
LEMMA WaitFailsIInv ==
  ASSUME IInv, WaitFails
  PROVE  IInv'
<1>1. UNCHANGED <<next, write_left, reads, writes, data, buf, out, ring>>
  BY DEF WaitFails
<1>2. TypeOK' /\ Memory' /\ Places' /\ Lengths' /\ LeftExact'
  BY <1>1, LeftKept DEF IInv, TypeOK, Memory, Places, Lengths
<1>3. odd' # {}
  BY DEF WaitFails
<1> QED BY <1>2, <1>3 DEF IInv

\* The completion copy_file looks at is of a block in the ring.
LEMMA CqeFacts ==
  ASSUME IInv, AtCqe
  PROVE  /\ ring.cq # << >> /\ Cqe.req \in Blocks /\ Cqe.res \in Int
         /\ Cqe.req \in Completed(ring) /\ Cqe.req < next /\ Cqe \in Elements(ring.cq)
         /\ odd = {} => Cqe.res = data[Cqe.req].len
         /\ pc # "returned 0"
<1>1. ring.cq # << >> /\ pc # "returned 0" /\ ring \in Rings(Blocks)
  BY CounterTypes DEF AtCqe
<1>2. /\ Cqe.req \in Blocks /\ Cqe.res \in Int /\ Cqe.req \in Completed(ring)
      /\ Cqe \in Elements(ring.cq)
  BY <1>1, CqeSeenFacts DEF Cqe
<1>3. Cqe.req < next
  BY <1>2, RequestsType DEF Requests
<1>4. odd = {} => Cqe.res = data[Cqe.req].len
  BY <1>2 DEF IInv, Smooth
<1> QED BY <1>1, <1>2, <1>3, <1>4

\* A block that is requeued moves from the completions to the prepared ones.
LEMMA RequeueFacts ==
  ASSUME IInv, AtCqe, NEW b, b = Cqe.req
  PROVE  /\ Requeue(b) \in Rings(Blocks) /\ OnePlace(Requeue(b))
         /\ Load(Requeue(b)) = Load(ring) /\ Requests(Requeue(b)) = Requests(ring)
         /\ Requeue(b).flight = ring.flight /\ b \in Prepared(Requeue(b))
         /\ Elements(Requeue(b).cq) \subseteq Elements(ring.cq)
         /\ \A c \in Elements(Requeue(b).cq) : c.req # b
<1> DEFINE s == CqeSeen(ring)
<1>1. ring.cq # << >> /\ b \in Blocks /\ ring \in Rings(Blocks) /\ OnePlace(ring)
  BY CqeFacts, CounterTypes
<1>2. Requeue(b) = Prep(s, b)
  BY <1>1, SeenCommutes DEF Requeue
<1>3. /\ s \in Rings(Blocks) /\ OnePlace(s) /\ b \notin Requests(s)
      /\ Requests(s) = Requests(ring) \ {b} /\ s.flight = ring.flight
      /\ Elements(s.cq) \subseteq Elements(ring.cq) /\ b \in Completed(ring)
  BY <1>1, CqeSeenFacts DEF Cqe
<1>4. Load(s) = Load(ring) - 1 /\ Load(ring) \in Int
  BY <1>1, CqeSeenLoad, BlocksFinite, CounterTypes
<1> HIDE DEF s
<1>5. /\ Prep(s, b) \in Rings(Blocks) /\ OnePlace(Prep(s, b))
      /\ Requests(Prep(s, b)) = Requests(s) \cup {b}
      /\ Prep(s, b).flight = s.flight /\ Prep(s, b).cq = s.cq /\ b \in Prepared(Prep(s, b))
  BY <1>1, <1>3, PrepFacts
<1>6. Load(Prep(s, b)) = Load(s) + 1
  BY <1>1, <1>3, PrepLoad, BlocksFinite
<1>7. \A c \in Elements(s.cq) : c.req # b
  BY <1>3 DEF Requests, Completed
<1>8. Requests(ring) = Requests(s) \cup {b}
  BY <1>3 DEF Requests
<1>9. Load(Prep(s, b)) = Load(ring)
  BY <1>4, <1>6
<1> QED BY <1>2, <1>3, <1>5, <1>7, <1>8, <1>9

LEMMA TryAgainIInv ==
  ASSUME IInv, TryAgain
  PROVE  IInv'
<1>1. PICK b : b = Cqe.req
  OBVIOUS
<1>2. /\ AtCqe /\ Cqe.res = Again /\ ring' = Requeue(b)
      /\ UNCHANGED <<next, write_left, reads, writes, data, buf, out, odd>>
  BY <1>1 DEF TryAgain
<1>3. /\ ring' \in Rings(Blocks) /\ OnePlace(ring')
      /\ Load(ring') = Load(ring) /\ Requests(ring') = Requests(ring)
      /\ Elements(ring'.cq) \subseteq Elements(ring.cq)
  BY <1>1, <1>2, RequeueFacts
<1>4. odd' # {}
  <2>1. data[Cqe.req].len > 0 /\ data[Cqe.req].len \in Nat
    BY <1>2, CqeFacts, DataType
  <2>2. Cqe.res # data[Cqe.req].len
    BY <1>2, <2>1 DEF Again
  <2> QED BY <1>2, <2>2, CqeFacts
<1>5. TypeOK' /\ Memory'
  BY <1>2, <1>3 DEF IInv, TypeOK, Memory
<1>6. Places'
  BY <1>2, <1>3 DEF IInv, Places, Load
<1>7. Lengths' /\ LeftExact'
  BY <1>2, <1>3, LeftKept DEF IInv, Lengths
<1> QED BY <1>4, <1>5, <1>6, <1>7 DEF IInv

LEMMA AdjustFacts ==
  ASSUME NEW d \in IoData, NEW res \in Nat, res <= d.len
  PROVE  /\ Adjust(d, res) \in IoData /\ Adjust(d, res).read = d.read
         /\ Adjust(d, res).base = d.base + res /\ Adjust(d, res).len = d.len - res
<1> DEFINE e == [d EXCEPT !.base = d.base + res]
<1>1. d.base + res \in Nat /\ d.len - res \in Nat
  BY DEF IoData
<1>2. e \in IoData /\ e.read = d.read /\ e.base = d.base + res /\ e.len = d.len
  BY <1>1 DEF IoData
<1>3. Adjust(d, res) = [e EXCEPT !.len = d.len - res]
  BY DEF Adjust, IoData
<1> HIDE DEF e
<1> QED BY <1>1, <1>2, <1>3 DEF IoData

LEMMA ShortTransferIInv ==
  ASSUME IInv, ShortTransfer
  PROVE  IInv'
<1>1. PICK b, res : b = Cqe.req /\ res = Cqe.res
  OBVIOUS
<1>2. /\ AtCqe /\ res >= 0 /\ res # data[b].len /\ ring' = Requeue(b)
      /\ data' = [data EXCEPT ![b] = Adjust(data[b], res)]
      /\ UNCHANGED <<next, write_left, reads, writes, buf, out, odd>>
  BY <1>1 DEF ShortTransfer
<1>3. /\ ring' \in Rings(Blocks) /\ OnePlace(ring')
      /\ Load(ring') = Load(ring) /\ Requests(ring') = Requests(ring)
      /\ Elements(ring'.cq) \subseteq Elements(ring.cq)
      /\ \A c \in Elements(ring'.cq) : c.req # b
  BY <1>1, <1>2, RequeueFacts
<1>4. b \in Blocks /\ data \in [Blocks -> IoData] /\ data[b] \in IoData
  BY <1>1, <1>2, CqeFacts DEF IInv, TypeOK, IoData
<1>5. res \in Nat /\ res < data[b].len /\ odd' # {}
  <2>1. res \in {Again, Error} \cup 1 .. data[b].len /\ data[b].len \in Nat
    BY <1>1, <1>2, <1>4, CqeFacts DEF IInv, Lengths, IoData
  <2>2. odd # {}
    BY <1>1, <1>2, CqeFacts
  <2> QED BY <1>2, <2>1, <2>2 DEF Again, Error
<1>6. /\ data' \in [Blocks -> IoData] /\ data'[b].read = data[b].read
      /\ data'[b].base = data[b].base + res /\ data'[b].len = data[b].len - res
      /\ \A c \in Blocks : c # b => data'[c] = data[c]
  <2>1. /\ Adjust(data[b], res) \in IoData /\ Adjust(data[b], res).read = data[b].read
        /\ Adjust(data[b], res).base = data[b].base + res
        /\ Adjust(data[b], res).len = data[b].len - res
    BY <1>4, <1>5, AdjustFacts DEF IoData
  <2>2. data'[b] = Adjust(data[b], res) /\ \A c \in Blocks : c # b => data'[c] = data[c]
    BY <1>2, <1>4
  <2>3. data' \in [Blocks -> IoData]
    BY <1>2, <1>4, <2>1
  <2> QED BY <2>1, <2>2, <2>3
<1>7. TypeOK' /\ Memory'
  BY <1>2, <1>3, <1>6 DEF IInv, TypeOK, Memory, IoData
<1>8. \A c \in Blocks : data'[c].read = data[c].read
  BY <1>6
<1>9. Places'
  BY <1>2, <1>3, <1>8 DEF IInv, Places, Load
<1>10. Lengths'
  <2>1. ASSUME NEW c \in Blocks PROVE data'[c].len > 0 /\ data'[c].base + data'[c].len = FirstLen(c)
    <3>1. data[c].len > 0 /\ data[c].base + data[c].len = FirstLen(c)
      BY DEF IInv, Lengths
    <3>2. CASE c = b
      BY <1>4, <1>5, <1>6, <3>1, <3>2 DEF IoData
    <3>3. CASE c # b
      BY <1>6, <3>1, <3>3
    <3> QED BY <3>2, <3>3
  <2>2. ASSUME NEW c \in Elements(ring'.cq) PROVE c.res \in {Again, Error} \cup 1 .. data'[c.req].len
    <3>1. c \in Elements(ring.cq) /\ c.req # b
      BY <1>3
    <3>2. c.req \in Blocks
      BY <3>1, RequestsType DEF Requests, Completed
    <3> QED BY <1>6, <3>1, <3>2 DEF IInv, Lengths
  <2> QED BY <2>1, <2>2 DEF Lengths
<1>11. LeftExact'
  <2>1. Unread' = Unread
    BY <1>8 DEF Unread
  <2> QED BY <1>2, <2>1 DEF IInv, LeftExact
<1> QED BY <1>5, <1>7, <1>9, <1>10, <1>11 DEF IInv

LEMMA WriteDoneIInv ==
  ASSUME IInv, WriteDone
  PROVE  IInv'
<1>1. /\ AtCqe /\ ring' = CqeSeen(ring) /\ writes' = writes - 1
      /\ pc' # "returned 0"
      /\ UNCHANGED <<next, write_left, reads, data, buf, out, odd>>
  BY DEF WriteDone, OneWriteLess, Continue
<1>2. ring \in Rings(Blocks) /\ OnePlace(ring) /\ ring.cq # << >>
  BY <1>1, CounterTypes, CqeFacts
<1>3. /\ ring' \in Rings(Blocks) /\ OnePlace(ring') /\ ring'.sq = ring.sq
      /\ ring'.flight = ring.flight /\ Requests(ring') \subseteq Requests(ring)
      /\ Elements(ring'.cq) \subseteq Elements(ring.cq)
  <2>1. /\ CqeSeen(ring) \in Rings(Blocks) /\ OnePlace(CqeSeen(ring))
        /\ CqeSeen(ring).sq = ring.sq /\ CqeSeen(ring).flight = ring.flight
        /\ Requests(CqeSeen(ring)) = Requests(ring) \ {Head(ring.cq).req}
        /\ Elements(CqeSeen(ring).cq) \subseteq Elements(ring.cq)
    BY <1>2, CqeSeenFacts
  <2> QED BY <1>1, <2>1
<1>4. Load(ring') = Load(ring) - 1 /\ Load(ring) = reads + writes
  BY <1>1, <1>2, CqeSeenLoad, BlocksFinite, CounterTypes
<1>5. TypeOK' /\ Memory'
  <2>1. writes' \in Int
    <3>1. writes \in Int
      BY CounterTypes
    <3>2. writes' = writes - 1
      BY <1>1
    <3> QED BY <3>1, <3>2
  <2> QED BY <1>1, <1>3, <2>1 DEF IInv, TypeOK, Memory
<1>6. Places'
  <2>1. Load(ring') = reads' + writes' /\ reads' + writes' <= QD
    <3>1. reads \in Int /\ writes \in Int /\ QD \in Nat /\ reads + writes <= QD
      BY CounterTypes
    <3>2. reads' = reads /\ writes' = writes - 1
      BY <1>1
    <3> QED BY <1>4, <3>1, <3>2
  <2>2. /\ \A b \in Requests(ring') : b < next'
        /\ \A b \in Blocks : b >= next' => data'[b].read
    BY <1>1, <1>3 DEF IInv, Places
  <2> QED BY <1>3, <2>1, <2>2 DEF Places, Load
<1>7. Lengths' /\ LeftExact'
  BY <1>1, <1>3, LeftKept DEF IInv, Lengths
<1>8. ASSUME odd' = {} PROVE Smooth'
  <2>1. Smooth
    BY <1>1, <1>8 DEF IInv
  <2>2. Completed(ring') \subseteq Completed(ring)
    BY <1>3 DEF Completed
  <2> QED BY <1>1, <1>3, <2>1, <2>2 DEF Smooth, InBuffer, InOutput
<1> QED BY <1>1, <1>5, <1>6, <1>7, <1>8 DEF IInv

LEMMA ReadDoneIInv ==
  ASSUME IInv, ReadDone
  PROVE  IInv'
<1>1. PICK b : b = Cqe.req
  OBVIOUS
<1>2. /\ AtCqe /\ data[b].read /\ data' = [data EXCEPT ![b] = WriteData(b)]
      /\ write_left' = write_left - FirstLen(b)
      /\ reads' = reads - 1 /\ writes' = writes + 1
      /\ pc' # "returned 0"
      /\ UNCHANGED <<next, buf, out>>
  BY <1>1 DEF ReadDone, Continue
<1>3. \/ ring' = CqeSeen(Submit(Prep(ring, b))) /\ odd' = odd
      \/ ring' = Requeue(b) /\ odd' # {}
  <2>1. \/ ring' = CqeSeen(Submit(Prep(ring, b))) /\ odd' = odd
        \/ ring' = CqeSeen(Prep(ring, b)) /\ odd' = odd \cup {"submit"}
    BY <1>1, Zenon DEF ReadDone
  <2>2. odd \cup {"submit"} # {}
    OBVIOUS
  <2> QED BY <2>1, <2>2 DEF Requeue
<1>4. b \in Blocks /\ b < next /\ b \in Completed(ring) /\ ring \in Rings(Blocks)
  BY <1>1, <1>2, CqeFacts, CounterTypes
<1> DEFINE r == Requeue(b)
<1>5. /\ r \in Rings(Blocks) /\ OnePlace(r)
      /\ Load(r) = Load(ring) /\ Requests(r) = Requests(ring)
      /\ r.flight = ring.flight /\ b \in Prepared(r)
      /\ Elements(r.cq) \subseteq Elements(ring.cq)
      /\ \A c \in Elements(r.cq) : c.req # b
  BY <1>1, <1>2, RequeueFacts
<1>6. CqeSeen(Submit(Prep(ring, b))) = Submit(r)
  <2>1. Prep(ring, b) \in Rings(Blocks)
    BY <1>4, PrepFacts
  <2> QED BY <2>1, SeenCommutes DEF Requeue
<1> HIDE DEF r
<1>7. /\ Submit(r) \in Rings(Blocks) /\ OnePlace(Submit(r)) /\ Load(Submit(r)) = Load(r)
      /\ Requests(Submit(r)) = Requests(r) /\ Submit(r).cq = r.cq
      /\ Submit(r).sq = << >> /\ Submit(r).flight = r.flight \cup Prepared(r)
  BY <1>5, SubmitFacts, SubmitLoad, BlocksFinite
<1>8. /\ ring' \in Rings(Blocks) /\ OnePlace(ring')
      /\ Load(ring') = Load(ring) /\ Requests(ring') = Requests(ring)
      /\ Elements(ring'.cq) \subseteq Elements(ring.cq)
      /\ \A c \in Elements(ring'.cq) : c.req # b
  BY <1>3, <1>5, <1>6, <1>7 DEF r
<1>9. /\ data' \in [Blocks -> IoData] /\ ~data'[b].read
      /\ data'[b].base = 0 /\ data'[b].len = FirstLen(b)
      /\ \A c \in Blocks : c # b => data'[c] = data[c]
  <2>1. WriteData(b) \in IoData
    BY <1>4, BlockFacts DEF WriteData, IoData
  <2>2. data \in [Blocks -> IoData]
    BY <1>4, DataType
  <2>3. data' \in [Blocks -> IoData] /\ data'[b] = WriteData(b)
    BY <1>2, <1>4, <2>1, <2>2
  <2>4. \A c \in Blocks : c # b => data'[c] = data[c]
    BY <1>2, <1>4, <2>2
  <2> QED BY <2>3, <2>4 DEF WriteData
<1>10. TypeOK' /\ Memory'
  <2>1. reads \in Int /\ writes \in Int /\ write_left \in Int /\ FirstLen(b) \in Nat
    BY <1>4, CounterTypes, BlockFacts DEF IInv, TypeOK
  <2>2. reads' \in Int /\ writes' \in Int /\ write_left' \in Int
    <3>1. /\ reads' = reads - 1 /\ writes' = writes + 1
          /\ write_left' = write_left - FirstLen(b)
      BY <1>2
    <3> QED BY <2>1, <3>1
  <2>3. next' \in 0 .. BlockCount
    BY <1>2 DEF IInv, TypeOK
  <2>4. Memory'
    BY <1>2 DEF IInv, Memory
  <2> QED BY <1>8, <1>9, <2>2, <2>3, <2>4 DEF TypeOK
<1>11. Places'
  <2>1. reads \in Int /\ writes \in Int /\ reads + writes <= QD /\ Load(ring) = reads + writes
    BY CounterTypes
  <2>2. reads' = reads - 1 /\ writes' = writes + 1 /\ next' = next
    BY <1>2
  <2>3. reads' + writes' = reads + writes
    BY <2>1, <2>2
  <2>4. Load(ring') = reads' + writes' /\ reads' + writes' <= QD
    BY <1>8, <2>1, <2>3
  <2>5. \A c \in Requests(ring') : c < next'
    BY <1>8, <2>2 DEF IInv, Places
  <2>6. ASSUME NEW c \in Blocks, c >= next' PROVE data'[c].read
    <3>1. c \in Nat /\ b \in Nat /\ next \in Nat
      BY <1>4, BlockCountFacts, CounterTypes
    <3>2. c # b /\ c >= next
      BY <1>4, <2>2, <2>6, <3>1
    <3>3. data[c].read
      BY <3>2 DEF IInv, Places
    <3> QED BY <1>9, <3>2, <3>3
  <2> QED BY <1>8, <2>4, <2>5, <2>6 DEF Places, Load
<1>12. Lengths'
  <2>1. ASSUME NEW c \in Blocks PROVE data'[c].len > 0 /\ data'[c].base + data'[c].len = FirstLen(c)
    <3>1. CASE c = b
      BY <1>4, <1>9, <3>1, BlockFacts
    <3>2. CASE c # b
      BY <1>9, <3>2, DataType
    <3> QED BY <3>1, <3>2
  <2>2. ASSUME NEW c \in Elements(ring'.cq) PROVE c.res \in {Again, Error} \cup 1 .. data'[c.req].len
    <3>1. c \in Elements(ring.cq) /\ c.req # b
      BY <1>8
    <3>2. c.req \in Blocks
      BY <3>1, RequestsType DEF Requests, Completed
    <3> QED BY <1>9, <3>1, <3>2 DEF IInv, Lengths
  <2> QED BY <2>1, <2>2 DEF Lengths
<1>13. LeftExact'
  <2>1. Unread' = Unread \ UnitsOf(b)
    <3>1. ASSUME NEW u \in Unread' PROVE u \in Unread \ UnitsOf(b)
      <4>1. PICK c \in Blocks : data'[c].read /\ u \in UnitsOf(c) /\ u \in Units
        BY DEF Unread
      <4>2. c # b /\ data[c].read
        BY <1>9, <4>1
      <4> QED BY <1>4, <4>1, <4>2, UnitsDisjoint DEF Unread
    <3>2. ASSUME NEW u \in Unread \ UnitsOf(b) PROVE u \in Unread'
      <4>1. PICK c \in Blocks : data[c].read /\ u \in UnitsOf(c) /\ u \in Units
        BY DEF Unread
      <4>2. c # b
        BY <4>1, <3>2
      <4>3. data'[c].read
        BY <1>9, <4>1, <4>2
      <4> QED BY <4>1, <4>3 DEF Unread
    <3> QED BY <3>1, <3>2
  <2>2. UnitsOf(b) \subseteq Unread
    BY <1>2, <1>4, UnitsCovered DEF Unread
  <2>3. Cardinality(UnitsOf(b)) = FirstLen(b)
    <3>1. Offset(b) \in Nat /\ FirstLen(b) \in Nat /\ FirstLen(b) > 0
      BY <1>4, BlockFacts
    <3>2. Offset(b) \in Int /\ Offset(b) + FirstLen(b) - 1 \in Int
      BY <3>1
    <3>3. Cardinality(UnitsOf(b)) = IF Offset(b) > Offset(b) + FirstLen(b) - 1 THEN 0
                                    ELSE (Offset(b) + FirstLen(b) - 1) - Offset(b) + 1
      BY <3>2, FS_Interval DEF UnitsOf
    <3> QED BY <3>1, <3>3
  <2>4. Cardinality(Unread \ UnitsOf(b)) = Cardinality(Unread) - Cardinality(UnitsOf(b))
    <3>1. Unread \cap UnitsOf(b) = UnitsOf(b)
      BY <2>2
    <3> QED BY <3>1, UnreadFinite, FS_Difference
  <2> QED BY <1>2, <2>1, <2>3, <2>4 DEF IInv, LeftExact
<1>14. ASSUME odd' = {} PROVE Smooth'
  <2>1. ring' = Submit(r) /\ Smooth
    BY <1>3, <1>6, <1>14 DEF IInv
  <2>2. ring'.sq = << >> /\ ring'.flight = ring.flight \cup Prepared(r) /\ b \in ring'.flight
    BY <1>5, <1>7, <2>1
  <2>3. \A c \in Blocks : data'[c].base = 0
    BY <1>9, <2>1 DEF Smooth
  <2>4. ASSUME NEW c \in Elements(ring'.cq) PROVE c.res = data'[c.req].len
    <3>1. c \in Elements(ring.cq) /\ c.req # b
      BY <1>8
    <3>2. c.req \in Blocks
      BY <3>1, RequestsType DEF Requests, Completed
    <3> QED BY <1>9, <2>1, <3>1, <3>2 DEF Smooth
  <2>5. ASSUME NEW c \in Blocks, ~data'[c].read \/ c \in Completed(ring') PROVE InBuffer(c)'
    <3>1. c \in Completed(ring) \/ ~data[c].read
      BY <1>4, <1>8, <1>9, <2>5 DEF Completed
    <3>2. InBuffer(c)
      BY <2>1, <3>1 DEF Smooth
    <3> QED BY <1>2, <3>2 DEF InBuffer
  <2>6. ASSUME NEW c \in Blocks, ~data'[c].read PROVE c \in ring'.flight \/ InOutput(c)'
    <3>1. CASE c = b
      BY <2>2, <3>1
    <3>2. CASE c # b
      BY <1>2, <1>9, <2>1, <2>2, <2>6, <3>2 DEF Smooth, InOutput
    <3> QED BY <3>1, <3>2
  <2> QED BY <2>2, <2>3, <2>4, <2>5, <2>6 DEF Smooth
<1> QED BY <1>2, <1>10, <1>11, <1>12, <1>13, <1>14 DEF IInv

----------------------------------------------------------------------------
(* Steps of the kernel                                                     *)

\* A completion moves a block inside the ring and touches no counter.
LEMMA CompletedIInv ==
  ASSUME IInv, NEW b \in ring.flight, NEW res,
         res \in {Again, Error} \cup 1 .. data[b].len,
         ring' = Complete(ring, b, res),
         UNCHANGED <<pc, next, write_left, reads, writes, data>>
  PROVE  /\ TypeOK' /\ Places' /\ Lengths' /\ LeftExact' /\ Unread' = Unread
         /\ b \in Blocks /\ ring'.sq = ring.sq /\ ring'.flight = ring.flight \ {b}
         /\ Elements(ring'.cq) = Elements(ring.cq) \cup {[req |-> b, res |-> res]}
<1>1. ring \in Rings(Blocks) /\ OnePlace(ring) /\ Load(ring) = reads + writes
  BY CounterTypes
<1>2. b \in Blocks
  BY <1>1 DEF Rings
<1>3. data[b].len \in Nat /\ data \in [Blocks -> IoData]
  BY <1>2, DataType
<1>4. res \in Int
  BY <1>3 DEF Again, Error
<1>5. /\ Complete(ring, b, res) \in Rings(Blocks) /\ Complete(ring, b, res).sq = ring.sq
      /\ Complete(ring, b, res).flight = ring.flight \ {b}
      /\ Elements(Complete(ring, b, res).cq) = Elements(ring.cq) \cup {[req |-> b, res |-> res]}
      /\ Requests(Complete(ring, b, res)) = Requests(ring)
      /\ OnePlace(Complete(ring, b, res))
  BY <1>1, <1>4, CompleteFacts
<1>6. Load(Complete(ring, b, res)) = Load(ring)
  BY <1>1, <1>4, CompleteLoad, BlocksFinite
<1>7. /\ ring' \in Rings(Blocks) /\ OnePlace(ring') /\ Requests(ring') = Requests(ring)
      /\ ring'.sq = ring.sq /\ ring'.flight = ring.flight \ {b} /\ Load(ring') = Load(ring)
      /\ Elements(ring'.cq) = Elements(ring.cq) \cup {[req |-> b, res |-> res]}
  BY <1>5, <1>6
<1>8. TypeOK'
  BY <1>7 DEF IInv, TypeOK
<1>9. Places'
  BY <1>7 DEF IInv, Places, Load
<1>10. Lengths'
  <2>1. ASSUME NEW c \in Elements(ring'.cq) PROVE c.res \in {Again, Error} \cup 1 .. data[c.req].len
    <3>1. CASE c \in Elements(ring.cq)
      BY <3>1 DEF IInv, Lengths
    <3>2. CASE c = [req |-> b, res |-> res]
      BY <3>2
    <3> QED BY <1>7, <3>1, <3>2
  <2> QED BY <2>1 DEF IInv, Lengths
<1>11. LeftExact' /\ Unread' = Unread
  BY LeftKept DEF IInv
<1> QED BY <1>2, <1>7, <1>8, <1>9, <1>10, <1>11

\* A transfer writes inside the buffer or inside the output file.
LEMMA TransferMemory ==
  ASSUME IInv, NEW b \in Blocks, NEW n, Transfer(b, n)
  PROVE  Memory'
<1>1. Memory
  BY DEF IInv
<1>2. CASE data[b].read
  <2>1. PICK f : /\ buf' = [buf EXCEPT ![b] = f] /\ DOMAIN f = DOMAIN buf[b]
                 /\ out' = out
    BY <1>2, Zenon DEF Transfer
  <2> QED BY <1>1, <2>1 DEF Memory
<1>3. CASE ~data[b].read
  <2>1. buf' = buf /\ out' = [u \in Units |->
                      IF u >= Offset(b) /\ u < Offset(b) + n
                        THEN buf[b][u - Offset(b) + data[b].base] ELSE out[u]]
    BY <1>3, Zenon DEF Transfer
  <2> QED BY <1>1, <2>1 DEF Memory
<1> QED BY <1>2, <1>3

\* A whole read fills the buffer of its block and no other.
LEMMA WholeRead ==
  ASSUME IInv, NEW b \in Blocks, data[b].read, data[b].base = 0, Transfer(b, FirstLen(b))
  PROVE  /\ out' = out /\ InBuffer(b)'
         /\ \A c \in Blocks : c # b => buf'[c] = buf[c]
<1>1. /\ buf' = [buf EXCEPT ![b] = [i \in DOMAIN buf[b] |->
                   IF i >= 0 /\ i < 0 + FirstLen(b) THEN Offset(b) + i - 0 ELSE buf[b][i]]]
      /\ out' = out
  BY Zenon DEF Transfer
<1>2. buf = [c \in Blocks |-> buf[c]] /\ DOMAIN buf[b] = 0 .. FirstLen(b) - 1
  BY DEF IInv, Memory
<1>3. buf'[b] = [i \in DOMAIN buf[b] |->
                   IF i >= 0 /\ i < 0 + FirstLen(b) THEN Offset(b) + i - 0 ELSE buf[b][i]]
  BY <1>1, <1>2, Zenon
<1>4. \A c \in Blocks : c # b => buf'[c] = buf[c]
  BY <1>1, <1>2, Zenon
<1>5. ASSUME NEW i \in 0 .. FirstLen(b) - 1 PROVE buf'[b][i] = Offset(b) + i
  <2>1. Offset(b) \in Nat /\ FirstLen(b) \in Nat
    BY BlockFacts
  <2>2. i \in DOMAIN buf[b] /\ i >= 0 /\ i < 0 + FirstLen(b)
    BY <1>2, <2>1
  <2>3. buf'[b][i] = Offset(b) + i - 0
    BY <1>3, <2>2
  <2> QED BY <2>1, <2>3
<1> QED BY <1>1, <1>4, <1>5 DEF InBuffer

\* A whole write copies the buffer of its block to the output and leaves the
\* other blocks' output alone.
LEMMA WholeWrite ==
  ASSUME IInv, NEW b \in Blocks, ~data[b].read, data[b].base = 0, InBuffer(b),
         Transfer(b, FirstLen(b))
  PROVE  /\ buf' = buf /\ InOutput(b)'
         /\ \A c \in Blocks : c # b /\ InOutput(c) => InOutput(c)'
<1>1. /\ buf' = buf
      /\ out' = [u \in Units |-> IF u >= Offset(b) /\ u < Offset(b) + FirstLen(b)
                                   THEN buf[b][u - Offset(b) + 0] ELSE out[u]]
  BY Zenon DEF Transfer
<1>2. ASSUME NEW c \in Blocks, NEW i \in 0 .. FirstLen(c) - 1
      PROVE  /\ Offset(c) \in Nat /\ FirstLen(c) \in Nat /\ i \in Nat /\ i < FirstLen(c)
             /\ Offset(c) + i \in Nat
             /\ Offset(c) + i \in UnitsOf(c) /\ Offset(c) + i \in Units
  <2>1. Offset(c) \in Nat /\ FirstLen(c) \in Nat
    BY BlockFacts
  <2>2. i \in Nat /\ i < FirstLen(c)
    BY <2>1
  <2>3. Offset(c) + i \in UnitsOf(c)
    BY <2>1, <2>2 DEF UnitsOf
  <2> QED BY <2>1, <2>2, <2>3, UnitsCovered
<1>3. ASSUME NEW i \in 0 .. FirstLen(b) - 1 PROVE out'[Offset(b) + i] = Offset(b) + i
  <2>1. /\ Offset(b) + i \in Units /\ Offset(b) + i >= Offset(b)
        /\ Offset(b) + i < Offset(b) + FirstLen(b) /\ (Offset(b) + i) - Offset(b) + 0 = i
    BY <1>2
  <2>2. out'[Offset(b) + i] = buf[b][(Offset(b) + i) - Offset(b) + 0]
    BY <1>1, <2>1
  <2> QED BY <2>1, <2>2 DEF InBuffer
<1>4. ASSUME NEW c \in Blocks, c # b, InOutput(c), NEW i \in 0 .. FirstLen(c) - 1
      PROVE  out'[Offset(c) + i] = Offset(c) + i
  <2>1. Offset(c) + i \in Units /\ Offset(c) + i \in Nat /\ Offset(c) + i \notin UnitsOf(b)
    BY <1>2, <1>4, UnitsDisjoint
  <2>2. ~(Offset(c) + i >= Offset(b) /\ Offset(c) + i < Offset(b) + FirstLen(b))
    BY <2>1, BlockFacts DEF UnitsOf
  <2>3. out'[Offset(c) + i] = out[Offset(c) + i]
    BY <1>1, <2>1, <2>2
  <2> QED BY <1>4, <2>3 DEF InOutput
<1> QED BY <1>1, <1>3, <1>4 DEF InOutput

LEMMA KernelIInv ==
  ASSUME IInv, Kernel
  PROVE  IInv'
<1>1. UNCHANGED <<pc, next, write_left, reads, writes, data>>
  BY DEF Kernel
<1>2. ASSUME NEW b \in ring.flight, NEW n \in 1 .. data[b].len,
             Transfer(b, n), ring' = Complete(ring, b, n),
             odd' = IF n = data[b].len THEN odd ELSE odd \cup {"short"}
      PROVE  IInv'
  <2>1. n \in {Again, Error} \cup 1 .. data[b].len
    BY <1>2
  <2>2. /\ TypeOK' /\ Places' /\ Lengths' /\ LeftExact' /\ Unread' = Unread
        /\ b \in Blocks /\ ring'.sq = ring.sq /\ ring'.flight = ring.flight \ {b}
        /\ Elements(ring'.cq) = Elements(ring.cq) \cup {[req |-> b, res |-> n]}
    BY <1>1, <1>2, <2>1, CompletedIInv
  <2>3. Memory'
    BY <1>2, <2>2, TransferMemory
  <2>4. odd' = {} => odd = {} /\ n = data[b].len
    <3>1. odd \cup {"short"} # {}
      OBVIOUS
    <3> QED BY <1>2, <3>1
  <2>5. ASSUME odd' = {} PROVE Smooth'
    <3>1. Smooth
      BY <2>4, <2>5 DEF IInv
    <3>2. data[b].base = 0 /\ n = FirstLen(b)
      <4>1. data[b].base = 0
        BY <2>2, <3>1 DEF Smooth
      <4>2. data[b].base + data[b].len = FirstLen(b) /\ data[b].len \in Nat
        BY <2>2, DataType
      <4> QED BY <2>4, <2>5, <4>1, <4>2
    <3>3. Completed(ring') = Completed(ring) \cup {b}
      <4>1. [req |-> b, res |-> n].req = b
        OBVIOUS
      <4> QED BY <2>2, <4>1 DEF Completed
    <3>4. Transfer(b, FirstLen(b))
      BY <1>2, <3>2
    <3>5. /\ \A c \in Blocks : ~data[c].read \/ c \in Completed(ring') => InBuffer(c)'
          /\ \A c \in Blocks : ~data[c].read => c \in ring'.flight \/ InOutput(c)'
      <4>1. CASE data[b].read
        <5>1. /\ out' = out /\ InBuffer(b)'
              /\ \A c \in Blocks : c # b => buf'[c] = buf[c]
          BY <2>2, <3>2, <3>4, <4>1, WholeRead
        <5>2. \A c \in Blocks : c # b /\ InBuffer(c) => InBuffer(c)'
          BY <5>1 DEF InBuffer
        <5>3. \A c \in Blocks : InOutput(c) => InOutput(c)'
          BY <5>1 DEF InOutput
        <5> QED BY <2>2, <3>1, <3>3, <4>1, <5>1, <5>2, <5>3, Zenon DEF Smooth
      <4>2. CASE ~data[b].read
        <5>1. InBuffer(b)
          BY <2>2, <3>1, <4>2 DEF Smooth
        <5>2. /\ buf' = buf /\ InOutput(b)'
              /\ \A c \in Blocks : c # b /\ InOutput(c) => InOutput(c)'
          BY <2>2, <3>2, <3>4, <4>2, <5>1, WholeWrite
        <5>3. \A c \in Blocks : InBuffer(c) => InBuffer(c)'
          BY <5>2 DEF InBuffer
        <5> QED BY <2>2, <3>1, <3>3, <5>1, <5>2, <5>3, Zenon DEF Smooth
      <4> QED BY <4>1, <4>2
    <3>6. ASSUME NEW c \in Elements(ring'.cq) PROVE c.res = data[c.req].len
      <4>1. CASE c \in Elements(ring.cq)
        BY <3>1, <4>1 DEF Smooth
      <4>2. CASE c = [req |-> b, res |-> n]
        BY <2>4, <2>5, <4>2
      <4> QED BY <2>2, <4>1, <4>2
    <3>7. ring'.sq = << >> /\ \A c \in Blocks : data[c].base = 0
      BY <2>2, <3>1 DEF Smooth
    <3>8. data' = data
      BY <1>1
    <3> QED BY <3>5, <3>6, <3>7, <3>8 DEF Smooth
  <2>6. pc' = "returned 0" /\ odd' = {} => Unread' = {}
    BY <1>1, <2>2, <2>4 DEF IInv
  <2> QED BY <2>2, <2>3, <2>5, <2>6 DEF IInv
<1>3. ASSUME NEW b \in ring.flight, NEW e \in {Again, Error}, ring' = Complete(ring, b, e),
             odd' # {}, UNCHANGED <<buf, out>>
      PROVE  IInv'
  <2>1. TypeOK' /\ Places' /\ Lengths' /\ LeftExact'
    BY <1>1, <1>3, CompletedIInv
  <2>2. Memory'
    BY <1>3 DEF IInv, Memory
  <2> QED BY <1>3, <2>1, <2>2 DEF IInv
<1>4. \E b \in ring.flight :
        \/ \E n \in 1 .. data[b].len :
             /\ Transfer(b, n) /\ ring' = Complete(ring, b, n)
             /\ odd' = IF n = data[b].len THEN odd ELSE odd \cup {"short"}
        \/ \E e \in {Again, Error} :
             /\ ring' = Complete(ring, b, e)
             /\ odd' = odd \cup {IF e = Again THEN "again" ELSE "error"}
             /\ UNCHANGED <<buf, out>>
  BY Zenon DEF Kernel
<1>5. \A x : odd \cup {x} # {}
  OBVIOUS
<1> QED BY <1>2, <1>3, <1>4, <1>5, Zenon

----------------------------------------------------------------------------
(* The theorems                                                            *)

LEMMA NextIInv == IInv /\ [Next]_vars => IInv'
<1> SUFFICES ASSUME IInv, [Next]_vars PROVE IInv'
  OBVIOUS
<1>1. CASE QueueReads
  BY <1>1, QueueReadsIInv
<1>2. CASE ReturnZero \/ PeekFindsNone \/ CqeFailed \/ Stopped \/ UNCHANGED vars
  <2>1. ReturnZero \/ PeekFindsNone \/ CqeFailed \/ UNCHANGED vars
    BY <1>2 DEF Stopped
  <2> QED BY <2>1, MovesIInv
<1>3. CASE TryAgain
  BY <1>3, TryAgainIInv
<1>4. CASE ShortTransfer
  BY <1>4, ShortTransferIInv
<1>5. CASE ReadDone
  BY <1>5, ReadDoneIInv
<1>6. CASE WriteDone
  BY <1>6, WriteDoneIInv
<1>7. CASE Kernel
  BY <1>7, KernelIInv
<1>8. CASE WaitFails
  BY <1>8, WaitFailsIInv
<1> QED BY <1>1, <1>2, <1>3, <1>4, <1>5, <1>6, <1>7, <1>8 DEF Next, Thread

\* Whatever the kernel answers, each block that is under way is in the ring
\* once and is counted, and write_left is what was not read yet.
THEOREM CopyInductive == Spec => []IInv
<1>1. Init => IInv
  BY InitIInv
<1>2. IInv /\ [Next]_vars => IInv'
  BY NextIInv
<1> QED BY <1>1, <1>2, PTL DEF Spec

\* assert(sqe) never fails in queue_prepped, for any size of the ring.
THEOREM SqeAlwaysAvailable == Spec => []SqeAvailable
<1>1. IInv => SqeAvailable
  <2> SUFFICES ASSUME IInv PROVE SqeAvailable
    OBVIOUS
  <2>1. AtCqe => HasSqe(ring, QD)
    BY CounterTypes DEF AtCqe, HasSqe
  <2> QED BY <2>1 DEF IInv, Places, SqeAvailable
<1> QED BY <1>1, CopyInductive, PTL

\* No transfer leaves the buffer of its block, whatever came short before.
THEOREM TransfersStayInBuffer == Spec => []TransferInBuffer
<1>1. IInv => TransferInBuffer
  <2> SUFFICES ASSUME IInv, NEW b \in ring.flight
               PROVE  data[b].len > 0 /\ data[b].base + data[b].len <= FirstLen(b)
    BY DEF TransferInBuffer
  <2>1. b \in Blocks
    BY RequestsType DEF Requests
  <2>2. FirstLen(b) \in Nat
    BY <2>1, BlockFacts
  <2>3. data[b].len > 0 /\ data[b].base + data[b].len = FirstLen(b)
    BY <2>1, DataType
  <2> QED BY <2>2, <2>3
<1> QED BY <1>1, CopyInductive, PTL

\* A copy_file that met no short transfer and no error and returns 0 has copied
\* every block, or its write is in flight.
THEOREM CopyAlwaysExact == Spec => []CopyExact
<1>1. IInv => CopyExact
  <2> SUFFICES ASSUME IInv, pc = "returned 0", odd = {}, NEW b \in Blocks PROVE Copied(b)
    BY DEF CopyExact
  <2>1. Unread = {} /\ Smooth
    BY DEF IInv
  <2>2. ~data[b].read
    <3>1. Offset(b) \in UnitsOf(b)
      BY FirstUnit
    <3> QED BY <2>1, <3>1, UnitsCovered DEF Unread
  <2>3. InBuffer(b) /\ (b \in ring.flight \/ InOutput(b))
    BY <2>1, <2>2 DEF Smooth
  <2> QED BY <2>2, <2>3 DEF Copied, InBuffer, InOutput
<1> QED BY <1>1, CopyInductive, PTL
=============================================================================
