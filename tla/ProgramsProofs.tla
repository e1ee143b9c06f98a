--------------------------- MODULE ProgramsProofs ---------------------------
(***************************************************************************)
(* Proofs about the executor and about the programs that stand alone: the  *)
(* buffer cache, the coroutines, the sockets, the object pool, the read    *)
(* benchmark, the timers, the B-tree's leaf page.  Each part is about the  *)
(* specification of one module; they share lemmas about sequences, least   *)
(* elements and sums over finite sets, and nothing else.                   *)
(***************************************************************************)
EXTENDS Executor, ObjectPool, BufferCache, CoroutineDemo, SocketServer, PerfCollector,
        ReadBenchmark, BTreeNode, IoUringProofs, FiniteSetTheorems, SequenceTheorems,
        WellFoundedInduction, TLAPS

----------------------------------------------------------------------------
(* BufferCache                                                             *)

CacheTypeOK ==
  /\ _pages \in Nat /\ peak \in Nat
  /\ page \in [User -> Nat \cup {NoPage}] /\ _freeList \in Seq(Nat)
  /\ _next_free_page \in Nat /\ (peak < UIntRange => _next_free_page = peak)
  /\ array # NoPage => array = (_pages * PageBytes) % UIntRange
  /\ array = NoPage => Held = {}

\* Pages are made only when all that were made are held, so as many were made
\* as were held at once.
PagesCounted == peak = Cardinality(Held) + Len(_freeList)

\* Each page that was made is held by one user or is once in the list.
PagesApart ==
  /\ \A u \in Held : page[u] < peak
  /\ \A i \in DOMAIN _freeList : _freeList[i] < peak
  /\ \A u, v \in Held : page[u] = page[v] => u = v
  /\ \A i, j \in DOMAIN _freeList : _freeList[i] = _freeList[j] => i = j
  /\ \A u \in Held : \A i \in DOMAIN _freeList : _freeList[i] # page[u]

CacheInv == CacheTypeOK /\ PagesCounted /\ (peak <= UIntRange => PagesApart)

LEMMA InitCache == CacheInit => CacheInv
<1> SUFFICES ASSUME CacheInit PROVE CacheInv
  OBVIOUS
<1>1. Held = {} /\ _freeList = << >> /\ peak = 0
  BY DEF CacheInit, Held
<1>2. CacheTypeOK
  BY <1>1 DEF CacheInit, CacheTypeOK
<1>3. PagesCounted
  BY <1>1, FS_EmptySet DEF PagesCounted
<1>4. PagesApart
  BY <1>1 DEF PagesApart
<1> QED BY <1>2, <1>3, <1>4 DEF CacheInv

\* A product that does not overflow is its value.
LEMMA SmallMod == ASSUME NEW n \in Nat, NEW m \in Nat, n < m PROVE n % m = n
  OBVIOUS

LEMMA DistinctProducts ==
  ASSUME NEW a \in Nat, NEW b \in Nat, NEW c \in Nat \ {0}, a # b
  PROVE  a * c # b * c
<1>1. ASSUME NEW x \in Nat, NEW y \in Nat, x + 1 <= y PROVE x * c < y * c
  <2>1. (x + 1) * c <= y * c /\ (x + 1) * c = x * c + c /\ x * c \in Nat /\ y * c \in Nat
    BY <1>1
  <2> QED BY <2>1
<1>2. CASE a + 1 <= b
  BY <1>1, <1>2
<1>3. CASE b + 1 <= a
  BY <1>1, <1>3
<1> QED BY <1>2, <1>3

\* Finitely many users hold a page.
LEMMA HeldFinite == CacheTypeOK => IsFiniteSet(Held) /\ Cardinality(Held) \in Nat
<1> SUFFICES ASSUME CacheTypeOK PROVE IsFiniteSet(Held) /\ Cardinality(Held) \in Nat
  OBVIOUS
<1>1. Held \subseteq User /\ IsFiniteSet(User)
  BY CacheAssumption DEF Held
<1>2. IsFiniteSet(Held)
  BY <1>1, FS_Subset
<1> QED BY <1>2, FS_CardinalityType

LEMMA ConstructStep == CacheInv /\ Construct => CacheInv'
<1> SUFFICES ASSUME CacheInv, Construct PROVE CacheInv'
  OBVIOUS
<1> USE CacheAssumption
<1>1. CacheTypeOK /\ Held = {}
  BY DEF CacheInv, CacheTypeOK, Construct
<1>2. Held' = Held
  BY DEF Construct, Held
<1>3. CacheTypeOK'
  <2>1. PICK n \in PageCounts : _pages' = n /\ array' = (n * PageBytes) % UIntRange
    BY DEF Construct
  <2>2. n \in Nat
    BY <2>1
  <2> QED BY <1>1, <1>2, <2>1, <2>2 DEF CacheTypeOK, Construct
<1>4. PagesCounted'
  BY <1>2 DEF CacheInv, PagesCounted, Construct
<1>5. ASSUME (peak <= UIntRange)' PROVE PagesApart'
  BY <1>2, <1>5 DEF CacheInv, PagesApart, Construct
<1> QED BY <1>3, <1>4, <1>5 DEF CacheInv

LEMMA FreeStep == ASSUME NEW u \in User, CacheInv, free(u) PROVE CacheInv'
<1> USE CacheAssumption
<1>1. CacheTypeOK /\ IsFiniteSet(Held) /\ Cardinality(Held) \in Nat
  BY HeldFinite DEF CacheInv
<1>2. u \in Held /\ page[u] \in Nat
  BY <1>1 DEF free, CacheTypeOK, Held
<1>3. page' = [page EXCEPT ![u] = NoPage]
  BY DEF free
<1>4. Held' = Held \ {u}
  BY <1>1, <1>3 DEF Held, CacheTypeOK
<1>5. /\ Len(_freeList) \in Nat /\ Len(_freeList') = Len(_freeList) + 1
      /\ _freeList' \in Seq(Nat) /\ DOMAIN _freeList = 1 .. Len(_freeList)
      /\ DOMAIN _freeList' = 1 .. Len(_freeList')
      /\ _freeList'[Len(_freeList) + 1] = page[u]
      /\ \A i \in 1 .. Len(_freeList) : _freeList'[i] = _freeList[i]
  BY <1>1, <1>2 DEF CacheTypeOK, free
<1>6. Cardinality(Held') = Cardinality(Held) - 1
  BY <1>1, <1>2, <1>4, FS_RemoveElement
<1>7. CacheTypeOK'
  <2>1. page' \in [User -> Nat \cup {NoPage}]
    BY <1>1, <1>3 DEF CacheTypeOK
  <2>2. array' = array /\ array # NoPage
    BY <1>1, <1>2 DEF CacheTypeOK, free
  <2> QED BY <1>1, <1>5, <2>1, <2>2 DEF CacheTypeOK, free
<1>8. PagesCounted'
  <2>1. peak' = peak /\ peak = Cardinality(Held) + Len(_freeList)
    BY DEF CacheInv, PagesCounted, free
  <2> QED BY <1>1, <1>5, <1>6, <2>1 DEF PagesCounted
<1>9. ASSUME (peak <= UIntRange)' PROVE PagesApart'
  <2>1. PagesApart /\ peak' = peak
    BY <1>9 DEF CacheInv, free
  <2>2. \A v \in Held' : v \in Held /\ page'[v] = page[v] /\ v # u
    BY <1>1, <1>3, <1>4 DEF CacheTypeOK, Held
  <2>3. \A i \in DOMAIN _freeList' :
          \/ i \in DOMAIN _freeList /\ _freeList'[i] = _freeList[i]
          \/ i = Len(_freeList) + 1 /\ _freeList'[i] = page[u]
    BY <1>5
  <2>4. \A v \in Held' : page'[v] < peak'
    BY <2>1, <2>2 DEF PagesApart
  <2>5. \A i \in DOMAIN _freeList' : _freeList'[i] < peak'
    BY <1>2, <2>1, <2>3 DEF PagesApart
  <2>6. \A v, w \in Held' : page'[v] = page'[w] => v = w
    BY <2>1, <2>2 DEF PagesApart
  <2>7. \A i, j \in DOMAIN _freeList' : _freeList'[i] = _freeList'[j] => i = j
    BY <1>2, <2>1, <2>3 DEF PagesApart
  <2>8. \A v \in Held' : \A i \in DOMAIN _freeList' : _freeList'[i] # page'[v]
    BY <1>2, <2>1, <2>2, <2>3 DEF PagesApart
  <2> QED BY <2>4, <2>5, <2>6, <2>7, <2>8 DEF PagesApart
<1> QED BY <1>7, <1>8, <1>9 DEF CacheInv

\* The page u takes is the last of the list, or the next one of the array if the
\* list is empty.
LEMMA InitPageStep == ASSUME NEW u \in User, CacheInv, initNextFreePage(u) PROVE CacheInv'
<1> USE CacheAssumption
<1>1. CacheTypeOK /\ IsFiniteSet(Held) /\ Cardinality(Held) \in Nat
  BY HeldFinite DEF CacheInv
<1>2. u \notin Held
  BY DEF initNextFreePage, Held
<1>3. DOMAIN _freeList = 1 .. Len(_freeList) /\ Len(_freeList) \in Nat
  BY <1>1 DEF CacheTypeOK
<1>4. PICK taken : page' = [page EXCEPT ![u] = taken]
                /\ taken = IF Reuses THEN _freeList[Len(_freeList)] ELSE _next_free_page
  BY DEF initNextFreePage
<1>5. taken \in Nat
  BY <1>1, <1>4 DEF CacheTypeOK, Reuses
<1>6. Held' = Held \cup {u}
  BY <1>1, <1>4, <1>5 DEF Held, CacheTypeOK
<1>7. Cardinality(Held') = Cardinality(Held) + 1
  BY <1>1, <1>2, <1>6, FS_AddElement
<1>8. peak = Cardinality(Held) + Len(_freeList) /\ peak \in Nat
  BY <1>1 DEF CacheInv, CacheTypeOK, PagesCounted
<1>9. page' \in [User -> Nat \cup {NoPage}] /\ array' = array /\ array # NoPage /\ _pages' = _pages
  BY <1>1, <1>4, <1>5 DEF CacheTypeOK, initNextFreePage
<1>10. /\ page'[u] = taken
       /\ \A v \in Held : v \in User /\ page'[v] = page[v] /\ page[v] \in Nat
  BY <1>1, <1>2, <1>4 DEF CacheTypeOK, Held
<1>11. CASE Reuses
  <2>1. Len(_freeList) > 0
    BY <1>11 DEF Reuses
  <2>2. peak' = peak
    BY <1>1, <1>3, <1>8, <2>1 DEF initNextFreePage, Higher
  <2>3. _freeList' = SubSeq(_freeList, 1, Len(_freeList) - 1) /\ _next_free_page' = _next_free_page
    BY <1>11 DEF initNextFreePage
  <2>4. /\ _freeList' \in Seq(Nat) /\ Len(_freeList') = Len(_freeList) - 1
        /\ DOMAIN _freeList' = 1 .. Len(_freeList) - 1
        /\ \A i \in 1 .. Len(_freeList) - 1 : _freeList'[i] = _freeList[i]
    BY <1>1, <1>3, <2>1, <2>3 DEF CacheTypeOK
  <2>5. CacheTypeOK'
    BY <1>1, <1>9, <2>2, <2>3, <2>4 DEF CacheTypeOK
  <2>6. PagesCounted'
    BY <1>1, <1>3, <1>7, <1>8, <2>2, <2>4 DEF PagesCounted
  <2>7. ASSUME (peak <= UIntRange)' PROVE PagesApart'
    <3>1. PagesApart
      BY <2>2, <2>7 DEF CacheInv
    <3>2. taken = _freeList[Len(_freeList)] /\ Len(_freeList) \in DOMAIN _freeList
      BY <1>3, <1>4, <1>11, <2>1
    <3>3. \A i \in DOMAIN _freeList' :
            i \in DOMAIN _freeList /\ i # Len(_freeList) /\ _freeList'[i] = _freeList[i]
      <4>1. PICK n \in Nat : n = Len(_freeList) /\ DOMAIN _freeList = 1 .. n
        BY <1>3
      <4>2. DOMAIN _freeList' = 1 .. n - 1 /\ \A i \in 1 .. n - 1 : _freeList'[i] = _freeList[i]
        BY <2>4, <4>1
      <4>3. \A i \in 1 .. n - 1 : i \in 1 .. n /\ i # n
        BY <4>1
      <4> QED BY <4>1, <4>2, <4>3
    <3>4. /\ taken < peak
          /\ \A v \in Held : page[v] # taken
          /\ \A i \in DOMAIN _freeList' : _freeList'[i] # taken
      BY <3>1, <3>2, <3>3 DEF PagesApart
    <3>5. \A v \in Held' : page'[v] < peak'
      BY <1>6, <1>10, <2>2, <3>1, <3>4 DEF PagesApart
    <3>6. \A i \in DOMAIN _freeList' : _freeList'[i] < peak'
      BY <2>2, <3>1, <3>3 DEF PagesApart
    <3>7. \A v, w \in Held' : page'[v] = page'[w] => v = w
      BY <1>6, <1>10, <3>1, <3>4 DEF PagesApart
    <3>8. \A i, j \in DOMAIN _freeList' : _freeList'[i] = _freeList'[j] => i = j
      BY <3>1, <3>3 DEF PagesApart
    <3>9. \A v \in Held' : \A i \in DOMAIN _freeList' : _freeList'[i] # page'[v]
      BY <1>6, <1>10, <3>1, <3>3, <3>4 DEF PagesApart
    <3> QED BY <3>5, <3>6, <3>7, <3>8, <3>9 DEF PagesApart
  <2> QED BY <2>5, <2>6, <2>7 DEF CacheInv
<1>12. CASE ~Reuses
  <2>1. Len(_freeList) = 0
    BY <1>3, <1>12 DEF Reuses
  <2>2. peak' = peak + 1
    BY <1>1, <1>8, <2>1 DEF initNextFreePage, Higher
  <2>3. _freeList' = _freeList /\ _next_free_page' = (_next_free_page + 1) % UIntRange
    BY <1>12 DEF initNextFreePage
  <2>4. CacheTypeOK'
    <3>1. _next_free_page' \in Nat
      BY <1>1, <2>3 DEF CacheTypeOK
    <3>2. ASSUME peak' < UIntRange PROVE _next_free_page' = peak'
      <4>1. _next_free_page = peak /\ peak + 1 \in Nat /\ peak + 1 < UIntRange
        BY <1>1, <2>2, <3>2 DEF CacheTypeOK
      <4>2. (peak + 1) % UIntRange = peak + 1
        BY <4>1, SmallMod
      <4> QED BY <2>2, <2>3, <4>1, <4>2
    <3> QED BY <1>1, <1>9, <2>2, <2>3, <3>1, <3>2 DEF CacheTypeOK
  <2>5. PagesCounted'
    BY <1>1, <1>7, <1>8, <2>1, <2>2, <2>3 DEF PagesCounted
  <2>6. ASSUME (peak <= UIntRange)' PROVE PagesApart'
    <3>1. peak < UIntRange /\ taken = _next_free_page
      BY <1>4, <1>8, <1>12, <2>2, <2>6
    <3>2. PagesApart /\ taken = peak
      BY <1>1, <1>8, <3>1 DEF CacheInv, CacheTypeOK
    <3>3. DOMAIN _freeList' = {}
      BY <1>3, <2>1, <2>3
    <3>4. \A v \in Held' : page'[v] < peak'
      BY <1>6, <1>8, <1>10, <2>2, <3>2 DEF PagesApart
    <3>5. \A v, w \in Held' : page'[v] = page'[w] => v = w
      BY <1>6, <1>8, <1>10, <3>2 DEF PagesApart
    <3> QED BY <3>3, <3>4, <3>5 DEF PagesApart
  <2> QED BY <2>4, <2>5, <2>6 DEF CacheInv
<1> QED BY <1>11, <1>12

LEMMA CacheStep == CacheInv /\ [CacheNext]_cacheVars => CacheInv'
<1> SUFFICES ASSUME CacheInv, [CacheNext]_cacheVars PROVE CacheInv'
  OBVIOUS
<1>1. CASE UNCHANGED cacheVars
  <2>1. Held' = Held
    BY <1>1 DEF cacheVars, Held
  <2> QED BY <1>1, <2>1 DEF cacheVars, CacheInv, CacheTypeOK, PagesCounted, PagesApart
<1>2. CASE CacheNext
  BY <1>2, ConstructStep, FreeStep, InitPageStep DEF CacheNext
<1> QED BY <1>1, <1>2

\* Pages below _pages are pieces of the array, apart from each other.
LEMMA PagesInArray == CacheInv => PagesSafe
<1> SUFFICES ASSUME CacheInv PROVE PagesSafe
  OBVIOUS
<1> USE CacheAssumption
<1>1. ASSUME peak <= UIntRange
      PROVE  /\ \A u, v \in Held : u # v => page[u] # page[v]
             /\ \A u \in Held : \A i \in DOMAIN _freeList : _freeList[i] # page[u]
  BY <1>1 DEF CacheInv, PagesApart
<1>2. ASSUME peak <= _pages, _pages * PageBytes < UIntRange
      PROVE  /\ \A u \in Held : Address(page[u]) + PageBytes <= array
             /\ \A u, v \in Held : u # v => Address(page[u]) # Address(page[v])
  <2>1. _pages \in Nat /\ peak \in Nat /\ _pages * PageBytes \in Nat
    BY DEF CacheInv, CacheTypeOK
  <2>2. _pages <= _pages * PageBytes
    BY <2>1
  <2>3. peak <= UIntRange
    BY <1>2, <2>1, <2>2
  <2>4. PagesApart
    BY <2>3 DEF CacheInv
  <2>5. ASSUME NEW u \in Held
        PROVE  /\ page[u] \in Nat
               /\ Address(page[u]) = page[u] * PageBytes
               /\ Address(page[u]) + PageBytes <= array
    <3>1. page[u] \in Nat /\ array = (_pages * PageBytes) % UIntRange
      BY DEF CacheInv, CacheTypeOK, Held
    <3>2. array = _pages * PageBytes
      BY <1>2, <2>1, <3>1, SmallMod
    <3>3. page[u] + 1 <= _pages
      BY <1>2, <2>1, <2>4, <3>1 DEF PagesApart
    <3>4. (page[u] + 1) * PageBytes <= _pages * PageBytes
      BY <2>1, <3>1, <3>3
    <3>5. page[u] * PageBytes + PageBytes <= _pages * PageBytes /\ page[u] * PageBytes \in Nat
      BY <2>1, <3>1, <3>4
    <3>6. page[u] * PageBytes < UIntRange
      BY <1>2, <2>1, <3>5
    <3>7. Address(page[u]) = page[u] * PageBytes
      BY <3>5, <3>6, SmallMod DEF Address
    <3> QED BY <3>1, <3>2, <3>5, <3>7
  <2>6. ASSUME NEW u \in Held, NEW v \in Held, u # v PROVE Address(page[u]) # Address(page[v])
    <3>1. page[u] # page[v] /\ page[u] \in Nat /\ page[v] \in Nat
      BY <2>4, <2>5, <2>6 DEF PagesApart
    <3>2. page[u] * PageBytes # page[v] * PageBytes
      BY <3>1, DistinctProducts
    <3> QED BY <2>5, <3>2
  <2> QED BY <2>5, <2>6
<1> QED BY <1>1, <1>2 DEF PagesSafe

\* The pages of the buffer cache are exactly those held and those in the list,
\* whatever is taken and freed in whatever order.
THEOREM CacheInductive == CacheSpec => []CacheInv
  BY InitCache, CacheStep, PTL DEF CacheSpec

\* No page has two users, and the pages are inside the array, however many users
\* and pages there are and whatever the size of a page.
THEOREM PagesAlwaysSafe == CacheSpec => []PagesSafe
  BY CacheInductive, PagesInArray, PTL

----------------------------------------------------------------------------
(* CoroutineDemo                                                           *)

ChainType ==
  /\ last \in Nat
  /\ main \in [at : {"call", "await", "sleeping", "ended"}, in : Int]
  /\ resumer \in [at : {"none", "sleeping", "resume", "final", "unwind", "done"}, of : Int]
  /\ frame \in [Frames -> {"none", "running", "suspended", "final", "destroyed"}]
  /\ prev_ \in [Frames -> Int] /\ ending \in Seq(Int)
  /\ early \in BOOLEAN /\ dangling \in BOOLEAN

\* The main thread is above the coroutine the detached thread resumes.
MainAbove ==
  /\ main.at = "call" => main.in \in Frames /\ resumer.at = "none"
  /\ main.at # "call" => /\ main.in \in -1 .. last - 1
                         /\ resumer.of \in Frames /\ main.in < resumer.of
                         /\ resumer.at # "none"
  /\ main.at \in {"sleeping", "ended"} => main.in = -1

\* The coroutines in final_suspend are the last ones, without a gap.
EndingLast ==
  /\ \A i \in DOMAIN ending : ending[i] = last + 1 - i
  /\ resumer.at \in {"none", "sleeping", "done"} => Len(ending) = 0
  /\ resumer.at = "sleeping" => resumer.of = last
  /\ resumer.at = "resume" => Len(ending) = last - resumer.of
  /\ resumer.at = "final" => Len(ending) = last - resumer.of + 1
  /\ resumer.at = "unwind" => Len(ending) \in 1 .. last - resumer.of + 1

\* A callee knows its caller once the main thread has left the caller, unless
\* the callee was gone by then.
Links ==
  /\ \A k \in Frames : prev_[k] \in {k - 1, NoPromise}
  /\ \A k \in Frames : main.at = "call" \/ k - 1 <= main.in => prev_[k] = NoPromise
  /\ main.at # "call" /\ ~dangling => \A k \in Frames : main.in + 1 < k => prev_[k] = k - 1

\* the first coroutine the detached thread has run
Lowest ==
  IF resumer.at = "none" THEN last + 1
  ELSE IF resumer.at \in {"sleeping", "resume"} THEN resumer.of + 1 ELSE resumer.of

\* a coroutine only the main thread has run
AsMainLeft(k) ==
  IF main.at = "call"
    THEN IF k < main.in THEN "running" ELSE "none"
    ELSE IF k <= main.in THEN "running" ELSE "suspended"

FramesAt ==
  \A k \in Frames :
    /\ k < Lowest => frame[k] = AsMainLeft(k)
    /\ k > last - Len(ending) => frame[k] = "final"
    /\ Lowest <= k /\ k <= last - Len(ending) => frame[k] = "destroyed"

\* What goes wrong goes wrong because the detached thread woke early.
EarlyOnly ==
  /\ dangling => early
  /\ resumer.at \in {"none", "sleeping"} => ~dangling
  /\ resumer.at \in {"resume", "final", "unwind", "done"} /\ ~early =>
       main.at \in {"sleeping", "ended"}
  /\ resumer.at \in {"unwind", "done"} /\ ~early => resumer.of = 0

ChainInv == ChainType /\ MainAbove /\ EndingLast /\ Links /\ FramesAt /\ EarlyOnly

CoInv == IF main.at = "start" THEN CoInit ELSE ChainInv

LEMMA AppendFacts ==
  ASSUME NEW S, NEW q \in Seq(S), NEW e \in S
  PROVE  /\ Append(q, e) \in Seq(S) /\ Len(q) \in Nat /\ Len(Append(q, e)) = Len(q) + 1
         /\ DOMAIN q = 1 .. Len(q) /\ DOMAIN Append(q, e) = 1 .. Len(q) + 1
         /\ Append(q, e)[Len(q) + 1] = e
         /\ \A i \in 1 .. Len(q) : Append(q, e)[i] = q[i]
  OBVIOUS

LEMMA WithoutLast ==
  ASSUME NEW S, NEW q \in Seq(S), Len(q) >= 1
  PROVE  /\ SubSeq(q, 1, Len(q) - 1) \in Seq(S) /\ Len(SubSeq(q, 1, Len(q) - 1)) = Len(q) - 1
         /\ DOMAIN SubSeq(q, 1, Len(q) - 1) = 1 .. Len(q) - 1 /\ DOMAIN q = 1 .. Len(q)
         /\ \A i \in 1 .. Len(q) - 1 : SubSeq(q, 1, Len(q) - 1)[i] = q[i]
<1>1. Len(q) \in Nat /\ Len(q) - 1 \in Nat /\ DOMAIN q = 1 .. Len(q)
  OBVIOUS
<1>2. \A i \in 1 .. Len(q) - 1 : q[i] \in S
  BY <1>1
<1> QED BY <1>1, <1>2, SubSeqProperties

LEMMA StartChain == CoInit /\ CoStart => ChainInv'
<1> SUFFICES ASSUME CoInit, CoStart PROVE ChainInv'
  OBVIOUS
<1> USE CoAssumption DEF Frames, NoPromise
<1>1. PICK n \in LastFrames : last' = n /\ frame' = [k \in 0 .. n |-> "none"]
                           /\ prev_' = [k \in 0 .. n |-> NoPromise]
  BY DEF CoStart
<1>2. n \in Nat
  BY <1>1
<1>3. main' = [at |-> "call", in |-> 0] /\ resumer' = [at |-> "none", of |-> NoPromise]
      /\ ending' = << >> /\ early' = FALSE /\ dangling' = FALSE
  BY DEF CoInit, CoStart
<1>4. ChainType'
  <2>1. main' \in [at : {"call", "await", "sleeping", "ended"}, in : Int]
    BY <1>3
  <2>2. resumer' \in [at : {"none", "sleeping", "resume", "final", "unwind", "done"}, of : Int]
    BY <1>3
  <2>3. frame' \in [0 .. n -> {"none", "running", "suspended", "final", "destroyed"}]
    BY <1>1
  <2>4. prev_' \in [0 .. n -> Int] /\ ending' \in Seq(Int)
    BY <1>1, <1>3
  <2> QED BY <1>1, <1>2, <1>3, <2>1, <2>2, <2>3, <2>4 DEF ChainType
<1>5. MainAbove' /\ EndingLast' /\ Links' /\ EarlyOnly'
  BY <1>1, <1>2, <1>3 DEF MainAbove, EndingLast, Links, EarlyOnly
<1>6. FramesAt'
  BY <1>1, <1>2, <1>3 DEF FramesAt, Lowest, AsMainLeft
<1> QED BY <1>4, <1>5, <1>6 DEF ChainInv

LEMMA CallChain == ChainInv /\ Call => ChainInv'
<1> SUFFICES ASSUME ChainInv, Call PROVE ChainInv'
  OBVIOUS
<1> USE DEF ChainInv, Frames, NoPromise
<1>1. UNCHANGED <<last, prev_, resumer, ending, early, dangling>> /\ main.at = "call" /\ main.in < last
  BY DEF Call
<1>2. main' = [main EXCEPT !.in = main.in + 1] /\ frame' = [frame EXCEPT ![main.in] = "running"]
  BY DEF Call
<1>3. main'.at = "call" /\ main'.in = main.in + 1 /\ main.in \in Frames
  BY <1>1, <1>2 DEF ChainType, MainAbove
<1>4. ChainType'
  <2>1. PICK k \in Int : k = main.in
    BY DEF ChainType
  <2>2. main' \in [at : {"call", "await", "sleeping", "ended"}, in : Int]
    <3>1. main \in [at : {"call", "await", "sleeping", "ended"}, in : Int] /\ k + 1 \in Int
      BY <2>1 DEF ChainType
    <3>2. main' = [main EXCEPT !.in = k + 1]
      BY <1>2, <2>1
    <3> QED BY <3>1, <3>2
  <2>3. frame' \in [Frames -> {"none", "running", "suspended", "final", "destroyed"}]
    BY <1>2, <1>3 DEF ChainType
  <2> QED BY <1>1, <2>2, <2>3 DEF ChainType
<1>5. MainAbove'
  BY <1>1, <1>2, <1>3 DEF ChainType, MainAbove
<1>6. EndingLast'
  BY <1>1, <1>2, <1>3 DEF ChainType, EndingLast, MainAbove
<1>7. Links'
  BY <1>1, <1>2, <1>3 DEF ChainType, Links, MainAbove
<1>8. FramesAt'
  BY <1>1, <1>2, <1>3 DEF ChainType, FramesAt, Lowest, AsMainLeft, MainAbove, EndingLast
<1>9. EarlyOnly'
  BY <1>1, <1>2, <1>3 DEF ChainType, EarlyOnly, MainAbove
<1> QED BY <1>4, <1>5, <1>6, <1>7, <1>8, <1>9

LEMMA AwaitThreadChain == ChainInv /\ AwaitThread => ChainInv'
<1> SUFFICES ASSUME ChainInv, AwaitThread PROVE ChainInv'
  OBVIOUS
<1> USE DEF ChainInv, Frames, NoPromise
<1>1. UNCHANGED <<last, prev_, ending, early, dangling>> /\ main.at = "call" /\ main.in = last
  BY DEF AwaitThread
<1>2. main' = [at |-> "await", in |-> last - 1] /\ frame' = [frame EXCEPT ![last] = "suspended"]
  BY DEF AwaitThread
<1>3. resumer' = [at |-> "sleeping", of |-> last] /\ resumer.at = "none"
  BY <1>1 DEF AwaitThread, MainAbove
<1>4. ChainType'
  BY <1>1, <1>2, <1>3 DEF ChainType
<1>5. MainAbove'
  BY <1>1, <1>2, <1>3 DEF ChainType, MainAbove
<1>6. EndingLast'
  BY <1>1, <1>2, <1>3 DEF ChainType, EndingLast, MainAbove
<1>7. Links'
  BY <1>1, <1>2, <1>3 DEF ChainType, Links, MainAbove
<1>8. FramesAt'
  BY <1>1, <1>2, <1>3 DEF ChainType, FramesAt, Lowest, AsMainLeft, MainAbove, EndingLast
<1>9. EarlyOnly'
  BY <1>1, <1>2, <1>3 DEF ChainType, EarlyOnly, MainAbove
<1> QED BY <1>4, <1>5, <1>6, <1>7, <1>8, <1>9

LEMMA AwaitCalleeChain == ChainInv /\ AwaitCallee => ChainInv'
<1> SUFFICES ASSUME ChainInv, AwaitCallee PROVE ChainInv'
  OBVIOUS
<1> USE DEF ChainInv, Frames, NoPromise
<1>1. UNCHANGED <<last, resumer, ending, early>> /\ main.at = "await" /\ main.in >= 0
  BY DEF AwaitCallee
<1>2. PICK k \in Int : k = main.in
  BY DEF ChainType
<1>3. main' = [main EXCEPT !.in = k - 1] /\ frame' = [frame EXCEPT ![k] = "suspended"]
  BY <1>2 DEF AwaitCallee
<1>4. main'.at = "await" /\ main'.in = k - 1 /\ k \in Frames /\ k + 1 \in Frames
  BY <1>1, <1>3, <1>2 DEF ChainType, MainAbove
<1>5. \/ frame[k + 1] = "destroyed" /\ dangling' = TRUE /\ prev_' = prev_
      \/ dangling' = dangling /\ prev_' = [prev_ EXCEPT ![k + 1] = k]
  BY <1>2 DEF AwaitCallee
<1>6. prev_' = prev_ \/ prev_' = [prev_ EXCEPT ![k + 1] = k]
  BY <1>5, Zenon
<1>7. dangling' = TRUE \/ (dangling' = dangling /\ prev_' = [prev_ EXCEPT ![k + 1] = k])
  BY <1>5, Zenon
<1>8. ChainType'
  <2>1. prev_' \in [Frames -> Int]
    BY <1>4, <1>6 DEF ChainType
  <2>2. frame' \in [Frames -> {"none", "running", "suspended", "final", "destroyed"}]
    BY <1>3, <1>2, <1>4 DEF ChainType
  <2>3. main' \in [at : {"call", "await", "sleeping", "ended"}, in : Int]
    <3>1. main \in [at : {"call", "await", "sleeping", "ended"}, in : Int] /\ k - 1 \in Int
      BY <1>2 DEF ChainType
    <3> QED BY <1>3, <3>1
  <2>4. dangling' \in BOOLEAN
    BY <1>7, Zenon DEF ChainType
  <2> QED BY <1>1, <2>1, <2>2, <2>3, <2>4 DEF ChainType
<1>9. MainAbove'
  BY <1>1, <1>3, <1>2, <1>4 DEF ChainType, MainAbove
<1>10. EndingLast'
  BY <1>1, <1>3, <1>2, <1>4 DEF ChainType, EndingLast
<1>11. Links'
  <2>1. \A j \in Frames : prev_'[j] = prev_[j] \/ (j = k + 1 /\ prev_'[j] = k)
    <3>1. prev_ \in [Frames -> Int]
      BY DEF ChainType
    <3>2. CASE prev_' = prev_
      BY <3>2
    <3>3. CASE prev_' = [prev_ EXCEPT ![k + 1] = k]
      BY <3>1, <3>3
    <3> QED BY <1>6, <3>2, <3>3
  <2>2. ASSUME ~dangling' PROVE prev_'[k + 1] = k /\ ~dangling
    <3>1. prev_' = [prev_ EXCEPT ![k + 1] = k] /\ dangling' = dangling
      BY <1>7, <2>2, Zenon
    <3>2. prev_'[k + 1] = k
      BY <1>4, <3>1 DEF ChainType
    <3> QED BY <2>2, <3>1, <3>2
  <2>3. \A j \in Frames : prev_'[j] \in {j - 1, NoPromise}
    BY <1>4, <2>1 DEF Links
  <2>4. \A j \in Frames : j - 1 <= k - 1 => prev_'[j] = NoPromise
    BY <1>2, <1>4, <2>1 DEF Links
  <2>5. ASSUME ~dangling', NEW j \in Frames, k < j PROVE prev_'[j] = j - 1
    BY <1>1, <1>2, <1>4, <2>1, <2>2, <2>5 DEF Links
  <2> QED BY <1>1, <1>4, <2>3, <2>4, <2>5 DEF Links
<1>12. FramesAt'
  <2>1. k < Lowest /\ k <= last - Len(ending)
    <3>1. k < resumer.of /\ resumer.of \in Frames /\ resumer.at # "none"
      BY <1>1, <1>2 DEF MainAbove
    <3>2. k < Lowest
      BY <1>4, <3>1 DEF Lowest, ChainType
    <3>3. Len(ending) <= last - resumer.of + 1
      BY <1>1, <3>1 DEF EndingLast, ChainType
    <3>4. Len(ending) \in Nat
      BY DEF ChainType
    <3>5. k <= last - Len(ending)
      BY <1>4, <3>1, <3>3, <3>4 DEF ChainType
    <3> QED BY <3>2, <3>5
  <2>2. Lowest' = Lowest /\ ending' = ending /\ last' = last
    BY <1>1 DEF Lowest
  <2>3. frame'[k] = "suspended" /\ \A j \in Frames : j # k => frame'[j] = frame[j]
    BY <1>3, <1>2, <1>4 DEF ChainType
  <2>4. \A j \in Frames : AsMainLeft(j)' = IF j = k THEN "suspended" ELSE AsMainLeft(j)
    <3> SUFFICES ASSUME NEW j \in Frames
                 PROVE AsMainLeft(j)' = IF j = k THEN "suspended" ELSE AsMainLeft(j)
      OBVIOUS
    <3>1. AsMainLeft(j)' = IF j <= k - 1 THEN "running" ELSE "suspended"
      BY <1>4 DEF AsMainLeft
    <3>2. AsMainLeft(j) = IF j <= k THEN "running" ELSE "suspended"
      BY <1>1, <1>2 DEF AsMainLeft
    <3>3. j \in Int /\ (j <= k - 1 <=> j <= k /\ j # k)
      BY DEF ChainType
    <3>4. CASE j = k
      <4>1. j <= k /\ ~(j <= k - 1)
        BY <3>4
      <4> QED BY <3>1, <3>4, <4>1
    <3>5. CASE j # k
      BY <3>1, <3>2, <3>3, <3>5
    <3> QED BY <3>4, <3>5
  <2>5. Lowest \in Int /\ last - Len(ending) \in Int
    BY DEF Lowest, ChainType
  <2>6. ASSUME NEW j \in Frames
        PROVE  /\ j < Lowest => frame'[j] = AsMainLeft(j)'
               /\ j > last - Len(ending) => frame'[j] = "final"
               /\ Lowest <= j /\ j <= last - Len(ending) => frame'[j] = "destroyed"
    <3>1. CASE j = k
      BY <2>1, <2>3, <2>4, <2>5, <3>1
    <3>2. CASE j # k
      BY <2>3, <2>4, <3>2 DEF FramesAt
    <3> QED BY <3>1, <3>2
  <2> QED BY <2>2, <2>6 DEF FramesAt
<1>13. EarlyOnly'
  <2>1. ASSUME resumer.at \in {"none", "sleeping"} PROVE frame[k + 1] # "destroyed"
    <3>1. k + 1 < Lowest
      BY <1>1, <1>2, <1>4, <2>1 DEF ChainType, MainAbove, EndingLast, Lowest
    <3> QED BY <1>4, <3>1 DEF FramesAt, AsMainLeft
  <2>2. ASSUME resumer.at \notin {"none", "sleeping"} PROVE early
    BY <1>1, <2>2 DEF ChainType, EarlyOnly
  <2>3. (dangling' = dangling) \/ (frame[k + 1] = "destroyed" /\ early)
    BY <1>5, <2>1, <2>2, Zenon
  <2> QED BY <1>1, <1>4, <2>1, <2>3 DEF ChainType, EarlyOnly
<1> QED BY <1>8, <1>9, <1>10, <1>11, <1>12, <1>13

LEMMA MainSleepsChain == ChainInv /\ MainSleeps => ChainInv'
<1> SUFFICES ASSUME ChainInv, MainSleeps PROVE ChainInv'
  OBVIOUS
<1> USE DEF ChainInv, Frames, NoPromise
<1>1. UNCHANGED <<last, frame, prev_, resumer, ending, early, dangling>> /\ main.at = "await" /\ main.in < 0
  BY DEF MainSleeps
<1>2. main' = [main EXCEPT !.at = "sleeping"]
  BY DEF MainSleeps
<1>3. main'.at = "sleeping" /\ main'.in = main.in
  BY <1>2 DEF ChainType
<1>4. ChainType'
  BY <1>1, <1>2, <1>3 DEF ChainType
<1>5. MainAbove'
  BY <1>1, <1>2, <1>3 DEF ChainType, MainAbove
<1>6. EndingLast'
  BY <1>1, <1>2, <1>3 DEF ChainType, EndingLast, MainAbove
<1>7. Links'
  BY <1>1, <1>2, <1>3 DEF ChainType, Links, MainAbove
<1>8. FramesAt'
  BY <1>1, <1>2, <1>3 DEF ChainType, FramesAt, Lowest, AsMainLeft, MainAbove, EndingLast
<1>9. EarlyOnly'
  BY <1>1, <1>2, <1>3 DEF ChainType, EarlyOnly, MainAbove
<1> QED BY <1>4, <1>5, <1>6, <1>7, <1>8, <1>9

LEMMA MainEndsChain == ChainInv /\ MainEnds => ChainInv'
<1> SUFFICES ASSUME ChainInv, MainEnds PROVE ChainInv'
  OBVIOUS
<1> USE DEF ChainInv, Frames, NoPromise
<1>1. UNCHANGED <<last, frame, prev_, resumer, ending, early, dangling>> /\ main.at = "sleeping"
  BY DEF MainEnds
<1>2. main' = [main EXCEPT !.at = "ended"]
  BY DEF MainEnds
<1>3. main'.at = "ended" /\ main'.in = main.in
  BY <1>2 DEF ChainType
<1>4. ChainType'
  BY <1>1, <1>2, <1>3 DEF ChainType
<1>5. MainAbove'
  BY <1>1, <1>2, <1>3 DEF ChainType, MainAbove
<1>6. EndingLast'
  BY <1>1, <1>2, <1>3 DEF ChainType, EndingLast, MainAbove
<1>7. Links'
  BY <1>1, <1>2, <1>3 DEF ChainType, Links, MainAbove
<1>8. FramesAt'
  BY <1>1, <1>2, <1>3 DEF ChainType, FramesAt, Lowest, AsMainLeft, MainAbove, EndingLast
<1>9. EarlyOnly'
  BY <1>1, <1>2, <1>3 DEF ChainType, EarlyOnly, MainAbove
<1> QED BY <1>4, <1>5, <1>6, <1>7, <1>8, <1>9

LEMMA WakeChain == ChainInv /\ Wake => ChainInv'
<1> SUFFICES ASSUME ChainInv, Wake PROVE ChainInv'
  OBVIOUS
<1> USE DEF ChainInv, Frames, NoPromise
<1>1. UNCHANGED <<last, frame, prev_, main, ending, dangling>> /\ resumer.at = "sleeping" /\ main.at # "ended"
  BY DEF Wake
<1>2. resumer' = [resumer EXCEPT !.at = "resume"] /\ early' = (main.at # "sleeping")
  BY DEF Wake
<1>3. resumer'.at = "resume" /\ resumer'.of = resumer.of
  BY <1>2 DEF ChainType
<1>4. ChainType'
  BY <1>1, <1>2, <1>3 DEF ChainType
<1>5. MainAbove'
  BY <1>1, <1>2, <1>3 DEF ChainType, MainAbove
<1>6. EndingLast'
  BY <1>1, <1>2, <1>3 DEF ChainType, EndingLast, MainAbove
<1>7. Links'
  BY <1>1, <1>2, <1>3 DEF ChainType, Links, MainAbove
<1>8. FramesAt'
  BY <1>1, <1>2, <1>3 DEF ChainType, FramesAt, Lowest, AsMainLeft, MainAbove, EndingLast
<1>9. EarlyOnly'
  BY <1>1, <1>2, <1>3 DEF ChainType, EarlyOnly, MainAbove
<1> QED BY <1>4, <1>5, <1>6, <1>7, <1>8, <1>9

LEMMA ResumeChain == ChainInv /\ Resume => ChainInv'
<1> SUFFICES ASSUME ChainInv, Resume PROVE ChainInv'
  OBVIOUS
<1> USE DEF ChainInv, Frames, NoPromise
<1>1. UNCHANGED <<last, prev_, main, early, dangling>> /\ resumer.at = "resume" /\ main.at # "call"
  BY DEF Resume, MainAbove
<1>2. resumer' = [resumer EXCEPT !.at = "final"] /\ frame' = [frame EXCEPT ![resumer.of] = "final"]
      /\ ending' = Append(ending, resumer.of)
  BY DEF Resume
<1>3. resumer'.at = "final" /\ resumer'.of = resumer.of /\ resumer.of \in Frames
  BY <1>1, <1>2 DEF ChainType, MainAbove
<1>4. /\ Len(ending) \in Nat /\ Len(ending') = Len(ending) + 1 /\ Len(ending) = last - resumer.of
      /\ DOMAIN ending = 1 .. Len(ending) /\ DOMAIN ending' = 1 .. Len(ending) + 1
      /\ ending'[Len(ending) + 1] = resumer.of
      /\ \A i \in 1 .. Len(ending) : ending'[i] = ending[i]
  <2>1. ending \in Seq(Int) /\ resumer.of \in Int
    BY <1>3 DEF ChainType
  <2>2. Len(ending) = last - resumer.of
    BY <1>1 DEF EndingLast
  <2> QED BY <1>2, <2>1, <2>2, AppendFacts
<1>5. ChainType'
  <2>1. ending' \in Seq(Int)
    BY <1>2, AppendFacts DEF ChainType
  <2> QED BY <1>1, <1>2, <1>3, <2>1 DEF ChainType
<1>6. MainAbove'
  BY <1>1, <1>2, <1>3, <1>4 DEF ChainType, MainAbove
<1>7. EndingLast'
  BY <1>1, <1>2, <1>3, <1>4 DEF ChainType, EndingLast, MainAbove
<1>8. Links'
  BY <1>1, <1>2, <1>3, <1>4 DEF ChainType, Links, MainAbove
<1>9. FramesAt'
  <2>1. PICK r \in Int : r = resumer.of /\ r \in Frames
    BY <1>3
  <2>2. last \in Nat /\ last - Len(ending) = r /\ last - Len(ending') = r - 1
    BY <1>4, <2>1 DEF ChainType
  <2>3. Lowest = r + 1 /\ Lowest' = r
    BY <1>1, <1>3, <2>1 DEF Lowest
  <2>4. \A k : AsMainLeft(k)' = AsMainLeft(k)
    BY <1>1 DEF AsMainLeft
  <2>5. frame'[r] = "final" /\ \A k \in Frames : k # r => frame'[k] = frame[k]
    BY <1>2, <2>1 DEF ChainType
  <2>6. ASSUME NEW k \in Frames
        PROVE  /\ k < r => frame'[k] = AsMainLeft(k)
               /\ k > r - 1 => frame'[k] = "final"
    <3>1. CASE k = r
      BY <2>1, <2>5, <3>1
    <3>2. CASE k # r
      <4>1. /\ k < r + 1 => frame[k] = AsMainLeft(k)
            /\ k > r => frame[k] = "final"
        BY <2>2, <2>3 DEF FramesAt
      <4> QED BY <2>1, <2>5, <3>2, <4>1
    <3> QED BY <3>1, <3>2
  <2> QED BY <1>1, <2>1, <2>2, <2>3, <2>4, <2>6 DEF FramesAt
<1>10. EarlyOnly'
  BY <1>1, <1>2, <1>3, <1>4 DEF ChainType, EarlyOnly, MainAbove
<1> QED BY <1>5, <1>6, <1>7, <1>8, <1>9, <1>10

LEMMA FinalSuspendChain == ChainInv /\ FinalSuspend => ChainInv'
<1> SUFFICES ASSUME ChainInv, FinalSuspend PROVE ChainInv'
  OBVIOUS
<1> USE DEF ChainInv, Frames, NoPromise
<1>1. UNCHANGED <<last, frame, prev_, main, ending, early, dangling>> /\ resumer.at = "final" /\ main.at # "call"
  BY DEF FinalSuspend, MainAbove
<1>2. resumer.of \in Frames /\ prev_[resumer.of] \in Int
  BY <1>1 DEF ChainType, MainAbove
<1>3. \/ /\ prev_[resumer.of] # NoPromise
         /\ resumer'.at = "resume" /\ resumer'.of = prev_[resumer.of] /\ resumer' \in [at : {"resume"}, of : Int]
      \/ /\ prev_[resumer.of] = NoPromise
         /\ resumer'.at = "unwind" /\ resumer'.of = resumer.of /\ resumer' \in [at : {"unwind"}, of : Int]
  BY <1>2 DEF FinalSuspend, Continuation, ChainType
<1>4. prev_[resumer.of] # NoPromise => prev_[resumer.of] = resumer.of - 1 /\ main.in < resumer.of - 1 /\ 0 < resumer.of
  BY <1>1, <1>2 DEF Links, ChainType
<1>5. ChainType'
  BY <1>1, <1>2, <1>3, <1>4 DEF ChainType
<1>6. MainAbove'
  BY <1>1, <1>2, <1>3, <1>4 DEF ChainType, MainAbove
<1>7. EndingLast'
  <2>1. /\ Len(ending) = last - resumer.of + 1 /\ Len(ending) \in Nat
        /\ last \in Nat /\ resumer.of \in 0 .. last
        /\ \A i \in DOMAIN ending : ending[i] = last + 1 - i
    BY <1>1, <1>2 DEF ChainType, EndingLast
  <2>2. CASE prev_[resumer.of] # NoPromise
    <3>1. resumer'.at = "resume" /\ resumer'.of = resumer.of - 1
      BY <1>3, <1>4, <2>2
    <3> QED BY <1>1, <2>1, <3>1 DEF EndingLast
  <2>3. CASE prev_[resumer.of] = NoPromise
    <3>1. resumer'.at = "unwind" /\ resumer'.of = resumer.of
      BY <1>3, <2>3
    <3> QED BY <1>1, <2>1, <3>1 DEF EndingLast
  <2> QED BY <2>2, <2>3
<1>8. Links'
  BY <1>1, <1>2, <1>3, <1>4 DEF ChainType, Links, MainAbove
<1>9. FramesAt'
  <2>1. Lowest = resumer.of /\ Lowest' = resumer.of
    BY <1>1, <1>2, <1>3, <1>4 DEF Lowest
  <2>2. \A k : AsMainLeft(k)' = AsMainLeft(k)
    BY <1>1 DEF AsMainLeft
  <2> QED BY <1>1, <2>1, <2>2 DEF FramesAt
<1>10. EarlyOnly'
  <2>1. ASSUME ~early, prev_[resumer.of] = NoPromise PROVE resumer.of = 0
    <3>1. ~dangling /\ main.in = -1
      BY <1>1, <2>1 DEF EarlyOnly, MainAbove
    <3>2. 0 < resumer.of => prev_[resumer.of] = resumer.of - 1
      BY <1>1, <1>2, <3>1 DEF Links
    <3> QED BY <1>2, <2>1, <3>2
  <2> QED BY <1>1, <1>3, <2>1 DEF EarlyOnly
<1> QED BY <1>5, <1>6, <1>7, <1>8, <1>9, <1>10

LEMMA UnwindChain == ChainInv /\ Unwind => ChainInv'
<1> SUFFICES ASSUME ChainInv, Unwind PROVE ChainInv'
  OBVIOUS
<1> USE DEF ChainInv, Frames, NoPromise
<1>1. UNCHANGED <<last, prev_, main, early, dangling>> /\ resumer.at = "unwind" /\ main.at # "call"
  BY DEF Unwind, MainAbove
<1>2. /\ Len(ending) \in 1 .. last - resumer.of + 1 /\ resumer.of \in Frames
      /\ ending[Len(ending)] = last + 1 - Len(ending)
  BY <1>1 DEF ChainType, MainAbove, EndingLast
<1>3. /\ frame' = [frame EXCEPT ![last + 1 - Len(ending)] = "destroyed"]
      /\ ending' = SubSeq(ending, 1, Len(ending) - 1)
  BY <1>2 DEF Unwind
<1>4. /\ resumer'.of = resumer.of /\ resumer'.at = IF Len(ending) = 1 THEN "done" ELSE "unwind"
      /\ resumer' \in [at : {"unwind", "done"}, of : Int]
  BY <1>1 DEF Unwind, ChainType
<1>5. /\ ending' \in Seq(Int) /\ Len(ending') = Len(ending) - 1 /\ DOMAIN ending' = 1 .. Len(ending) - 1
      /\ \A i \in 1 .. Len(ending) - 1 : ending'[i] = ending[i]
      /\ DOMAIN ending = 1 .. Len(ending)
  <2>1. ending \in Seq(Int) /\ Len(ending) \in Nat /\ Len(ending) >= 1
    BY <1>2 DEF ChainType
  <2> QED BY <1>3, <2>1, WithoutLast
<1>6. ChainType'
  BY <1>1, <1>2, <1>3, <1>4, <1>5 DEF ChainType
<1>7. MainAbove'
  BY <1>1, <1>2, <1>3, <1>4, <1>5 DEF ChainType, MainAbove
<1>8. EndingLast'
  <2>1. \A i \in DOMAIN ending' : ending'[i] = last + 1 - i
    BY <1>5 DEF EndingLast
  <2>2. Len(ending) = 1 => Len(ending') = 0
    BY <1>5
  <2>3. Len(ending) # 1 => Len(ending') \in 1 .. last - resumer.of + 1
    <3>1. PICK n, m \in Int : n = Len(ending) /\ m = last - resumer.of + 1
      BY DEF ChainType
    <3>2. n \in 1 .. m /\ Len(ending') = n - 1
      BY <1>2, <1>5, <3>1
    <3>3. n # 1 => n - 1 \in 1 .. m
      BY <3>2
    <3> QED BY <3>1, <3>2, <3>3
  <2> QED BY <1>1, <1>4, <2>1, <2>2, <2>3 DEF EndingLast
<1>9. Links'
  BY <1>1, <1>2, <1>3, <1>4, <1>5 DEF ChainType, Links, MainAbove
<1>10. FramesAt'
  <2>1. PICK top : top = last + 1 - Len(ending)
    OBVIOUS
  <2>2. top \in Frames /\ top >= resumer.of /\ last - Len(ending') = top /\ last - Len(ending) = top - 1
    <3>1. PICK n \in Nat : n = Len(ending) /\ last \in Nat
      BY DEF ChainType
    <3>2. n \in 1 .. last - resumer.of + 1 /\ resumer.of \in 0 .. last /\ Len(ending') = n - 1
      BY <1>2, <1>5, <3>1
    <3> QED BY <2>1, <3>1, <3>2
  <2>3. Lowest = resumer.of /\ Lowest' = resumer.of /\ resumer.of \in Int
    BY <1>1, <1>2, <1>4 DEF Lowest
  <2>4. \A k : AsMainLeft(k)' = AsMainLeft(k)
    BY <1>1 DEF AsMainLeft
  <2>5. frame'[top] = "destroyed" /\ \A k \in Frames : k # top => frame'[k] = frame[k]
    BY <1>3, <2>1, <2>2 DEF ChainType
  <2> QED BY <1>1, <2>2, <2>3, <2>4, <2>5 DEF FramesAt
<1>11. EarlyOnly'
  BY <1>1, <1>2, <1>3, <1>4, <1>5 DEF ChainType, EarlyOnly, MainAbove
<1> QED BY <1>6, <1>7, <1>8, <1>9, <1>10, <1>11

LEMMA InitCo == CoInit => CoInv
  BY DEF CoInit, CoInv

\* Before a program is chosen nothing else can happen.
LEMMA CoStep == CoInv /\ [CoNext]_coVars => CoInv'
<1> SUFFICES ASSUME CoInv, [CoNext]_coVars PROVE CoInv'
  OBVIOUS
<1>1. CASE UNCHANGED coVars
  BY <1>1 DEF coVars, CoInv, CoInit, ChainInv, ChainType, MainAbove, EndingLast, Links, FramesAt,
              EarlyOnly, Lowest, AsMainLeft, Frames
<1>2. ASSUME CoNext, main.at = "start" PROVE CoInv'
  <2>1. CoInit /\ resumer.at = "none"
    BY <1>2 DEF CoInv, CoInit
  <2>2. CoStart
    BY <1>2, <2>1 DEF CoNext, Call, AwaitThread, AwaitCallee, MainSleeps, MainEnds, Wake, Resume,
                      FinalSuspend, Unwind
  <2>3. ChainInv'
    BY <2>1, <2>2, StartChain
  <2> QED BY <2>3 DEF CoInv, ChainInv, ChainType
<1>3. ASSUME CoNext, main.at # "start" PROVE CoInv'
  <2>1. ChainInv /\ ~CoStart
    BY <1>3 DEF CoInv, CoStart
  <2>2. ChainInv'
    BY <1>3, <2>1, CallChain, AwaitThreadChain, AwaitCalleeChain, MainSleepsChain, MainEndsChain,
       WakeChain, ResumeChain, FinalSuspendChain, UnwindChain DEF CoNext
  <2> QED BY <2>2 DEF CoInv, ChainInv, ChainType
<1> QED BY <1>1, <1>2, <1>3

LEMMA ChainEnds == CoInv => ChainResumed
<1> SUFFICES ASSUME CoInv PROVE ChainResumed
  OBVIOUS
<1>1. CASE main.at = "start"
  BY <1>1 DEF CoInv, CoInit, ChainResumed
<1>2. CASE main.at # "start"
  <2> USE DEF Frames, NoPromise
  <2>1. ChainType /\ MainAbove /\ EndingLast /\ Links /\ FramesAt /\ EarlyOnly
    BY <1>2 DEF CoInv, ChainInv
  <2>2. /\ last \in Nat /\ resumer.of \in Int /\ main.in \in Int
        /\ Len(ending) \in Nat /\ DOMAIN ending = 1 .. Len(ending)
    BY <2>1 DEF ChainType
  <2>3. resumer.at # "none" =>
          resumer.of \in Frames /\ main.in < resumer.of /\ main.at # "call"
    BY <2>1 DEF MainAbove
  <2>4. ASSUME resumer.at = "resume" PROVE frame[resumer.of] = "suspended"
    <3>1. resumer.of < Lowest
      BY <2>2, <2>4 DEF Lowest
    <3>2. AsMainLeft(resumer.of) = "suspended"
      BY <2>2, <2>3, <2>4 DEF AsMainLeft
    <3> QED BY <2>1, <2>3, <2>4, <3>1, <3>2 DEF FramesAt
  <2>5. ASSUME NEW i \in DOMAIN ending
        PROVE  frame[ending[i]] = "final" /\ prev_[ending[i]] \in {ending[i] - 1, NoPromise}
    <3>1. Len(ending) <= last + 1
      <4>1. CASE resumer.at \in {"none", "sleeping", "done"}
        BY <2>1, <2>2, <4>1 DEF EndingLast
      <4>2. CASE resumer.at \in {"resume", "final", "unwind"}
        <5>1. PICK r \in 0 .. last : r = resumer.of
          BY <2>3, <4>2 DEF Frames
        <5>2. Len(ending) \in {last - r, last - r + 1} \/ Len(ending) \in 1 .. last - r + 1
          BY <2>1, <4>2, <5>1 DEF EndingLast
        <5> QED BY <2>2, <5>2
      <4> QED BY <2>1, <4>1, <4>2 DEF ChainType
    <3>2. PICK k \in Int : k = last + 1 - i /\ ending[i] = k
      BY <2>1, <2>2 DEF EndingLast
    <3>3. k \in Frames /\ k > last - Len(ending)
      BY <2>2, <3>1, <3>2
    <3> QED BY <2>1, <3>2, <3>3 DEF FramesAt, Links
  <2>6. ASSUME resumer.at = "done"
        PROVE  LET gone == {k \in Frames : frame[k] = "destroyed"} IN
               /\ gone = Frames \/ early
               /\ \E k \in Frames : gone = k .. last
    <3> DEFINE gone == {k \in Frames : frame[k] = "destroyed"}
    <3>1. Lowest = resumer.of /\ Len(ending) = 0 /\ resumer.of \in Frames
      BY <2>1, <2>3, <2>6 DEF Lowest, EndingLast
    <3>2. \A k \in Frames : k < resumer.of => frame[k] \in {"running", "none", "suspended"}
      BY <2>1, <3>1 DEF FramesAt, AsMainLeft
    <3>3. \A k \in Frames : resumer.of <= k => frame[k] = "destroyed"
      BY <2>1, <2>2, <3>1 DEF FramesAt
    <3>4. \A k \in Frames : k \in gone <=> resumer.of <= k
      BY <2>2, <3>2, <3>3
    <3>5. gone = resumer.of .. last
      BY <2>2, <3>1, <3>4
    <3>6. ~early => resumer.of = 0
      BY <2>1, <2>6 DEF EarlyOnly
    <3> QED BY <3>1, <3>5, <3>6
  <2> QED BY <2>1, <2>4, <2>5, <2>6 DEF ChainResumed, EarlyOnly
<1> QED BY <1>1, <1>2

\* Where the main thread and the detached thread are determines every frame and
\* every stored caller, for chains of any length.
THEOREM CoInductive == CoSpec => []CoInv
  BY InitCo, CoStep, PTL DEF CoSpec

\* The detached thread resumes suspended coroutines only, innermost first, and
\* a chain it resumes late enough ends completely.
THEOREM ChainAlwaysResumed == CoSpec => []ChainResumed
  BY CoInductive, ChainEnds, PTL

----------------------------------------------------------------------------
(* SocketServer                                                            *)

SocketType ==
  /\ tcp \in Seq(Client)
  /\ client \in [Client \cup UnixClient -> {"start", "prompt", "waiting", "mute", "refused", "gone"}]
  /\ thread \in [Client -> {"none", "read", "send"}]
  /\ input \in [Client -> Nat] /\ answers \in [Client -> Nat] /\ whole \in [Client -> BOOLEAN]
  /\ master.at \in {"connect", "send"} => master.conn \in masterHas

\* One of these has to happen before the server comes down.
Trouble == events \cap {"left", "fds", "path", "early"} # {}

\* Until then both processes run, no client has gone, and the master keeps every
\* connection; the slave has listened by the time the master sends to it.
Untroubled ==
  /\ slave.at # "dead" /\ master.at # "exited"
  /\ slave.at = "start" => master.at # "send" /\ ~path
  /\ \A c \in Client \cup UnixClient : client[c] # "gone"
  /\ \A c \in Client :
       client[c] \in {"prompt", "waiting", "mute"} => c \in ToSet(tcp) \cup masterHas

\* Of a message that is read at once, the units, the answer due and the answer
\* sent do not exist at the same time.
OneAtATime(c) ==
  /\ client[c] = "start" =>
       ~Open(c) /\ input[c] = 0 /\ answers[c] = 0 /\ thread[c] = "none"
  /\ whole[c] /\ Open(c) /\ client[c] \in {"prompt", "mute"} =>
       input[c] = 0 /\ answers[c] = 0 /\ thread[c] # "send"
  /\ whole[c] /\ Open(c) /\ client[c] = "waiting" =>
       /\ answers[c] <= 1
       /\ input[c] > 0 => answers[c] = 0 /\ thread[c] # "send"
       /\ thread[c] = "send" => answers[c] = 0

SocketInv ==
  /\ SocketType /\ (Trouble \/ Untroubled)
  /\ \A c \in Client : OneAtATime(c)

LEMMA InitSockets == SocketInit => SocketInv
<1> SUFFICES ASSUME SocketInit PROVE SocketInv
  OBVIOUS
<1>1. SocketType
  BY DEF SocketInit, SocketType, At
<1>2. CASE path
  <2>1. Trouble
    BY <1>2 DEF SocketInit, Trouble
  <2>2. \A c \in Client : ~Open(c)
    BY DEF SocketInit, Open, ToSet
  <2> QED BY <1>1, <2>1, <2>2 DEF SocketInit, SocketInv, OneAtATime
<1>3. CASE ~path
  <2>1. Untroubled
    BY <1>3 DEF SocketInit, Untroubled, At
  <2>2. \A c \in Client : ~Open(c)
    BY DEF SocketInit, Open, ToSet
  <2> QED BY <1>1, <2>1, <2>2 DEF SocketInit, SocketInv, OneAtATime
<1> QED BY <1>2, <1>3

\* What has happened has happened.
LEMMA TroubleStays == ASSUME Trouble, events \subseteq events' PROVE Trouble'
  BY DEF Trouble

LEMMA HeadAndTail ==
  ASSUME NEW S, NEW q \in Seq(S), q # << >>
  PROVE  Tail(q) \in Seq(S) /\ Head(q) \in S /\ ToSet(q) = {Head(q)} \cup ToSet(Tail(q))
<1>1. /\ Tail(q) \in Seq(S) /\ Head(q) \in S /\ Len(q) \in Nat /\ Len(q) >= 1
      /\ DOMAIN q = 1 .. Len(q) /\ DOMAIN Tail(q) = 1 .. Len(q) - 1
      /\ \A i \in 1 .. Len(q) - 1 : Tail(q)[i] = q[i + 1]
      /\ Head(q) = q[1]
  OBVIOUS
<1>2. ASSUME NEW x \in ToSet(q) PROVE x \in {Head(q)} \cup ToSet(Tail(q))
  <2>1. PICK i \in 1 .. Len(q) : x = q[i]
    BY <1>1 DEF ToSet
  <2>2. CASE i = 1
    BY <1>1, <2>1, <2>2
  <2>3. CASE i # 1
    <3>1. i - 1 \in DOMAIN Tail(q) /\ x = Tail(q)[i - 1]
      BY <1>1, <2>1, <2>3
    <3> QED BY <3>1 DEF ToSet
  <2> QED BY <2>2, <2>3
<1>3. ASSUME NEW x \in {Head(q)} \cup ToSet(Tail(q)) PROVE x \in ToSet(q)
  <2>1. CASE x = Head(q)
    <3>1. 1 \in DOMAIN q /\ x = q[1]
      BY <1>1, <2>1
    <3> QED BY <3>1 DEF ToSet
  <2>2. CASE x \in ToSet(Tail(q))
    <3>1. PICK i \in 1 .. Len(q) - 1 : x = Tail(q)[i]
      BY <1>1, <2>2 DEF ToSet
    <3>2. i + 1 \in DOMAIN q /\ x = q[i + 1]
      BY <1>1, <3>1
    <3> QED BY <3>2 DEF ToSet
  <2> QED BY <2>1, <2>2
<1> QED BY <1>1, <1>2, <1>3

LEMMA SetOfAppend ==
  ASSUME NEW S, NEW q \in Seq(S), NEW e \in S PROVE ToSet(Append(q, e)) = ToSet(q) \cup {e}
<1>1. ASSUME NEW x \in ToSet(Append(q, e)) PROVE x \in ToSet(q) \cup {e}
  <2>1. PICK i \in 1 .. Len(q) + 1 : x = Append(q, e)[i]
    BY AppendFacts DEF ToSet
  <2> QED BY <2>1, AppendFacts DEF ToSet
<1>2. ASSUME NEW x \in ToSet(q) \cup {e} PROVE x \in ToSet(Append(q, e))
  <2>1. CASE x = e
    <3>1. Len(q) + 1 \in DOMAIN Append(q, e) /\ x = Append(q, e)[Len(q) + 1]
      BY <2>1, AppendFacts
    <3> QED BY <3>1 DEF ToSet
  <2>2. CASE x \in ToSet(q)
    <3>1. PICK i \in 1 .. Len(q) : x = q[i]
      BY <2>2, AppendFacts DEF ToSet
    <3>2. i \in DOMAIN Append(q, e) /\ x = Append(q, e)[i]
      BY <3>1, AppendFacts
    <3> QED BY <3>2 DEF ToSet
  <2> QED BY <2>1, <2>2
<1> QED BY <1>1, <1>2

LEMMA EmptySet == ToSet(<< >>) = {}
  BY DEF ToSet

\* A step that writes nothing to the streams, and opens no connection, keeps
\* the streams in order.
LEMMA StreamsKept ==
  ASSUME NEW c \in Client, OneAtATime(c), Open(c)' => Open(c),
         UNCHANGED <<client, input, answers, whole>>,
         \/ thread'[c] = thread[c]
         \/ thread'[c] = "none"
         \/ thread'[c] = "read" /\ client[c] # "start"
  PROVE  OneAtATime(c)'
  BY DEF OneAtATime

----------------------------------------------------------------------------

\* The master's steps
LEMMA MasterExit == ASSUME SocketInv, NEW why, MasterExits(why), Trouble' PROVE SocketInv'
<1>1. SocketType'
  BY DEF SocketInv, SocketType, MasterExits, At, streamVars
<1>2. ASSUME NEW c \in Client PROVE OneAtATime(c)'
  <2>1. Open(c)' => Open(c)
    BY EmptySet DEF Open, MasterExits
  <2>2. UNCHANGED <<client, input, answers, whole, thread>>
    BY DEF MasterExits, streamVars
  <2> QED BY <2>1, <2>2, StreamsKept DEF SocketInv
<1> QED BY <1>1, <1>2 DEF SocketInv

LEMMA MasterStep == SocketInv /\ Master => SocketInv'
<1> SUFFICES ASSUME SocketInv, Master PROVE SocketInv'
  OBVIOUS
<1>1. CASE MasterStart
  <2>1. UNCHANGED <<path, slave, client, input, answers, whole, thread, tcp, masterHas, transit,
                    slaveHas, events>> /\ master' = At("accept")
    BY <1>1 DEF MasterStart, streamVars
  <2>2. SocketType'
    BY <2>1 DEF SocketInv, SocketType, At
  <2>3. (Trouble \/ Untroubled)'
    BY <2>1 DEF SocketInv, Trouble, Untroubled, At
  <2>4. ASSUME NEW c \in Client PROVE OneAtATime(c)'
    BY <2>1, StreamsKept DEF SocketInv, Open
  <2> QED BY <2>2, <2>3, <2>4 DEF SocketInv
<1>2. CASE MasterAccept
  <2>1. /\ UNCHANGED <<path, slave, client, input, answers, whole, thread, transit, slaveHas, events>>
        /\ master' = [at |-> "connect", conn |-> Head(tcp)] /\ tcp' = Tail(tcp) /\ tcp # << >>
        /\ masterHas' = masterHas \cup {Head(tcp)}
    BY <1>2 DEF MasterAccept, streamVars
  <2>2. tcp' \in Seq(Client) /\ ToSet(tcp) = {Head(tcp)} \cup ToSet(tcp')
    BY <2>1, HeadAndTail DEF SocketInv, SocketType
  <2>3. SocketType'
    BY <2>1, <2>2 DEF SocketInv, SocketType
  <2>4. (Trouble \/ Untroubled)'
    BY <2>1, <2>2 DEF SocketInv, Trouble, Untroubled
  <2>5. ASSUME NEW c \in Client PROVE OneAtATime(c)'
    BY <2>1, <2>2, StreamsKept DEF SocketInv, Open
  <2> QED BY <2>3, <2>4, <2>5 DEF SocketInv
<1>3. CASE MasterOutOfFds
  <2>1. MasterExits({"fds"})
    BY <1>3 DEF MasterOutOfFds
  <2>2. Trouble'
    BY <2>1 DEF MasterExits, Trouble
  <2> QED BY <2>1, <2>2, MasterExit
<1>4. CASE MasterConnect
  <2>1. /\ UNCHANGED <<path, slave, client, input, answers, whole, thread, tcp, masterHas, transit,
                       slaveHas, events>>
        /\ master.at = "connect" /\ slave.at # "start"
    BY <1>4 DEF MasterConnect, SlaveListens, streamVars
  <2>2. master' = [master EXCEPT !.at = "send"]
    BY <1>4 DEF MasterConnect
  <2>4. SocketType'
    BY <2>1, <2>2 DEF SocketInv, SocketType
  <2>5. (Trouble \/ Untroubled)'
    BY <2>1, <2>2 DEF SocketInv, Trouble, Untroubled
  <2>6. ASSUME NEW c \in Client PROVE OneAtATime(c)'
    BY <2>1, StreamsKept DEF SocketInv, Open
  <2> QED BY <2>4, <2>5, <2>6 DEF SocketInv
<1>5. CASE MasterRefused
  <2>1. MasterExits(IF slave.at = "start" THEN {"early"} ELSE {}) /\ slave.at \in {"start", "dead"}
    BY <1>5 DEF MasterRefused, NobodyListens, SlaveListens
  <2>2. Trouble'
    BY <2>1 DEF SocketInv, MasterExits, Trouble, Untroubled
  <2> QED BY <2>1, <2>2, MasterExit
<1>6. CASE MasterSends
  <2>1. /\ UNCHANGED <<path, slave, client, input, answers, whole, thread, tcp, masterHas, slaveHas>>
        /\ master.at = "send" /\ master' = At("accept")
        /\ transit' \subseteq transit \cup {master.conn} /\ events \subseteq events'
    BY <1>6 DEF MasterSends, streamVars
  <2>2. SocketType'
    BY <2>1 DEF SocketInv, SocketType, At
  <2>3. (Trouble \/ Untroubled)'
    BY <2>1, TroubleStays DEF SocketInv, Untroubled, At
  <2>4. master.conn \in masterHas
    BY <2>1 DEF SocketInv, SocketType
  <2>5. ASSUME NEW c \in Client PROVE OneAtATime(c)'
    BY <2>1, <2>4, StreamsKept DEF SocketInv, Open
  <2> QED BY <2>2, <2>3, <2>5 DEF SocketInv
<1>7. CASE MasterSigpipe
  <2>1. MasterExits({}) /\ master.at = "send" /\ slave.at \in {"start", "dead"}
    BY <1>7 DEF MasterSigpipe, SlaveListens
  <2>2. Trouble'
    BY <2>1 DEF SocketInv, MasterExits, Trouble, Untroubled
  <2> QED BY <2>1, <2>2, MasterExit
<1> QED BY <1>1, <1>2, <1>3, <1>4, <1>5, <1>6, <1>7 DEF Master

\* The steps of the slave's main thread, and its restart
LEMMA SlaveStep == SocketInv /\ (Slave \/ SlaveRestart) => SocketInv'
<1> SUFFICES ASSUME SocketInv, Slave \/ SlaveRestart PROVE SocketInv'
  OBVIOUS
<1>1. CASE SlaveStart
  <2>1. /\ UNCHANGED <<master, client, input, answers, whole, thread, tcp, masterHas, transit,
                       slaveHas, events>>
        /\ slave.at = "start" /\ slave' = At(IF path THEN "dead" ELSE "accept")
    BY <1>1 DEF SlaveStart, streamVars
  <2>2. SocketType'
    BY <2>1 DEF SocketInv, SocketType
  <2>3. (Trouble \/ Untroubled)'
    BY <2>1 DEF SocketInv, Trouble, Untroubled, At
  <2>4. ASSUME NEW c \in Client PROVE OneAtATime(c)'
    BY <2>1, StreamsKept DEF SocketInv, Open
  <2> QED BY <2>2, <2>3, <2>4 DEF SocketInv
<1>2. CASE SlaveRestart
  <2>1. /\ UNCHANGED <<master, client, input, answers, whole, thread, tcp, masterHas, transit,
                       slaveHas, events>>
        /\ slave.at = "dead"
    BY <1>2 DEF SlaveRestart, streamVars
  <2>2. SocketType'
    BY <2>1 DEF SocketInv, SocketType
  <2>3. Trouble'
    BY <2>1 DEF SocketInv, Trouble, Untroubled
  <2>4. ASSUME NEW c \in Client PROVE OneAtATime(c)'
    BY <2>1, StreamsKept DEF SocketInv, Open
  <2> QED BY <2>2, <2>3, <2>4 DEF SocketInv
<1>3. CASE SlaveAccept
  <2>1. /\ UNCHANGED <<path, master, client, input, answers, whole, thread, tcp, masterHas, transit,
                       slaveHas>>
        /\ slave.at = "accept" /\ events \subseteq events'
        /\ slave' = slave \/ slave' = [at |-> "recvfd", conn |-> Head(unix)]
    BY <1>3 DEF SlaveAccept, streamVars
  <2>2. SocketType'
    BY <2>1 DEF SocketInv, SocketType
  <2>3. (Trouble \/ Untroubled)'
    BY <2>1, TroubleStays DEF SocketInv, Untroubled
  <2>4. ASSUME NEW c \in Client PROVE OneAtATime(c)'
    BY <2>1, StreamsKept DEF SocketInv, Open
  <2> QED BY <2>2, <2>3, <2>4 DEF SocketInv
<1>4. CASE SlaveReceives
  <2>1. PICK d : d = slave.conn
    OBVIOUS
  <2>2. /\ UNCHANGED <<path, master, client, input, answers, whole, tcp, masterHas, events>>
        /\ slave' = At("accept") /\ d \in transit
        /\ transit' = transit \ {d} /\ slaveHas' = slaveHas \cup {d}
        /\ thread' = [thread EXCEPT ![d] = "read"]
    BY <1>4, <2>1 DEF SlaveReceives
  <2>3. SocketType'
    BY <2>2 DEF SocketInv, SocketType
  <2>4. (Trouble \/ Untroubled)'
    BY <2>2 DEF SocketInv, Trouble, Untroubled, At
  <2>5. ASSUME NEW c \in Client PROVE OneAtATime(c)'
    <3>1. Open(c)' => Open(c)
      BY <2>2 DEF Open
    <3>2. thread'[c] = thread[c] \/ (thread'[c] = "read" /\ c = d)
      BY <2>2 DEF SocketInv, SocketType
    <3>3. c = d => client[c] # "start"
      BY <2>2 DEF SocketInv, OneAtATime, Open
    <3> QED BY <2>2, <3>1, <3>2, <3>3, StreamsKept DEF SocketInv
  <2> QED BY <2>3, <2>4, <2>5 DEF SocketInv
<1>5. CASE SlaveReceivesNone
  <2>1. /\ UNCHANGED <<path, master, client, input, answers, whole, thread, tcp, masterHas, slaveHas>>
        /\ slave' = At("accept") /\ transit' \subseteq transit /\ events \subseteq events'
    BY <1>5 DEF SlaveReceivesNone, streamVars
  <2>2. SocketType'
    BY <2>1 DEF SocketInv, SocketType
  <2>3. (Trouble \/ Untroubled)'
    BY <2>1, TroubleStays DEF SocketInv, Untroubled, At
  <2>4. ASSUME NEW c \in Client PROVE OneAtATime(c)'
    BY <2>1, StreamsKept DEF SocketInv, Open
  <2> QED BY <2>2, <2>3, <2>4 DEF SocketInv
<1> QED BY <1>1, <1>2, <1>3, <1>4, <1>5 DEF Slave

\* process_connection's steps.  Another client's stream is left alone.
LEMMA ServeStep == ASSUME NEW d \in Client, SocketInv, Serve(d) PROVE SocketInv'
<1>1. SocketType
  BY DEF SocketInv
<1>2. CASE ThreadReads(d)
  <2>1. UNCHANGED <<path, master, slave, tcp, masterHas, transit, slaveHas, client, answers, events>>
        /\ thread[d] = "read" /\ thread' = [thread EXCEPT ![d] = "send"]
    BY <1>2 DEF ThreadReads, serverVars
  <2>2. PICK n \in Readable(d) : /\ input' = [input EXCEPT ![d] = input[d] - n]
                                 /\ whole' = [whole EXCEPT ![d] = whole[d] /\ n = input[d]]
    BY <1>2 DEF ThreadReads
  <2>3. n \in 0 .. input[d] /\ (n > 0 \/ client[d] = "gone")
    BY <1>1, <2>2 DEF Readable, SocketType
  <2>4. /\ input' \in [Client -> Nat] /\ input'[d] = input[d] - n
        /\ \A c \in Client : c # d => input'[c] = input[c]
    BY <1>1, <2>2, <2>3 DEF SocketType
  <2>5. /\ whole' \in [Client -> BOOLEAN] /\ \A c \in Client : c # d => whole'[c] = whole[c]
        /\ whole'[d] => whole[d] /\ n = input[d]
    BY <1>1, <2>2 DEF SocketType
  <2>6. SocketType'
    BY <1>1, <2>1, <2>4, <2>5 DEF SocketType
  <2>7. (Trouble \/ Untroubled)'
    BY <2>1 DEF SocketInv, Trouble, Untroubled
  <2>8. ASSUME NEW c \in Client PROVE OneAtATime(c)'
    <3>1. Open(c)' = Open(c)
      BY <2>1 DEF Open
    <3>2. CASE c # d
      BY <1>1, <2>1, <2>4, <2>5, <3>1, <3>2 DEF SocketInv, SocketType, OneAtATime
    <3>3. CASE c = d
      <4>1. thread'[d] = "send" /\ client' = client /\ answers' = answers /\ input[d] \in Nat
        BY <1>1, <2>1 DEF SocketType
      <4>2. OneAtATime(d)
        BY DEF SocketInv
      <4>3. client[d] # "start"
        BY <2>1, <4>2 DEF OneAtATime
      <4>4. ASSUME whole'[d], Open(d), client[d] \in {"prompt", "mute"} PROVE FALSE
        <5>1. n > 0 /\ n <= input[d] /\ input[d] = 0
          BY <2>3, <2>5, <4>2, <4>4 DEF OneAtATime
        <5> QED BY <5>1, <4>1, <2>3
      <4>5. ASSUME whole'[d], Open(d), client[d] = "waiting"
            PROVE  answers[d] = 0 /\ input'[d] = 0
        <5>1. n > 0 /\ n = input[d]
          BY <2>3, <2>5, <4>5
        <5>2. answers[d] = 0
          BY <2>5, <4>2, <4>5, <5>1 DEF OneAtATime
        <5> QED BY <2>3, <2>4, <4>1, <5>1, <5>2
      <4> QED BY <3>1, <3>3, <4>1, <4>3, <4>4, <4>5 DEF OneAtATime
    <3> QED BY <3>2, <3>3
  <2> QED BY <2>6, <2>7, <2>8 DEF SocketInv
<1>3. CASE ThreadSends(d)
  <2>1. UNCHANGED <<path, master, slave, tcp, masterHas, transit, slaveHas, client, input, whole, events>>
        /\ thread[d] = "send" /\ thread' = [thread EXCEPT ![d] = "read"]
    BY <1>3 DEF ThreadSends, AfterAnswer, serverVars
  <2>2. answers' = answers \/ answers' = [answers EXCEPT ![d] = answers[d] + 1]
    BY <1>3 DEF ThreadSends
  <2>3. /\ answers' \in [Client -> Nat] /\ answers'[d] <= answers[d] + 1
        /\ answers[d] \in Nat /\ answers'[d] \in Nat
        /\ \A c \in Client : c # d => answers'[c] = answers[c]
    BY <1>1, <2>2 DEF SocketType
  <2>4. SocketType'
    BY <1>1, <2>1, <2>3 DEF SocketType
  <2>5. (Trouble \/ Untroubled)'
    BY <2>1 DEF SocketInv, Trouble, Untroubled
  <2>6. ASSUME NEW c \in Client PROVE OneAtATime(c)'
    <3>1. Open(c)' = Open(c)
      BY <2>1 DEF Open
    <3>2. CASE c # d
      BY <1>1, <2>1, <2>3, <3>1, <3>2 DEF SocketInv, SocketType, OneAtATime
    <3>3. CASE c = d
      <4>1. thread'[d] = "read" /\ input[d] \in Nat
        BY <1>1, <2>1 DEF SocketType
      <4>2. OneAtATime(d)
        BY DEF SocketInv
      <4>3. /\ client[d] # "start"
            /\ whole[d] /\ Open(d) => client[d] \notin {"prompt", "mute"}
        BY <2>1, <4>2 DEF OneAtATime
      <4>4. ASSUME whole[d], Open(d), client[d] = "waiting"
            PROVE  answers'[d] <= 1 /\ ~(input[d] > 0)
        <5>1. answers[d] = 0 /\ ~(input[d] > 0)
          BY <2>1, <4>2, <4>4 DEF OneAtATime
        <5> QED BY <2>3, <5>1
      <4> QED BY <2>1, <3>1, <3>3, <4>1, <4>3, <4>4 DEF OneAtATime
    <3> QED BY <3>2, <3>3
  <2> QED BY <2>4, <2>5, <2>6 DEF SocketInv
<1>4. CASE SlaveSigpipe(d)
  <2>1. /\ UNCHANGED <<master, client, input, answers, whole, tcp, masterHas, events>>
        /\ client[d] = "gone" /\ transit' = {} /\ slaveHas' = {}
        /\ thread' = [c \in Client |-> "none"]
    BY <1>4 DEF SlaveSigpipe
  <2>2. SocketType'
    BY <1>1, <2>1 DEF SocketType
  <2>3. Trouble'
    BY <2>1 DEF SocketInv, Trouble, Untroubled
  <2>4. ASSUME NEW c \in Client PROVE OneAtATime(c)'
    <3>1. (Open(c)' => Open(c)) /\ thread'[c] = "none"
      BY <2>1 DEF Open
    <3> QED BY <2>1, <3>1, StreamsKept DEF SocketInv
  <2> QED BY <2>2, <2>3, <2>4 DEF SocketInv
<1> QED BY <1>2, <1>3, <1>4 DEF Serve

\* A client's step that leaves the connections and the server alone.
LEMMA ClientStep ==
  ASSUME SocketInv, NEW d \in Client \cup UnixClient, NEW to, SocketType',
         client' = [client EXCEPT ![d] = to],
         UNCHANGED <<path, master, slave, tcp, masterHas, transit, slaveHas, thread, whole>>,
         events \subseteq events',
         to = "gone" => Trouble',
         to # "start" /\ client[d] \in {"start", "prompt", "waiting", "mute"},
         to \in {"prompt", "waiting", "mute"} => client[d] # "start",
         \A c \in Client : c # d => input'[c] = input[c] /\ answers'[c] = answers[c],
         d \in Client => OneAtATime(d)'
  PROVE  SocketInv'
<1>1. SocketType
  BY DEF SocketInv
<1>2. client'[d] = to /\ \A c \in Client \cup UnixClient : c # d => client'[c] = client[c]
  BY <1>1 DEF SocketType
<1>3. (Trouble \/ Untroubled)'
  <2>1. CASE Trouble
    BY <2>1, TroubleStays
  <2>2. CASE Untroubled /\ to # "gone"
    BY <1>2, <2>2 DEF Untroubled
  <2> QED BY <2>1, <2>2 DEF SocketInv
<1>4. ASSUME NEW c \in Client, c # d PROVE OneAtATime(c)'
  <2>1. Open(c)' = Open(c) /\ client'[c] = client[c]
    BY <1>2, <1>4 DEF Open
  <2> QED BY <1>4, <2>1 DEF SocketInv, OneAtATime
<1> QED BY <1>3, <1>4 DEF SocketInv

\* A new connection is pending with the master.
LEMMA ConnectsStep ==
  ASSUME NEW d \in Client \cup UnixClient, SocketInv, Connects(d) PROVE SocketInv'
<1>1. SocketType
  BY DEF SocketInv
<1>2. /\ UNCHANGED <<path, master, slave, thread, input, answers, whole, masterHas, transit,
                     slaveHas, events>>
      /\ client[d] = "start" /\ client' = [client EXCEPT ![d] = "prompt"]
      /\ \/ d \in Client /\ tcp' = Append(tcp, d)
         \/ d \in UnixClient /\ tcp' = tcp
  BY DEF Connects, Goes
<1>3. client'[d] = "prompt" /\ \A c \in Client \cup UnixClient : c # d => client'[c] = client[c]
  BY <1>1, <1>2 DEF SocketType
<1>4. /\ tcp' \in Seq(Client) /\ ToSet(tcp) \subseteq ToSet(tcp') /\ ToSet(tcp') \subseteq ToSet(tcp) \cup {d}
      /\ d \in Client => d \in ToSet(tcp')
  <2>1. CASE d \in Client /\ tcp' = Append(tcp, d)
    <3>1. tcp' \in Seq(Client) /\ ToSet(tcp') = ToSet(tcp) \cup {d}
      BY <1>1, <2>1, AppendFacts, SetOfAppend DEF SocketType
    <3> QED BY <3>1
  <2>2. CASE d \in UnixClient /\ tcp' = tcp
    <3>1. d \notin Client
      BY <2>2, SocketAssumption
    <3> QED BY <1>1, <2>2, <3>1 DEF SocketType
  <2> QED BY <1>2, <2>1, <2>2
<1>5. SocketType'
  BY <1>1, <1>2, <1>4 DEF SocketType
<1>6. (Trouble \/ Untroubled)'
  BY <1>2, <1>3, <1>4 DEF SocketInv, Trouble, Untroubled
<1>7. ASSUME NEW c \in Client PROVE OneAtATime(c)'
  <2>1. CASE c = d
    BY <1>2, <1>3, <2>1 DEF SocketInv, OneAtATime
  <2>2. CASE c # d
    <3>1. (Open(c)' => Open(c)) /\ client'[c] = client[c]
      BY <1>2, <1>3, <1>4, <2>2 DEF Open
    <3> QED BY <1>2, <3>1 DEF SocketInv, OneAtATime
  <2> QED BY <2>1, <2>2
<1> QED BY <1>5, <1>6, <1>7 DEF SocketInv

\* Refused and leaving clients
LEMMA RefusedStep ==
  ASSUME NEW d \in Client \cup UnixClient, SocketInv, Refused(d) PROVE SocketInv'
<1>1. /\ UNCHANGED <<path, master, slave, tcp, masterHas, transit, slaveHas, thread, whole, events,
                     input, answers>>
      /\ client[d] = "start" /\ client' = [client EXCEPT ![d] = "refused"]
  BY DEF Refused, Goes, serverVars
<1>2. SocketType'
  BY <1>1 DEF SocketInv, SocketType
<1>3. client'[d] = "refused"
  BY <1>1 DEF SocketInv, SocketType
<1>4. d \in Client => OneAtATime(d)'
  BY <1>3 DEF OneAtATime
<1>5. PICK to : to = "refused"
  OBVIOUS
<1>6. /\ to \notin {"gone", "start", "prompt", "waiting", "mute"} /\ events \subseteq events'
      /\ client' = [client EXCEPT ![d] = to] /\ client[d] \in {"start", "prompt", "waiting", "mute"}
      /\ \A c \in Client : input'[c] = input[c] /\ answers'[c] = answers[c]
  BY <1>1, <1>5
<1> QED BY <1>1, <1>2, <1>4, <1>6, ClientStep

LEMMA LeavesStep ==
  ASSUME NEW d \in Client \cup UnixClient, SocketInv, Leaves(d) PROVE SocketInv'
<1>1. /\ UNCHANGED <<path, master, slave, tcp, masterHas, transit, slaveHas, thread, whole,
                     input, answers>>
      /\ client[d] \in {"prompt", "waiting", "mute"} /\ client' = [client EXCEPT ![d] = "gone"]
      /\ events' = events \cup {"left"}
  BY DEF Leaves, Goes, serverVars
<1>2. SocketType' /\ Trouble'
  BY <1>1 DEF SocketInv, SocketType, Trouble
<1>3. client'[d] = "gone"
  BY <1>1 DEF SocketInv, SocketType
<1>4. d \in Client => OneAtATime(d)'
  BY <1>3 DEF OneAtATime
<1>5. events \subseteq events' /\ client[d] # "start"
  BY <1>1
<1> QED BY <1>1, <1>2, <1>4, <1>5, ClientStep

\* A message is written; its units can be read if the connection is open.
LEMMA WritesStep ==
  ASSUME NEW d \in Client \cup UnixClient, NEW n \in 0 .. Units, SocketInv, Writes(d, n)
  PROVE  SocketInv'
<1>1. SocketType /\ n \in Nat
  BY SocketAssumption DEF SocketInv
<1>2. PICK to : to = IF n = 0 THEN "mute" ELSE "waiting"
  OBVIOUS
<1>3. /\ UNCHANGED <<path, master, slave, tcp, masterHas, transit, slaveHas, thread, whole, events,
                     answers>>
      /\ client[d] = "prompt" /\ client' = [client EXCEPT ![d] = to]
      /\ input' = IF d \in Client /\ Open(d) THEN [input EXCEPT ![d] = input[d] + n] ELSE input
  BY <1>2 DEF Writes, Goes, serverVars
<1>4. input' \in [Client -> Nat] /\ \A c \in Client : c # d => input'[c] = input[c]
  BY <1>1, <1>3 DEF SocketType
<1>5. client'[d] = to /\ to \in {"mute", "waiting"}
  BY <1>1, <1>2, <1>3 DEF SocketType
<1>6. SocketType'
  BY <1>1, <1>3, <1>4, <1>5 DEF SocketType
<1>7. ASSUME d \in Client PROVE OneAtATime(d)'
  <2>1. Open(d)' = Open(d) /\ OneAtATime(d)
    BY <1>3, <1>7 DEF Open, SocketInv
  <2>2. ASSUME whole[d], Open(d)
        PROVE  input'[d] = n /\ answers[d] = 0 /\ thread[d] # "send"
    <3>1. input[d] = 0 /\ answers[d] = 0 /\ thread[d] # "send"
      BY <1>3, <2>1, <2>2 DEF OneAtATime
    <3>2. input'[d] = input[d] + n
      BY <1>1, <1>3, <1>7, <2>2 DEF SocketType
    <3> QED BY <1>1, <3>1, <3>2
  <2>3. to = "mute" => n = 0
    BY <1>2
  <2> QED BY <1>3, <1>5, <2>1, <2>2, <2>3 DEF OneAtATime
<1>8. \A c \in Client : c # d => input'[c] = input[c] /\ answers'[c] = answers[c]
  BY <1>3, <1>4
<1>9. to # "gone" /\ to # "start" /\ client[d] # "start"
  BY <1>3, <1>5
<1> QED BY <1>3, <1>6, <1>7, <1>8, <1>9, ClientStep

LEMMA WriteFailsStep == ASSUME NEW d \in Client, SocketInv, WriteFails(d) PROVE SocketInv'
<1>1. /\ UNCHANGED <<path, master, slave, tcp, masterHas, transit, slaveHas, thread, whole, events,
                     input, answers>>
      /\ client[d] = "prompt" /\ client' = [client EXCEPT ![d] = "gone"] /\ ~Open(d)
  BY DEF WriteFails, Goes, serverVars
<1>2. SocketType'
  BY <1>1 DEF SocketInv, SocketType
<1>3. Trouble /\ Trouble'
  BY <1>1 DEF SocketInv, Trouble, Untroubled, Open
<1>4. client'[d] = "gone"
  BY <1>1 DEF SocketInv, SocketType
<1>5. OneAtATime(d)'
  BY <1>4 DEF OneAtATime
<1> QED BY <1>1, <1>2, <1>3, <1>5, ClientStep

\* A client reads the one answer there is, or all of several, or the end of the
\* connection.
LEMMA ReadsAnswerStep == ASSUME NEW d \in Client, SocketInv, ReadsAnswer(d) PROVE SocketInv'
<1>1. SocketType /\ OneAtATime(d)
  BY DEF SocketInv
<1>2. /\ UNCHANGED <<path, master, slave, tcp, masterHas, transit, slaveHas, thread, whole, events,
                     input>>
      /\ client[d] \in {"waiting", "mute"} /\ client' = [client EXCEPT ![d] = "prompt"]
  BY DEF ReadsAnswer, Goes, serverVars
<1>3. PICK n \in 1 .. answers[d] : answers' = [answers EXCEPT ![d] = answers[d] - n]
  BY DEF ReadsAnswer
<1>4. /\ answers[d] \in Nat /\ answers' \in [Client -> Nat] /\ answers'[d] = answers[d] - n
      /\ \A c \in Client : c # d => answers'[c] = answers[c]
  BY <1>1, <1>3 DEF SocketType
<1>5. SocketType' /\ client'[d] = "prompt"
  BY <1>1, <1>2, <1>4 DEF SocketType
<1>6. OneAtATime(d)'
  <2>1. Open(d)' = Open(d)
    BY <1>2 DEF Open
  <2>2. ASSUME whole[d], Open(d) PROVE input[d] = 0 /\ answers'[d] = 0 /\ thread[d] # "send"
    <3>1. answers[d] # 0
      BY <1>3, <1>4
    <3>2. client[d] = "waiting"
      BY <1>1, <1>2, <2>2, <3>1 DEF OneAtATime
    <3>3. answers[d] <= 1 /\ ~(input[d] > 0) /\ thread[d] # "send"
      BY <1>1, <2>2, <3>1, <3>2 DEF OneAtATime
    <3>4. answers'[d] = 0
      BY <1>3, <1>4, <3>3
    <3>5. input[d] = 0
      BY <1>1, <3>3 DEF SocketType
    <3> QED BY <3>3, <3>4, <3>5
  <2> QED BY <1>2, <1>5, <2>1, <2>2 DEF OneAtATime
<1> QED BY <1>2, <1>4, <1>5, <1>6, ClientStep

LEMMA ReadsEndStep == ASSUME NEW d \in Client, SocketInv, ReadsEnd(d) PROVE SocketInv'
<1>1. /\ UNCHANGED <<path, master, slave, tcp, masterHas, transit, slaveHas, thread, whole, events,
                     input, answers>>
      /\ client[d] \in {"waiting", "mute"} /\ client' = [client EXCEPT ![d] = "prompt"] /\ ~Open(d)
  BY DEF ReadsEnd, Goes, serverVars
<1>2. SocketType' /\ client'[d] = "prompt"
  BY <1>1 DEF SocketInv, SocketType
<1>3. ~Open(d)'
  BY <1>1 DEF Open
<1>4. OneAtATime(d)'
  BY <1>2, <1>3 DEF OneAtATime
<1> QED BY <1>1, <1>2, <1>4, ClientStep

LEMMA SocketStep == SocketInv /\ [SocketNext]_socketVars => SocketInv'
<1> SUFFICES ASSUME SocketInv, [SocketNext]_socketVars PROVE SocketInv'
  OBVIOUS
<1>1. CASE UNCHANGED socketVars
  BY <1>1 DEF socketVars, serverVars, streamVars, SocketInv, SocketType, Trouble, Untroubled,
              OneAtATime, Open
<1>2. CASE SocketNext
  BY <1>2, MasterStep, SlaveStep, ServeStep, ConnectsStep, RefusedStep, LeavesStep, WritesStep,
     WriteFailsStep, ReadsAnswerStep, ReadsEndStep DEF SocketNext
<1> QED BY <1>1, <1>2

\* As long as nothing has happened that can end it, the server runs with every
\* connection in the hands of the master, and each stream holds one message or
\* one answer.
THEOREM SocketInductive == SocketSpec => []SocketInv
  BY InitSockets, SocketStep, PTL DEF SocketSpec

\* The server comes down only after a client has left, a limit on descriptors,
\* a socket file left over or a client that was too early, for any number of
\* clients, sizes of messages and pending connections.
THEOREM ServerAlwaysStays == SocketSpec => []ServerStays
<1>1. SocketInv => ServerStays
  BY DEF SocketInv, Trouble, Untroubled, ServerStays
<1> QED BY <1>1, SocketInductive, PTL

\* A client at its prompt has no answer to an earlier message coming.
THEOREM AlwaysLockStep == SocketSpec => []LockStep
<1>1. SocketInv => LockStep
  BY DEF SocketInv, OneAtATime, LockStep
<1> QED BY <1>1, SocketInductive, PTL

----------------------------------------------------------------------------
(* Executor                                                                *)

ExecutorType ==
  /\ queues_ \in [Vcores -> [Priorities -> Seq(AllTasks)]]
  /\ pc \in [Vcores -> {"unstarted", "check", "first", "rest", "run", "exited"}]
  /\ tried \in [Vcores -> Priorities]
  /\ shutdown_ \in [Vcores -> BOOLEAN]
  /\ task \in [Vcores -> AllTasks \cup {NoTask}]
  /\ caller \in [at : {"start", "running", "join", "next", "returned", "terminated"}, vcore : Vcores]
  /\ pending \subseteq Task
  /\ ahead \in [Vcores -> SUBSET Task]
  /\ backlog \in [Vcores -> SUBSET Priorities]

\* Only the thread of e takes from its queues, so what had work when a round
\* began has work until the round takes from it.
BacklogWaits(e) ==
  /\ pc[e] \in {"first", "rest"} => \A q \in backlog[e] : HasWork(e, q)
  /\ pc[e] = "rest" => \A q \in backlog[e] : q <= tried[e]

\* t is being run, or in its queue
Running(e, t) == pc[e] = "run" /\ task[e] = t
Queued(e, q, t) == \E i \in DOMAIN queues_[e][q] : queues_[e][q][i] = t

\* A task that is pending is being run or in its queue.
PendingSomewhere ==
  \A t \in pending : Running(Vcore[t], t) \/ Queued(Vcore[t], Priority[t], t)

\* Shutdown has not come to e.
NotShutYet(e) ==
  /\ ~shutdown_[e] /\ ahead[e] = {} /\ ~Running(e, ShutdownTask)
  /\ \A q \in Priorities : ~Queued(e, q, ShutdownTask)

CallerInOrder ==
  /\ caller.at = "start" => \A e \in Vcores : pc[e] = "unstarted"
  /\ caller.at \in {"start", "running"} => caller.vcore = 0
  /\ \A e \in Vcores :
       caller.vcore < e \/ (caller.vcore = e /\ caller.at \in {"start", "running", "next"})
         => NotShutYet(e)

\* t is in the kHigh queue of e, and no task of Shutdown is before it
InFront(e, t) ==
  \E j \in DOMAIN queues_[e][kHigh] :
    /\ queues_[e][kHigh][j] = t
    /\ \A i \in 1 .. j : queues_[e][kHigh][i] # ShutdownTask

\* The tasks the caller of Shutdown submitted before are run before its task is.
AheadFirst(e) ==
  /\ \A q \in Priorities : Queued(e, q, ShutdownTask) => q = kHigh
  /\ \A t \in ahead[e] : Owner[t] = Main /\ Vcore[t] = e /\ Priority[t] = kHigh
  /\ ahead[e] \cap pending # {} => ~shutdown_[e] /\ ~Running(e, ShutdownTask)
  /\ \A t \in ahead[e] \cap pending : Running(e, t) \/ InFront(e, t)
  /\ pc[e] = "exited" => shutdown_[e]

RoundInv == ExecutorType /\ \A e \in Vcores : BacklogWaits(e)

ExecutorInv ==
  /\ ExecutorType /\ PendingSomewhere /\ CallerInOrder
  /\ \A e \in Vcores : AheadFirst(e)

LEMMA PrioritiesFacts ==
  /\ Priorities = {1, 2, 3, 4} /\ kHigh \in Priorities /\ Priorities \subseteq Nat
  /\ \A q \in Priorities : q <= kHigh
  BY DEF Priorities, kLowest, kHigh

\* What an enqueue and a dequeue do to the queues.
LEMMA AddFacts ==
  ASSUME ExecutorType, NEW e \in Vcores, NEW q \in Priorities, NEW t \in AllTasks, Add(e, q, t)
  PROVE  /\ queues_' \in [Vcores -> [Priorities -> Seq(AllTasks)]]
         /\ queues_'[e][q] = Append(queues_[e][q], t)
         /\ \A f \in Vcores, r \in Priorities : f # e \/ r # q => queues_'[f][r] = queues_[f][r]
         /\ \A f \in Vcores, r \in Priorities : HasWork(f, r) => queues_'[f][r] # << >>
<1>1. queues_ \in [Vcores -> [Priorities -> Seq(AllTasks)]]
  BY DEF ExecutorType
<1>2. queues_[e] \in [Priorities -> Seq(AllTasks)] /\ queues_[e][q] \in Seq(AllTasks)
  BY <1>1
<1> DEFINE longer == Append(queues_[e][q], t)
<1>3. longer \in Seq(AllTasks) /\ longer # << >>
  BY <1>2
<1> HIDE DEF longer
<1> DEFINE row == [queues_[e] EXCEPT ![q] = longer]
<1>4. row \in [Priorities -> Seq(AllTasks)] /\ row[q] = longer
      /\ \A r \in Priorities : r # q => row[r] = queues_[e][r]
  BY <1>2, <1>3
<1>5. queues_' = [queues_ EXCEPT ![e] = row]
  BY DEF Add, longer
<1> HIDE DEF row
<1>6. queues_' \in [Vcores -> [Priorities -> Seq(AllTasks)]] /\ queues_'[e] = row
      /\ \A f \in Vcores : f # e => queues_'[f] = queues_[f]
  BY <1>1, <1>4, <1>5
<1>7. \A f \in Vcores, r \in Priorities : f # e \/ r # q => queues_'[f][r] = queues_[f][r]
  BY <1>4, <1>6
<1>8. queues_'[e][q] = longer
  BY <1>4, <1>6
<1>9. \A f \in Vcores, r \in Priorities : HasWork(f, r) => queues_'[f][r] # << >>
  BY <1>3, <1>7, <1>8 DEF HasWork
<1> QED BY <1>6, <1>7, <1>8, <1>9 DEF longer

LEMMA DequeueFacts ==
  ASSUME ExecutorType, NEW e \in Vcores, Dequeue(e)
  PROVE  LET q == tried[e] IN
         /\ q \in Priorities /\ queues_[e][q] \in Seq(AllTasks) /\ queues_[e][q] # << >>
         /\ queues_' \in [Vcores -> [Priorities -> Seq(AllTasks)]]
         /\ queues_'[e][q] = Tail(queues_[e][q])
         /\ \A f \in Vcores, r \in Priorities : f # e \/ r # q => queues_'[f][r] = queues_[f][r]
         /\ task' = [task EXCEPT ![e] = Head(queues_[e][q])] /\ Head(queues_[e][q]) \in AllTasks
<1> DEFINE q == tried[e]
<1>1. queues_ \in [Vcores -> [Priorities -> Seq(AllTasks)]] /\ q \in Priorities
  BY DEF ExecutorType
<1>2. /\ queues_[e] \in [Priorities -> Seq(AllTasks)] /\ queues_[e][q] \in Seq(AllTasks)
      /\ queues_[e][q] # << >>
  BY <1>1 DEF Dequeue, HasWork
<1> DEFINE shorter == Tail(queues_[e][q])
<1>3. shorter \in Seq(AllTasks) /\ Head(queues_[e][q]) \in AllTasks
  BY <1>2
<1> HIDE DEF shorter
<1> DEFINE row == [queues_[e] EXCEPT ![q] = shorter]
<1>4. row \in [Priorities -> Seq(AllTasks)] /\ row[q] = shorter
      /\ \A r \in Priorities : r # q => row[r] = queues_[e][r]
  BY <1>1, <1>2, <1>3
<1>5. queues_' = [queues_ EXCEPT ![e] = row] /\ task' = [task EXCEPT ![e] = Head(queues_[e][q])]
  BY DEF Dequeue, shorter
<1> HIDE DEF row
<1>6. queues_' \in [Vcores -> [Priorities -> Seq(AllTasks)]] /\ queues_'[e] = row
      /\ \A f \in Vcores : f # e => queues_'[f] = queues_[f]
  BY <1>1, <1>4, <1>5
<1>7. \A f \in Vcores, r \in Priorities : f # e \/ r # q => queues_'[f][r] = queues_[f][r]
  BY <1>4, <1>6
<1>8. queues_'[e][q] = shorter
  BY <1>4, <1>6
<1> QED BY <1>1, <1>2, <1>3, <1>5, <1>6, <1>7, <1>8 DEF shorter

LEMMA ExecutorTypeInit == Init => ExecutorType
<1> SUFFICES ASSUME Init PROVE ExecutorType
  OBVIOUS
<1>1. << >> \in Seq(AllTasks) /\ 0 \in Vcores
  BY VcoreAssumption DEF Vcores
<1> QED BY <1>1, PrioritiesFacts DEF Init, ExecutorType

LEMMA ExecutorTypeStep == ExecutorType /\ [Next]_vars => ExecutorType'
<1> SUFFICES ASSUME ExecutorType, [Next]_vars PROVE ExecutorType'
  OBVIOUS
<1> USE VcoreAssumption
<1>1. CASE UNCHANGED vars
  BY <1>1 DEF vars, ExecutorType
<1>2. ASSUME NEW t \in Task, AddCPUTask(t) PROVE ExecutorType'
  <2>1. queues_' \in [Vcores -> [Priorities -> Seq(AllTasks)]]
    BY <1>2, AddFacts, TasksAssumption DEF AddCPUTask, AllTasks
  <2> QED BY <1>2, <2>1 DEF AddCPUTask, VcoreState, ExecutorType
<1>3. CASE Start
  <2>1. 0 \in Vcores
    BY DEF Vcores
  <2> QED BY <1>3, <2>1 DEF Start, ExecutorType
<1>4. CASE Shutdown
  <2>1. caller.vcore \in Vcores /\ ShutdownTask \in AllTasks
    BY DEF ExecutorType, AllTasks
  <2>2. queues_' \in [Vcores -> [Priorities -> Seq(AllTasks)]]
    BY <1>4, <2>1, AddFacts, PrioritiesFacts DEF Shutdown, ShutdownPriority
  <2>3. ahead' \in [Vcores -> SUBSET Task]
    BY <1>4, <2>1 DEF Shutdown, ExecutorType
  <2>4. caller' \in [at : {"start", "running", "join", "next", "returned", "terminated"}, vcore : Vcores]
    BY <1>4 DEF Shutdown, ExecutorType
  <2> QED BY <1>4, <2>2, <2>3, <2>4 DEF Shutdown, VcoreState, ExecutorType
<1>5. CASE Join
  <2>1. caller' \in [at : {"start", "running", "join", "next", "returned", "terminated"}, vcore : Vcores]
    <3>1. caller.vcore \in Vcores /\ caller.vcore \in Nat /\ caller.vcore < count_vcore
      BY DEF ExecutorType, Vcores
    <3>2. caller.vcore + 1 # count_vcore => caller.vcore + 1 \in Vcores
      BY <3>1 DEF Vcores
    <3>3. CASE caller.vcore + 1 = count_vcore
      BY <1>5, <3>3 DEF Join, ExecutorType
    <3>4. CASE caller.vcore + 1 # count_vcore
      BY <1>5, <3>2, <3>4 DEF Join
    <3> QED BY <3>3, <3>4
  <2> QED BY <1>5, <2>1 DEF Join, VcoreState, ExecutorType
<1>6. ASSUME NEW e \in Vcores, Execute(e) PROVE ExecutorType'
  <2>1. CASE CheckShutdown(e)
    BY <2>1 DEF CheckShutdown, Goto, ExecutorType
  <2>2. CASE BeginRound(e)
    <3>1. RoundPriority(counter_[e]) \in Priorities
      BY PrioritiesFacts DEF RoundPriority, kLowest, kLow, kMedium, kHigh
    <3>2. {q \in Priorities : HasWork(e, q)} \in SUBSET Priorities
      OBVIOUS
    <3> QED BY <2>2, <3>1, <3>2 DEF BeginRound, Goto, ExecutorType
  <2>3. CASE Dequeue(e)
    BY <2>3, DequeueFacts DEF Dequeue, ExecutorType
  <2>4. CASE DequeueFails(e)
    <3>1. tried[e] \in Priorities
      BY DEF ExecutorType
    <3>2. ~LastTried(e) => NextTried(e) \in Priorities
      BY <3>1, PrioritiesFacts DEF LastTried, NextTried, Priorities, kLowest, kHigh
    <3>3. CASE LastTried(e)
      <4>1. /\ UNCHANGED <<queues_, counter_, shutdown_, task, caller, pending, ahead>>
            /\ pc' = [pc EXCEPT ![e] = "check"] /\ tried' = [tried EXCEPT ![e] = kHigh]
            /\ backlog' = [backlog EXCEPT ![e] = {}]
        BY <2>4, <3>3 DEF DequeueFails
      <4>2. backlog' \in [Vcores -> SUBSET Priorities]
        BY <4>1 DEF ExecutorType
      <4> QED BY <4>1, <4>2, PrioritiesFacts DEF ExecutorType
    <3>4. CASE ~LastTried(e)
      <4>1. /\ UNCHANGED <<queues_, counter_, shutdown_, task, caller, pending, ahead, backlog>>
            /\ pc' = [pc EXCEPT ![e] = "rest"] /\ tried' = [tried EXCEPT ![e] = NextTried(e)]
        BY <2>4, <3>4 DEF DequeueFails
      <4> QED BY <3>2, <3>4, <4>1 DEF ExecutorType
    <3> QED BY <3>3, <3>4
  <2>5. CASE RunTask(e)
    BY <2>5, PrioritiesFacts DEF RunTask, Goto, ExecutorType
  <2> QED BY <1>6, <2>1, <2>2, <2>3, <2>4, <2>5 DEF Execute
<1>7. CASE Finished
  BY <1>7 DEF Finished, vars, ExecutorType
<1>8. CASE StartFails
  <2>1. 0 \in Vcores
    BY DEF Vcores
  <2> QED BY <1>8, <2>1 DEF StartFails, VcoreState, ExecutorType
<1> QED BY <1>1, <1>2, <1>3, <1>4, <1>5, <1>6, <1>7, <1>8 DEF Next

LEMMA RoundStep == RoundInv /\ [Next]_vars => RoundInv'
<1> SUFFICES ASSUME RoundInv, [Next]_vars, NEW f \in Vcores PROVE BacklogWaits(f)'
  BY ExecutorTypeStep DEF RoundInv
<1>1. ExecutorType /\ ExecutorType' /\ BacklogWaits(f)
  BY ExecutorTypeStep DEF RoundInv
<1>2. ASSUME pc'[f] = pc[f], tried'[f] = tried[f], backlog'[f] = backlog[f],
             \A q \in Priorities : HasWork(f, q) => queues_'[f][q] # << >>
      PROVE  BacklogWaits(f)'
  <2>1. backlog[f] \subseteq Priorities
    BY <1>1 DEF ExecutorType
  <2> QED BY <1>1, <1>2, <2>1 DEF BacklogWaits, HasWork
<1>3. CASE UNCHANGED vars
  BY <1>2, <1>3 DEF vars, HasWork
<1>4. ASSUME NEW t \in Task, AddCPUTask(t) PROVE BacklogWaits(f)'
  <2>1. \A q \in Priorities : HasWork(f, q) => queues_'[f][q] # << >>
    BY <1>1, <1>4, AddFacts, TasksAssumption DEF AddCPUTask, AllTasks
  <2> QED BY <1>2, <1>4, <2>1 DEF AddCPUTask, VcoreState
<1>5. CASE Start
  BY <1>5 DEF Start, BacklogWaits
<1>6. CASE Shutdown
  <2>1. caller.vcore \in Vcores /\ ShutdownTask \in AllTasks
    BY <1>1 DEF ExecutorType, AllTasks
  <2>2. \A q \in Priorities : HasWork(f, q) => queues_'[f][q] # << >>
    BY <1>1, <1>6, <2>1, AddFacts, PrioritiesFacts DEF Shutdown, ShutdownPriority
  <2> QED BY <1>2, <1>6, <2>2 DEF Shutdown, VcoreState
<1>7. CASE Join
  BY <1>2, <1>7 DEF Join, VcoreState, HasWork
<1>8. ASSUME NEW e \in Vcores, e # f, Execute(e) PROVE BacklogWaits(f)'
  <2>1. pc'[f] = pc[f] /\ tried'[f] = tried[f] /\ backlog'[f] = backlog[f]
    BY <1>1, <1>8 DEF Execute, CheckShutdown, BeginRound, Dequeue, DequeueFails, RunTask, Goto,
                      ExecutorType
  <2>2. \A q \in Priorities : queues_'[f][q] = queues_[f][q]
    <3>1. CASE Dequeue(e)
      BY <1>1, <1>8, <3>1, DequeueFacts
    <3>2. CASE ~Dequeue(e)
      BY <1>8, <3>2 DEF Execute, CheckShutdown, BeginRound, DequeueFails, RunTask
    <3> QED BY <3>1, <3>2
  <2> QED BY <1>2, <2>1, <2>2 DEF HasWork
<1>9. CASE CheckShutdown(f) \/ RunTask(f)
  <2>1. pc'[f] \in {"exited", "check"}
    BY <1>1, <1>9 DEF CheckShutdown, RunTask, Goto, ExecutorType
  <2> QED BY <2>1 DEF BacklogWaits
<1>10. CASE BeginRound(f)
  <2>1. pc'[f] = "first" /\ backlog'[f] = {q \in Priorities : HasWork(f, q)} /\ queues_' = queues_
    BY <1>1, <1>10 DEF BeginRound, Goto, ExecutorType
  <2> QED BY <2>1 DEF BacklogWaits, HasWork
<1>11. CASE Dequeue(f)
  <2>1. pc'[f] = "run"
    BY <1>1, <1>11 DEF Dequeue, ExecutorType
  <2> QED BY <2>1 DEF BacklogWaits
<1>12. CASE DequeueFails(f)
  <2>1. queues_' = queues_ /\ pc[f] \in {"first", "rest"} /\ ~HasWork(f, tried[f])
    BY <1>12 DEF DequeueFails
  <2>2. tried[f] \in Nat /\ backlog[f] \subseteq Priorities
    BY <1>1, PrioritiesFacts DEF ExecutorType
  <2>3. CASE LastTried(f)
    BY <1>1, <1>12, <2>3 DEF DequeueFails, ExecutorType, BacklogWaits
  <2>4. CASE ~LastTried(f)
    <3>1. pc'[f] = "rest" /\ tried'[f] = NextTried(f) /\ backlog' = backlog
      BY <1>1, <1>12, <2>4 DEF DequeueFails, ExecutorType
    <3>2. \A q \in backlog[f] : HasWork(f, q) /\ q # tried[f]
      BY <1>1, <2>1 DEF BacklogWaits
    <3>3. \A q \in backlog[f] : q <= NextTried(f)
      <4>1. CASE pc[f] = "first"
        BY <2>2, <4>1, PrioritiesFacts DEF NextTried
      <4>2. CASE pc[f] = "rest"
        <5>1. \A q \in backlog[f] : q <= tried[f] /\ q # tried[f] /\ q \in Nat
          BY <1>1, <2>2, <3>2, <4>2, PrioritiesFacts DEF BacklogWaits
        <5>2. NextTried(f) = tried[f] - 1
          BY <4>2 DEF NextTried
        <5> QED BY <2>2, <5>1, <5>2
      <4> QED BY <2>1, <4>1, <4>2
    <3> QED BY <2>1, <3>1, <3>2, <3>3 DEF BacklogWaits, HasWork
  <2> QED BY <2>3, <2>4
<1>13. CASE Finished
  BY <1>2, <1>13 DEF Finished, vars, HasWork
<1>14. CASE StartFails
  BY <1>2, <1>14 DEF StartFails, VcoreState, HasWork
<1> QED BY <1>3, <1>4, <1>5, <1>6, <1>7, <1>8, <1>9, <1>10, <1>11, <1>12, <1>13, <1>14
     DEF Next, Execute

\* Work a round has found when it began waits until the round takes it.
THEOREM RoundInductive == Spec => []RoundInv
<1>1. Init => RoundInv
  BY ExecutorTypeInit DEF Init, RoundInv, BacklogWaits
<1> QED BY <1>1, RoundStep, PTL DEF Spec

\* A round that falls back runs nothing while a higher queue has had work since
\* the round began, with any number of tasks and vcores.
THEOREM AlwaysMostUrgentFirst == Spec => MostUrgentFirst
<1>1. ASSUME RoundInv, NEW e \in Vcores, pc[e] = "rest", NEW q \in backlog[e]
      PROVE  ~(q > tried[e])
  <2>1. q \in Nat /\ tried[e] \in Nat /\ q <= tried[e]
    BY <1>1, PrioritiesFacts DEF RoundInv, ExecutorType, BacklogWaits
  <2> QED BY <2>1
<1>2. RoundInv =>
        [\A e \in Vcores :
           pc[e] = "rest" /\ pc'[e] = "run" =>
             \A q \in backlog[e] : q > tried[e] => ~HasWork(e, q)]_vars
  BY <1>1
<1> QED BY <1>2, RoundInductive, PTL DEF MostUrgentFirst

----------------------------------------------------------------------------

LEMMA QueuedAfterAdd ==
  ASSUME ExecutorType, NEW e \in Vcores, NEW q \in Priorities, NEW t \in AllTasks, Add(e, q, t)
  PROVE  /\ Queued(e, q, t)'
         /\ \A f \in Vcores, r \in Priorities : \A x :
              /\ Queued(f, r, x) => Queued(f, r, x)'
              /\ Queued(f, r, x)' => Queued(f, r, x) \/ (f = e /\ r = q /\ x = t)
         /\ \A f \in Vcores : \A x : InFront(f, x) => InFront(f, x)'
<1>1. queues_[e][q] \in Seq(AllTasks)
  BY DEF ExecutorType
<1>2. /\ queues_'[e][q] = Append(queues_[e][q], t)
      /\ \A f \in Vcores, r \in Priorities : f # e \/ r # q => queues_'[f][r] = queues_[f][r]
  BY AddFacts
<1>3. /\ Len(queues_[e][q]) \in Nat /\ DOMAIN queues_[e][q] = 1 .. Len(queues_[e][q])
      /\ DOMAIN queues_'[e][q] = 1 .. Len(queues_[e][q]) + 1
      /\ queues_'[e][q][Len(queues_[e][q]) + 1] = t
      /\ \A i \in 1 .. Len(queues_[e][q]) : queues_'[e][q][i] = queues_[e][q][i]
  BY <1>1, <1>2, AppendFacts
<1>4. Queued(e, q, t)'
  <2>1. Len(queues_[e][q]) + 1 \in DOMAIN queues_'[e][q]
    BY <1>3
  <2> QED BY <1>3, <2>1 DEF Queued
<1>5. ASSUME NEW f \in Vcores, NEW r \in Priorities, NEW x, Queued(f, r, x) PROVE Queued(f, r, x)'
  <2>1. CASE f = e /\ r = q
    <3>1. PICK i \in 1 .. Len(queues_[e][q]) : queues_[e][q][i] = x
      BY <1>3, <1>5, <2>1 DEF Queued
    <3>2. i \in DOMAIN queues_'[e][q] /\ queues_'[e][q][i] = x
      BY <1>3, <3>1
    <3> QED BY <2>1, <3>2 DEF Queued
  <2>2. CASE ~(f = e /\ r = q)
    BY <1>2, <1>5, <2>2 DEF Queued
  <2> QED BY <2>1, <2>2
<1>6. ASSUME NEW f \in Vcores, NEW r \in Priorities, NEW x, Queued(f, r, x)'
      PROVE  Queued(f, r, x) \/ (f = e /\ r = q /\ x = t)
  <2>1. CASE f = e /\ r = q
    <3>1. PICK i \in 1 .. Len(queues_[e][q]) + 1 : queues_'[e][q][i] = x
      BY <1>3, <1>6, <2>1 DEF Queued
    <3>2. i = Len(queues_[e][q]) + 1 \/ i \in 1 .. Len(queues_[e][q])
      BY <1>3, <3>1
    <3> QED BY <1>3, <2>1, <3>1, <3>2 DEF Queued
  <2>2. CASE ~(f = e /\ r = q)
    BY <1>2, <1>6, <2>2 DEF Queued
  <2> QED BY <2>1, <2>2
<1>7. ASSUME NEW f \in Vcores, NEW x, InFront(f, x) PROVE InFront(f, x)'
  <2>1. CASE f = e /\ kHigh = q
    <3>1. PICK j \in 1 .. Len(queues_[e][q]) :
            queues_[e][q][j] = x /\ \A i \in 1 .. j : queues_[e][q][i] # ShutdownTask
      BY <1>3, <1>7, <2>1 DEF InFront
    <3>2. j \in DOMAIN queues_'[e][q] /\ \A i \in 1 .. j : queues_'[e][q][i] = queues_[e][q][i]
      BY <1>3, <3>1
    <3>3. j \in 1 .. j
      BY <1>3, <3>1
    <3> QED BY <2>1, <3>1, <3>2, <3>3 DEF InFront
  <2>2. CASE ~(f = e /\ kHigh = q)
    BY <1>2, <1>7, <2>2, PrioritiesFacts DEF InFront
  <2> QED BY <2>1, <2>2
<1> QED BY <1>4, <1>5, <1>6, <1>7

LEMMA QueuedAfterDequeue ==
  ASSUME ExecutorType, NEW e \in Vcores, Dequeue(e)
  PROVE  /\ Queued(e, tried[e], Head(queues_[e][tried[e]]))
         /\ \A f \in Vcores, r \in Priorities : \A x :
              /\ Queued(f, r, x)' => Queued(f, r, x)
              /\ Queued(f, r, x) =>
                   \/ Queued(f, r, x)'
                   \/ (f = e /\ r = tried[e] /\ x = Head(queues_[e][tried[e]]))
         /\ \A f \in Vcores : \A x :
              InFront(f, x) =>
                \/ InFront(f, x)'
                \/ (f = e /\ x = Head(queues_[e][tried[e]]))
         /\ \A x : InFront(e, x) /\ tried[e] = kHigh => Head(queues_[e][tried[e]]) # ShutdownTask
<1>1. PICK q, s, h : q = tried[e] /\ s = queues_[e][q] /\ h = Head(s)
  OBVIOUS
<1>2. /\ q \in Priorities /\ s \in Seq(AllTasks) /\ s # << >> /\ queues_'[e][q] = Tail(s)
      /\ \A f \in Vcores, r \in Priorities : f # e \/ r # q => queues_'[f][r] = queues_[f][r]
  BY <1>1, DequeueFacts
<1>3. /\ Len(s) \in Nat /\ Len(s) >= 1 /\ DOMAIN s = 1 .. Len(s) /\ h = s[1]
      /\ DOMAIN queues_'[e][q] = 1 .. Len(s) - 1
      /\ \A i \in 1 .. Len(s) - 1 : queues_'[e][q][i] = s[i + 1]
  BY <1>1, <1>2
<1>4. Queued(e, q, h)
  <2>1. 1 \in DOMAIN s
    BY <1>3
  <2> QED BY <1>1, <1>3, <2>1 DEF Queued
<1>5. ASSUME NEW f \in Vcores, NEW r \in Priorities, NEW x, Queued(f, r, x)' PROVE Queued(f, r, x)
  <2>1. CASE f = e /\ r = q
    <3>1. PICK i \in 1 .. Len(s) - 1 : queues_'[e][q][i] = x
      BY <1>3, <1>5, <2>1 DEF Queued
    <3>2. i + 1 \in DOMAIN s /\ s[i + 1] = x
      BY <1>3, <3>1
    <3> QED BY <1>1, <2>1, <3>2 DEF Queued
  <2>2. CASE ~(f = e /\ r = q)
    BY <1>2, <1>5, <2>2 DEF Queued
  <2> QED BY <2>1, <2>2
<1>6. ASSUME NEW f \in Vcores, NEW r \in Priorities, NEW x, Queued(f, r, x)
      PROVE  Queued(f, r, x)' \/ (f = e /\ r = q /\ x = h)
  <2>1. CASE f = e /\ r = q
    <3>1. PICK i \in 1 .. Len(s) : s[i] = x
      BY <1>1, <1>3, <1>6, <2>1 DEF Queued
    <3>2. CASE i = 1
      BY <1>3, <2>1, <3>1, <3>2
    <3>3. CASE i # 1
      <4>1. i - 1 \in DOMAIN queues_'[e][q] /\ queues_'[e][q][i - 1] = x
        BY <1>3, <3>1, <3>3
      <4> QED BY <2>1, <4>1 DEF Queued
    <3> QED BY <3>2, <3>3
  <2>2. CASE ~(f = e /\ r = q)
    BY <1>2, <1>6, <2>2 DEF Queued
  <2> QED BY <2>1, <2>2
<1>7. ASSUME NEW f \in Vcores, NEW x, InFront(f, x)
      PROVE  /\ InFront(f, x)' \/ (f = e /\ x = h)
             /\ f = e /\ q = kHigh => h # ShutdownTask
  <2>1. CASE f = e /\ kHigh = q
    <3>1. PICK j \in 1 .. Len(s) : s[j] = x /\ \A i \in 1 .. j : s[i] # ShutdownTask
      BY <1>1, <1>3, <1>7, <2>1 DEF InFront
    <3>2. h # ShutdownTask
      <4>1. 1 \in 1 .. j
        BY <1>3, <3>1
      <4> QED BY <1>3, <3>1, <4>1
    <3>3. CASE j = 1
      BY <1>3, <2>1, <3>1, <3>2, <3>3
    <3>4. CASE j # 1
      <4>1. j - 1 \in DOMAIN queues_'[e][q] /\ queues_'[e][q][j - 1] = x
        BY <1>3, <3>1, <3>4
      <4>2. ASSUME NEW i \in 1 .. j - 1 PROVE queues_'[e][q][i] # ShutdownTask
        <5>1. i \in 1 .. Len(s) - 1 /\ i + 1 \in 1 .. j
          BY <1>3, <3>1
        <5> QED BY <1>3, <3>1, <5>1
      <4> QED BY <2>1, <3>2, <4>1, <4>2 DEF InFront
    <3> QED BY <3>3, <3>4
  <2>2. CASE ~(f = e /\ kHigh = q)
    BY <1>2, <1>7, <2>2, PrioritiesFacts DEF InFront
  <2> QED BY <2>1, <2>2
<1> QED BY <1>1, <1>4, <1>5, <1>6, <1>7

\* AddCPUTask: Main does not submit once it has begun to shut down.
LEMMA AddCPUTaskStep ==
  ASSUME ExecutorInv, ExecutorType', NEW t \in Task, AddCPUTask(t) PROVE ExecutorInv'
<1>1. ExecutorType /\ PendingSomewhere /\ CallerInOrder
  BY DEF ExecutorInv
<1>2. PICK d, p : d = Vcore[t] /\ p = Priority[t]
  OBVIOUS
<1>3. d \in Vcores /\ p \in Priorities /\ t \in AllTasks /\ t # ShutdownTask /\ Add(d, p, t)
  BY <1>2, TasksAssumption DEF AddCPUTask, AllTasks
<1>4. UNCHANGED <<shutdown_, pc, task, caller, ahead>> /\ pending' = pending \cup {t}
  BY DEF AddCPUTask, VcoreState
<1>5. /\ Queued(d, p, t)'
      /\ \A f \in Vcores, r \in Priorities : \A x :
           /\ Queued(f, r, x) => Queued(f, r, x)'
           /\ Queued(f, r, x)' => Queued(f, r, x) \/ (f = d /\ r = p /\ x = t)
      /\ \A f \in Vcores : \A x : InFront(f, x) => InFront(f, x)'
  BY <1>1, <1>3, QueuedAfterAdd
<1>6. PendingSomewhere'
  <2> SUFFICES ASSUME NEW x \in pending'
               PROVE  Running(Vcore[x], x)' \/ Queued(Vcore[x], Priority[x], x)'
    BY DEF PendingSomewhere
  <2>1. CASE x = t
    BY <1>2, <1>5, <2>1
  <2>2. CASE x \in pending
    <3>1. Vcore[x] \in Vcores /\ Priority[x] \in Priorities
      BY <1>1, <2>2, TasksAssumption DEF ExecutorType
    <3> QED BY <1>1, <1>4, <1>5, <2>2, <3>1 DEF PendingSomewhere, Running
  <2> QED BY <1>4, <2>1, <2>2
<1>7. ASSUME NEW f \in Vcores, NotShutYet(f) PROVE NotShutYet(f)'
  BY <1>3, <1>4, <1>5, <1>7 DEF NotShutYet, Running
<1>8. CallerInOrder'
  BY <1>1, <1>4, <1>7 DEF CallerInOrder
<1>9. ASSUME NEW f \in Vcores PROVE AheadFirst(f)'
  <2>1. AheadFirst(f)
    BY DEF ExecutorInv
  <2>2. t \notin ahead[f]
    <3>1. SUFFICES ASSUME t \in ahead[f] PROVE FALSE
      OBVIOUS
    <3>2. caller.at = "running"
      BY <2>1, <3>1 DEF AheadFirst, AddCPUTask
    <3>3. caller.vcore = 0 /\ (0 < f \/ 0 = f)
      BY <1>1, <3>2, VcoreAssumption DEF CallerInOrder, Vcores
    <3>4. NotShutYet(f)
      BY <1>1, <3>2, <3>3 DEF CallerInOrder
    <3> QED BY <3>1, <3>4 DEF NotShutYet
  <2>3. ahead'[f] = ahead[f] /\ ahead[f] \cap pending' = ahead[f] \cap pending
    BY <1>4, <2>2
  <2>4. \A q \in Priorities : Queued(f, q, ShutdownTask)' => q = kHigh
    BY <1>3, <1>5, <2>1 DEF AheadFirst
  <2>5. \A x \in ahead[f] \cap pending : Running(f, x)' \/ InFront(f, x)'
    BY <1>4, <1>5, <2>1 DEF AheadFirst, Running
  <2> QED BY <1>4, <2>1, <2>3, <2>4, <2>5 DEF AheadFirst, Running
<1> QED BY <1>6, <1>8, <1>9 DEF ExecutorInv

LEMMA StartStep == ASSUME ExecutorInv, ExecutorType', Start PROVE ExecutorInv'
<1>1. ExecutorType /\ PendingSomewhere /\ CallerInOrder
  BY DEF ExecutorInv
<1>2. /\ UNCHANGED <<queues_, shutdown_, task, pending, ahead>>
      /\ caller.at = "start" /\ caller' = [at |-> "running", vcore |-> 0]
      /\ \A e \in Vcores : pc[e] = "unstarted" /\ pc'[e] = "check"
  BY <1>1 DEF Start, CallerInOrder
<1>3. \A e \in Vcores : \A x : ~Running(e, x) /\ ~Running(e, x)'
  BY <1>2 DEF Running
<1>4. \A e, q, x : (Queued(e, q, x)' <=> Queued(e, q, x)) /\ (InFront(e, x)' <=> InFront(e, x))
  BY <1>2 DEF Queued, InFront
<1>5. PendingSomewhere'
  <2>1. \A t \in pending : Vcore[t] \in Vcores
    BY <1>1, TasksAssumption DEF ExecutorType
  <2> QED BY <1>1, <1>2, <1>3, <1>4, <2>1 DEF PendingSomewhere
<1>6. ASSUME NEW f \in Vcores PROVE NotShutYet(f)'
  <2>1. caller.vcore = 0 /\ (0 < f \/ 0 = f)
    BY <1>1, <1>2, VcoreAssumption DEF CallerInOrder, Vcores
  <2>2. NotShutYet(f)
    BY <1>1, <1>2, <2>1 DEF CallerInOrder
  <2> QED BY <1>2, <1>3, <1>4, <2>2 DEF NotShutYet
<1>7. CallerInOrder'
  BY <1>2, <1>6 DEF CallerInOrder
<1>8. ASSUME NEW f \in Vcores PROVE AheadFirst(f)'
  <2>1. AheadFirst(f)
    BY DEF ExecutorInv
  <2> QED BY <1>2, <1>3, <1>4, <2>1 DEF AheadFirst
<1> QED BY <1>5, <1>7, <1>8 DEF ExecutorInv

LEMMA StartFailsStep == ASSUME ExecutorInv, ExecutorType', StartFails PROVE ExecutorInv'
<1>1. ExecutorType /\ PendingSomewhere /\ CallerInOrder
  BY DEF ExecutorInv
<1>2. /\ UNCHANGED <<queues_, shutdown_, pc, task, pending, ahead>>
      /\ caller.at = "start" /\ caller' = [at |-> "terminated", vcore |-> 0]
  BY DEF StartFails, VcoreState
<1>3. \A e, q, x : /\ Queued(e, q, x)' <=> Queued(e, q, x)
                   /\ InFront(e, x)' <=> InFront(e, x)
                   /\ Running(e, x)' <=> Running(e, x)
  BY <1>2 DEF Queued, InFront, Running
<1>4. PendingSomewhere' /\ \A f \in Vcores : AheadFirst(f)'
  BY <1>1, <1>2, <1>3 DEF ExecutorInv, PendingSomewhere, AheadFirst
<1>5. \A f \in Vcores : NotShutYet(f) => NotShutYet(f)'
  BY <1>2, <1>3 DEF NotShutYet
<1>6. CallerInOrder'
  BY <1>1, <1>2, <1>5 DEF CallerInOrder
<1> QED BY <1>4, <1>6 DEF ExecutorInv

\* Shutdown: what is pending in the kHigh queue is before the task that is added.
LEMMA ShutdownStep == ASSUME ExecutorInv, ExecutorType', Shutdown PROVE ExecutorInv'
<1>1. ExecutorType /\ PendingSomewhere /\ CallerInOrder
  BY DEF ExecutorInv
<1>2. PICK d : d = caller.vcore
  OBVIOUS
<1>3. d \in Vcores /\ ShutdownTask \in AllTasks /\ kHigh \in Priorities /\ Add(d, kHigh, ShutdownTask)
  BY <1>1, <1>2, PrioritiesFacts DEF Shutdown, ShutdownPriority, ExecutorType, AllTasks
<1>4. UNCHANGED <<shutdown_, pc, task, pending>> /\ caller.at \in {"running", "next"}
  BY DEF Shutdown, VcoreState
<1>5. caller' = [caller EXCEPT !.at = "join"]
  BY DEF Shutdown
<1>6. caller'.at = "join" /\ caller'.vcore = d
  BY <1>1, <1>2, <1>5 DEF ExecutorType
<1>7. /\ ahead'[d] = {t \in pending : Owner[t] = Main /\ Vcore[t] = d /\ Priority[t] = kHigh}
      /\ \A f \in Vcores : f # d => ahead'[f] = ahead[f]
  BY <1>1, <1>2, <1>3 DEF Shutdown, ExecutorType
<1>8. /\ \A f \in Vcores, r \in Priorities : \A x :
           /\ Queued(f, r, x) => Queued(f, r, x)'
           /\ Queued(f, r, x)' => Queued(f, r, x) \/ (f = d /\ r = kHigh /\ x = ShutdownTask)
      /\ \A f \in Vcores : \A x : InFront(f, x) => InFront(f, x)'
  BY <1>1, <1>3, QueuedAfterAdd
<1>9. \A f, x : Running(f, x)' <=> Running(f, x)
  BY <1>4 DEF Running
<1>10. NotShutYet(d)
  BY <1>1, <1>2, <1>3, <1>4 DEF CallerInOrder
<1>11. PendingSomewhere'
  <2>1. \A t \in pending : Vcore[t] \in Vcores /\ Priority[t] \in Priorities
    BY <1>1, TasksAssumption DEF ExecutorType
  <2> QED BY <1>1, <1>4, <1>8, <1>9, <2>1 DEF PendingSomewhere
<1>12. ASSUME NEW f \in Vcores, f # d, NotShutYet(f) PROVE NotShutYet(f)'
  BY <1>4, <1>7, <1>8, <1>9, <1>12 DEF NotShutYet
<1>13. CallerInOrder'
  <2>1. \A f \in Vcores : d < f => f # d
    BY <1>3, VcoreAssumption DEF Vcores
  <2> QED BY <1>1, <1>2, <1>6, <1>12, <2>1 DEF CallerInOrder
<1>14. ASSUME NEW f \in Vcores PROVE AheadFirst(f)'
  <2>1. AheadFirst(f)
    BY DEF ExecutorInv
  <2>2. \A q \in Priorities : Queued(f, q, ShutdownTask)' => q = kHigh
    BY <1>8, <2>1 DEF AheadFirst
  <2>3. CASE f # d
    BY <1>4, <1>7, <1>8, <1>9, <2>1, <2>2, <2>3 DEF AheadFirst
  <2>4. CASE f = d
    <3>1. ASSUME NEW t \in ahead'[d] PROVE Running(d, t)' \/ InFront(d, t)'
      <4>1. t \in pending /\ Vcore[t] = d /\ Priority[t] = kHigh
        BY <1>7, <3>1
      <4>2. CASE Running(d, t)
        BY <1>9, <4>2
      <4>3. CASE Queued(d, kHigh, t)
        <5>1. \A i \in DOMAIN queues_[d][kHigh] : queues_[d][kHigh][i] # ShutdownTask
          BY <1>3, <1>10 DEF NotShutYet, Queued
        <5>2. DOMAIN queues_[d][kHigh] = 1 .. Len(queues_[d][kHigh]) /\ Len(queues_[d][kHigh]) \in Nat
          <6>1. queues_[d][kHigh] \in Seq(AllTasks)
            BY <1>1, <1>3 DEF ExecutorType
          <6> QED BY <6>1
        <5>3. PICK j \in DOMAIN queues_[d][kHigh] : queues_[d][kHigh][j] = t
          BY <4>3 DEF Queued
        <5>4. \A i \in 1 .. j : i \in DOMAIN queues_[d][kHigh]
          BY <5>2, <5>3
        <5>5. InFront(d, t)
          BY <5>1, <5>3, <5>4 DEF InFront
        <5> QED BY <1>3, <1>8, <5>5
      <4> QED BY <1>1, <4>1, <4>2, <4>3 DEF PendingSomewhere
    <3>2. ~shutdown_[d] /\ ~Running(d, ShutdownTask)
      BY <1>10 DEF NotShutYet
    <3>3. \A t \in ahead'[d] : Owner[t] = Main /\ Vcore[t] = d /\ Priority[t] = kHigh
      BY <1>7
    <3>4. pc[d] # "exited"
      BY <2>1, <2>4, <3>2 DEF AheadFirst
    <3> QED BY <1>4, <1>9, <2>2, <2>4, <3>1, <3>2, <3>3, <3>4 DEF AheadFirst
  <2> QED BY <2>3, <2>4
<1> QED BY <1>11, <1>13, <1>14 DEF ExecutorInv

LEMMA JoinStep == ASSUME ExecutorInv, ExecutorType', Join PROVE ExecutorInv'
<1>1. ExecutorType /\ PendingSomewhere /\ CallerInOrder
  BY DEF ExecutorInv
<1>2. UNCHANGED <<queues_, shutdown_, pc, task, pending, ahead>>
  BY DEF Join, VcoreState
<1>3. \A e, q, x : /\ Queued(e, q, x)' <=> Queued(e, q, x)
                   /\ InFront(e, x)' <=> InFront(e, x)
                   /\ Running(e, x)' <=> Running(e, x)
  BY <1>2 DEF Queued, InFront, Running
<1>4. PendingSomewhere' /\ \A f \in Vcores : AheadFirst(f)'
  BY <1>1, <1>2, <1>3 DEF ExecutorInv, PendingSomewhere, AheadFirst
<1>5. \A f \in Vcores : NotShutYet(f) => NotShutYet(f)'
  BY <1>2, <1>3 DEF NotShutYet
<1>6. CallerInOrder'
  <2>1. caller.vcore \in Nat /\ caller.vcore \in Vcores /\ Vcores \subseteq Nat /\ caller.at = "join"
    BY <1>1, VcoreAssumption DEF Join, ExecutorType, Vcores
  <2>2. CASE caller.vcore + 1 = count_vcore
    <3>1. caller'.at = "returned" /\ caller'.vcore = caller.vcore
      BY <1>1, <2>2 DEF Join, ExecutorType
    <3> QED BY <1>1, <1>5, <2>1, <3>1 DEF CallerInOrder
  <2>3. CASE caller.vcore + 1 # count_vcore
    <3>1. caller'.at = "next" /\ caller'.vcore = caller.vcore + 1
      BY <2>3 DEF Join
    <3>2. \A f \in Vcores : caller'.vcore < f \/ caller'.vcore = f => caller.vcore < f
      BY <2>1, <3>1
    <3> QED BY <1>1, <1>5, <3>1, <3>2 DEF CallerInOrder
  <2> QED BY <2>2, <2>3
<1> QED BY <1>4, <1>6 DEF ExecutorInv

\* A step of a thread between two tasks
LEMMA BetweenTasks ==
  ASSUME ExecutorInv, ExecutorType', NEW e \in Vcores,
         UNCHANGED <<queues_, shutdown_, task, caller, pending, ahead>>,
         \A f \in Vcores : f # e => pc'[f] = pc[f],
         pc[e] \notin {"unstarted", "run"}, pc'[e] # "run",
         pc'[e] = "exited" => shutdown_[e]
  PROVE  ExecutorInv'
<1>1. ExecutorType /\ PendingSomewhere /\ CallerInOrder
  BY DEF ExecutorInv
<1>2. \A f, q, x : /\ Queued(f, q, x)' <=> Queued(f, q, x)
                   /\ InFront(f, x)' <=> InFront(f, x)
  BY DEF Queued, InFront
<1>3. \A f \in Vcores : \A x : Running(f, x)' <=> Running(f, x)
  BY DEF Running
<1>4. PendingSomewhere'
  <2>1. \A t \in pending : Vcore[t] \in Vcores
    BY <1>1, TasksAssumption DEF ExecutorType
  <2> QED BY <1>1, <1>2, <1>3, <2>1 DEF PendingSomewhere
<1>5. \A f \in Vcores : NotShutYet(f) => NotShutYet(f)'
  BY <1>2, <1>3 DEF NotShutYet
<1>6. CallerInOrder'
  BY <1>1, <1>5 DEF CallerInOrder
<1>7. ASSUME NEW f \in Vcores PROVE AheadFirst(f)'
  <2>1. AheadFirst(f)
    BY DEF ExecutorInv
  <2>2. pc'[f] = "exited" => shutdown_[f]
    BY <2>1 DEF AheadFirst
  <2> QED BY <1>2, <1>3, <2>1, <2>2 DEF AheadFirst
<1> QED BY <1>4, <1>6, <1>7 DEF ExecutorInv

LEMMA DequeueStep ==
  ASSUME ExecutorInv, ExecutorType', NEW e \in Vcores, Dequeue(e) PROVE ExecutorInv'
<1>1. ExecutorType /\ PendingSomewhere /\ CallerInOrder
  BY DEF ExecutorInv
<1>2. PICK q, h : q = tried[e] /\ h = Head(queues_[e][tried[e]])
  OBVIOUS
<1>3. /\ q \in Priorities
      /\ Queued(e, q, h)
      /\ \A f \in Vcores, r \in Priorities : \A x :
           /\ Queued(f, r, x)' => Queued(f, r, x)
           /\ Queued(f, r, x) => Queued(f, r, x)' \/ (f = e /\ r = q /\ x = h)
      /\ \A f \in Vcores : \A x : InFront(f, x) => InFront(f, x)' \/ (f = e /\ x = h)
      /\ \A x : InFront(e, x) /\ q = kHigh => h # ShutdownTask
  BY <1>1, <1>2, QueuedAfterDequeue DEF ExecutorType
<1>4. UNCHANGED <<shutdown_, caller, pending, ahead>> /\ pc[e] \in {"first", "rest"}
  BY DEF Dequeue
<1>5. /\ pc'[e] = "run" /\ task'[e] = h
      /\ \A f \in Vcores : f # e => pc'[f] = pc[f] /\ task'[f] = task[f]
  BY <1>1, <1>2 DEF Dequeue, ExecutorType
<1>6. /\ \A x : ~Running(e, x) /\ (Running(e, x)' <=> x = h)
      /\ \A f \in Vcores : f # e => \A x : Running(f, x)' <=> Running(f, x)
  BY <1>4, <1>5 DEF Running
<1>7. PendingSomewhere'
  <2>1. \A t \in pending : Vcore[t] \in Vcores /\ Priority[t] \in Priorities
    BY <1>1, TasksAssumption DEF ExecutorType
  <2> QED BY <1>1, <1>3, <1>4, <1>6, <2>1 DEF PendingSomewhere
<1>8. ASSUME NEW f \in Vcores, NotShutYet(f) PROVE NotShutYet(f)'
  <2>1. ~Queued(f, q, ShutdownTask)
    BY <1>3, <1>8 DEF NotShutYet
  <2>2. f = e => h # ShutdownTask
    BY <1>3, <2>1
  <2>3. ~Running(f, ShutdownTask)'
    BY <1>6, <1>8, <2>2 DEF NotShutYet
  <2> QED BY <1>3, <1>4, <1>8, <2>3 DEF NotShutYet
<1>9. CallerInOrder'
  <2>1. caller.at # "start"
    BY <1>1, <1>4 DEF CallerInOrder
  <2> QED BY <1>1, <1>4, <1>8, <2>1 DEF CallerInOrder
<1>10. ASSUME NEW f \in Vcores PROVE AheadFirst(f)'
  <2>1. AheadFirst(f)
    BY DEF ExecutorInv
  <2>2. \A r \in Priorities : Queued(f, r, ShutdownTask)' => r = kHigh
    BY <1>3, <2>1 DEF AheadFirst
  <2>3. CASE f # e
    BY <1>3, <1>4, <1>5, <1>6, <2>1, <2>2, <2>3 DEF AheadFirst
  <2>4. CASE f = e
    <3>1. \A t \in ahead[e] \cap pending : InFront(e, t)
      BY <1>6, <2>1, <2>4 DEF AheadFirst
    <3>2. \A t \in ahead[e] \cap pending : Running(e, t)' \/ InFront(e, t)'
      BY <1>3, <1>6, <3>1
    <3>3. ahead[e] \cap pending # {} => h # ShutdownTask
      <4>1. q # kHigh => h # ShutdownTask
        BY <1>3, <2>1, <2>4 DEF AheadFirst
      <4> QED BY <1>3, <3>1, <4>1
    <3> QED BY <1>4, <1>5, <1>6, <2>1, <2>2, <2>4, <3>2, <3>3 DEF AheadFirst
  <2> QED BY <2>3, <2>4
<1> QED BY <1>7, <1>9, <1>10 DEF ExecutorInv

LEMMA RunTaskStep ==
  ASSUME ExecutorInv, ExecutorType', NEW e \in Vcores, RunTask(e) PROVE ExecutorInv'
<1>1. ExecutorType /\ PendingSomewhere /\ CallerInOrder
  BY DEF ExecutorInv
<1>2. UNCHANGED <<queues_, caller, ahead>> /\ pending' = pending \ {task[e]} /\ pc[e] = "run"
  BY DEF RunTask, Goto
<1>3. /\ pc'[e] = "check"
      /\ \A f \in Vcores : f # e => pc'[f] = pc[f] /\ task'[f] = task[f] /\ shutdown_'[f] = shutdown_[f]
      /\ task[e] # ShutdownTask => shutdown_' = shutdown_
  BY <1>1 DEF RunTask, Goto, ExecutorType
<1>4. \A f, q, x : /\ Queued(f, q, x)' <=> Queued(f, q, x)
                   /\ InFront(f, x)' <=> InFront(f, x)
  BY <1>2 DEF Queued, InFront
<1>5. /\ \A x : ~Running(e, x)' /\ (Running(e, x) <=> x = task[e])
      /\ \A f \in Vcores : f # e => \A x : Running(f, x)' <=> Running(f, x)
  BY <1>2, <1>3 DEF Running
<1>6. PendingSomewhere'
  <2>1. \A t \in pending : Vcore[t] \in Vcores
    BY <1>1, TasksAssumption DEF ExecutorType
  <2> QED BY <1>1, <1>2, <1>4, <1>5, <2>1 DEF PendingSomewhere
<1>7. ASSUME NEW f \in Vcores, NotShutYet(f) PROVE NotShutYet(f)'
  <2>1. f = e => task[e] # ShutdownTask
    BY <1>5, <1>7 DEF NotShutYet
  <2>2. ~shutdown_'[f]
    BY <1>3, <1>7, <2>1 DEF NotShutYet
  <2> QED BY <1>2, <1>4, <1>5, <1>7, <2>2 DEF NotShutYet
<1>8. CallerInOrder'
  <2>1. caller.at # "start"
    BY <1>1, <1>2 DEF CallerInOrder
  <2> QED BY <1>1, <1>2, <1>7, <2>1 DEF CallerInOrder
<1>9. ASSUME NEW f \in Vcores PROVE AheadFirst(f)'
  <2>1. AheadFirst(f)
    BY DEF ExecutorInv
  <2>2. CASE f # e
    BY <1>2, <1>3, <1>4, <1>5, <2>1, <2>2 DEF AheadFirst
  <2>3. CASE f = e
    <3>1. ahead[e] \cap pending' # {} => task[e] # ShutdownTask /\ ~shutdown_[e]
      BY <1>2, <1>5, <2>1, <2>3 DEF AheadFirst
    <3>2. \A t \in ahead[e] \cap pending' : InFront(e, t)
      BY <1>2, <1>5, <2>1, <2>3 DEF AheadFirst
    <3> QED BY <1>2, <1>3, <1>4, <1>5, <2>1, <2>3, <3>1, <3>2 DEF AheadFirst
  <2> QED BY <2>2, <2>3
<1> QED BY <1>6, <1>8, <1>9 DEF ExecutorInv

LEMMA ExecutorStep == ExecutorInv /\ [Next]_vars => ExecutorInv'
<1> SUFFICES ASSUME ExecutorInv, [Next]_vars PROVE ExecutorInv'
  OBVIOUS
<1>1. ExecutorType /\ ExecutorType'
  BY ExecutorTypeStep DEF ExecutorInv
<1>2. CASE UNCHANGED vars
  <2>1. UNCHANGED <<queues_, shutdown_, pc, task, caller, pending, ahead>>
    BY <1>2 DEF vars
  <2>2. \A e, q, x : /\ Queued(e, q, x)' <=> Queued(e, q, x)
                     /\ InFront(e, x)' <=> InFront(e, x)
                     /\ Running(e, x)' <=> Running(e, x)
    BY <2>1 DEF Queued, InFront, Running
  <2>3. PendingSomewhere' /\ \A e \in Vcores : AheadFirst(e)'
    BY <2>1, <2>2 DEF ExecutorInv, PendingSomewhere, AheadFirst
  <2>4. \A e \in Vcores : NotShutYet(e)' <=> NotShutYet(e)
    BY <2>1, <2>2 DEF NotShutYet
  <2>5. CallerInOrder'
    BY <2>1, <2>4 DEF ExecutorInv, CallerInOrder
  <2> QED BY <1>1, <2>3, <2>5 DEF ExecutorInv
<1>3. ASSUME NEW e \in Vcores, CheckShutdown(e) \/ BeginRound(e) \/ DequeueFails(e)
      PROVE  ExecutorInv'
  <2>1. /\ UNCHANGED <<queues_, shutdown_, task, caller, pending, ahead>>
        /\ \A f \in Vcores : f # e => pc'[f] = pc[f]
        /\ pc[e] \notin {"unstarted", "run"} /\ pc'[e] # "run"
        /\ pc'[e] = "exited" => shutdown_[e]
    BY <1>1, <1>3 DEF CheckShutdown, BeginRound, DequeueFails, Goto, ExecutorType
  <2> QED BY <1>1, <2>1, BetweenTasks
<1>4. CASE Finished
  BY <1>2, <1>4 DEF Finished
<1> QED BY <1>1, <1>2, <1>3, <1>4, AddCPUTaskStep, StartStep, StartFailsStep, ShutdownStep, JoinStep, DequeueStep,
           RunTaskStep DEF Next, Execute

\* When every shutdown_ starts out clear, no vcore runs the task of Shutdown
\* before the kHigh tasks its caller had submitted.
THEOREM ExecutorInductive == Spec /\ (\A e \in Vcores : ~shutdown_[e]) => []ExecutorInv
<1>1. Init /\ (\A e \in Vcores : ~shutdown_[e]) => ExecutorInv
  <2> SUFFICES ASSUME Init, \A e \in Vcores : ~shutdown_[e] PROVE ExecutorInv
    OBVIOUS
  <2>1. ExecutorType
    BY ExecutorTypeInit
  <2>2. \A e \in Vcores : \A x : ~Running(e, x)
    BY DEF Init, Running
  <2>3. \A e \in Vcores, q \in Priorities : \A x : ~Queued(e, q, x)
    BY DEF Init, Queued
  <2>4. PendingSomewhere /\ CallerInOrder
    BY <2>2, <2>3 DEF Init, PendingSomewhere, CallerInOrder, NotShutYet
  <2>5. \A e \in Vcores : AheadFirst(e)
    BY <2>2, <2>3 DEF Init, AheadFirst
  <2> QED BY <2>1, <2>4, <2>5 DEF ExecutorInv
<1> QED BY <1>1, ExecutorStep, PTL DEF Spec

\* A vcore that was not shut down from the start exits only after it has run
\* every kHigh task the caller of Shutdown had submitted to it before.
THEOREM EarlyTasksAlwaysRun == Spec => EarlyTasksRun
<1>1. ExecutorInv => \A e \in Vcores : pc[e] = "exited" => ahead[e] \cap pending = {}
  BY DEF ExecutorInv, AheadFirst
<1> QED BY <1>1, ExecutorInductive, PTL DEF EarlyTasksRun

----------------------------------------------------------------------------
(* ObjectPool                                                              *)

\* c is what PrintFreelist comes to from first: the equation that defines Visited
Follows(c, first, next) ==
  c = [i \in 0 .. PoolSize |-> IF i = 0 THEN first
                               ELSE IF c[i - 1] = Null THEN Null ELSE next[c[i - 1]]]

\* a list of that many objects, each once
Chain(c, first, next, size) ==
  /\ c \in [0 .. PoolSize -> Objects \cup {Null}] /\ Follows(c, first, next)
  /\ \A i \in 0 .. PoolSize : c[i] # Null <=> i < size
  /\ \A i, j \in 0 .. PoolSize : c[i] = c[j] /\ c[i] # Null => i = j

Values(c) == {c[i] : i \in 0 .. PoolSize} \ {Null}

\* S is threaded by next, from first, into a list of that many objects
Threaded(S, first, next, size) == \E c : Chain(c, first, next, size) /\ Values(c) = S

PoolType ==
  /\ next_ \in [Objects -> Objects \cup {Null}]
  /\ freelist_ \in Objects \cup {Null} /\ freelist_size_ \in 0 .. PoolSize
  /\ pointer \in [Pointer -> Objects \cup {Null}]

PoolInv ==
  /\ PoolType
  /\ Chain(Visited(freelist_, next_), freelist_, next_, freelist_size_)
  /\ freelist_size_ = Cardinality(Free)
  /\ \A p \in Pointer : pointer[p] \notin Free
  /\ \A p, q \in Pointer : pointer[p] = pointer[q] /\ pointer[p] # Null => p = q

LEMMA VisitedFollows ==
  ASSUME NEW first, NEW next, NEW c, Follows(c, first, next)
  PROVE  Follows(Visited(first, next), first, next)
  BY Zenon DEF Follows, Visited

\* A set of natural numbers has a least element.
LEMMA LeastElement ==
  ASSUME NEW T, T \subseteq Nat, T # {} PROVE \E x \in T : \A y \in T : x <= y
<1>1. PICK x \in T : \A y \in T : ~(<<y, x>> \in OpToRel(<, Nat))
  BY NatLessThanWellFounded, WFMin
<1>2. ASSUME NEW y \in T, y < x PROVE FALSE
  <2>1. <<y, x>> \in Nat \X Nat /\ <<y, x>>[1] < <<y, x>>[2]
    BY <1>2
  <2>2. <<y, x>> \in {ss \in Nat \X Nat : ss[1] < ss[2]}
    BY <2>1
  <2>3. <<y, x>> \in OpToRel(<, Nat)
    BY <2>2 DEF OpToRel
  <2> QED BY <1>1, <2>3
<1>3. \A y \in T : x <= y
  BY <1>2
<1> QED BY <1>3

LEMMA OneChain ==
  ASSUME NEW first, NEW next, NEW c, NEW d, Follows(c, first, next), Follows(d, first, next)
  PROVE  c = d
<1> DEFINE bad == {i \in 0 .. PoolSize : c[i] # d[i]}
<1>1. c = [i \in 0 .. PoolSize |-> c[i]] /\ d = [i \in 0 .. PoolSize |-> d[i]]
  BY DEF Follows
<1>2. ASSUME bad # {} PROVE FALSE
  <2>1. bad \subseteq Nat
    BY PoolAssumption
  <2>2. PICK x \in bad : \A y \in bad : x <= y
    BY <1>2, <2>1, LeastElement
  <2>3. CASE x = 0
    BY <2>2, <2>3, PoolAssumption DEF Follows
  <2>4. CASE x # 0
    <3>1. x \in 1 .. PoolSize /\ x - 1 \in 0 .. PoolSize /\ x - 1 \notin bad
      BY <2>1, <2>2, <2>4, PoolAssumption
    <3>2. c[x - 1] = d[x - 1]
      BY <3>1
    <3>3. c[x] = IF c[x - 1] = Null THEN Null ELSE next[c[x - 1]]
      BY <3>1, <2>4 DEF Follows
    <3>4. d[x] = IF d[x - 1] = Null THEN Null ELSE next[d[x - 1]]
      BY <3>1, <2>4 DEF Follows
    <3> QED BY <2>2, <3>2, <3>3, <3>4
  <2> QED BY <2>3, <2>4
<1>3. \A i \in 0 .. PoolSize : c[i] = d[i]
  BY <1>2
<1> QED BY <1>1, <1>3

LEMMA ChainIsVisited ==
  ASSUME NEW c, NEW first, NEW next, NEW size, Chain(c, first, next, size)
  PROVE  Visited(first, next) = c
  BY VisitedFollows, OneChain DEF Chain

LEMMA ObjectsFacts ==
  /\ Null \notin Objects /\ IsFiniteSet(Objects) /\ Cardinality(Objects) = PoolSize
  /\ 0 \in Objects /\ Objects \subseteq Nat
<1>1. PoolSize \in Nat /\ PoolSize >= 1
  BY PoolAssumption
<1>2. IsFiniteSet(Objects) /\ Cardinality(Objects) = PoolSize - 1 - 0 + 1
  BY <1>1, FS_Interval DEF Objects
<1>3. Null \notin Objects
  BY <1>1, PoolAssumption DEF Objects
<1> QED BY <1>1, <1>2, <1>3 DEF Objects

\* Taking the first object of a list leaves the rest of it.
LEMMA PopChain ==
  ASSUME NEW S, NEW first \in Objects, NEW next \in [Objects -> Objects \cup {Null}],
         NEW size \in 0 .. PoolSize, Threaded(S, first, next, size)
  PROVE  /\ Threaded(S \ {first}, next[first], [next EXCEPT ![first] = Null], size - 1)
         /\ first \in S /\ 1 <= size
<1>0. PICK c : Chain(c, first, next, size) /\ Values(c) = S
  BY DEF Threaded
<1> DEFINE N == PoolSize
           w == [i \in 0 .. N |-> IF i < N THEN c[i + 1] ELSE Null]
           cut == [next EXCEPT ![first] = Null]
<1>1. N \in Nat /\ N >= 1 /\ size \in Nat /\ size <= N
  BY PoolAssumption
<1>2. /\ c \in [0 .. N -> Objects \cup {Null}] /\ c[0] = first /\ first # Null
      /\ \A i \in 1 .. N : c[i] = IF c[i - 1] = Null THEN Null ELSE next[c[i - 1]]
      /\ \A i \in 0 .. N : c[i] # Null <=> i < size
      /\ \A i, j \in 0 .. N : c[i] = c[j] /\ c[i] # Null => i = j
  <2>1. c \in [0 .. N -> Objects \cup {Null}] /\ first # Null
    BY <1>0, ObjectsFacts DEF Chain
  <2>2. c[0] = first
    BY <1>0, <1>1 DEF Chain, Follows
  <2>3. ASSUME NEW i \in 1 .. N PROVE c[i] = IF c[i - 1] = Null THEN Null ELSE next[c[i - 1]]
    <3>1. i \in 0 .. N /\ i # 0
      BY <1>1
    <3> QED BY <1>0, <3>1 DEF Chain, Follows
  <2> QED BY <1>0, <2>1, <2>2, <2>3 DEF Chain
<1>3. 1 <= size
  <2>1. 0 \in 0 .. N
    BY <1>1
  <2> QED BY <1>1, <1>2, <2>1
<1>4. /\ w \in [0 .. N -> Objects \cup {Null}]
      /\ \A i \in 0 .. N : (i < N => w[i] = c[i + 1]) /\ (~(i < N) => w[i] = Null)
  <2>1. \A i \in 0 .. N : i < N => i + 1 \in 0 .. N
    BY <1>1
  <2> QED BY <1>2, <2>1
<1>5. c[N] = Null
  <2>1. N \in 0 .. N /\ ~(N < size)
    BY <1>1
  <2> QED BY <1>2, <2>1
<1> HIDE DEF w
<1>6. w[0] = next[first]
  <2>1. 1 \in 1 .. N /\ 0 \in 0 .. N /\ 0 < N /\ 0 + 1 = 1 /\ 1 - 1 = 0
    BY <1>1
  <2> QED BY <1>2, <1>4, <2>1
<1>7. \A i \in 1 .. N : cut[c[i]] = next[c[i]] \/ c[i] = Null
  <2> SUFFICES ASSUME NEW i \in 1 .. N, c[i] # Null PROVE cut[c[i]] = next[c[i]]
    OBVIOUS
  <2>1. i \in 0 .. N /\ 0 \in 0 .. N /\ i # 0
    BY <1>1
  <2>2. c[i] # first /\ c[i] \in Objects
    BY <1>2, <2>1
  <2> QED BY <2>2
<1>8. ASSUME NEW i \in 1 .. N PROVE w[i] = IF w[i - 1] = Null THEN Null ELSE cut[w[i - 1]]
  <2>1. i - 1 \in 0 .. N /\ i - 1 < N /\ (i - 1) + 1 = i /\ i \in 0 .. N
    BY <1>1
  <2>2. w[i - 1] = c[i]
    BY <1>4, <2>1
  <2>3. CASE i < N
    <3>1. i + 1 \in 1 .. N /\ (i + 1) - 1 = i
      BY <1>1, <2>3
    <3>2. c[i + 1] = IF c[i] = Null THEN Null ELSE next[c[i]]
      BY <1>2, <3>1
    <3> QED BY <1>4, <1>7, <2>1, <2>2, <2>3, <3>2
  <2>4. CASE ~(i < N)
    <3>1. i = N
      BY <1>1, <2>4
    <3> QED BY <1>4, <1>5, <2>1, <2>2, <2>4, <3>1
  <2> QED BY <2>3, <2>4
<1>9. Follows(w, next[first], cut)
  <2>1. \A i \in 0 .. N : i = 0 \/ i \in 1 .. N
    BY <1>1
  <2>2. \A i \in 0 .. N : w[i] = IF i = 0 THEN next[first]
                                 ELSE IF w[i - 1] = Null THEN Null ELSE cut[w[i - 1]]
    <3>1. ~(0 \in 1 .. N)
      BY <1>1
    <3> QED BY <1>6, <1>8, <2>1, <3>1
  <2> QED BY <1>4, <2>2 DEF Follows
<1>10. \A i \in 0 .. N : w[i] # Null <=> i < size - 1
  <2> SUFFICES ASSUME NEW i \in 0 .. N PROVE w[i] # Null <=> i < size - 1
    OBVIOUS
  <2>1. CASE i < N
    <3>1. i + 1 \in 0 .. N /\ (i + 1 < size <=> i < size - 1)
      BY <1>1, <2>1
    <3> QED BY <1>2, <1>4, <2>1, <3>1
  <2>2. CASE ~(i < N)
    <3>1. ~(i < size - 1)
      BY <1>1, <2>2
    <3> QED BY <1>4, <2>2, <3>1
  <2> QED BY <2>1, <2>2
<1>11. \A i, j \in 0 .. N : w[i] = w[j] /\ w[i] # Null => i = j
  <2> SUFFICES ASSUME NEW i \in 0 .. N, NEW j \in 0 .. N, w[i] = w[j], w[i] # Null PROVE i = j
    OBVIOUS
  <2>1. i < N /\ j < N
    BY <1>4
  <2>2. i + 1 \in 0 .. N /\ j + 1 \in 0 .. N
    BY <1>1, <2>1
  <2>3. i + 1 = j + 1
    BY <1>2, <1>4, <2>1, <2>2
  <2> QED BY <1>1, <2>3
<1>12. Values(w) = Values(c) \ {first}
  <2>1. ASSUME NEW x \in Values(w) PROVE x \in Values(c) \ {first}
    <3>1. PICK i \in 0 .. N : x = w[i] /\ x # Null
      BY DEF Values
    <3>2. i < N /\ i + 1 \in 0 .. N /\ i + 1 # 0 /\ 0 \in 0 .. N
      BY <1>1, <1>4, <3>1
    <3>3. x = c[i + 1] /\ x # first
      BY <1>2, <1>4, <3>1, <3>2
    <3> QED BY <3>1, <3>2, <3>3 DEF Values
  <2>2. ASSUME NEW x \in Values(c) \ {first} PROVE x \in Values(w)
    <3>1. PICK i \in 0 .. N : x = c[i] /\ x # Null /\ x # first
      BY DEF Values
    <3>2. i # 0
      BY <1>2, <3>1
    <3>3. i - 1 \in 0 .. N /\ i - 1 < N /\ (i - 1) + 1 = i
      BY <1>1, <3>2
    <3>4. x = w[i - 1]
      BY <1>4, <3>1, <3>3
    <3> QED BY <3>1, <3>3, <3>4 DEF Values
  <2> QED BY <2>1, <2>2
<1>13. first \in Values(c)
  <2>1. 0 \in 0 .. N
    BY <1>1
  <2> QED BY <1>2, <2>1 DEF Values
<1>14. Chain(w, next[first], cut, size - 1)
  BY <1>4, <1>9, <1>10, <1>11 DEF Chain
<1> QED BY <1>0, <1>3, <1>12, <1>13, <1>14 DEF Threaded

\* Putting an object that is not in a list in front of it lengthens the list.
LEMMA PushChain ==
  ASSUME NEW next \in [Objects -> Objects \cup {Null}], NEW size \in 0 .. PoolSize - 1,
         NEW obj \in Objects, NEW first \in Objects \cup {Null},
         NEW S, Threaded(S, first, next, size), obj \notin S
  PROVE  Threaded(S \cup {obj}, obj, [next EXCEPT ![obj] = first], size + 1)
<1>0. PICK c : Chain(c, first, next, size) /\ Values(c) = S
  BY DEF Threaded
<1> DEFINE N == PoolSize
           w == [i \in 0 .. N |-> IF i = 0 THEN obj ELSE c[i - 1]]
           put == [next EXCEPT ![obj] = first]
<1>1. N \in Nat /\ N >= 1 /\ size \in Nat /\ size < N
  BY PoolAssumption
<1>2. /\ c \in [0 .. N -> Objects \cup {Null}] /\ c[0] = first /\ obj # Null
      /\ \A i \in 1 .. N : c[i] = IF c[i - 1] = Null THEN Null ELSE next[c[i - 1]]
      /\ \A i \in 0 .. N : c[i] # Null <=> i < size
      /\ \A i, j \in 0 .. N : c[i] = c[j] /\ c[i] # Null => i = j
  <2>1. c \in [0 .. N -> Objects \cup {Null}] /\ obj # Null
    BY <1>0, ObjectsFacts DEF Chain
  <2>2. c[0] = first
    BY <1>0, <1>1 DEF Chain, Follows
  <2>3. ASSUME NEW i \in 1 .. N PROVE c[i] = IF c[i - 1] = Null THEN Null ELSE next[c[i - 1]]
    <3>1. i \in 0 .. N /\ i # 0
      BY <1>1
    <3> QED BY <1>0, <3>1 DEF Chain, Follows
  <2> QED BY <1>0, <2>1, <2>2, <2>3 DEF Chain
<1>3. \A i \in 1 .. N : i - 1 \in 0 .. N /\ i \in 0 .. N /\ i # 0
  BY <1>1
<1>4. \A i \in 0 .. N : (i = 0 \/ i \in 1 .. N) /\ c[i] # obj
  <2>1. \A i \in 0 .. N : c[i] # obj
    BY <1>0, <1>2, ObjectsFacts DEF Values
  <2> QED BY <1>1, <2>1
<1>5. /\ w \in [0 .. N -> Objects \cup {Null}] /\ w[0] = obj
      /\ \A i \in 1 .. N : w[i] = c[i - 1]
  <2>1. w \in [0 .. N -> Objects \cup {Null}]
    BY <1>2, <1>3, <1>4
  <2>2. 0 \in 0 .. N
    BY <1>1
  <2> QED BY <1>3, <2>1, <2>2
<1>6. put[obj] = first /\ \A x \in Objects : x # obj => put[x] = next[x]
  OBVIOUS
<1> HIDE DEF w
<1>7. ASSUME NEW i \in 1 .. N PROVE w[i] = IF w[i - 1] = Null THEN Null ELSE put[w[i - 1]]
  <2>1. i - 1 \in 0 .. N
    BY <1>3
  <2>2. CASE i - 1 = 0
    BY <1>2, <1>5, <1>6, <2>2
  <2>3. CASE i - 1 \in 1 .. N
    <3>1. w[i - 1] = c[i - 1 - 1] /\ i - 1 - 1 \in 0 .. N
      BY <1>3, <1>5, <2>3
    <3>2. c[i - 1] = IF c[i - 1 - 1] = Null THEN Null ELSE next[c[i - 1 - 1]]
      BY <1>2, <2>3
    <3>3. c[i - 1 - 1] \in Objects \cup {Null} /\ c[i - 1 - 1] # obj
      BY <1>2, <1>4, <3>1
    <3>4. w[i] = c[i - 1]
      BY <1>5
    <3> QED BY <1>6, <3>1, <3>2, <3>3, <3>4
  <2> QED BY <1>4, <2>1, <2>2, <2>3
<1>8. Follows(w, obj, put)
  <2>1. \A i \in 0 .. N : w[i] = IF i = 0 THEN obj
                                 ELSE IF w[i - 1] = Null THEN Null ELSE put[w[i - 1]]
    BY <1>3, <1>4, <1>5, <1>7
  <2> QED BY <1>5, <2>1 DEF Follows
<1>9. \A i \in 0 .. N : w[i] # Null <=> i < size + 1
  <2> SUFFICES ASSUME NEW i \in 0 .. N PROVE w[i] # Null <=> i < size + 1
    OBVIOUS
  <2>1. CASE i = 0
    <3>1. 0 < size + 1
      BY <1>1
    <3> QED BY <1>2, <1>5, <2>1, <3>1
  <2>2. CASE i \in 1 .. N
    <3>1. i - 1 \in 0 .. N /\ (i - 1 < size <=> i < size + 1)
      BY <1>1, <2>2
    <3> QED BY <1>2, <1>5, <2>2, <3>1
  <2> QED BY <1>4, <2>1, <2>2
<1>10. \A i, j \in 0 .. N : w[i] = w[j] /\ w[i] # Null => i = j
  <2> SUFFICES ASSUME NEW i \in 0 .. N, NEW j \in 0 .. N, w[i] = w[j], w[i] # Null PROVE i = j
    OBVIOUS
  <2>1. CASE i \in 1 .. N /\ j \in 1 .. N
    <3>1. i - 1 = j - 1
      BY <1>2, <1>3, <1>5, <2>1
    <3> QED BY <1>1, <3>1
  <2>2. CASE i = 0 \/ j = 0
    BY <1>3, <1>4, <1>5, <2>2
  <2> QED BY <1>4, <2>1, <2>2
<1>11. Values(w) = Values(c) \cup {obj}
  <2>1. ASSUME NEW x \in Values(w) PROVE x \in Values(c) \cup {obj}
    <3>1. PICK i \in 0 .. N : x = w[i] /\ x # Null
      BY DEF Values
    <3> QED BY <1>3, <1>4, <1>5, <3>1 DEF Values
  <2>2. ASSUME NEW x \in Values(c) PROVE x \in Values(w)
    <3>1. PICK i \in 0 .. N : x = c[i] /\ x # Null
      BY DEF Values
    <3>2. i < size
      BY <1>2, <3>1
    <3>3. i + 1 \in 1 .. N /\ (i + 1) - 1 = i
      BY <1>1, <3>2
    <3>4. x = w[i + 1] /\ i + 1 \in 0 .. N
      BY <1>3, <1>5, <3>1, <3>3
    <3> QED BY <3>1, <3>4 DEF Values
  <2>3. obj \in Values(w)
    <3>1. 0 \in 0 .. N
      BY <1>1
    <3> QED BY <1>2, <1>5, <3>1 DEF Values
  <2> QED BY <2>1, <2>2, <2>3
<1>12. Chain(w, obj, put, size + 1)
  BY <1>5, <1>8, <1>9, <1>10 DEF Chain
<1> QED BY <1>0, <1>11, <1>12 DEF Threaded

\* the allocator counts as the pool does
LEMMA SameCardinality == ASSUME NEW S PROVE Allocation!Cardinality(S) = Cardinality(S)
  BY Zenon DEF Allocation!Cardinality, Cardinality

LEMMA InitPool == PoolInit => PoolInv /\ Allocation!AllocatorInit
<1> SUFFICES ASSUME PoolInit PROVE PoolInv /\ Allocation!AllocatorInit
  OBVIOUS
<1> DEFINE N == PoolSize
           w == [i \in 0 .. N |-> IF i < N THEN i ELSE Null]
<1>1. N \in Nat /\ N >= 1 /\ 0 \in 0 .. N /\ Objects = 0 .. N - 1
  BY PoolAssumption DEF Objects
<1>2. PoolType
  <2>1. next_ \in [Objects -> Objects \cup {Null}]
    <3>1. \A o \in Objects : o # N - 1 => o + 1 \in Objects
      BY <1>1
    <3> QED BY <3>1 DEF PoolInit
  <2> QED BY <1>1, <2>1, ObjectsFacts DEF PoolInit, PoolType
<1>3. \A i \in 0 .. N : (i < N => i \in Objects /\ w[i] = i) /\ (~(i < N) => w[i] = Null)
  BY <1>1
<1>4. w \in [0 .. N -> Objects \cup {Null}]
  BY <1>3
<1>5. \A i \in 0 .. N : w[i] # Null <=> i < N
  BY <1>3, ObjectsFacts
<1> HIDE DEF w
<1>6. Follows(w, freelist_, next_)
  <2>1. w[0] = freelist_
    <3>1. 0 < N
      BY <1>1
    <3> QED BY <1>1, <1>3, <3>1 DEF PoolInit
  <2>2. ASSUME NEW i \in 0 .. N, i # 0
        PROVE  w[i] = IF w[i - 1] = Null THEN Null ELSE next_[w[i - 1]]
    <3>1. i - 1 \in 0 .. N /\ i - 1 < N /\ i - 1 + 1 = i /\ (i - 1 = N - 1 <=> ~(i < N))
      BY <1>1, <2>2
    <3>2. w[i - 1] = i - 1 /\ i - 1 \in Objects /\ w[i - 1] # Null
      BY <1>3, <1>5, <3>1
    <3>3. next_[i - 1] = IF i - 1 = N - 1 THEN Null ELSE i
      BY <3>1, <3>2 DEF PoolInit
    <3> QED BY <1>3, <3>1, <3>2, <3>3
  <2>3. \A i \in 0 .. N : w[i] = IF i = 0 THEN freelist_
                                 ELSE IF w[i - 1] = Null THEN Null ELSE next_[w[i - 1]]
    BY <2>1, <2>2
  <2> QED BY <1>4, <2>3 DEF Follows
<1>7. Chain(w, freelist_, next_, freelist_size_)
  <2>1. \A i, j \in 0 .. N : w[i] = w[j] /\ w[i] # Null => i = j
    BY <1>3, <1>5
  <2> QED BY <1>4, <1>5, <1>6, <2>1 DEF Chain, PoolInit
<1>8. Visited(freelist_, next_) = w
  BY <1>7, ChainIsVisited
<1>9. Free = Objects
  <2>1. Free = Values(w)
    BY <1>8 DEF Free, Values
  <2>2. \A x \in Objects : x \in 0 .. N /\ x < N
    BY <1>1
  <2> QED BY <1>3, <1>5, <2>1, <2>2, ObjectsFacts DEF Values
<1>10. PoolInv
  BY <1>2, <1>7, <1>8, <1>9, ObjectsFacts DEF PoolInv, PoolInit
<1>11. Allocation!AllocatorInit
  BY <1>9, ObjectsFacts, SameCardinality DEF Allocation!AllocatorInit, PoolInit
<1> QED BY <1>10, <1>11

LEMMA FreeFacts ==
  ASSUME PoolInv
  PROVE  /\ Threaded(Free, freelist_, next_, freelist_size_) /\ Free \subseteq Objects
         /\ IsFiniteSet(Free) /\ Cardinality(Free) = freelist_size_
<1>1. Free = Values(Visited(freelist_, next_))
  BY DEF Free, Values
<1>2. Free \subseteq Objects
  BY <1>1 DEF Values, PoolInv, Chain
<1>3. IsFiniteSet(Free)
  BY <1>2, ObjectsFacts, FS_Subset
<1> QED BY <1>1, <1>2, <1>3 DEF PoolInv, Threaded

\* an object some unique_ptr owns is not in the list, so the list is not full
LEMMA NotFull ==
  ASSUME PoolInv, NEW p \in Pointer, pointer[p] # Null
  PROVE  /\ pointer[p] \in Objects /\ pointer[p] \notin Free
         /\ freelist_size_ \in 0 .. PoolSize - 1
<1>1. pointer[p] \in Objects /\ pointer[p] \notin Free
  BY DEF PoolInv, PoolType
<1>2. Free \cup {pointer[p]} \subseteq Objects
  BY <1>1, FreeFacts
<1>3. Cardinality(Free \cup {pointer[p]}) = Cardinality(Free) + 1
  BY <1>1, FreeFacts, FS_AddElement
<1>4. Cardinality(Free \cup {pointer[p]}) <= PoolSize
  BY <1>2, ObjectsFacts, FS_Subset
<1>5. freelist_size_ \in 0 .. PoolSize /\ freelist_size_ + 1 <= PoolSize
  BY <1>3, <1>4, FreeFacts DEF PoolInv, PoolType
<1> QED BY <1>1, <1>5, PoolAssumption

\* the objects threaded in the next state are the free ones there
LEMMA NewList ==
  ASSUME NEW S, Threaded(S, freelist_', next_', freelist_size_')
  PROVE  Free' = S /\ Chain(Visited(freelist_, next_), freelist_, next_, freelist_size_)'
<1>1. PICK w : Chain(w, freelist_', next_', freelist_size_') /\ Values(w) = S
  BY DEF Threaded
<1>2. Visited(freelist_', next_') = w
  BY <1>1, ChainIsVisited
<1>3. Free' = {Visited(freelist_', next_')[i] : i \in 0 .. PoolSize} \ {Null}
  BY DEF Free
<1>4. Chain(Visited(freelist_', next_'), freelist_', next_', freelist_size_')
  BY <1>1, <1>2
<1> QED BY <1>1, <1>2, <1>3, <1>4 DEF Values

LEMMA PoolGets ==
  ASSUME PoolInv, NEW p \in Pointer, GetNew(p) PROVE PoolInv' /\ Allocation!Acquire(p)
<1>1. /\ freelist_ \in Objects /\ next_ \in [Objects -> Objects \cup {Null}]
      /\ freelist_size_ \in 0 .. PoolSize /\ pointer \in [Pointer -> Objects \cup {Null}]
  BY DEF PoolInv, PoolType, GetNew
<1>2. /\ Threaded(Free \ {freelist_}, next_[freelist_], [next_ EXCEPT ![freelist_] = Null],
                  freelist_size_ - 1)
      /\ freelist_ \in Free /\ 1 <= freelist_size_
  BY <1>1, PopChain, FreeFacts
<1>3. /\ Free' = Free \ {freelist_}
      /\ Chain(Visited(freelist_, next_), freelist_, next_, freelist_size_)'
  <2>1. Threaded(Free \ {freelist_}, freelist_', next_', freelist_size_')
    BY <1>2 DEF GetNew
  <2> QED BY <2>1, NewList
<1>4. freelist_size_' = Cardinality(Free')
  <2>1. Cardinality(Free \ {freelist_}) = Cardinality(Free) - 1
    BY <1>2, FreeFacts, FS_RemoveElement
  <2> QED BY <1>3, <2>1, FreeFacts DEF GetNew
<1>5. PoolType'
  <2>1. freelist_size_ - 1 \in 0 .. PoolSize
    BY <1>1, <1>2, PoolAssumption
  <2> QED BY <1>1, <2>1 DEF PoolType, GetNew
<1>6. \A q \in Pointer : pointer'[q] = IF q = p THEN freelist_ ELSE pointer[q]
  BY <1>1 DEF GetNew
<1>7. \A q \in Pointer : pointer'[q] \notin Free'
  BY <1>3, <1>6 DEF PoolInv
<1>8. \A q, r \in Pointer : pointer'[q] = pointer'[r] /\ pointer'[q] # Null => q = r
  BY <1>2, <1>6 DEF PoolInv
<1>9. PoolInv'
  BY <1>3, <1>4, <1>5, <1>7, <1>8 DEF PoolInv
<1>10. Allocation!Acquire(p)
  <2>1. Free' = (Free \ {freelist_}) \cup ({pointer[p]} \ {Null})
    BY <1>3 DEF GetNew
  <2>2. pointer' = [pointer EXCEPT ![p] = freelist_]
    BY DEF GetNew
  <2> QED BY <1>2, <1>4, <2>1, <2>2, SameCardinality DEF Allocation!Acquire
<1> QED BY <1>9, <1>10

LEMMA PoolTakesBack ==
  ASSUME PoolInv, NEW p \in Pointer, Return_(p) PROVE PoolInv' /\ Allocation!GiveBack(p)
<1>1. /\ next_ \in [Objects -> Objects \cup {Null}] /\ freelist_ \in Objects \cup {Null}
      /\ pointer \in [Pointer -> Objects \cup {Null}] /\ pointer[p] # Null
  BY DEF PoolInv, PoolType, Return_
<1>2. Threaded(Free \cup {pointer[p]}, pointer[p], [next_ EXCEPT ![pointer[p]] = freelist_],
               freelist_size_ + 1)
  BY <1>1, NotFull, PushChain, FreeFacts
<1>3. /\ Free' = Free \cup {pointer[p]}
      /\ Chain(Visited(freelist_, next_), freelist_, next_, freelist_size_)'
  <2>1. Threaded(Free \cup {pointer[p]}, freelist_', next_', freelist_size_')
    BY <1>2 DEF Return_
  <2> QED BY <2>1, NewList
<1>4. freelist_size_' = Cardinality(Free')
  <2>1. Cardinality(Free \cup {pointer[p]}) = Cardinality(Free) + 1
    BY <1>1, NotFull, FreeFacts, FS_AddElement
  <2> QED BY <1>3, <2>1, FreeFacts DEF Return_
<1>5. PoolType'
  <2>1. freelist_size_ + 1 \in 0 .. PoolSize
    BY <1>1, NotFull, PoolAssumption
  <2> QED BY <1>1, <2>1, NotFull DEF PoolType, Return_
<1>6. \A q \in Pointer : pointer'[q] = IF q = p THEN Null ELSE pointer[q]
  BY <1>1 DEF Return_
<1>7. \A q \in Pointer : pointer'[q] \notin Free'
  <2>1. Null \notin Free'
    BY <1>3, <1>1, FreeFacts, ObjectsFacts
  <2> QED BY <1>1, <1>3, <1>6, <2>1 DEF PoolInv
<1>8. \A q, r \in Pointer : pointer'[q] = pointer'[r] /\ pointer'[q] # Null => q = r
  BY <1>6 DEF PoolInv
<1>9. PoolInv'
  BY <1>3, <1>4, <1>5, <1>7, <1>8 DEF PoolInv
<1>10. Allocation!GiveBack(p)
  BY <1>1, <1>3, <1>4, SameCardinality DEF Allocation!GiveBack, Return_
<1> QED BY <1>9, <1>10

\* p = pool.Get(): the list loses its first object and then gains p's old one
LEMMA PoolExchanges ==
  ASSUME PoolInv, NEW p \in Pointer, GetAgain(p) PROVE PoolInv' /\ Allocation!Acquire(p)
<1> DEFINE old == pointer[p]
           cut == [next_ EXCEPT ![freelist_] = Null]
<1>1. /\ freelist_ \in Objects /\ next_ \in [Objects -> Objects \cup {Null}]
      /\ freelist_size_ \in 0 .. PoolSize /\ pointer \in [Pointer -> Objects \cup {Null}]
      /\ old # Null
  BY DEF PoolInv, PoolType, GetAgain
<1>2. /\ Threaded(Free \ {freelist_}, next_[freelist_], cut, freelist_size_ - 1)
      /\ freelist_ \in Free /\ 1 <= freelist_size_
  BY <1>1, PopChain, FreeFacts
<1>3. /\ cut \in [Objects -> Objects \cup {Null}] /\ old \in Objects
      /\ freelist_size_ - 1 \in 0 .. PoolSize - 1 /\ freelist_size_ - 1 + 1 = freelist_size_
      /\ old \notin Free /\ next_[freelist_] \in Objects \cup {Null}
  <2>1. freelist_size_ - 1 \in 0 .. PoolSize - 1 /\ freelist_size_ - 1 + 1 = freelist_size_
    BY <1>1, <1>2, PoolAssumption
  <2> QED BY <1>1, <1>2, <2>1, NotFull
<1>4. Threaded((Free \ {freelist_}) \cup {old}, old, [cut EXCEPT ![old] = next_[freelist_]],
               freelist_size_)
  <2>1. Threaded((Free \ {freelist_}) \cup {old}, old, [cut EXCEPT ![old] = next_[freelist_]],
                 freelist_size_ - 1 + 1)
    <3>1. old \notin Free \ {freelist_}
      BY <1>3
    <3> HIDE DEF old, cut
    <3> QED BY <1>2, <1>3, <3>1, PushChain
  <2> QED BY <1>3, <2>1
<1>5. /\ Free' = (Free \ {freelist_}) \cup {old}
      /\ Chain(Visited(freelist_, next_), freelist_, next_, freelist_size_)'
  <2>1. Relink(freelist_, old) = [cut EXCEPT ![old] = next_[freelist_]]
    BY <1>1 DEF Relink
  <2>2. Threaded((Free \ {freelist_}) \cup {old}, freelist_', next_', freelist_size_')
    BY <1>4, <2>1 DEF GetAgain
  <2> QED BY <2>2, NewList
<1>6. freelist_size_' = Cardinality(Free')
  <2>1. /\ IsFiniteSet(Free \ {freelist_})
        /\ Cardinality(Free \ {freelist_}) = Cardinality(Free) - 1
    BY <1>2, FreeFacts, FS_RemoveElement
  <2>2. Cardinality((Free \ {freelist_}) \cup {old}) = Cardinality(Free \ {freelist_}) + 1
    BY <1>3, <2>1, FS_AddElement
  <2> QED BY <1>1, <1>5, <2>1, <2>2, FreeFacts DEF GetAgain
<1>7. PoolType'
  <2>1. next_' = [cut EXCEPT ![old] = next_[freelist_]]
    BY <1>1 DEF GetAgain, Relink
  <2>2. next_' \in [Objects -> Objects \cup {Null}]
    BY <1>1, <1>3, <2>1
  <2> QED BY <1>1, <1>3, <2>2 DEF PoolType, GetAgain
<1>8. \A q \in Pointer : pointer'[q] = IF q = p THEN freelist_ ELSE pointer[q]
  BY <1>1 DEF GetAgain
<1>9. \A q \in Pointer : pointer'[q] \notin Free'
  BY <1>1, <1>2, <1>3, <1>5, <1>8 DEF PoolInv
<1>10. \A q, r \in Pointer : pointer'[q] = pointer'[r] /\ pointer'[q] # Null => q = r
  BY <1>2, <1>8 DEF PoolInv
<1>11. PoolInv'
  BY <1>5, <1>6, <1>7, <1>9, <1>10 DEF PoolInv
<1>12. Allocation!Acquire(p)
  <2>1. Free' = (Free \ {freelist_}) \cup ({pointer[p]} \ {Null})
    BY <1>1, <1>5
  <2>2. pointer' = [pointer EXCEPT ![p] = freelist_]
    BY DEF GetAgain
  <2> QED BY <1>2, <1>6, <2>1, <2>2, SameCardinality DEF Allocation!Acquire
<1> QED BY <1>11, <1>12

LEMMA StepPool ==
  PoolInv /\ [PoolNext]_poolVars
    => PoolInv' /\ [Allocation!AllocatorNext]_Allocation!allocatorVars
<1> SUFFICES ASSUME PoolInv, [PoolNext]_poolVars
             PROVE  PoolInv' /\ [Allocation!AllocatorNext]_Allocation!allocatorVars
  OBVIOUS
<1>1. ASSUME NEW p \in Pointer, GetNew(p) \/ GetAgain(p)
      PROVE  PoolInv' /\ Allocation!AllocatorNext
  BY <1>1, PoolGets, PoolExchanges DEF Allocation!AllocatorNext
<1>2. ASSUME NEW p \in Pointer, Return_(p) PROVE PoolInv' /\ Allocation!AllocatorNext
  BY <1>2, PoolTakesBack DEF Allocation!AllocatorNext
<1>3. CASE UNCHANGED poolVars
  <2>1. next_' = next_ /\ freelist_' = freelist_ /\ freelist_size_' = freelist_size_
        /\ pointer' = pointer
    BY <1>3 DEF poolVars
  <2>2. Free' = Free
    BY <2>1 DEF Free
  <2>3. PoolInv'
    BY <2>1, <2>2 DEF PoolInv, PoolType
  <2>4. UNCHANGED Allocation!allocatorVars
    BY <2>1, <2>2 DEF Allocation!allocatorVars
  <2> QED BY <2>3, <2>4
<1> QED BY <1>1, <1>2, <1>3 DEF PoolNext

\* The list reaches its objects once each and ends: no object is lost, twice in
\* it, or in it and owned.
THEOREM PoolListInductive == PoolSpec => []PoolInv
  BY InitPool, StepPool, PTL DEF PoolSpec

\* object_pool.cc's free list, threaded through the objects, implements an
\* allocator, for a pool of any size.
THEOREM PoolImplements == PoolSpec => PoolContract
  BY InitPool, StepPool, PoolListInductive, PTL DEF PoolSpec, PoolContract, Allocation!AllocatorSpec

----------------------------------------------------------------------------
(* Sums over finite sets, as MapThenSumSet computes them                   *)

Pick(s) == CHOOSE x \in s : TRUE

\* the sum of the weights of s, with the one of Pick(s) split off
SumStep(h, F, s) == IF s = {} THEN 0 ELSE F[Pick(s)] + h[s \ {Pick(s)}]

\* h[s] is the sum of F over s, for the subsets of S
Sums(h, F, S) == h = [s \in SUBSET S |-> SumStep(h, F, s)]

LEMMA PickFacts ==
  ASSUME NEW S, IsFiniteSet(S), NEW s \in SUBSET S
  PROVE  /\ IsFiniteSet(s) /\ Cardinality(s) \in Nat /\ Cardinality(s) <= Cardinality(S)
         /\ s # {} => Pick(s) \in s
         /\ \A x \in s : /\ s \ {x} \in SUBSET S /\ Cardinality(s) >= 1
                         /\ Cardinality(s \ {x}) = Cardinality(s) - 1
<1>1. IsFiniteSet(s) /\ Cardinality(s) <= Cardinality(S)
  BY FS_Subset
<1>2. Cardinality(s) \in Nat
  BY <1>1, FS_CardinalityType
<1>3. s # {} => Pick(s) \in s
  BY DEF Pick
<1>4. ASSUME NEW x \in s PROVE Cardinality(s) >= 1 /\ Cardinality(s \ {x}) = Cardinality(s) - 1
  <2>1. Cardinality(s \ {x}) = Cardinality(s) - 1 /\ IsFiniteSet(s \ {x})
    BY <1>1, FS_RemoveElement
  <2>2. Cardinality(s \ {x}) \in Nat
    BY <2>1, FS_CardinalityType
  <2> QED BY <1>2, <2>1, <2>2
<1> QED BY <1>1, <1>2, <1>3, <1>4

\* The recursion has a solution: by induction on the size up to which it is solved.
LEMMA SumsExist ==
  ASSUME NEW S, IsFiniteSet(S), NEW F PROVE \E h : Sums(h, F, S)
<1> DEFINE Upto(h, n) == \A s \in SUBSET S : Cardinality(s) <= n => h[s] = SumStep(h, F, s)
           bad == {n \in Nat : ~ \E h : Upto(h, n)}
<1>1. \A s \in SUBSET S : s # {} => /\ Pick(s) \in s /\ s \ {Pick(s)} \in SUBSET S
                                    /\ Cardinality(s) \in Nat /\ Cardinality(s) >= 1
                                    /\ Cardinality(s \ {Pick(s)}) = Cardinality(s) - 1
  BY PickFacts
<1>2. ASSUME bad # {} PROVE FALSE
  <2>1. PICK n \in bad : \A m \in bad : n <= m
    <3>1. bad \subseteq Nat
      OBVIOUS
    <3> HIDE DEF bad
    <3> QED BY <1>2, <3>1, LeastElement
  <2>2. n \in Nat /\ ~ \E h : Upto(h, n)
    OBVIOUS
  <2>3. PICK h : n # 0 => Upto(h, n - 1)
    <3>1. CASE n = 0
      BY <3>1
    <3>2. CASE n # 0
      <4>1. n - 1 \in Nat /\ ~(n <= n - 1)
        BY <2>2, <3>2
      <4>2. n - 1 \notin bad
        <5> HIDE DEF bad
        <5> QED BY <2>1, <4>1
      <4>3. \E h : Upto(h, n - 1)
        BY <4>1, <4>2
      <4> QED BY <4>3
    <3> QED BY <3>1, <3>2
  <2> DEFINE g == [s \in SUBSET S |-> SumStep(h, F, s)]
  <2>4. Upto(g, n)
    <3> SUFFICES ASSUME NEW s \in SUBSET S, Cardinality(s) <= n PROVE g[s] = SumStep(g, F, s)
      OBVIOUS
    <3>1. CASE s = {}
      BY <3>1 DEF SumStep
    <3>2. CASE s # {}
      <4> DEFINE t == s \ {Pick(s)}
      <4>1. t \in SUBSET S /\ n # 0 /\ Cardinality(t) <= n - 1
        BY <1>1, <2>2, <3>2
      <4>2. h[t] = SumStep(h, F, t)
        BY <2>3, <4>1
      <4>3. g[t] = h[t]
        BY <4>1, <4>2
      <4>4. g[s] = F[Pick(s)] + h[t]
        BY <3>2 DEF SumStep
      <4>5. SumStep(g, F, s) = F[Pick(s)] + g[t]
        BY <3>2 DEF SumStep
      <4> QED BY <4>3, <4>4, <4>5
    <3> QED BY <3>1, <3>2
  <2> QED BY <2>2, <2>4
<1>3. PICK h : Upto(h, Cardinality(S))
  <2>1. Cardinality(S) \in Nat
    BY FS_CardinalityType
  <2> QED BY <1>2, <2>1
<1> DEFINE g == [s \in SUBSET S |-> h[s]]
<1>4. \A s \in SUBSET S : h[s] = SumStep(h, F, s)
  BY <1>3, PickFacts
<1>5. \A s \in SUBSET S : SumStep(g, F, s) = SumStep(h, F, s)
  BY <1>1 DEF SumStep
<1>6. Sums(g, F, S)
  BY <1>4, <1>5 DEF Sums
<1> QED BY <1>6

LEMMA SumsAt ==
  ASSUME NEW S, NEW F, NEW h, Sums(h, F, S), NEW s \in SUBSET S
  PROVE  h[s] = SumStep(h, F, s)
  BY DEF Sums

\* The sum of integers is an integer, of natural numbers a natural number.
LEMMA SumsIn ==
  ASSUME NEW S, IsFiniteSet(S), NEW D \in {Nat, Int}, NEW F \in [S -> D],
         NEW h, Sums(h, F, S), NEW u \in SUBSET S
  PROVE  h[u] \in D
<1> DEFINE bad == {Cardinality(s) : s \in {s \in SUBSET S : h[s] \notin D}}
<1>1. ASSUME bad # {} PROVE FALSE
  <2>1. bad \subseteq Nat
    BY PickFacts
  <2>2. PICK n \in bad : \A m \in bad : n <= m
    <3> HIDE DEF bad
    <3> QED BY <1>1, <2>1, LeastElement
  <2>3. PICK s \in SUBSET S : h[s] \notin D /\ n = Cardinality(s)
    OBVIOUS
  <2>4. h[s] = SumStep(h, F, s)
    BY SumsAt
  <2>5. s # {}
    BY <2>3, <2>4 DEF SumStep
  <2> DEFINE t == s \ {Pick(s)}
  <2>6. t \in SUBSET S /\ Pick(s) \in s /\ Cardinality(t) < Cardinality(s) /\ n \in Nat
    BY <2>1, <2>5, PickFacts
  <2>7. h[t] \in D
    BY <2>2, <2>3, <2>6, PickFacts
  <2>8. F[Pick(s)] \in D
    BY <2>6
  <2>9. h[s] = F[Pick(s)] + h[t]
    BY <2>4, <2>5 DEF SumStep
  <2> QED BY <2>3, <2>7, <2>8, <2>9
<1> QED BY <1>1

\* Any element can be split off, not only the one Pick takes.
LEMMA SumsRemove ==
  ASSUME NEW S, IsFiniteSet(S), NEW F \in [S -> Int], NEW h, Sums(h, F, S),
         NEW u \in SUBSET S, NEW a \in u
  PROVE  h[u] = F[a] + h[u \ {a}]
<1> DEFINE Splits(s) == \A x \in s : h[s] = F[x] + h[s \ {x}]
           bad == {Cardinality(s) : s \in {s \in SUBSET S : ~Splits(s)}}
<1>1. ASSUME bad # {} PROVE FALSE
  <2>1. bad \subseteq Nat
    BY PickFacts
  <2>2. PICK n \in bad : \A m \in bad : n <= m
    <3> HIDE DEF bad
    <3> QED BY <1>1, <2>1, LeastElement
  <2>3. PICK s \in SUBSET S : ~Splits(s) /\ n = Cardinality(s)
    OBVIOUS
  <2>4. PICK x \in s : h[s] # F[x] + h[s \ {x}]
    BY <2>3
  <2> DEFINE y == Pick(s)
             rest == (s \ {x}) \ {y}
  <2>5. y \in s /\ h[s] = F[y] + h[s \ {y}]
    BY SumsAt, PickFacts DEF SumStep
  <2>6. x # y
    BY <2>4, <2>5
  <2>7. \A z \in s : s \ {z} \in SUBSET S /\ Splits(s \ {z})
    <3> SUFFICES ASSUME NEW z \in s PROVE s \ {z} \in SUBSET S /\ Splits(s \ {z})
      OBVIOUS
    <3>1. /\ s \ {z} \in SUBSET S /\ Cardinality(s \ {z}) = n - 1 /\ n \in Nat
      BY <2>1, <2>3, PickFacts
    <3>2. ~(n <= n - 1)
      BY <3>1
    <3>3. Cardinality(s \ {z}) \notin bad
      <4> HIDE DEF bad
      <4> QED BY <2>2, <3>1, <3>2
    <3> HIDE DEF Splits
    <3> QED BY <3>1, <3>3
  <2>8. h[s \ {y}] = F[x] + h[rest]
    <3>1. x \in s \ {y} /\ (s \ {y}) \ {x} = rest
      BY <2>6
    <3> QED BY <2>5, <2>7, <3>1
  <2>9. h[s \ {x}] = F[y] + h[rest]
    BY <2>5, <2>6, <2>7
  <2>10. F[x] \in Int /\ F[y] \in Int /\ h[rest] \in Int
    <3>1. rest \in SUBSET S /\ Int \in {Nat, Int}
      OBVIOUS
    <3>2. h[rest] \in Int
      BY <3>1, SumsIn
    <3> QED BY <2>5, <3>2
  <2>11. F[y] + (F[x] + h[rest]) = F[x] + (F[y] + h[rest])
    BY <2>10
  <2> QED BY <2>4, <2>5, <2>8, <2>9, <2>11
<1> QED BY <1>1

Agree(F, G, S) == \A x \in S : F[x] = G[x]

\* Sums of the same weights are the same.
LEMMA SumsAgree ==
  ASSUME NEW T, IsFiniteSet(T), NEW S \in SUBSET T, NEW F, NEW G, Agree(F, G, S),
         NEW h, Sums(h, F, T), NEW k, Sums(k, G, S), NEW u \in SUBSET S
  PROVE  h[u] = k[u]
<1> DEFINE bad == {Cardinality(s) : s \in {s \in SUBSET S : h[s] # k[s]}}
<1>0. IsFiniteSet(S)
  BY FS_Subset
<1>1. ASSUME bad # {} PROVE FALSE
  <2>1. bad \subseteq Nat
    BY <1>0, PickFacts
  <2>2. PICK n \in bad : \A m \in bad : n <= m
    <3> HIDE DEF bad
    <3> QED BY <1>1, <2>1, LeastElement
  <2>3. PICK s \in SUBSET S : h[s] # k[s] /\ n = Cardinality(s)
    OBVIOUS
  <2>4. h[s] = SumStep(h, F, s) /\ k[s] = SumStep(k, G, s)
    BY SumsAt
  <2>5. s # {}
    BY <2>3, <2>4 DEF SumStep
  <2> DEFINE t == s \ {Pick(s)}
  <2>6. t \in SUBSET S /\ Pick(s) \in s /\ Cardinality(t) = n - 1 /\ n \in Nat
    BY <1>0, <2>1, <2>3, <2>5, PickFacts
  <2>7. ~(n <= n - 1)
    BY <2>6
  <2>8. Cardinality(t) \notin bad
    <3> HIDE DEF bad
    <3> QED BY <2>2, <2>6, <2>7
  <2>9. h[t] = k[t]
    BY <2>6, <2>8
  <2> QED BY <2>3, <2>4, <2>5, <2>6, <2>9 DEF SumStep, Agree
<1> QED BY <1>1

----------------------------------------------------------------------------
(* ReadBenchmark                                                           *)

\* requests as the benchmark makes them
ReadRequest == [offset : Int, len : Int]

Readers ==
  [at : {"main", "queue", "wait", "peek", "read", "returned"}, size : Int, remaining : Int,
   pending_reads : Nat, file_offset : Int, total_read : Int, ret : {0, -1}, batches : Nat]

ReadType ==
  /\ reader \in Readers
  /\ readRing \in Rings(ReadRequest) /\ OnePlace(readRing) /\ IsFiniteSet(Outstanding)

\* Reads end where the next one will begin, and do not overlap.
ReadsApart ==
  /\ \A r \in Outstanding : r.offset + r.len <= reader.file_offset
  /\ \A r, s \in Outstanding : r = s \/ r.offset + r.len <= s.offset \/ s.offset + s.len <= r.offset

\* Only the first read can be of nothing, or of less than nothing.
ReadsGoOn ==
  /\ reader.size >= 0 => reader.file_offset + reader.remaining = reader.size /\ reader.remaining >= 0
  /\ reader.at \in {"main", "read"} =>
       Outstanding = {} /\ reader.batches = 0 /\ reader.pending_reads = 0
  /\ reader.at = "main" => reader.file_offset = 0 /\ reader.total_read = 0
  /\ reader.at = "queue" =>
       /\ reader.pending_reads < BatchSize
       /\ reader.remaining > 0 \/ (Outstanding = {} /\ reader.file_offset = 0)
  /\ reader.at \in {"wait", "peek"} => reader.remaining >= 0 /\ reader.pending_reads = 0

\* A batch that is waited for may be one completion short of its worth.
ReadsCollected ==
  "wait" \notin faults =>
    Cardinality(Outstanding) <= reader.batches * (BatchSize - 1) + reader.pending_reads
                                  + (IF reader.at = "wait" THEN 1 ELSE 0)

BytesAccounted ==
  Narrow(reader.total_read + Lengths(Outstanding) + reader.remaining) = reader.size

ReadInv == ReadType /\ ReadsApart /\ ReadsGoOn /\ ReadsCollected /\ BytesAccounted

\* division with remainder
LEMMA DivMod ==
  ASSUME NEW m \in Nat \ {0}, NEW x \in Int
  PROVE  \E q, r \in Int : r = x % m /\ x = q * m + r /\ 0 <= r /\ r < m
<1>1. PICK q \in Int : q = x \div m
  OBVIOUS
<1>2. PICK r \in Int : r = x % m
  OBVIOUS
<1>3. x = q * m + r
  BY <1>1, <1>2
<1>4. 0 <= r /\ r < m
  BY <1>2
<1> WITNESS q \in Int, r \in Int
<1> QED BY <1>2, <1>3, <1>4

\* A multiple of m makes no difference modulo m.
LEMMA ModShift ==
  ASSUME NEW m \in Nat \ {0}, NEW x \in Int, NEW y \in Int, NEW k \in Int, x = y + k * m
  PROVE  x % m = y % m
<1>1. PICK i, r \in Int : r = x % m /\ x = i * m + r /\ 0 <= r /\ r < m
  BY DivMod
<1>2. PICK j, s \in Int : s = y % m /\ y = j * m + s /\ 0 <= s /\ s < m
  BY DivMod
<1>3. PICK q \in Int : q = i - j - k
  OBVIOUS
<1>4. m * q = s - r
  <2>1. m * q = i * m - j * m - k * m
    BY <1>3
  <2>2. x = i * m + r /\ y = j * m + s
    BY <1>1, <1>2
  <2> QED BY <2>1, <2>2
<1>5. -m < m * q /\ m * q < m
  <2>1. 0 <= r /\ r < m /\ 0 <= s /\ s < m
    BY <1>1, <1>2
  <2> QED BY <1>4, <2>1
<1>6. q = 0
  <2>1. ASSUME q >= 1 PROVE FALSE
    <3>1. m * q = m * (q - 1) + m /\ m * (q - 1) >= 0
      BY <2>1
    <3> QED BY <1>5, <3>1
  <2>2. ASSUME q <= -1 PROVE FALSE
    <3>1. m * q = -(m * (-q - 1)) - m /\ m * (-q - 1) >= 0
      BY <2>2
    <3> QED BY <1>5, <3>1
  <2> QED BY <2>1, <2>2
<1>7. s = r
  BY <1>4, <1>6
<1> QED BY <1>1, <1>2, <1>7

\* Narrowing a part of a sum first does not change the narrowed sum.
LEMMA NarrowSum ==
  ASSUME NEW a \in Int, NEW b \in Int
  PROVE  /\ Narrow(a) \in Int /\ Narrow(Narrow(a) + b) = Narrow(a + b)
         /\ Narrow(Narrow(a)) = Narrow(a) /\ Narrow(0) = 0
<1>1. IntMod \in Nat \ {0} /\ 0 < IntMod \div 2
  BY ReadAssumption
<1>2. PICK q, r \in Int : r = a % IntMod /\ a = q * IntMod + r
  BY <1>1, DivMod
<1>3. PICK k \in Int : Narrow(a) = a + k * IntMod
  <2>1. Narrow(a) = r \/ Narrow(a) = r - IntMod
    BY <1>2 DEF Narrow
  <2>2. r = a + (-q) * IntMod /\ r - IntMod = a + (-q - 1) * IntMod
    <3>1. a = q * IntMod + r
      BY <1>2
    <3> QED BY <1>1, <3>1
  <2>3. -q \in Int /\ -q - 1 \in Int
    OBVIOUS
  <2> QED BY <2>1, <2>2, <2>3
<1>4. Narrow(a) \in Int
  BY <1>1, <1>3
<1>5. ASSUME NEW c \in Int PROVE Narrow(Narrow(a) + c) = Narrow(a + c)
  <2>1. Narrow(a) + c = (a + c) + k * IntMod
    BY <1>1, <1>3
  <2>2. (Narrow(a) + c) % IntMod = (a + c) % IntMod
    <3>1. Narrow(a) + c \in Int /\ a + c \in Int
      BY <1>4
    <3> QED BY <1>1, <2>1, <3>1, ModShift
  <2> QED BY <2>2 DEF Narrow
<1>6. Narrow(Narrow(a)) = Narrow(a)
  <2>1. Narrow(Narrow(a) + 0) = Narrow(a + 0)
    BY <1>5
  <2>2. Narrow(a) + 0 = Narrow(a) /\ a + 0 = a
    BY <1>4
  <2> QED BY <2>1, <2>2
<1>7. Narrow(0) = 0
  <2>1. 0 % IntMod = 0
    BY <1>1
  <2> QED BY <1>1, <2>1 DEF Narrow
<1> QED BY <1>4, <1>5, <1>6, <1>7

LEMMA LengthsSum ==
  ASSUME NEW S, IsFiniteSet(S)
  PROVE  \E h : Sums(h, [r \in S |-> r.len], S) /\ Lengths(S) = h[S]
<1> DEFINE F == [r \in S |-> r.len]
           Steps(h) == h = [s \in SUBSET S |-> IF s = {} THEN 0
                                               ELSE Pick(s).len + h[s \ {Pick(s)}]]
<1>1. ASSUME NEW h PROVE Sums(h, F, S) <=> Steps(h)
  <2>1. \A s \in SUBSET S : SumStep(h, F, s) = IF s = {} THEN 0
                                               ELSE Pick(s).len + h[s \ {Pick(s)}]
    <3>1. ASSUME NEW s \in SUBSET S, s # {}
          PROVE  SumStep(h, F, s) = Pick(s).len + h[s \ {Pick(s)}]
      <4>1. Pick(s) \in S
        BY <3>1 DEF Pick
      <4> QED BY <3>1, <4>1 DEF SumStep
    <3>2. SumStep(h, F, {}) = 0
      BY DEF SumStep
    <3> HIDE DEF F
    <3> QED BY <3>1, <3>2
  <2> QED BY <2>1 DEF Sums
<1>2. PICK g : Steps(g)
  BY <1>1, SumsExist
<1>3. \E h : Steps(h) /\ Lengths(S) = h[S]
  BY <1>2, Zenon DEF Lengths, MapThenSumSet, MapThenFoldSet, Pick
<1> QED BY <1>1, <1>3

LEMMA LengthsAdd ==
  ASSUME NEW S \in SUBSET ReadRequest, IsFiniteSet(S), NEW r \in ReadRequest, r \notin S
  PROVE  /\ Lengths(S) \in Int /\ Lengths(S \cup {r}) = Lengths(S) + r.len /\ r.len \in Int
         /\ IsFiniteSet(S \cup {r}) /\ Cardinality(S \cup {r}) = Cardinality(S) + 1
<1> DEFINE T == S \cup {r}
           F == [q \in T |-> q.len]
           G == [q \in S |-> q.len]
<1>1. IsFiniteSet(T) /\ Cardinality(T) = Cardinality(S) + 1
  BY FS_AddElement
<1>2. PICK h : Sums(h, F, T) /\ Lengths(T) = h[T]
  BY <1>1, LengthsSum
<1>3. PICK k : Sums(k, G, S) /\ Lengths(S) = k[S]
  BY LengthsSum
<1>4. F \in [T -> Int] /\ G \in [S -> Int] /\ F[r] = r.len
  BY DEF ReadRequest
<1>5. h[S] = k[S]
  <2>1. Agree(F, G, S)
    BY DEF Agree
  <2>2. S \in SUBSET T /\ S \in SUBSET S
    OBVIOUS
  <2> HIDE DEF F, G, T
  <2> QED BY <1>1, <1>2, <1>3, <2>1, <2>2, SumsAgree
<1>6. h[T] = F[r] + h[T \ {r}]
  <2> HIDE DEF F
  <2> QED BY <1>1, <1>2, <1>4, SumsRemove
<1>7. k[S] \in Int
  <2> HIDE DEF G
  <2> QED BY <1>3, <1>4, SumsIn
<1>8. T \ {r} = S /\ r.len \in Int
  BY DEF ReadRequest
<1>9. Lengths(T) = r.len + Lengths(S) /\ Lengths(S) \in Int
  <2> HIDE DEF F, G, T
  <2> QED BY <1>2, <1>3, <1>4, <1>5, <1>6, <1>7, <1>8
<1>10. Lengths(T) = Lengths(S) + r.len
  BY <1>8, <1>9
<1> QED BY <1>1, <1>8, <1>9, <1>10

LEMMA LengthsEmpty == Lengths({}) = 0
<1>1. PICK h : Sums(h, [r \in {} |-> r.len], {}) /\ Lengths({}) = h[{}]
  BY LengthsSum, FS_EmptySet
<1> QED BY <1>1, SumsAt DEF SumStep

LEMMA OutstandingRequests ==
  Outstanding = Requests(readRing) /\ Outstanding' = Requests(readRing')
  BY DEF Outstanding, Unsubmitted, Unseen, Requests, Prepared, Completed, Elements

LEMMA OutstandingFacts ==
  ASSUME ReadInv
  PROVE  /\ Outstanding \in SUBSET ReadRequest /\ IsFiniteSet(Outstanding)
         /\ Lengths(Outstanding) \in Int /\ Cardinality(Outstanding) \in Nat
<1>1. Outstanding \in SUBSET ReadRequest /\ IsFiniteSet(Outstanding)
  <2>1. readRing \in Rings(ReadRequest) /\ IsFiniteSet(Outstanding)
    BY DEF ReadInv, ReadType
  <2>2. readRing.cq \in Seq(Completions(ReadRequest)) /\ readRing.sq \in Seq(ReadRequest)
        /\ readRing.flight \in SUBSET ReadRequest
    BY <2>1 DEF Rings
  <2>3. Unsubmitted \subseteq ReadRequest
    BY <2>2 DEF Unsubmitted
  <2>4. Unseen \subseteq ReadRequest
    <3>1. \A i \in DOMAIN readRing.cq : readRing.cq[i] \in Completions(ReadRequest)
      BY <2>2
    <3>2. \A c \in Completions(ReadRequest) : c.req \in ReadRequest
      BY DEF Completions
    <3> QED BY <3>1, <3>2 DEF Unseen
  <2> QED BY <2>1, <2>2, <2>3, <2>4 DEF Outstanding
<1>2. PICK h : /\ Sums(h, [r \in Outstanding |-> r.len], Outstanding)
               /\ Lengths(Outstanding) = h[Outstanding]
  BY <1>1, LengthsSum
<1>3. h[Outstanding] \in Int
  <2> DEFINE F == [r \in Outstanding |-> r.len]
  <2>1. F \in [Outstanding -> Int]
    BY <1>1 DEF ReadRequest
  <2> HIDE DEF F
  <2> QED BY <1>1, <1>2, <2>1, SumsIn DEF F
<1>4. Cardinality(Outstanding) \in Nat
  BY <1>1, FS_CardinalityType
<1> QED BY <1>1, <1>2, <1>3, <1>4

LEMMA InitRead == ReadInit => ReadInv
<1> SUFFICES ASSUME ReadInit PROVE ReadInv
  OBVIOUS
<1>1. Outstanding = {} /\ readRing \in Rings(ReadRequest) /\ OnePlace(readRing)
  BY EmptyRingFacts, OutstandingRequests DEF ReadInit
<1>2. /\ reader.at = "main" /\ reader.size = 0 /\ reader.remaining = 0
      /\ reader.pending_reads = 0 /\ reader.file_offset = 0 /\ reader.total_read = 0
      /\ reader.batches = 0
  BY DEF ReadInit
<1>3. ReadType
  BY <1>1, FS_EmptySet DEF ReadType, ReadInit, Readers
<1>4. ReadsApart
  BY <1>1 DEF ReadsApart
<1>5. ReadsGoOn
  BY <1>1, <1>2 DEF ReadsGoOn
<1>6. ReadsCollected
  <2>1. Cardinality(Outstanding) = 0
    BY <1>1, FS_EmptySet
  <2>2. 0 * (BatchSize - 1) + 0 + 0 = 0
    BY ReadAssumption
  <2> QED BY <1>2, <2>1, <2>2 DEF ReadsCollected
<1>7. BytesAccounted
  BY <1>1, <1>2, LengthsEmpty, NarrowSum DEF BytesAccounted
<1> QED BY <1>3, <1>4, <1>5, <1>6, <1>7 DEF ReadInv

LEMMA SameReads ==
  ASSUME readRing' = readRing PROVE Outstanding' = Outstanding
  BY DEF Outstanding, Unsubmitted, Unseen

LEMMA MainStep ==
  ASSUME ReadInv, ReadMain PROVE ReadInv'
<1>1. /\ reader.at = "main" /\ readRing' = readRing /\ faults' = faults
  BY DEF ReadMain
<1>2. PICK size \in FileSizes, at \in {"queue", "read"} :
        reader' = [reader EXCEPT !.at = at, !.size = Narrow(size), !.remaining = Narrow(size)]
  BY DEF ReadMain
<1>3. size \in Int /\ Narrow(size) \in Int /\ Narrow(Narrow(size)) = Narrow(size)
  BY ReadAssumption, NarrowSum
<1>4. /\ reader'.at = at /\ reader'.size = Narrow(size) /\ reader'.remaining = Narrow(size)
      /\ reader'.pending_reads = 0 /\ reader'.batches = 0
      /\ reader'.file_offset = 0 /\ reader'.total_read = 0 /\ reader' \in Readers
  <2>1. reader \in Readers
    BY DEF ReadInv, ReadType
  <2> DEFINE a == [reader EXCEPT !.at = at]
             b == [a EXCEPT !.size = Narrow(size)]
  <2>2. reader' = [b EXCEPT !.remaining = Narrow(size)]
    BY <1>2, <2>1 DEF Readers
  <2>3. reader' \in Readers
    BY <1>3, <2>1, <2>2 DEF Readers
  <2> QED BY <1>1, <2>1, <2>2, <2>3 DEF ReadInv, ReadsGoOn, Readers
<1>5. Outstanding' = {}
  BY <1>1, SameReads DEF ReadInv, ReadsGoOn
<1>6. ReadType'
  BY <1>1, <1>4, <1>5, FS_EmptySet DEF ReadType, ReadInv
<1>7. ReadsApart'
  BY <1>5 DEF ReadsApart
<1>8. ReadsGoOn'
  <2>1. 0 < BatchSize /\ 0 + Narrow(size) = Narrow(size)
    BY <1>3, ReadAssumption
  <2> QED BY <1>3, <1>4, <1>5, <2>1 DEF ReadsGoOn
<1>9. ReadsCollected'
  <2>1. Cardinality(Outstanding') = 0 /\ 0 * (BatchSize - 1) + 0 + 0 = 0
    BY <1>5, ReadAssumption, FS_EmptySet
  <2> QED BY <1>4, <2>1 DEF ReadsCollected
<1>10. BytesAccounted'
  <2>1. Lengths(Outstanding') = 0
    BY <1>5, LengthsEmpty
  <2>2. 0 + 0 + Narrow(size) = Narrow(size)
    BY <1>3
  <2> QED BY <1>3, <1>4, <2>1, <2>2 DEF BytesAccounted
<1> QED BY <1>6, <1>7, <1>8, <1>9, <1>10 DEF ReadInv

\* the thread goes on to queue reads, or returns
LEMMA MovesOn ==
  ASSUME ReadInv, NEW to \in {"queue", "returned"}, NEW r \in {0, -1},
         \/ reader' = [reader EXCEPT !.at = to]
         \/ reader' = [reader EXCEPT !.at = to, !.ret = r],
         readRing' = readRing, faults \subseteq faults',
         to = "queue" => reader.remaining > 0 /\ reader.pending_reads < BatchSize,
         reader.at = "wait" => "wait" \in faults'
  PROVE  ReadInv'
<1>1. /\ reader'.at = to /\ reader'.size = reader.size /\ reader'.remaining = reader.remaining
      /\ reader'.pending_reads = reader.pending_reads /\ reader'.batches = reader.batches
      /\ reader'.file_offset = reader.file_offset /\ reader'.total_read = reader.total_read
      /\ reader' \in Readers
  <2>1. reader \in Readers
    BY DEF ReadInv, ReadType
  <2>2. CASE reader' = [reader EXCEPT !.at = to]
    BY <2>1, <2>2 DEF Readers
  <2>3. CASE reader' = [reader EXCEPT !.at = to, !.ret = r]
    <3> DEFINE a == [reader EXCEPT !.at = to]
    <3>1. reader' = [a EXCEPT !.ret = r]
      BY <2>1, <2>3 DEF Readers
    <3> QED BY <2>1, <3>1 DEF Readers
  <2> QED BY <2>2, <2>3
<1>2. Outstanding' = Outstanding
  BY SameReads
<1>3. ReadType'
  BY <1>1, <1>2 DEF ReadType, ReadInv
<1>4. ReadsApart' /\ BytesAccounted'
  BY <1>1, <1>2 DEF ReadsApart, BytesAccounted, ReadInv
<1>5. ReadsGoOn'
  BY <1>1, <1>2 DEF ReadsGoOn, ReadInv
<1>6. ReadsCollected'
  BY <1>1, <1>2 DEF ReadsCollected, ReadInv
<1> QED BY <1>3, <1>4, <1>5, <1>6 DEF ReadInv

LEMMA RegularStep ==
  ASSUME ReadInv, NEW res \in {-1} \cup 0 .. BufferLimit, RegularRead(res) PROVE ReadInv'
<1>1. /\ reader.at = "read" /\ readRing' = readRing /\ faults \subseteq faults'
      /\ res <= BufferSize(reader.remaining) \/ res = -1
  BY DEF RegularRead
<1>2. CASE res = -1
  <2>1. reader' = [reader EXCEPT !.at = "returned", !.ret = -1]
    BY <1>2 DEF RegularRead, Return
  <2> QED BY <1>1, <2>1, MovesOn
<1>3. CASE res # -1
  <2>1. reader \in Readers /\ res \in Int /\ res >= 0
    BY <1>3, ReadAssumption DEF ReadInv, ReadType
  <2>2. reader' = [reader EXCEPT !.remaining = @ - res, !.file_offset = @ + res,
                                 !.total_read = @ + res]
    BY <1>3 DEF RegularRead
  <2>3. /\ reader'.at = "read" /\ reader'.size = reader.size
        /\ reader'.remaining = reader.remaining - res
        /\ reader'.pending_reads = reader.pending_reads /\ reader'.batches = reader.batches
        /\ reader'.file_offset = reader.file_offset + res
        /\ reader'.total_read = reader.total_read + res /\ reader' \in Readers
    <3> DEFINE a == [reader EXCEPT !.remaining = reader.remaining - res]
               b == [a EXCEPT !.file_offset = reader.file_offset + res]
    <3>1. reader' = [b EXCEPT !.total_read = reader.total_read + res]
      BY <2>1, <2>2 DEF Readers
    <3>2. /\ reader.remaining - res \in Int /\ reader.file_offset + res \in Int
          /\ reader.total_read + res \in Int
      BY <2>1 DEF Readers
    <3>3. b \in Readers /\ b.total_read = reader.total_read
      BY <2>1, <3>2 DEF Readers
    <3>4. reader' \in Readers
      BY <3>1, <3>2, <3>3 DEF Readers
    <3> QED BY <1>1, <2>1, <3>1, <3>4 DEF Readers
  <2>4. Outstanding' = {} /\ Outstanding = {}
    BY <1>1, SameReads DEF ReadInv, ReadsGoOn
  <2>5. ReadType' /\ ReadsApart'
    BY <1>1, <2>3, <2>4, FS_EmptySet DEF ReadType, ReadInv, ReadsApart
  <2>6. ReadsGoOn'
    <3>1. reader.remaining \in Int /\ reader.file_offset \in Int /\ reader.size \in Int
      BY <2>1 DEF Readers
    <3>2. reader.remaining >= 0 => res <= reader.remaining
      BY <1>1, <1>3, <2>1, <3>1, ReadAssumption DEF BufferSize
    <3>3. /\ reader'.size >= 0 => reader.file_offset + reader.remaining = reader.size
          /\ reader'.size >= 0 => reader.remaining >= 0
      BY <2>3 DEF ReadInv, ReadsGoOn
    <3>4. reader'.size >= 0 => /\ reader'.file_offset + reader'.remaining = reader'.size
                               /\ reader'.remaining >= 0
      BY <2>1, <2>3, <3>1, <3>2, <3>3
    <3>5. reader.batches = 0 /\ reader.pending_reads = 0
      BY <1>1 DEF ReadInv, ReadsGoOn
    <3> QED BY <2>3, <2>4, <3>4, <3>5 DEF ReadsGoOn
  <2>7. ReadsCollected'
    BY <1>1, <2>3, <2>4 DEF ReadInv, ReadsCollected
  <2>8. BytesAccounted'
    <3>1. /\ reader.total_read \in Int /\ reader.remaining \in Int
          /\ Lengths(Outstanding) = 0 /\ Lengths(Outstanding') = 0
      BY <2>1, <2>4, LengthsEmpty DEF Readers
    <3>2. reader.total_read + res + 0 + (reader.remaining - res)
            = reader.total_read + 0 + reader.remaining
      BY <2>1, <3>1
    <3> QED BY <2>3, <3>1, <3>2 DEF ReadInv, BytesAccounted
  <2> QED BY <2>5, <2>6, <2>7, <2>8 DEF ReadInv
<1> QED BY <1>2, <1>3

LEMMA CompleteStep ==
  ASSUME ReadInv, CompleteRead PROVE ReadInv'
<1>1. reader' = reader /\ faults' = faults
  BY DEF CompleteRead
<1>2. PICK r \in readRing.flight, res \in Int : readRing' = Complete(readRing, r, res)
  <2>1. readRing \in Rings(ReadRequest)
    BY DEF ReadInv, ReadType
  <2>2. \A r \in readRing.flight : r.len \in Int
    BY <2>1 DEF Rings, ReadRequest
  <2> QED BY <2>2 DEF CompleteRead
<1>3. /\ readRing' \in Rings(ReadRequest) /\ OnePlace(readRing')
      /\ Requests(readRing') = Requests(readRing)
  BY <1>2, CompleteFacts DEF ReadInv, ReadType
<1>4. Outstanding' = Outstanding
  <2>1. Outstanding' = Requests(readRing')
    BY OutstandingRequests
  <2> QED BY <1>3, <2>1, OutstandingRequests
<1>5. ReadType'
  BY <1>1, <1>3, <1>4 DEF ReadInv, ReadType
<1> QED BY <1>1, <1>4, <1>5 DEF ReadInv, ReadsApart, ReadsGoOn, ReadsCollected, BytesAccounted

LEMMA ResultStep ==
  ASSUME ReadInv, GetResult PROVE ReadInv'
<1> DEFINE req == Head(readRing.cq).req
<1>1. /\ reader.at \in {"wait", "peek"} /\ readRing.cq # << >> /\ faults' = faults
      /\ readRing' = CqeSeen(readRing)
      /\ reader' = [reader EXCEPT !.at = "peek", !.total_read = Narrow(@ + req.len)]
  BY DEF GetResult, HasOne
<1>2. /\ readRing' \in Rings(ReadRequest) /\ OnePlace(readRing') /\ req \in ReadRequest
      /\ req \in Requests(readRing) /\ req \notin Requests(readRing')
      /\ Requests(readRing') = Requests(readRing) \ {req}
  BY <1>1, CqeSeenFacts DEF ReadInv, ReadType, Requests
<1>3. Outstanding' = Outstanding \ {req} /\ req \in Outstanding
  <2>1. Outstanding' = Requests(readRing')
    BY OutstandingRequests
  <2> QED BY <1>2, <2>1, OutstandingRequests
<1>4. /\ Lengths(Outstanding) = Lengths(Outstanding') + req.len /\ Lengths(Outstanding') \in Int
      /\ req.len \in Int /\ IsFiniteSet(Outstanding')
      /\ Cardinality(Outstanding) = Cardinality(Outstanding') + 1
      /\ Cardinality(Outstanding') \in Nat
  <2>1. Outstanding' \in SUBSET ReadRequest /\ IsFiniteSet(Outstanding')
    BY <1>3, OutstandingFacts, FS_Subset
  <2>2. req \notin Outstanding' /\ Outstanding' \cup {req} = Outstanding
    BY <1>3
  <2>3. Cardinality(Outstanding') \in Nat
    BY <2>1, FS_CardinalityType
  <2> HIDE DEF req
  <2>4. /\ Lengths(Outstanding' \cup {req}) = Lengths(Outstanding') + req.len
        /\ Lengths(Outstanding') \in Int /\ req.len \in Int
        /\ Cardinality(Outstanding' \cup {req}) = Cardinality(Outstanding') + 1
    BY <1>2, <2>1, <2>2, LengthsAdd
  <2> QED BY <2>1, <2>2, <2>3, <2>4
<1> HIDE DEF req
<1>5. reader \in Readers /\ reader.total_read \in Int /\ reader.remaining \in Int
  BY DEF ReadInv, ReadType, Readers
<1>6. PICK t \in Int : t = reader.total_read + req.len
  BY <1>4, <1>5
<1>7. /\ reader'.at = "peek" /\ reader'.size = reader.size
      /\ reader'.remaining = reader.remaining
      /\ reader'.pending_reads = reader.pending_reads /\ reader'.batches = reader.batches
      /\ reader'.file_offset = reader.file_offset
      /\ reader'.total_read = Narrow(reader.total_read + req.len) /\ reader' \in Readers
  <2> DEFINE a == [reader EXCEPT !.at = "peek"]
  <2>1. reader' = [a EXCEPT !.total_read = Narrow(reader.total_read + req.len)]
    BY <1>1, <1>5 DEF Readers
  <2>2. Narrow(reader.total_read + req.len) \in Int
    BY <1>5, <1>6, NarrowSum
  <2> QED BY <1>5, <2>1, <2>2 DEF Readers
<1>8. ReadType'
  BY <1>2, <1>4, <1>7 DEF ReadType
<1>9. ReadsApart'
  BY <1>3, <1>7 DEF ReadInv, ReadsApart
<1>10. ReadsGoOn'
  BY <1>1, <1>3, <1>7 DEF ReadInv, ReadsGoOn
<1>11. ReadsCollected'
  <2>1. PICK n \in Int : n = reader.batches * (BatchSize - 1) + reader.pending_reads
    BY <1>5, ReadAssumption DEF Readers
  <2>2. "wait" \notin faults => Cardinality(Outstanding) <= n + 1
    BY <1>1, <1>4, <2>1 DEF ReadInv, ReadsCollected
  <2>3. "wait" \notin faults => Cardinality(Outstanding') <= n + 0
    BY <1>4, <2>1, <2>2
  <2> QED BY <1>1, <1>7, <2>1, <2>3 DEF ReadsCollected
<1>12. BytesAccounted'
  <2>1. PICK rest \in Int : rest = Lengths(Outstanding') + reader.remaining
    BY <1>4, <1>5
  <2>2. Narrow(Narrow(t) + rest) = Narrow(t + rest) /\ Narrow(t) \in Int
    BY NarrowSum
  <2>3. t + rest = reader.total_read + Lengths(Outstanding) + reader.remaining
    BY <1>4, <1>5, <1>6, <2>1
  <2>4. Narrow(t) + rest = Narrow(t) + Lengths(Outstanding') + reader.remaining
    BY <1>4, <1>5, <2>1, <2>2
  <2>5. reader'.total_read = Narrow(t)
    BY <1>6, <1>7
  <2> QED BY <1>7, <2>2, <2>3, <2>4, <2>5 DEF ReadInv, BytesAccounted
<1> QED BY <1>8, <1>9, <1>10, <1>11, <1>12 DEF ReadInv

LEMMA QueueStep ==
  ASSUME ReadInv, QueueRead PROVE ReadInv'
<1> DEFINE len == BufferSize(reader.remaining)
           req == [offset |-> reader.file_offset, len |-> len]
           prepared == Prep(readRing, req)
           left == reader.remaining - len
           full == reader.pending_reads + 1 = BatchSize \/ left = 0
<1>1. /\ reader.at = "queue" /\ faults \subseteq faults'
      /\ readRing' = prepared \/ readRing' = Submit(prepared)
      /\ reader' = [reader EXCEPT
           !.at = IF full THEN "wait" ELSE "queue",
           !.remaining = left,
           !.file_offset = @ + len,
           !.pending_reads = IF full THEN 0 ELSE @ + 1,
           !.batches = IF full THEN @ + 1 ELSE @]
  BY DEF QueueRead
<1>2. /\ reader \in Readers /\ reader.remaining \in Int /\ reader.file_offset \in Int
      /\ reader.pending_reads \in Nat /\ reader.batches \in Nat /\ reader.size \in Int
      /\ reader.total_read \in Int
  BY DEF ReadInv, ReadType, Readers
<1>3. /\ len \in Int /\ left \in Int /\ req \in ReadRequest
      /\ left >= 0 /\ (reader.remaining > 0 => len > 0) /\ (reader.remaining >= 0 => len >= 0)
  BY <1>2, ReadAssumption DEF BufferSize, ReadRequest
<1>4. /\ reader.pending_reads < BatchSize
      /\ reader.remaining > 0 \/ (Outstanding = {} /\ reader.file_offset = 0)
  BY <1>1 DEF ReadInv, ReadsGoOn
<1>5. req.offset = reader.file_offset /\ req.len = len
  OBVIOUS
<1> HIDE DEF len
<1>6. req \notin Outstanding
  <2>1. ASSUME req \in Outstanding PROVE FALSE
    <3>1. req.offset + req.len <= reader.file_offset
      BY <2>1 DEF ReadInv, ReadsApart
    <3>2. len > 0
      BY <1>3, <1>4, <2>1
    <3> QED BY <1>2, <1>3, <1>5, <3>1, <3>2
  <2> QED BY <2>1
<1> HIDE DEF req, left
<1>7. /\ readRing' \in Rings(ReadRequest) /\ OnePlace(readRing')
      /\ Outstanding' = Outstanding \cup {req}
  <2>1. readRing \in Rings(ReadRequest) /\ OnePlace(readRing) /\ req \notin Requests(readRing)
    BY <1>6, OutstandingRequests DEF ReadInv, ReadType
  <2>2. /\ prepared \in Rings(ReadRequest) /\ OnePlace(prepared)
        /\ Requests(prepared) = Requests(readRing) \cup {req}
    BY <1>3, <2>1, PrepFacts
  <2> HIDE DEF prepared
  <2>3. /\ Submit(prepared) \in Rings(ReadRequest) /\ OnePlace(Submit(prepared))
        /\ Requests(Submit(prepared)) = Requests(prepared)
    BY <2>2, SubmitFacts
  <2> QED BY <1>1, <2>2, <2>3, OutstandingRequests
<1>8. /\ Lengths(Outstanding') = Lengths(Outstanding) + len /\ Lengths(Outstanding) \in Int
      /\ IsFiniteSet(Outstanding') /\ Cardinality(Outstanding') = Cardinality(Outstanding) + 1
      /\ Cardinality(Outstanding) \in Nat
  BY <1>3, <1>5, <1>6, <1>7, OutstandingFacts, LengthsAdd
<1>9. /\ reader'.at = (IF full THEN "wait" ELSE "queue") /\ reader'.size = reader.size
      /\ reader'.remaining = left /\ reader'.file_offset = reader.file_offset + len
      /\ reader'.pending_reads = (IF full THEN 0 ELSE reader.pending_reads + 1)
      /\ reader'.batches = (IF full THEN reader.batches + 1 ELSE reader.batches)
      /\ reader'.total_read = reader.total_read /\ reader' \in Readers
  <2>1. PICK at \in {"wait", "queue"} : at = IF full THEN "wait" ELSE "queue"
    OBVIOUS
  <2>2. PICK reads \in Nat : reads = IF full THEN 0 ELSE reader.pending_reads + 1
    BY <1>2
  <2>3. PICK batches \in Nat : batches = IF full THEN reader.batches + 1 ELSE reader.batches
    BY <1>2
  <2>4. PICK offset \in Int : offset = reader.file_offset + len
    BY <1>2, <1>3
  <2> HIDE DEF full
  <2> DEFINE a == [reader EXCEPT !.at = at]
             b == [a EXCEPT !.remaining = left]
             c == [b EXCEPT !.file_offset = offset]
             d == [c EXCEPT !.pending_reads = reads]
  <2>5. reader' = [d EXCEPT !.batches = batches]
    BY <1>1, <1>2, <2>1, <2>2, <2>3, <2>4 DEF Readers
  <2>6. b \in Readers /\ b.size = reader.size /\ b.total_read = reader.total_read
        /\ b.at = at /\ b.remaining = left
    BY <1>2, <1>3 DEF Readers
  <2>7. reader' \in Readers
    BY <2>5, <2>6 DEF Readers
  <2>8. /\ reader'.at = at /\ reader'.size = reader.size /\ reader'.remaining = left
        /\ reader'.file_offset = offset /\ reader'.pending_reads = reads
        /\ reader'.batches = batches /\ reader'.total_read = reader.total_read
    BY <1>2, <2>5, <2>6 DEF Readers
  <2> QED BY <2>1, <2>2, <2>3, <2>4, <2>7, <2>8
<1>10. ReadType'
  BY <1>7, <1>8, <1>9 DEF ReadType
<1>11. ReadsApart'
  <2>1. \A r \in Outstanding : r.offset \in Int /\ r.len \in Int
                               /\ r.offset + r.len <= reader.file_offset
    BY OutstandingFacts DEF ReadInv, ReadsApart, ReadRequest
  <2>2. \A r \in Outstanding : r.offset + r.len <= reader.file_offset + len
    <3>1. Outstanding = {} \/ len > 0
      BY <1>3, <1>4
    <3> QED BY <1>2, <1>3, <2>1, <3>1
  <2>3. req.offset + req.len <= reader.file_offset + len
    BY <1>2, <1>3, <1>5
  <2> QED BY <1>5, <1>7, <1>9, <2>1, <2>2, <2>3 DEF ReadInv, ReadsApart
<1>12. ReadsGoOn'
  <2>1. reader'.size >= 0 => /\ reader'.file_offset + reader'.remaining = reader'.size
                             /\ reader'.remaining >= 0
    <3>1. reader.size >= 0 => reader.file_offset + reader.remaining = reader.size
      BY DEF ReadInv, ReadsGoOn
    <3>2. left = reader.remaining - len
      BY DEF left
    <3> QED BY <1>2, <1>3, <1>9, <3>1, <3>2
  <2>2. full => reader'.at = "wait" /\ reader'.pending_reads = 0 /\ reader'.remaining >= 0
    BY <1>3, <1>9
  <2>3. ~full => /\ reader'.at = "queue" /\ reader'.pending_reads < BatchSize
                 /\ reader'.remaining > 0
    <3>1. ~full => reader.pending_reads + 1 # BatchSize /\ left # 0
      OBVIOUS
    <3> QED BY <1>2, <1>3, <1>4, <1>9, <3>1, ReadAssumption
  <2> HIDE DEF full
  <2> QED BY <2>1, <2>2, <2>3 DEF ReadsGoOn
<1>13. ReadsCollected'
  <2>1. PICK n \in Int : n = reader.batches * (BatchSize - 1)
    BY <1>2, ReadAssumption
  <2>2. (reader.batches + 1) * (BatchSize - 1) = n + (BatchSize - 1)
    BY <1>2, <2>1, ReadAssumption
  <2>3. "wait" \notin faults' => Cardinality(Outstanding) <= n + reader.pending_reads
    <3>1. "wait" \notin faults => Cardinality(Outstanding) <= n + reader.pending_reads + 0
      BY <1>1, <2>1 DEF ReadInv, ReadsCollected
    <3> QED BY <1>1, <1>2, <3>1
  <2>4. CASE full
    <3>1. reader'.at = "wait" /\ reader'.pending_reads = 0 /\ reader'.batches = reader.batches + 1
      BY <1>9, <2>4
    <3>2. "wait" \notin faults' =>
            Cardinality(Outstanding') <= n + (BatchSize - 1) + 0 + 1
      BY <1>2, <1>4, <1>8, <2>3, ReadAssumption
    <3> QED BY <2>2, <3>1, <3>2 DEF ReadsCollected
  <2>5. CASE ~full
    <3>1. /\ reader'.at = "queue" /\ reader'.pending_reads = reader.pending_reads + 1
          /\ reader'.batches = reader.batches
      BY <1>9, <2>5
    <3>2. "wait" \notin faults' =>
            Cardinality(Outstanding') <= n + (reader.pending_reads + 1) + 0
      BY <1>2, <1>8, <2>3
    <3> QED BY <2>1, <3>1, <3>2 DEF ReadsCollected
  <2> QED BY <2>4, <2>5
<1>14. BytesAccounted'
  <2>1. reader.total_read + (Lengths(Outstanding) + len) + left
          = reader.total_read + Lengths(Outstanding) + reader.remaining
    BY <1>2, <1>3, <1>8 DEF left
  <2> QED BY <1>8, <1>9, <2>1 DEF ReadInv, BytesAccounted
<1> QED BY <1>10, <1>11, <1>12, <1>13, <1>14 DEF ReadInv

LEMMA StepRead == ReadInv /\ [ReadNext]_readVars => ReadInv'
<1> SUFFICES ASSUME ReadInv, [ReadNext]_readVars PROVE ReadInv'
  OBVIOUS
<1>1. ASSUME QueueFails PROVE ReadInv'
  BY <1>1, MovesOn DEF QueueFails, Return
<1>2. ASSUME PeekEmpty PROVE ReadInv'
  <2>1. /\ reader.at = "peek" /\ readRing' = readRing /\ faults' = faults
        /\ \/ reader' = [reader EXCEPT !.at = "returned", !.ret = 0]
           \/ reader.remaining # 0 /\ reader' = [reader EXCEPT !.at = "queue"]
    BY <1>2 DEF PeekEmpty, Return
  <2>2. /\ reader.remaining # 0 => reader.remaining > 0
        /\ reader.pending_reads < BatchSize
    BY <2>1, ReadAssumption DEF ReadInv, ReadsGoOn, ReadType, Readers
  <2> QED BY <2>1, <2>2, MovesOn
<1>3. ASSUME RegularDone PROVE ReadInv'
  BY <1>3, MovesOn DEF RegularDone, Return
<1>4. ASSUME WaitFails PROVE ReadInv'
  BY <1>4, MovesOn DEF WaitFails, Return
<1>5. ASSUME UNCHANGED readVars PROVE ReadInv'
  <2>1. reader' = reader /\ readRing' = readRing /\ faults' = faults
    BY <1>5 DEF readVars
  <2> QED BY <2>1, SameReads
       DEF ReadInv, ReadType, ReadsApart, ReadsGoOn, ReadsCollected, BytesAccounted
<1> QED BY <1>1, <1>2, <1>3, <1>4, <1>5, MainStep, QueueStep, ResultStep, RegularStep, CompleteStep
     DEF ReadNext, ReadStep

\* Requests follow one another through the file, each in one place of the ring.
THEOREM ReadInductive == ReadSpec => []ReadInv
  BY InitRead, StepRead, PTL DEF ReadSpec

\* io_uring_read and regular_read account for every byte of a file of any size,
\* read apart from one another, inside the file, and never leave a whole batch.
THEOREM TotalAlwaysAccounted == ReadSpec => []TotalAccounted
<1>1. ReadInv => TotalAccounted
  <2> SUFFICES ASSUME ReadInv PROVE TotalAccounted
    OBVIOUS
  <2>1. BytesAccounted /\ ReadsApart
    BY DEF ReadInv
  <2>2. reader.size >= 0 => \A r \in Outstanding : r.offset + r.len <= reader.size
    <3>1. \A r \in Outstanding : /\ r.offset \in Int /\ r.len \in Int
                                 /\ r.offset + r.len <= reader.file_offset
      BY OutstandingFacts DEF ReadInv, ReadsApart, ReadRequest
    <3>2. /\ reader.file_offset \in Int /\ reader.remaining \in Int /\ reader.size \in Int
          /\ reader.size >= 0 => /\ reader.file_offset + reader.remaining = reader.size
                                 /\ reader.remaining >= 0
      BY DEF ReadInv, ReadType, Readers, ReadsGoOn
    <3>3. reader.size >= 0 => reader.file_offset <= reader.size
      BY <3>2
    <3> QED BY <3>1, <3>2, <3>3
  <2>3. ASSUME reader.at \in {"queue", "returned"}, faults = {}
        PROVE  Cardinality(Outstanding) <= reader.batches * (BatchSize - 1) + reader.pending_reads
    <3>1. PICK n \in Int : n = reader.batches * (BatchSize - 1) + reader.pending_reads
      BY ReadAssumption DEF ReadInv, ReadType, Readers
    <3>2. Cardinality(Outstanding) <= n + 0
      BY <2>3, <3>1 DEF ReadInv, ReadsCollected
    <3>3. n + 0 = n
      OBVIOUS
    <3> QED BY <3>1, <3>2, <3>3
  <2> QED BY <2>1, <2>2, <2>3 DEF TotalAccounted, BytesAccounted, ReadsApart
<1> QED BY <1>1, ReadInductive, PTL

----------------------------------------------------------------------------
(* PerfCollector                                                           *)

Timespecs == [sec : Nat, nsec : 0 .. Billion - 1]

\* the rest of a call
PerfCalls == {NoCall} \cup {[at |-> "reset"]} \cup [at : {"stop"}, name : LatencyName]

PerfType ==
  /\ DOMAIN cpu_ \subseteq CpuName /\ DOMAIN latency_ \subseteq LatencyName
  /\ cpu_ \in [DOMAIN cpu_ -> [id : Thread, start : Timespecs, stop : Timespecs]]
  /\ latency_ \in [DOMAIN latency_ -> [start : Nat, stop : Nat]]
  /\ call \in [Thread -> PerfCalls]
  /\ cpuClock \in [Thread -> Nat] /\ now \in Nat \ {0}
  /\ stopped \subseteq DOMAIN cpu_

\* No reading of a thread's clock is ahead of it, while the thread lives.
ReadingsPast ==
  \A n \in DOMAIN cpu_ \ orphans :
    /\ Nanoseconds(cpu_[n].start) <= cpuClock[cpu_[n].id]
    /\ n \in stopped => Nanoseconds(cpu_[n].start) <= Nanoseconds(cpu_[n].stop)

\* What StopLatency has tested is in the map or was torn from it.
LatenciesMade ==
  /\ \A n \in DOMAIN latency_ \ torn :
       0 < latency_[n].start /\ latency_[n].start <= latency_[n].stop /\ latency_[n].stop <= now
  /\ \A t \in Thread : call[t].at = "stop" => call[t].name \in DOMAIN latency_ \cup torn

PerfInv == PerfType /\ ReadingsPast /\ LatenciesMade

LEMMA TimespecFacts ==
  ASSUME NEW x \in Nat PROVE Timespec(x) \in Timespecs /\ Nanoseconds(Timespec(x)) = x
<1>1. Billion \in Nat \ {0}
  BY PerfAssumption
<1>2. PICK q \in Int : q = x \div Billion
  BY <1>1
<1>3. PICK r \in Int : r = x % Billion
  BY <1>1
<1>4. x = q * Billion + r /\ 0 <= r /\ r < Billion
  BY <1>1, <1>2, <1>3
<1>5. q >= 0
  <2>1. ASSUME q <= -1 PROVE FALSE
    <3>1. q * Billion = -((-q - 1) * Billion) - Billion /\ (-q - 1) * Billion >= 0
      BY <1>1, <2>1
    <3> QED BY <1>1, <1>4, <3>1
  <2> QED BY <2>1
<1>6. Timespec(x) = [sec |-> q, nsec |-> r]
  BY <1>2, <1>3 DEF Timespec
<1>7. Timespec(x) \in Timespecs
  BY <1>1, <1>4, <1>5, <1>6 DEF Timespecs
<1> QED BY <1>4, <1>6, <1>7 DEF Nanoseconds

\* DiffCpu's borrow is right.
LEMMA DiffFacts ==
  ASSUME NEW a \in Timespecs, NEW b \in Timespecs
  PROVE  /\ Nanoseconds(a) \in Nat /\ Nanoseconds(b) \in Nat
         /\ DiffCpu(a, b) = Nanoseconds(b) - Nanoseconds(a)
<1>1. /\ a.sec \in Nat /\ b.sec \in Nat /\ Billion \in Nat
      /\ a.nsec \in Nat /\ b.nsec \in Nat
  BY PerfAssumption DEF Timespecs
<1>2. Nanoseconds(a) \in Nat /\ Nanoseconds(b) \in Nat
  BY <1>1 DEF Nanoseconds
<1>3. /\ (b.sec - a.sec) * Billion = b.sec * Billion - a.sec * Billion
      /\ (b.sec - a.sec - 1) * Billion = b.sec * Billion - a.sec * Billion - Billion
  BY <1>1
<1>4. \/ DiffCpu(a, b) = (b.sec - a.sec - 1) * Billion + (Billion + b.nsec - a.nsec)
      \/ DiffCpu(a, b) = (b.sec - a.sec) * Billion + (b.nsec - a.nsec)
  BY DEF DiffCpu, Nanoseconds
<1>5. Nanoseconds(a) = a.sec * Billion + a.nsec /\ Nanoseconds(b) = b.sec * Billion + b.nsec
  BY DEF Nanoseconds
<1>6. PICK x, y \in Int : x = a.sec * Billion /\ y = b.sec * Billion
  BY <1>1
<1> QED BY <1>1, <1>2, <1>3, <1>4, <1>5, <1>6

LEMMA InitPerf == PerfInit => PerfInv
<1> SUFFICES ASSUME PerfInit PROVE PerfInv
  OBVIOUS
<1>1. DOMAIN cpu_ = {} /\ DOMAIN latency_ = {}
  BY DEF PerfInit, Empty
<1>2. \A t \in Thread : call[t].at # "stop"
  BY DEF PerfInit, NoCall
<1>3. PerfType
  BY <1>1 DEF PerfType, PerfInit, Empty, PerfCalls
<1> QED BY <1>1, <1>2, <1>3 DEF PerfInv, ReadingsPast, LatenciesMade

LEMMA StartCpuStep ==
  ASSUME PerfInv, NEW t \in Thread, NEW n \in CpuName, StartCpu(t, n) PROVE PerfInv'
<1> DEFINE new == [id |-> t, start |-> Timespec(cpuClock[t]), stop |-> Timespec(0)]
<1>1. /\ n \notin DOMAIN cpu_ /\ cpu_' = Put(cpu_, n, new)
      /\ stopped' = stopped \ {n} /\ orphans' = orphans \ {n}
      /\ latency_' = latency_ /\ call' = call /\ cpuClock' = cpuClock /\ now' = now
      /\ torn' = torn
  BY DEF StartCpu
<1>2. cpuClock[t] \in Nat /\ 0 \in Nat
  BY DEF PerfInv, PerfType
<1>3. new \in [id : Thread, start : Timespecs, stop : Timespecs]
  BY <1>2, TimespecFacts
<1>4. /\ DOMAIN cpu_' = DOMAIN cpu_ \cup {n} /\ cpu_'[n] = new
      /\ \A m \in DOMAIN cpu_ : cpu_'[m] = cpu_[m]
      /\ cpu_' \in [DOMAIN cpu_' -> [id : Thread, start : Timespecs, stop : Timespecs]]
  BY <1>1, <1>3 DEF Put, PerfInv, PerfType
<1>5. new.id = t /\ Nanoseconds(new.start) = cpuClock[t]
  BY <1>2, TimespecFacts
<1> HIDE DEF new
<1>6. PerfType'
  BY <1>1, <1>4 DEF PerfInv, PerfType
<1>7. ReadingsPast'
  BY <1>1, <1>2, <1>4, <1>5 DEF PerfInv, ReadingsPast, PerfType
<1> QED BY <1>1, <1>6, <1>7 DEF PerfInv, LatenciesMade

LEMMA StopCpuStep ==
  ASSUME PerfInv, NEW t \in Thread, NEW n \in CpuName, StopCpu(t, n) PROVE PerfInv'
<1> DEFINE new == [cpu_[n] EXCEPT !.stop = Timespec(cpuClock[t])]
<1>1. /\ n \in DOMAIN cpu_ /\ cpu_[n].id = t /\ cpu_' = [cpu_ EXCEPT ![n] = new]
      /\ stopped' = stopped \cup {n} /\ orphans' = orphans
      /\ latency_' = latency_ /\ call' = call /\ cpuClock' = cpuClock /\ now' = now
      /\ torn' = torn
  BY DEF StopCpu, SameThread
<1>2. cpuClock[t] \in Nat
  BY DEF PerfInv, PerfType
<1>3. /\ cpu_[n] \in [id : Thread, start : Timespecs, stop : Timespecs]
      /\ Timespec(cpuClock[t]) \in Timespecs
      /\ Nanoseconds(Timespec(cpuClock[t])) = cpuClock[t]
  BY <1>1, <1>2, TimespecFacts DEF PerfInv, PerfType
<1>4. /\ new \in [id : Thread, start : Timespecs, stop : Timespecs]
      /\ new.id = cpu_[n].id /\ new.start = cpu_[n].start
      /\ Nanoseconds(new.stop) = cpuClock[t]
  BY <1>3
<1> HIDE DEF new
<1>5. /\ DOMAIN cpu_' = DOMAIN cpu_ /\ cpu_'[n] = new
      /\ \A m \in DOMAIN cpu_ : m # n => cpu_'[m] = cpu_[m]
      /\ cpu_' \in [DOMAIN cpu_' -> [id : Thread, start : Timespecs, stop : Timespecs]]
  BY <1>1, <1>4 DEF PerfInv, PerfType
<1>6. PerfType'
  BY <1>1, <1>5 DEF PerfInv, PerfType
<1>7. ReadingsPast'
  BY <1>1, <1>4, <1>5 DEF PerfInv, ReadingsPast
<1> QED BY <1>1, <1>6, <1>7 DEF PerfInv, LatenciesMade

LEMMA StartLatencyStep ==
  ASSUME PerfInv, NEW t \in Thread, NEW n \in LatencyName, StartLatency(t, n) PROVE PerfInv'
<1> DEFINE new == [start |-> now, stop |-> now]
<1>1. /\ n \notin DOMAIN latency_ /\ latency_' = Put(latency_, n, new)
      /\ cpu_' = cpu_ /\ call' = call /\ cpuClock' = cpuClock /\ now' = now
      /\ stopped' = stopped /\ orphans' = orphans /\ torn' = torn
  BY DEF StartLatency
<1>2. now \in Nat /\ now > 0 /\ now <= now /\ new \in [start : Nat, stop : Nat]
  BY DEF PerfInv, PerfType
<1>3. /\ DOMAIN latency_' = DOMAIN latency_ \cup {n} /\ latency_'[n] = new
      /\ \A m \in DOMAIN latency_ : latency_'[m] = latency_[m]
      /\ latency_' \in [DOMAIN latency_' -> [start : Nat, stop : Nat]]
  BY <1>1, <1>2 DEF Put, PerfInv, PerfType
<1>4. PerfType'
  BY <1>1, <1>3 DEF PerfInv, PerfType
<1>5. LatenciesMade'
  BY <1>1, <1>2, <1>3 DEF PerfInv, LatenciesMade
<1> QED BY <1>1, <1>4, <1>5 DEF PerfInv, ReadingsPast

LEMMA TestLatencyStep ==
  ASSUME PerfInv, NEW t \in Thread, NEW n \in LatencyName, TestLatency(t, n) PROVE PerfInv'
<1> DEFINE c == [at |-> "stop", name |-> n]
<1>1. /\ n \in DOMAIN latency_ /\ call' = [call EXCEPT ![t] = c]
      /\ latency_' = latency_ /\ cpu_' = cpu_ /\ cpuClock' = cpuClock /\ now' = now
      /\ stopped' = stopped /\ orphans' = orphans /\ torn' = torn
  BY DEF TestLatency, Started
<1>2. c \in PerfCalls /\ c.name = n
  BY DEF PerfCalls
<1> HIDE DEF c
<1>3. /\ call' \in [Thread -> PerfCalls] /\ call'[t] = c
      /\ \A u \in Thread : u # t => call'[u] = call[u]
  BY <1>1, <1>2 DEF PerfInv, PerfType
<1>4. PerfType'
  BY <1>1, <1>3 DEF PerfInv, PerfType
<1>5. LatenciesMade'
  BY <1>1, <1>2, <1>3 DEF PerfInv, LatenciesMade
<1> QED BY <1>1, <1>4, <1>5 DEF PerfInv, ReadingsPast

\* back from a call that took two steps
LEMMA CallEnds ==
  ASSUME PerfInv, NEW t \in Thread, call' = [call EXCEPT ![t] = NoCall]
  PROVE  /\ call' \in [Thread -> PerfCalls] /\ call'[t].at # "stop"
         /\ \A u \in Thread : u # t => call'[u] = call[u]
<1>1. NoCall \in PerfCalls /\ NoCall.at # "stop"
  BY DEF PerfCalls, NoCall
<1> QED BY <1>1 DEF PerfInv, PerfType

LEMMA StopLatencyStep ==
  ASSUME PerfInv, NEW t \in Thread, StopLatency(t) PROVE PerfInv'
<1> DEFINE n == call[t].name
           old == IF n \in DOMAIN latency_ THEN latency_[n].start ELSE 0
           new == [start |-> old, stop |-> now]
<1>1. /\ call[t].at = "stop" /\ latency_' = Put(latency_, n, new)
      /\ call' = [call EXCEPT ![t] = NoCall]
      /\ cpu_' = cpu_ /\ cpuClock' = cpuClock /\ now' = now
      /\ stopped' = stopped /\ orphans' = orphans /\ torn' = torn
  BY DEF StopLatency
<1>2. n \in LatencyName /\ n \in DOMAIN latency_ \cup torn
  <2>1. call[t] \in PerfCalls
    BY DEF PerfInv, PerfType
  <2>2. n \in LatencyName
    BY <1>1, <2>1 DEF PerfCalls, NoCall
  <2> QED BY <1>1, <2>2 DEF PerfInv, LatenciesMade
<1>3. now \in Nat /\ old \in Nat /\ new \in [start : Nat, stop : Nat]
  <2>1. n \in DOMAIN latency_ => latency_[n] \in [start : Nat, stop : Nat]
    BY DEF PerfInv, PerfType
  <2> QED BY <2>1 DEF PerfInv, PerfType
<1>4. n \notin torn => 0 < old /\ old <= now
  <2>1. ASSUME n \notin torn PROVE 0 < old /\ old <= now
    <3>1. n \in DOMAIN latency_ /\ old = latency_[n].start
      BY <1>2, <2>1
    <3>2. latency_[n] \in [start : Nat, stop : Nat]
      BY <3>1 DEF PerfInv, PerfType
    <3>3. /\ 0 < latency_[n].start /\ latency_[n].start <= latency_[n].stop
          /\ latency_[n].stop <= now
      BY <2>1, <3>1 DEF PerfInv, LatenciesMade
    <3>4. latency_[n].start \in Nat /\ latency_[n].stop \in Nat
      BY <3>2
    <3> QED BY <1>3, <3>1, <3>3, <3>4
  <2> QED BY <2>1
<1>5. new.start = old /\ new.stop = now /\ now <= now
  BY <1>3
<1> HIDE DEF n, old, new
<1>6. /\ DOMAIN latency_' = DOMAIN latency_ \cup {n} /\ latency_'[n] = new
      /\ \A m \in DOMAIN latency_ : m # n => latency_'[m] = latency_[m]
      /\ latency_' \in [DOMAIN latency_' -> [start : Nat, stop : Nat]]
  BY <1>1, <1>3 DEF Put, PerfInv, PerfType
<1>7. PerfType'
  BY <1>1, <1>2, <1>6, CallEnds DEF PerfInv, PerfType
<1>8. LatenciesMade'
  <2>1. \A m \in DOMAIN latency_' \ torn' :
          /\ 0 < latency_'[m].start /\ latency_'[m].start <= latency_'[m].stop
          /\ latency_'[m].stop <= now'
    BY <1>1, <1>4, <1>5, <1>6 DEF PerfInv, LatenciesMade
  <2>2. \A u \in Thread : call'[u].at = "stop" => call'[u].name \in DOMAIN latency_' \cup torn'
    BY <1>1, <1>6, CallEnds DEF PerfInv, LatenciesMade
  <2> QED BY <2>1, <2>2 DEF LatenciesMade
<1> QED BY <1>1, <1>7, <1>8 DEF PerfInv, ReadingsPast

LEMMA ResetCpuStep ==
  ASSUME PerfInv, NEW t \in Thread, ResetCpu(t) PROVE PerfInv'
<1> DEFINE c == [at |-> "reset"]
<1>1. /\ cpu_' = Empty /\ call' = [call EXCEPT ![t] = c] /\ stopped' = {} /\ orphans' = {}
      /\ latency_' = latency_ /\ cpuClock' = cpuClock /\ now' = now /\ torn' = torn
  BY DEF ResetCpu
<1>2. c \in PerfCalls /\ c.at # "stop"
  BY DEF PerfCalls
<1> HIDE DEF c
<1>3. /\ call' \in [Thread -> PerfCalls] /\ call'[t].at # "stop"
      /\ \A u \in Thread : u # t => call'[u] = call[u]
  BY <1>1, <1>2 DEF PerfInv, PerfType
<1>4. DOMAIN cpu_' = {} /\ cpu_' \in [{} -> [id : Thread, start : Timespecs, stop : Timespecs]]
  BY <1>1 DEF Empty
<1>5. PerfType'
  BY <1>1, <1>3, <1>4 DEF PerfInv, PerfType
<1>6. LatenciesMade'
  BY <1>1, <1>3 DEF PerfInv, LatenciesMade
<1> QED BY <1>4, <1>5, <1>6 DEF PerfInv, ReadingsPast

LEMMA ResetLatencyStep ==
  ASSUME PerfInv, NEW t \in Thread, ResetLatency(t) PROVE PerfInv'
<1>1. /\ latency_' = Empty /\ call' = [call EXCEPT ![t] = NoCall]
      /\ torn' = {call[u].name : u \in {v \in Thread : call[v].at = "stop"}}
      /\ cpu_' = cpu_ /\ cpuClock' = cpuClock /\ now' = now
      /\ stopped' = stopped /\ orphans' = orphans
  BY DEF ResetLatency
<1>2. DOMAIN latency_' = {} /\ latency_' \in [{} -> [start : Nat, stop : Nat]]
  BY <1>1 DEF Empty
<1>3. PerfType'
  BY <1>1, <1>2, CallEnds DEF PerfInv, PerfType
<1>4. LatenciesMade'
  <2>1. \A u \in Thread : call'[u].at = "stop" => call'[u].name \in torn'
    BY <1>1, CallEnds
  <2> QED BY <1>2, <2>1 DEF LatenciesMade
<1> QED BY <1>1, <1>3, <1>4 DEF PerfInv, ReadingsPast

\* the clocks go on, or one of them starts again with a new thread
LEMMA ClockStep ==
  ASSUME PerfInv, NEW t \in Thread, ThreadWorks(t) \/ ThreadEnds(t) \/ TimePasses PROVE PerfInv'
<1>1. /\ cpu_' = cpu_ /\ latency_' = latency_ /\ call' = call /\ stopped' = stopped
      /\ torn' = torn
  BY DEF ThreadWorks, ThreadEnds, TimePasses
<1>2. \A n \in DOMAIN cpu_ : /\ cpu_[n].id \in Thread /\ cpuClock[cpu_[n].id] \in Nat
                             /\ Nanoseconds(cpu_[n].start) \in Nat
  <2> SUFFICES ASSUME NEW n \in DOMAIN cpu_
               PROVE  /\ cpu_[n].id \in Thread /\ cpuClock[cpu_[n].id] \in Nat
                      /\ Nanoseconds(cpu_[n].start) \in Nat
    OBVIOUS
  <2>1. cpu_[n] \in [id : Thread, start : Timespecs, stop : Timespecs]
    BY DEF PerfInv, PerfType
  <2>2. cpu_[n].id \in Thread /\ cpu_[n].start \in Timespecs
    BY <2>1
  <2> QED BY <2>2, DiffFacts DEF PerfInv, PerfType
<1>3. CASE ThreadWorks(t)
  <2>1. /\ cpuClock' = [cpuClock EXCEPT ![t] = cpuClock[t] + 1] /\ now' = now
        /\ orphans' = orphans
    BY <1>3 DEF ThreadWorks
  <2>2. /\ cpuClock' \in [Thread -> Nat]
        /\ \A u \in Thread : cpuClock[u] \in Nat /\ cpuClock[u] <= cpuClock'[u]
    BY <2>1 DEF PerfInv, PerfType
  <2>3. PerfType' /\ LatenciesMade'
    BY <1>1, <2>1, <2>2 DEF PerfInv, PerfType, LatenciesMade
  <2>4. ReadingsPast'
    BY <1>1, <1>2, <2>1, <2>2 DEF PerfInv, ReadingsPast
  <2> QED BY <2>3, <2>4 DEF PerfInv
<1>4. CASE ThreadEnds(t)
  <2>1. /\ cpuClock' = [cpuClock EXCEPT ![t] = 0] /\ now' = now
        /\ orphans' = orphans \cup {n \in DOMAIN cpu_ : cpu_[n].id = t}
    BY <1>4 DEF ThreadEnds
  <2>2. PerfType' /\ LatenciesMade'
    BY <1>1, <2>1 DEF PerfInv, PerfType, LatenciesMade
  <2>3. \A n \in DOMAIN cpu_ \ orphans' :
          n \notin orphans /\ cpuClock'[cpu_[n].id] = cpuClock[cpu_[n].id]
    BY <1>2, <2>1 DEF PerfInv, PerfType
  <2>4. ReadingsPast'
    BY <1>1, <2>3 DEF PerfInv, ReadingsPast
  <2> QED BY <2>2, <2>4 DEF PerfInv
<1>5. CASE TimePasses
  <2>1. cpuClock' = cpuClock /\ now' = now + 1 /\ orphans' = orphans
    BY <1>5 DEF TimePasses
  <2>2. now \in Nat /\ now' \in Nat \ {0} /\ now <= now'
    BY <2>1 DEF PerfInv, PerfType
  <2>3. PerfType' /\ ReadingsPast'
    BY <1>1, <2>1, <2>2 DEF PerfInv, PerfType, ReadingsPast
  <2>4. LatenciesMade'
    <3>1. \A n \in DOMAIN latency_ : latency_[n].stop \in Nat
      BY DEF PerfInv, PerfType
    <3>2. \A n \in DOMAIN latency_ : latency_[n].stop <= now => latency_[n].stop <= now'
      BY <2>2, <3>1
    <3> QED BY <1>1, <3>2 DEF PerfInv, LatenciesMade
  <2> QED BY <2>3, <2>4 DEF PerfInv
<1> QED BY <1>3, <1>4, <1>5

LEMMA CpuTotalNat ==
  ASSUME IsFiniteSet(DOMAIN cpu_), \A n \in DOMAIN cpu_ : DiffCpu(cpu_[n].start, cpu_[n].stop) \in Nat
  PROVE  GetCpuTotal >= 0
<1> DEFINE S == DOMAIN cpu_
           F == [n \in S |-> DiffCpu(cpu_[n].start, cpu_[n].stop)]
           Steps(h) == h = [s \in SUBSET S |-> IF s = {} THEN 0
                              ELSE DiffCpu(cpu_[Pick(s)].start, cpu_[Pick(s)].stop)
                                     + h[s \ {Pick(s)}]]
<1>1. ASSUME NEW h PROVE Sums(h, F, S) <=> Steps(h)
  <2>1. \A s \in SUBSET S : SumStep(h, F, s) = IF s = {} THEN 0
                              ELSE DiffCpu(cpu_[Pick(s)].start, cpu_[Pick(s)].stop)
                                     + h[s \ {Pick(s)}]
    <3>1. ASSUME NEW s \in SUBSET S, s # {}
          PROVE  SumStep(h, F, s) = DiffCpu(cpu_[Pick(s)].start, cpu_[Pick(s)].stop)
                                      + h[s \ {Pick(s)}]
      <4>1. Pick(s) \in S
        BY <3>1 DEF Pick
      <4> QED BY <3>1, <4>1 DEF SumStep
    <3>2. SumStep(h, F, {}) = 0
      BY DEF SumStep
    <3> HIDE DEF F
    <3> QED BY <3>1, <3>2
  <2> QED BY <2>1 DEF Sums
<1>2. PICK g : Steps(g)
  BY <1>1, SumsExist
<1>3. \E h : Steps(h) /\ GetCpuTotal = h[S]
  BY <1>2, Zenon DEF GetCpuTotal, MapThenSumSet, MapThenFoldSet, Pick
<1>4. PICK h : Sums(h, F, S) /\ GetCpuTotal = h[S]
  BY <1>1, <1>3
<1>5. F \in [S -> Nat]
  OBVIOUS
<1>6. h[S] \in Nat
  <2> HIDE DEF F
  <2> QED BY <1>4, <1>5, SumsIn
<1> QED BY <1>4, <1>6

LEMMA LatencyTotalNat ==
  ASSUME IsFiniteSet(DOMAIN latency_), \A n \in DOMAIN latency_ : latency_[n].stop - latency_[n].start \in Nat
  PROVE  GetLatencyTotal >= 0
<1> DEFINE S == DOMAIN latency_
           F == [n \in S |-> latency_[n].stop - latency_[n].start]
           Steps(h) == h = [s \in SUBSET S |-> IF s = {} THEN 0
                              ELSE (latency_[Pick(s)].stop - latency_[Pick(s)].start)
                                     + h[s \ {Pick(s)}]]
<1>1. ASSUME NEW h PROVE Sums(h, F, S) <=> Steps(h)
  <2>1. \A s \in SUBSET S : SumStep(h, F, s) = IF s = {} THEN 0
                              ELSE (latency_[Pick(s)].stop - latency_[Pick(s)].start)
                                     + h[s \ {Pick(s)}]
    <3>1. ASSUME NEW s \in SUBSET S, s # {}
          PROVE  SumStep(h, F, s) = (latency_[Pick(s)].stop - latency_[Pick(s)].start)
                                      + h[s \ {Pick(s)}]
      <4>1. Pick(s) \in S
        BY <3>1 DEF Pick
      <4> QED BY <3>1, <4>1 DEF SumStep
    <3>2. SumStep(h, F, {}) = 0
      BY DEF SumStep
    <3> HIDE DEF F
    <3> QED BY <3>1, <3>2
  <2> QED BY <2>1 DEF Sums
<1>2. PICK g : Steps(g)
  BY <1>1, SumsExist
<1>3. \E h : Steps(h) /\ GetLatencyTotal = h[S]
  BY <1>2, Zenon DEF GetLatencyTotal, MapThenSumSet, MapThenFoldSet, Pick
<1>4. PICK h : Sums(h, F, S) /\ GetLatencyTotal = h[S]
  BY <1>1, <1>3
<1>5. F \in [S -> Nat]
  OBVIOUS
<1>6. h[S] \in Nat
  <2> HIDE DEF F
  <2> QED BY <1>4, <1>5, SumsIn
<1> QED BY <1>4, <1>6

\* No reading is ahead of its clock, and each latency that was not torn was started.
THEOREM PerfInductive == PerfSpec => []PerfInv
<1>1. ASSUME PerfInv, [PerfNext]_perfVars PROVE PerfInv'
  <2>1. CASE UNCHANGED perfVars
    BY <1>1, <2>1 DEF perfVars, PerfInv, PerfType, ReadingsPast, LatenciesMade
  <2>2. ASSUME TimePasses PROVE PerfInv'
    <3>1. CASE Thread = {}
      <4>1. /\ cpu_' = cpu_ /\ latency_' = latency_ /\ call' = call /\ stopped' = stopped
            /\ torn' = torn /\ cpuClock' = cpuClock /\ orphans' = orphans /\ now' = now + 1
        BY <2>2 DEF TimePasses
      <4> QED BY <1>1, <3>1, <4>1 DEF PerfInv, PerfType, ReadingsPast, LatenciesMade
    <3>2. CASE Thread # {}
      BY <1>1, <2>2, <3>2, ClockStep
    <3> QED BY <3>1, <3>2
  <2> QED BY <1>1, <2>1, <2>2, StartCpuStep, StopCpuStep, StartLatencyStep, TestLatencyStep,
             StopLatencyStep, ResetCpuStep, ResetLatencyStep, ClockStep DEF PerfNext
<1> QED BY <1>1, InitPerf, PTL DEF PerfSpec

\* PerfCollector's stopped timers measure what the clocks say, by DiffCpu's borrow,
\* and sum up to a total that is not negative, but for the named exceptions: for any
\* number of threads and timers and clocks of any length.
THEOREM TimesAlwaysSound == PerfSpec => []TimesSound
<1>1. PerfInv => TimesSound
  <2> SUFFICES ASSUME PerfInv PROVE TimesSound
    OBVIOUS
  <2>1. \A n \in stopped \ orphans :
          /\ DiffCpu(cpu_[n].start, cpu_[n].stop) \in Nat
          /\ DiffCpu(cpu_[n].start, cpu_[n].stop)
               = Nanoseconds(cpu_[n].stop) - Nanoseconds(cpu_[n].start)
    <3> SUFFICES ASSUME NEW n \in stopped \ orphans
                 PROVE  /\ DiffCpu(cpu_[n].start, cpu_[n].stop) \in Nat
                        /\ DiffCpu(cpu_[n].start, cpu_[n].stop)
                             = Nanoseconds(cpu_[n].stop) - Nanoseconds(cpu_[n].start)
      OBVIOUS
    <3>1. cpu_[n] \in [id : Thread, start : Timespecs, stop : Timespecs]
      BY DEF PerfInv, PerfType
    <3>2. Nanoseconds(cpu_[n].start) <= Nanoseconds(cpu_[n].stop)
      BY DEF PerfInv, PerfType, ReadingsPast
    <3> QED BY <3>1, <3>2, DiffFacts
  <2>2. CpuTimesSound
    <3>1. \A n \in stopped \ orphans : DiffCpu(cpu_[n].start, cpu_[n].stop) >= 0
      BY <2>1
    <3>2. IsFiniteSet(DOMAIN cpu_)
      BY PerfAssumption, FS_Subset DEF PerfInv, PerfType
    <3>3. stopped \ orphans = DOMAIN cpu_ => GetCpuTotal >= 0
      BY <2>1, <3>2, CpuTotalNat
    <3> QED BY <2>1, <3>1, <3>3 DEF CpuTimesSound
  <2>3. LatenciesSound
    <3>1. IsFiniteSet(DOMAIN latency_)
      BY PerfAssumption, FS_Subset DEF PerfInv, PerfType
    <3>2. \A n \in DOMAIN latency_ : latency_[n].start \in Nat /\ latency_[n].stop \in Nat
      BY DEF PerfInv, PerfType
    <3>3. \A n \in DOMAIN latency_ \ torn :
            0 < latency_[n].start /\ latency_[n].start <= latency_[n].stop
      BY DEF PerfInv, LatenciesMade
    <3>4. torn = {} => \A n \in DOMAIN latency_ : latency_[n].stop - latency_[n].start \in Nat
      BY <3>2, <3>3
    <3>5. torn = {} => GetLatencyTotal >= 0
      BY <3>1, <3>4, LatencyTotalNat
    <3> QED BY <3>3, <3>5 DEF LatenciesSound
  <2> QED BY <2>2, <2>3 DEF TimesSound
<1> QED BY <1>1, PerfInductive, PTL

----------------------------------------------------------------------------
(* BTreeNode: for any keys, strings, sizes of the page and sequence of     *)
(* calls the page stays well formed, and find finds exactly what insert    *)
(* has stored.                                                             *)

\* insert has written its record and not yet its offset
Placing == op.at \in {"position", "place"}
Slots(n) == n + (IF Placing THEN 1 ELSE 0)

SearchOp == [at : {"find", "position"}, key : Int, low : Int, high : Int, found : BOOLEAN]
PlaceOp == [at : {"place"}, key : Int, low : Int]
ReturnOp == [at : {"return"}, key : Int, answer : SUBSET {Deserialized(v) : v \in Value}]

PageType ==
  /\ _upper \in Int /\ items \in Seq(Int)
  /\ \A o \in DOMAIN record : o \in Int /\ record[o].key \in Int /\ record[o].val \in Value
  /\ op \in {Idle} \cup SearchOp \cup PlaceOp \cup ReturnOp

Room == HeaderSize + OffsetSize * Slots(Len(items)) <= _upper

\* Every record but the one being placed has one offset in the array.
Offsets ==
  /\ \A o \in DOMAIN record : o >= _upper
  /\ \A i \in DOMAIN items : items[i] \in DOMAIN record /\ (Placing => items[i] # _upper)
  /\ \A i, j \in DOMAIN items : items[i] = items[j] => i = j
  /\ \A o \in DOMAIN record : (\E i \in DOMAIN items : items[i] = o) \/ (Placing /\ o = _upper)
  /\ Placing => _upper \in DOMAIN record /\ record[_upper].key = op.key

Sorted == \A i, j \in DOMAIN items : i < j => KeyAt(i) <= KeyAt(j)

\* The key searched for is neither to the left of low nor to the right of high.
SearchInv ==
  Searching =>
    /\ op.low \in 1 .. Len(items) + 1 /\ op.high \in 0 .. Len(items)
    /\ op.found => op.low \in 1 .. Len(items) /\ KeyAt(op.low) = op.key
    /\ ~op.found => \A i \in DOMAIN items : /\ i < op.low => KeyAt(i) < op.key
                                            /\ i > op.high => op.key < KeyAt(i)

\* The key being placed fits between its neighbours.
Fits(k, low) ==
  /\ low \in 1 .. Len(items) + 1
  /\ \A i \in DOMAIN items : /\ i < low => KeyAt(i) <= k
                             /\ i >= low => k <= KeyAt(i)
PlaceInv == op.at = "place" => Fits(op.key, op.low)

StoredExact == stored = {<<record[o].key, record[o].val>> : o \in DOMAIN record}

PageInv ==
  /\ PageType /\ Room /\ Offsets /\ Sorted /\ SearchInv /\ PlaceInv /\ StoredExact
  /\ FindExact

----------------------------------------------------------------------------
(* Facts about the state                                                   *)

LEMMA OpType ==
  ASSUME PageType
  PROVE  /\ op = Idle => op.at = "idle" /\ ~Placing /\ ~Searching
         /\ op.at = "place" => op \in PlaceOp
         /\ Searching => op \in SearchOp
         /\ op.at = "return" => op \in ReturnOp
<1>1. Idle.at = "idle"
  BY DEF Idle
<1>2. op = Idle \/ op \in SearchOp \/ op \in PlaceOp \/ op \in ReturnOp
  BY DEF PageType
<1> QED BY <1>1, <1>2 DEF Placing, Searching, SearchOp, PlaceOp, ReturnOp

LEMMA ItemsType ==
  ASSUME PageType
  PROVE  /\ Len(items) \in Nat /\ DOMAIN items = 1 .. Len(items)
         /\ \A i \in DOMAIN items : items[i] \in Int
  BY DEF PageType

LEMMA KeyType ==
  ASSUME PageType, Offsets, NEW i \in DOMAIN items
  PROVE  KeyAt(i) \in Int /\ items[i] \in DOMAIN record
  BY DEF PageType, Offsets, KeyAt

\* Steps of a search leave the page as it is.
LEMMA PageKept ==
  ASSUME PageInv, UNCHANGED <<_upper, items, record, stored>>,
         op' \in {Idle} \cup SearchOp \cup PlaceOp \cup ReturnOp,
         Placing' <=> Placing, Placing => op'.key = op.key
  PROVE  /\ PageType' /\ Room' /\ Offsets' /\ Sorted' /\ StoredExact'
         /\ \A i : KeyAt(i)' = KeyAt(i)
<1>1. PageType'
  BY DEF PageInv, PageType
<1>2. \A n : Slots(n)' = Slots(n)
  BY DEF Slots
<1>3. Room'
  BY <1>2 DEF PageInv, Room
<1>4. Offsets'
  BY DEF PageInv, Offsets
<1>5. \A i : KeyAt(i)' = KeyAt(i)
  BY DEF KeyAt
<1>6. Sorted' /\ StoredExact'
  BY <1>5 DEF PageInv, Sorted, StoredExact
<1> QED BY <1>1, <1>3, <1>4, <1>5, <1>6

----------------------------------------------------------------------------
(* Searching                                                               *)

LEMMA PageInitInv == PageInit => PageInv
<1> SUFFICES ASSUME PageInit PROVE PageInv
  OBVIOUS
<1>1. /\ op.at = "idle" /\ Len(items) = 0 /\ DOMAIN items = {} /\ DOMAIN record = {}
      /\ items \in Seq(Int)
  BY DEF PageInit, Idle
<1>2. PageType
  BY <1>1, SizeAssumption DEF PageInit, PageType
<1>3. ~Placing /\ ~Searching
  BY <1>1 DEF Placing, Searching
<1>4. Room
  <2>1. Slots(Len(items)) = 0
    BY <1>1, <1>3 DEF Slots
  <2> QED BY <2>1, SizeAssumption DEF Room, PageInit
<1>5. Offsets /\ Sorted
  BY <1>1, <1>3 DEF Offsets, Sorted
<1>6. SearchInv /\ PlaceInv /\ FindExact
  BY <1>1, <1>3 DEF SearchInv, PlaceInv, FindExact
<1>7. StoredExact
  BY <1>1 DEF StoredExact, PageInit
<1> QED BY <1>2, <1>4, <1>5, <1>6, <1>7 DEF PageInv

LEMMA FindKeepsPage ==
  ASSUME PageInv, NEW k \in Key, Find(k)
  PROVE  PageInv'
<1>1. /\ UNCHANGED <<_upper, items, record, stored>> /\ op = Idle
      /\ op' = [at |-> "find", key |-> k, low |-> 1, high |-> Len(items), found |-> FALSE]
  BY DEF Find
<1>2. ~Placing /\ Len(items) \in Nat /\ DOMAIN items = 1 .. Len(items) /\ k \in Int
  BY <1>1, OpType, ItemsType, KeyAssumption DEF PageInv
<1>3. op' \in SearchOp /\ op'.at = "find"
  BY <1>1, <1>2 DEF SearchOp
<1>4. ~Placing'
  BY <1>3 DEF Placing
<1>5. PageType' /\ Room' /\ Offsets' /\ Sorted' /\ StoredExact' /\ \A i : KeyAt(i)' = KeyAt(i)
  BY <1>1, <1>2, <1>3, <1>4, PageKept
<1>6. SearchInv'
  BY <1>1, <1>2 DEF SearchInv
<1>7. PlaceInv' /\ FindExact'
  BY <1>3 DEF PlaceInv, FindExact
<1> QED BY <1>5, <1>6, <1>7 DEF PageInv

\* The middle of a range that is not empty is in it, although it is rounded.
LEMMA MidFacts ==
  ASSUME NEW low \in Int, NEW high \in Int, low <= high
  PROVE  (low + high) \div 2 \in Int /\ low <= (low + high) \div 2 /\ (low + high) \div 2 <= high
<1>1. PICK s \in Int : s = low + high
  OBVIOUS
<1>2. s \div 2 \in Int /\ 2 * (s \div 2) <= s /\ s < 2 * (s \div 2) + 2
  OBVIOUS
<1>3. PICK m \in Int : m = s \div 2
  BY <1>2
<1>4. 2 * m <= s /\ s < 2 * m + 2
  BY <1>2, <1>3
<1>5. low <= m /\ m <= high
  BY <1>1, <1>4
<1> QED BY <1>1, <1>3, <1>5

LEMMA ProbeKeepsPage ==
  ASSUME PageInv, Probe
  PROVE  PageInv'
<1>1. /\ UNCHANGED <<_upper, items, record, stored>>
      /\ Searching /\ op.low <= op.high /\ ~op.found
  BY DEF Probe
<1>2. /\ op \in SearchOp /\ Len(items) \in Nat /\ DOMAIN items = 1 .. Len(items)
      /\ op.key \in Int /\ op.low \in Int /\ op.high \in Int
      /\ op.at \in {"find", "position"}
  BY <1>1, OpType, ItemsType DEF PageInv, SearchOp
<1>3. /\ op.low \in 1 .. Len(items) + 1 /\ op.high \in 0 .. Len(items)
      /\ \A i \in DOMAIN items : /\ i < op.low => KeyAt(i) < op.key
                                 /\ i > op.high => op.key < KeyAt(i)
  BY <1>1 DEF PageInv, SearchInv
<1>4. PICK m \in Int : m = Mid
  <2>1. Mid \in Int
    BY <1>1, <1>2, MidFacts DEF Mid
  <2> QED BY <2>1
<1>5. op.low <= m /\ m <= op.high /\ m \in DOMAIN items
  <2>1. op.low <= m /\ m <= op.high
    BY <1>1, <1>2, <1>4, MidFacts DEF Mid
  <2> QED BY <1>2, <1>3, <2>1
<1>6. \A i \in DOMAIN items : KeyAt(i) \in Int
  BY KeyType DEF PageInv
<1>7. \A i, j \in DOMAIN items : i < j => KeyAt(i) <= KeyAt(j)
  BY DEF PageInv, Sorted
<1>8. \/ op.key > KeyAt(m) /\ op' = [op EXCEPT !.low = m + 1]
      \/ op.key < KeyAt(m) /\ op' = [op EXCEPT !.high = m - 1]
      \/ op.key = KeyAt(m) /\ op' = [op EXCEPT !.low = m, !.found = TRUE]
  <2>1. op' = CASE op.key > KeyAt(m) -> [op EXCEPT !.low = m + 1]
                [] op.key < KeyAt(m) -> [op EXCEPT !.high = m - 1]
                [] OTHER -> [op EXCEPT !.low = m, !.found = TRUE]
    BY <1>4, Zenon DEF Probe, RightOf
  <2>2. KeyAt(m) \in Int
    BY <1>5, <1>6
  <2>3. CASE op.key > KeyAt(m)
    <3>1. ~(op.key < KeyAt(m))
      BY <1>2, <2>2, <2>3
    <3> QED BY <2>1, <2>3, <3>1, Zenon
  <2>4. CASE op.key < KeyAt(m)
    <3>1. ~(op.key > KeyAt(m))
      BY <1>2, <2>2, <2>4
    <3> QED BY <2>1, <2>4, <3>1, Zenon
  <2>5. CASE op.key = KeyAt(m)
    <3>1. ~(op.key > KeyAt(m)) /\ ~(op.key < KeyAt(m))
      BY <1>2, <2>2, <2>5
    <3> QED BY <2>1, <2>5, <3>1, Zenon
  <2>6. op.key > KeyAt(m) \/ op.key < KeyAt(m) \/ op.key = KeyAt(m)
    BY <1>2, <2>2
  <2> QED BY <2>3, <2>4, <2>5, <2>6
<1> DEFINE Result(lo, hi, fo) ==
             /\ op' \in SearchOp /\ op'.at = op.at /\ op'.key = op.key
             /\ op'.low = lo /\ op'.high = hi /\ op'.found = fo
<1>9. ASSUME op.key > KeyAt(m), op' = [op EXCEPT !.low = m + 1]
      PROVE  /\ Result(m + 1, op.high, FALSE)
             /\ \A i \in DOMAIN items : i < m + 1 => KeyAt(i) < op.key
  <2>1. Result(m + 1, op.high, FALSE)
    BY <1>1, <1>2, <1>9 DEF SearchOp
  <2>2. ASSUME NEW i \in DOMAIN items, i < m + 1 PROVE KeyAt(i) < op.key
    <3>1. i < m \/ i = m
      BY <1>2, <2>2
    <3>2. KeyAt(i) <= KeyAt(m)
      BY <1>5, <1>6, <1>7, <3>1
    <3> QED BY <1>2, <1>5, <1>6, <1>9, <3>2
  <2> QED BY <2>1, <2>2
<1>10. ASSUME op.key < KeyAt(m), op' = [op EXCEPT !.high = m - 1]
       PROVE  /\ Result(op.low, m - 1, FALSE)
              /\ \A i \in DOMAIN items : i > m - 1 => op.key < KeyAt(i)
  <2>1. Result(op.low, m - 1, FALSE)
    BY <1>1, <1>2, <1>10 DEF SearchOp
  <2>2. ASSUME NEW i \in DOMAIN items, i > m - 1 PROVE op.key < KeyAt(i)
    <3>1. m < i \/ i = m
      BY <1>2, <2>2
    <3>2. KeyAt(m) <= KeyAt(i)
      BY <1>5, <1>6, <1>7, <3>1
    <3> QED BY <1>2, <1>5, <1>6, <1>10, <3>2
  <2> QED BY <2>1, <2>2
<1>11. ASSUME op' = [op EXCEPT !.low = m, !.found = TRUE]
       PROVE  Result(m, op.high, TRUE)
  <2> DEFINE e == [op EXCEPT !.low = m]
  <2>1. e \in SearchOp /\ e.at = op.at /\ e.key = op.key /\ e.low = m /\ e.high = op.high
    BY <1>2 DEF SearchOp
  <2>2. op' = [e EXCEPT !.found = TRUE]
    BY <1>2, <1>11 DEF SearchOp
  <2> HIDE DEF e
  <2> QED BY <2>1, <2>2 DEF SearchOp
<1>12. op' \in SearchOp /\ op'.at = op.at /\ op'.key = op.key
  BY <1>8, <1>9, <1>10, <1>11
<1>13. Placing' <=> Placing
  BY <1>12 DEF Placing
<1>14. PageType' /\ Room' /\ Offsets' /\ Sorted' /\ StoredExact' /\ \A i : KeyAt(i)' = KeyAt(i)
  BY <1>1, <1>12, <1>13, PageKept
<1>15. SearchInv'
  <2>1. CASE op.key > KeyAt(m) /\ op' = [op EXCEPT !.low = m + 1]
    <3>1. Result(m + 1, op.high, FALSE) /\ \A i \in DOMAIN items : i < m + 1 => KeyAt(i) < op.key
      BY <1>9, <2>1
    <3>2. m + 1 \in 1 .. Len(items) + 1
      BY <1>2, <1>5
    <3> QED BY <1>1, <1>3, <1>14, <3>1, <3>2 DEF SearchInv
  <2>2. CASE op.key < KeyAt(m) /\ op' = [op EXCEPT !.high = m - 1]
    <3>1. Result(op.low, m - 1, FALSE) /\ \A i \in DOMAIN items : i > m - 1 => op.key < KeyAt(i)
      BY <1>10, <2>2
    <3>2. m - 1 \in 0 .. Len(items)
      BY <1>2, <1>5
    <3> QED BY <1>1, <1>3, <1>14, <3>1, <3>2 DEF SearchInv
  <2>3. CASE op.key = KeyAt(m) /\ op' = [op EXCEPT !.low = m, !.found = TRUE]
    <3>1. Result(m, op.high, TRUE)
      BY <1>11, <2>3
    <3>2. m \in 1 .. Len(items) + 1 /\ m \in 1 .. Len(items)
      BY <1>2, <1>5
    <3> QED BY <1>1, <1>3, <1>14, <2>3, <3>1, <3>2 DEF SearchInv
  <2> QED BY <1>8, <2>1, <2>2, <2>3
<1>16. PlaceInv' /\ FindExact'
  BY <1>2, <1>12 DEF PlaceInv, FindExact
<1> QED BY <1>14, <1>15, <1>16 DEF PageInv

\* A search that ends has looked everywhere or has found its key.
LEMMA SearchOver ==
  ASSUME PageInv, SearchEnds
  PROVE  /\ op \in SearchOp /\ op.at \in {"find", "position"}
         /\ op.found => op.low \in DOMAIN items /\ KeyAt(op.low) = op.key
         /\ ~op.found => \A i \in DOMAIN items : /\ i < op.low => KeyAt(i) < op.key
                                                 /\ i >= op.low => op.key < KeyAt(i)
<1>1. /\ op \in SearchOp /\ op.at \in {"find", "position"} /\ Searching
      /\ op.low \in Int /\ op.high \in Int /\ DOMAIN items = 1 .. Len(items) /\ Len(items) \in Nat
  BY OpType, ItemsType DEF PageInv, SearchEnds, SearchOp
<1>2. op.found => op.low \in DOMAIN items /\ KeyAt(op.low) = op.key
  BY <1>1 DEF PageInv, SearchInv
<1>3. ASSUME ~op.found, NEW i \in DOMAIN items
      PROVE  /\ i < op.low => KeyAt(i) < op.key
             /\ i >= op.low => op.key < KeyAt(i)
  <2>1. op.low > op.high
    BY <1>3 DEF SearchEnds
  <2>2. i >= op.low => i > op.high
    BY <1>1, <2>1
  <2>3. (i < op.low => KeyAt(i) < op.key) /\ (i > op.high => op.key < KeyAt(i))
    BY <1>1, <1>3 DEF PageInv, SearchInv
  <2> QED BY <2>2, <2>3
<1> QED BY <1>1, <1>2, <1>3

LEMMA FindAnswered ==
  ASSUME PageInv, NEW k \in Int, NEW a \in SUBSET {Deserialized(v) : v \in Value}, op.at = "find",
         op' = [at |-> "return", key |-> k, answer |-> a],
         UNCHANGED <<_upper, items, record, stored>>, FindExact'
  PROVE  PageInv'
<1>1. op' \in ReturnOp /\ op'.at = "return"
  BY DEF ReturnOp
<1>2. ~Placing /\ ~Placing' /\ ~Searching'
  BY <1>1 DEF Placing, Searching
<1>3. PageType' /\ Room' /\ Offsets' /\ Sorted' /\ StoredExact'
  BY <1>1, <1>2, PageKept
<1>4. SearchInv' /\ PlaceInv'
  BY <1>1, <1>2 DEF SearchInv, PlaceInv
<1> QED BY <1>3, <1>4 DEF PageInv

LEMMA FindResultKeepsPage ==
  ASSUME PageInv, FindResult
  PROVE  PageInv'
<1>1. PICK k, a : /\ k = op.key
                  /\ a = IF op.found THEN {Deserialized(record[items[op.low]].val)} ELSE NotFound
  OBVIOUS
<1>2. /\ UNCHANGED <<_upper, items, record, stored>> /\ SearchEnds /\ op.at = "find"
      /\ op' = [at |-> "return", key |-> k, answer |-> a]
  BY <1>1 DEF FindResult
<1>3. /\ op \in SearchOp /\ k \in Int
      /\ op.found => op.low \in DOMAIN items /\ KeyAt(op.low) = k
      /\ ~op.found => \A i \in DOMAIN items : /\ i < op.low => KeyAt(i) < k
                                              /\ i >= op.low => k < KeyAt(i)
  BY <1>1, <1>2, SearchOver DEF SearchOp
<1>4. CASE op.found
  <2>1. PICK o : o = items[op.low]
    OBVIOUS
  <2>2. o \in DOMAIN record /\ record[o].key = k /\ record[o].val \in Value
    <3>1. op.low \in DOMAIN items /\ KeyAt(op.low) = k
      BY <1>3, <1>4
    <3> QED BY <2>1, <3>1, KeyType DEF PageInv, PageType, KeyAt
  <2>3. a = {Deserialized(record[o].val)}
    BY <1>1, <1>4, <2>1
  <2>4. <<record[o].key, record[o].val>> \in stored
    BY <2>2 DEF PageInv, StoredExact
  <2>5. PICK v \in Value : a = {Deserialized(v)} /\ <<k, v>> \in stored
    BY <2>2, <2>3, <2>4
  <2>6. a \in SUBSET {Deserialized(w) : w \in Value} /\ a # NotFound
    BY <2>5 DEF NotFound
  <2>7. \E p \in stored : p[1] = k /\ a = {Deserialized(p[2])}
    <3>1. <<k, v>>[1] = k /\ <<k, v>>[2] = v
      OBVIOUS
    <3> QED BY <2>5, <3>1, Zenon
  <2>8. FindExact'
    BY <1>2, <2>6, <2>7 DEF FindExact
  <2> QED BY <2>6, <2>8, FindAnswered, <1>2, <1>3
<1>5. CASE ~op.found
  <2>1. a = NotFound
    BY <1>1, <1>5
  <2>2. a \in SUBSET {Deserialized(w) : w \in Value}
    BY <2>1 DEF NotFound
  <2>3. ASSUME NEW p \in stored PROVE p[1] # k
    <3>1. PICK o \in DOMAIN record : p = <<record[o].key, record[o].val>>
      BY DEF PageInv, StoredExact
    <3>2. ~Placing
      BY <1>2 DEF Placing
    <3>3. PICK i \in DOMAIN items : items[i] = o
      BY <3>2 DEF PageInv, Offsets
    <3>4. KeyAt(i) \in Int /\ KeyAt(i) = p[1]
      BY <3>1, <3>3, KeyType DEF PageInv, KeyAt
    <3>5. i \in Int /\ op.low \in Int
      BY <1>3, ItemsType DEF PageInv, SearchOp
    <3>6. i < op.low \/ i >= op.low
      BY <3>5
    <3>7. KeyAt(i) < k \/ k < KeyAt(i)
      BY <1>3, <1>5, <3>6
    <3> QED BY <1>3, <3>4, <3>7
  <2>4. FindExact'
    BY <1>2, <2>1, <2>3 DEF FindExact
  <2> QED BY <2>2, <2>4, FindAnswered, <1>2, <1>3
<1> QED BY <1>4, <1>5

LEMMA ReturnKeepsPage ==
  ASSUME PageInv, FindReturns
  PROVE  PageInv'
<1>1. /\ UNCHANGED <<_upper, items, record, stored>> /\ op.at = "return" /\ op' = Idle
      /\ op'.at = "idle"
  BY DEF FindReturns, Idle
<1>2. ~Placing /\ ~Placing' /\ ~Searching'
  BY <1>1 DEF Placing, Searching
<1>3. PageType' /\ Room' /\ Offsets' /\ Sorted' /\ StoredExact'
  BY <1>1, <1>2, PageKept
<1>4. SearchInv' /\ PlaceInv' /\ FindExact'
  BY <1>1, <1>2 DEF SearchInv, PlaceInv, FindExact
<1> QED BY <1>3, <1>4 DEF PageInv

----------------------------------------------------------------------------
(* Inserting                                                               *)

LEMMA ReturnPositionKeepsPage ==
  ASSUME PageInv, ReturnPosition
  PROVE  PageInv'
<1>1. PICK k, low : k = op.key /\ low = op.low
  OBVIOUS
<1>2. /\ UNCHANGED <<_upper, items, record, stored>> /\ SearchEnds /\ op.at = "position"
      /\ op' = [at |-> "place", key |-> k, low |-> low]
  BY <1>1 DEF ReturnPosition
<1>3. /\ op \in SearchOp /\ k \in Int /\ low \in Int /\ Searching
      /\ op.found => low \in DOMAIN items /\ KeyAt(low) = k
      /\ ~op.found => \A i \in DOMAIN items : /\ i < low => KeyAt(i) < k
                                              /\ i >= low => k < KeyAt(i)
  BY <1>1, <1>2, SearchOver DEF SearchOp, SearchEnds
<1>4. op' \in PlaceOp /\ op'.at = "place" /\ op'.key = k /\ op'.low = low
  BY <1>2, <1>3 DEF PlaceOp
<1>5. Placing /\ Placing' /\ ~Searching'
  BY <1>2, <1>4 DEF Placing, Searching
<1>6. /\ PageType' /\ Room' /\ Offsets' /\ Sorted' /\ StoredExact'
      /\ \A i : KeyAt(i)' = KeyAt(i)
  BY <1>1, <1>2, <1>4, <1>5, PageKept
<1>7. Fits(k, low)
  <2>1. low \in 1 .. Len(items) + 1
    BY <1>1, <1>3 DEF PageInv, SearchInv
  <2>2. ASSUME NEW i \in DOMAIN items
        PROVE  /\ i < low => KeyAt(i) <= k
               /\ i >= low => k <= KeyAt(i)
    <3>1. KeyAt(i) \in Int /\ i \in Int
      BY KeyType, ItemsType DEF PageInv
    <3>2. CASE op.found
      <4>1. low \in DOMAIN items /\ KeyAt(low) = k
        BY <1>3, <3>2
      <4>2. i < low => KeyAt(i) <= KeyAt(low)
        BY <4>1 DEF PageInv, Sorted
      <4>3. low < i => KeyAt(low) <= KeyAt(i)
        BY <4>1 DEF PageInv, Sorted
      <4>4. i >= low => low < i \/ i = low
        BY <1>3, <3>1
      <4>5. i = low => k <= KeyAt(i)
        BY <1>3, <3>1, <4>1
      <4> QED BY <4>1, <4>2, <4>3, <4>4, <4>5
    <3>3. CASE ~op.found
      <4>1. (i < low => KeyAt(i) < k) /\ (i >= low => k < KeyAt(i))
        BY <1>3, <3>3
      <4> QED BY <1>3, <3>1, <4>1
    <3> QED BY <3>2, <3>3
  <2> QED BY <2>1, <2>2 DEF Fits
<1>8. PlaceInv'
  BY <1>2, <1>4, <1>6, <1>7 DEF PlaceInv, Fits
<1>9. SearchInv' /\ FindExact'
  BY <1>4, <1>5 DEF SearchInv, FindExact
<1> QED BY <1>6, <1>8, <1>9 DEF PageInv

\* The offset of the new record goes where its key belongs; the later ones move up.
LEMMA PlaceKeepsPage ==
  ASSUME PageInv, Place
  PROVE  PageInv'
<1>1. PICK k, low, n : k = op.key /\ low = op.low /\ n = Len(items)
  OBVIOUS
<1>2. /\ op.at = "place" /\ op' = Idle /\ op'.at = "idle"
      /\ UNCHANGED <<_upper, record, stored>>
      /\ items' = [i \in 1 .. n + 1 |->
                     CASE i < low -> items[i] [] i = low -> _upper [] OTHER -> items[i - 1]]
  BY <1>1 DEF Place, Idle
<1>3. /\ op \in PlaceOp /\ k \in Int /\ low \in Int /\ n \in Nat /\ DOMAIN items = 1 .. n
      /\ Placing /\ ~Placing' /\ ~Searching' /\ _upper \in Int
      /\ \A i \in 1 .. n : items[i] \in Int
  BY <1>1, <1>2, OpType, ItemsType DEF PageInv, PlaceOp, Placing, Searching, PageType
<1>4. /\ low \in 1 .. n + 1
      /\ \A i \in 1 .. n : (i < low => KeyAt(i) <= k) /\ (i >= low => k <= KeyAt(i))
  BY <1>1, <1>2, <1>3 DEF PageInv, PlaceInv, Fits
<1>5. /\ \A i \in 1 .. n + 1 : i < low => i \in 1 .. n /\ items'[i] = items[i]
      /\ items'[low] = _upper
      /\ \A i \in 1 .. n + 1 : i > low => i - 1 \in 1 .. n /\ items'[i] = items[i - 1]
  BY <1>2, <1>3, <1>4
<1>6. /\ items' \in Seq(Int) /\ Len(items') = n + 1 /\ DOMAIN items' = 1 .. n + 1
  <2>1. \A i \in 1 .. n + 1 : items'[i] \in Int
    <3>1. \A i \in 1 .. n + 1 : i < low \/ i = low \/ i > low
      BY <1>3
    <3> QED BY <1>3, <1>5, <3>1
  <2>2. DOMAIN items' = 1 .. n + 1 /\ items' = [i \in 1 .. n + 1 |-> items'[i]]
    BY <1>2
  <2>3. n + 1 \in Nat
    BY <1>3
  <2> QED BY <2>1, <2>2, <2>3
<1>7. /\ \A o \in DOMAIN record : o >= _upper
      /\ \A i \in 1 .. n : items[i] \in DOMAIN record /\ items[i] # _upper
      /\ \A i, j \in 1 .. n : items[i] = items[j] => i = j
      /\ \A o \in DOMAIN record : (\E i \in 1 .. n : items[i] = o) \/ o = _upper
      /\ _upper \in DOMAIN record /\ record[_upper].key = k
  BY <1>1, <1>3 DEF PageInv, Offsets
<1>8. \A i \in 1 .. n + 1 : /\ i < low => KeyAt(i)' = KeyAt(i)
                            /\ i = low => KeyAt(i)' = k
                            /\ i > low => KeyAt(i)' = KeyAt(i - 1)
  BY <1>2, <1>5, <1>7 DEF KeyAt
<1>9. \A i \in 1 .. n : KeyAt(i) \in Int
  BY <1>3, KeyType DEF PageInv
<1>10. PageType'
  BY <1>2, <1>3, <1>6 DEF PageInv, PageType
<1>11. Room'
  <2>1. Slots(Len(items)) = n + 1 /\ Slots(Len(items))' = n + 1
    <3>1. Slots(Len(items)) = Len(items) + 1
      BY <1>3 DEF Slots
    <3>2. Slots(Len(items))' = Len(items') + 0
      BY <1>3 DEF Slots
    <3>3. Len(items') + 0 = n + 1
      BY <1>3, <1>6
    <3> QED BY <1>1, <3>1, <3>2, <3>3
  <2> QED BY <1>2, <2>1 DEF PageInv, Room
<1>12. Offsets'
  <2>1. ASSUME NEW i \in 1 .. n + 1 PROVE items'[i] \in DOMAIN record
    <3>1. i < low \/ i = low \/ i > low
      BY <1>3
    <3> QED BY <1>5, <1>7, <3>1
  <2>2. ASSUME NEW i \in 1 .. n + 1, NEW j \in 1 .. n + 1, items'[i] = items'[j] PROVE i = j
    <3>1. (i < low \/ i = low \/ i > low) /\ (j < low \/ j = low \/ j > low)
      BY <1>3
    <3>2. CASE i = low \/ j = low
      BY <1>5, <1>7, <2>2, <3>1, <3>2
    <3>3. CASE i < low /\ j < low
      BY <1>5, <1>7, <2>2, <3>3
    <3>4. CASE i > low /\ j > low
      <4>1. i - 1 = j - 1
        BY <1>5, <1>7, <2>2, <3>4
      <4> QED BY <1>3, <4>1
    <3>5. CASE i < low /\ j > low
      <4>1. i = j - 1
        BY <1>5, <1>7, <2>2, <3>5
      <4> QED BY <1>3, <3>5, <4>1
    <3>6. CASE i > low /\ j < low
      <4>1. i - 1 = j
        BY <1>5, <1>7, <2>2, <3>6
      <4> QED BY <1>3, <3>6, <4>1
    <3> QED BY <3>1, <3>2, <3>3, <3>4, <3>5, <3>6
  <2>3. ASSUME NEW o \in DOMAIN record PROVE \E i \in 1 .. n + 1 : items'[i] = o
    <3>1. CASE o = _upper
      BY <1>4, <1>5, <3>1
    <3>2. CASE o # _upper
      <4>1. PICK i \in 1 .. n : items[i] = o
        BY <1>7, <3>2
      <4>2. CASE i < low
        <5>1. i \in 1 .. n + 1
          BY <1>3
        <5> QED BY <1>5, <4>1, <4>2, <5>1
      <4>3. CASE i >= low
        <5>1. i + 1 \in 1 .. n + 1 /\ i + 1 > low /\ (i + 1) - 1 = i
          BY <1>3, <4>3
        <5>2. items'[i + 1] = items[i]
          BY <1>5, <5>1
        <5> QED BY <4>1, <5>1, <5>2
      <4> QED BY <1>3, <4>2, <4>3
    <3> QED BY <3>1, <3>2
  <2> QED BY <1>2, <1>3, <1>6, <1>7, <2>1, <2>2, <2>3 DEF Offsets
<1>13. Sorted'
  <2>1. ASSUME NEW i \in 1 .. n + 1, NEW j \in 1 .. n + 1, i < j PROVE KeyAt(i)' <= KeyAt(j)'
    <3>1. \A a, b \in 1 .. n : a < b => KeyAt(a) <= KeyAt(b)
      BY <1>3 DEF PageInv, Sorted
    <3>2. CASE j < low
      <4>1. i < low /\ i \in 1 .. n /\ j \in 1 .. n
        BY <1>3, <2>1, <3>2, <1>4
      <4> QED BY <1>8, <2>1, <3>1, <3>2, <4>1
    <3>3. CASE j = low
      <4>1. i < low /\ i \in 1 .. n
        BY <1>3, <2>1, <3>3, <1>4
      <4> QED BY <1>4, <1>8, <3>3, <4>1
    <3>4. CASE j > low /\ i < low
      <4>1. i \in 1 .. n /\ j - 1 \in 1 .. n /\ i < j - 1
        BY <1>3, <1>4, <2>1, <3>4
      <4> QED BY <1>8, <3>1, <3>4, <4>1
    <3>5. CASE j > low /\ i = low
      <4>1. j - 1 \in 1 .. n /\ j - 1 >= low
        BY <1>3, <1>4, <2>1, <3>5
      <4> QED BY <1>4, <1>8, <3>5, <4>1
    <3>6. CASE i > low
      <4>1. i - 1 \in 1 .. n /\ j - 1 \in 1 .. n /\ i - 1 < j - 1 /\ j > low
        BY <1>3, <1>4, <2>1, <3>6
      <4> QED BY <1>8, <3>1, <3>6, <4>1
    <3>7. j < low \/ j = low \/ (j > low /\ i < low) \/ (j > low /\ i = low) \/ i > low
      BY <1>3, <2>1
    <3> QED BY <3>2, <3>3, <3>4, <3>5, <3>6, <3>7
  <2> QED BY <1>6, <2>1 DEF Sorted
<1>14. StoredExact'
  BY <1>2 DEF PageInv, StoredExact
<1>15. SearchInv' /\ PlaceInv' /\ FindExact'
  BY <1>2, <1>3 DEF SearchInv, PlaceInv, FindExact
<1> QED BY <1>10, <1>11, <1>12, <1>13, <1>14, <1>15 DEF PageInv

\* A record that is not over the fill factor leaves room for its offset.
LEMMA RoomLeft ==
  ASSUME PageInv, op = Idle, ~NeedSplit, NEW v \in Value
  PROVE  /\ RecordSize(v) \in Nat /\ RecordSize(v) > 0
         /\ HeaderSize + OffsetSize * (Len(items) + 1) <= _upper - RecordSize(v)
<1>1. /\ Len(items) \in Nat /\ _upper \in Int /\ OffsetSize \in Nat /\ HeaderSize \in Nat
      /\ PageSize \in Nat /\ MaxPageSlotSpace \in Nat /\ MaxFillFactor \in 0 .. 100
      /\ KeySize \in Nat \ {0} /\ LengthSize \in Nat /\ v.len \in Nat
      /\ MaxPageSlotSpace = PageSize - HeaderSize
  BY ItemsType, SizeAssumption DEF PageInv, PageType, MaxPageSlotSpace
<1>2. PICK r \in Nat : r = RecordSize(v) /\ r > 0
  BY <1>1 DEF RecordSize
<1>3. PICK a \in Int : a = OffsetSize * Len(items) /\ a = Len(items) * OffsetSize
  BY <1>1
<1>4. OffsetSize * (Len(items) + 1) = a + OffsetSize
  BY <1>1, <1>3
<1>5. PICK f \in Int : f = MaxFillFactor * MaxPageSlotSpace
  BY <1>1
<1>6. (100 - MaxFillFactor) * MaxPageSlotSpace = 100 * MaxPageSlotSpace - f
  BY <1>1, <1>5
<1>7. 100 * (r + OffsetSize) <= 100 * MaxPageSlotSpace - f
  BY <1>2, <1>6, RecordAssumption DEF RecordsFit
<1>8. 100 * (a + (PageSize - _upper)) <= f
  <2>1. ~(100 * (MaxPageSlotSpace - FreeSpace) > f)
    BY <1>5 DEF NeedSplit
  <2>2. FreeSpace = MaxPageSlotSpace - (a + (PageSize - _upper))
    BY <1>3 DEF FreeSpace
  <2>3. PICK u \in Int : u = a + (PageSize - _upper)
    BY <1>1
  <2>4. MaxPageSlotSpace - FreeSpace = u
    BY <1>1, <2>2, <2>3
  <2> QED BY <1>1, <2>1, <2>3, <2>4
<1>9. HeaderSize + (a + OffsetSize) <= _upper - r
  BY <1>1, <1>7, <1>8
<1> QED BY <1>2, <1>4, <1>9

\* The ends of the array are tested as the search would.
LEMMA AtEndsFits ==
  ASSUME PageInv, NEW k \in Int, AtEnds(k) # 0
  PROVE  Fits(k, AtEnds(k))
<1>1. PICK n \in Nat : n = Len(items) /\ DOMAIN items = 1 .. n
  BY ItemsType DEF PageInv
<1>2. \A i \in 1 .. n : KeyAt(i) \in Int
  BY <1>1, KeyType DEF PageInv
<1>3. \A i, j \in 1 .. n : i < j => KeyAt(i) <= KeyAt(j)
  BY <1>1 DEF PageInv, Sorted
<1>4. \/ n = 0 /\ AtEnds(k) = 1
      \/ n > 0 /\ k > KeyAt(n) /\ AtEnds(k) = n + 1
      \/ n > 0 /\ k < KeyAt(1) /\ AtEnds(k) = 1
  <2>1. AtEnds(k) = CASE n = 0 -> 1
                      [] n > 0 /\ k > KeyAt(n) -> n + 1
                      [] n > 0 /\ k < KeyAt(1) -> 1
                      [] OTHER -> 0
    BY <1>1, Zenon DEF AtEnds
  <2>2. CASE n = 0
    <3>1. ~(n > 0)
      BY <2>2
    <3> QED BY <2>1, <2>2, <3>1, Zenon
  <2>3. CASE n > 0
    <3>1. n # 0 /\ n \in 1 .. n /\ 1 \in 1 .. n
      BY <2>3
    <3>2. KeyAt(1) <= KeyAt(n) /\ KeyAt(1) \in Int /\ KeyAt(n) \in Int
      BY <1>2, <1>3, <3>1
    <3>3. ~(k > KeyAt(n) /\ k < KeyAt(1))
      BY <3>2
    <3>4. CASE k > KeyAt(n)
      BY <2>1, <2>3, <3>1, <3>3, <3>4, Zenon
    <3>5. CASE ~(k > KeyAt(n)) /\ k < KeyAt(1)
      BY <2>1, <2>3, <3>1, <3>5, Zenon
    <3>6. CASE ~(k > KeyAt(n)) /\ ~(k < KeyAt(1))
      BY <2>1, <3>1, <3>6, Zenon
    <3> QED BY <3>4, <3>5, <3>6
  <2> QED BY <2>2, <2>3
<1>5. CASE n = 0 /\ AtEnds(k) = 1
  BY <1>1, <1>5 DEF Fits
<1>6. CASE n > 0 /\ k > KeyAt(n) /\ AtEnds(k) = n + 1
  <2>1. n + 1 \in 1 .. n + 1 /\ n \in 1 .. n
    BY <1>6
  <2>2. ASSUME NEW i \in 1 .. n PROVE i < n + 1 /\ KeyAt(i) <= k /\ ~(i >= n + 1)
    <3>1. i < n \/ i = n
      OBVIOUS
    <3>2. KeyAt(i) <= KeyAt(n)
      BY <1>2, <1>3, <2>1, <3>1
    <3> QED BY <1>2, <1>6, <2>1, <3>2
  <2> QED BY <1>1, <1>6, <2>1, <2>2 DEF Fits
<1>7. CASE n > 0 /\ k < KeyAt(1) /\ AtEnds(k) = 1
  <2>1. 1 \in 1 .. n + 1 /\ 1 \in 1 .. n
    BY <1>7
  <2>2. ASSUME NEW i \in 1 .. n PROVE ~(i < 1) /\ k <= KeyAt(i)
    <3>1. 1 < i \/ i = 1
      OBVIOUS
    <3>2. KeyAt(1) <= KeyAt(i)
      BY <1>2, <1>3, <2>1, <3>1
    <3> QED BY <1>2, <1>7, <2>1, <3>2
  <2> QED BY <1>1, <1>7, <2>1, <2>2 DEF Fits
<1> QED BY <1>4, <1>5, <1>6, <1>7

LEMMA InsertKeepsPage ==
  ASSUME PageInv, NEW k \in Key, NEW v \in Value, Insert(k, v)
  PROVE  PageInv'
<1>1. PICK o : o = _upper - RecordSize(v)
  OBVIOUS
<1>2. /\ op = Idle /\ ~NeedSplit /\ record' = Serialized(k, v, o) /\ _upper' = o
      /\ stored' = stored \cup {<<k, v>>} /\ items' = items
  BY <1>1 DEF Insert
<1>3. \/ AtEnds(k) = 0 /\ op' = [at |-> "position", key |-> k, low |-> 1, high |-> Len(items), found |-> FALSE]
      \/ AtEnds(k) # 0 /\ op' = [at |-> "place", key |-> k, low |-> AtEnds(k)]
  BY Zenon DEF Insert
<1>4. /\ o \in Int /\ o < _upper /\ _upper \in Int /\ k \in Int
      /\ HeaderSize + OffsetSize * (Len(items) + 1) <= o
  <2>1. RecordSize(v) \in Nat /\ RecordSize(v) > 0 /\ _upper \in Int
        /\ HeaderSize + OffsetSize * (Len(items) + 1) <= _upper - RecordSize(v)
    BY <1>2, RoomLeft DEF PageInv, PageType
  <2> QED BY <1>1, <2>1, KeyAssumption
<1>5. /\ \A p \in DOMAIN record : p \in Int /\ p >= _upper
      /\ \A i \in DOMAIN items : items[i] \in DOMAIN record
      /\ \A i, j \in DOMAIN items : items[i] = items[j] => i = j
      /\ \A p \in DOMAIN record : \E i \in DOMAIN items : items[i] = p
  <2>1. ~Placing
    BY <1>2, OpType DEF PageInv
  <2> QED BY <2>1 DEF PageInv, Offsets, PageType
<1>6. \A p \in DOMAIN record : p # o /\ p >= o
  BY <1>4, <1>5
<1>7. /\ DOMAIN record' = DOMAIN record \cup {o}
      /\ record'[o] = [key |-> k, val |-> v]
      /\ \A p \in DOMAIN record : record'[p] = record[p]
  BY <1>2, <1>6 DEF Serialized
<1>8. Len(items) \in Nat /\ DOMAIN items = 1 .. Len(items)
  BY ItemsType DEF PageInv
<1>9. \A i \in DOMAIN items : KeyAt(i)' = KeyAt(i)
  BY <1>2, <1>5, <1>7 DEF KeyAt
<1>10. /\ op' \in SearchOp \cup PlaceOp /\ op'.key = k /\ op'.at \in {"position", "place"}
       /\ AtEnds(k) # 0 => op'.at = "place" /\ op'.low = AtEnds(k)
       /\ AtEnds(k) = 0 => /\ op' \in SearchOp /\ op'.at = "position" /\ op'.low = 1
                           /\ op'.high = Len(items) /\ op'.found = FALSE
  <2>1. CASE AtEnds(k) = 0
    <3>1. op' = [at |-> "position", key |-> k, low |-> 1, high |-> Len(items), found |-> FALSE]
      BY <1>3, <2>1
    <3>2. /\ op' \in SearchOp /\ op'.at = "position" /\ op'.key = k /\ op'.low = 1
          /\ op'.high = Len(items) /\ op'.found = FALSE
      BY <1>4, <1>8, <3>1 DEF SearchOp
    <3> QED BY <2>1, <3>2
  <2>2. CASE AtEnds(k) # 0
    <3>1. AtEnds(k) \in Int
      BY <1>4, <1>8, <2>2, AtEndsFits DEF Fits
    <3> QED BY <1>3, <1>4, <2>2, <3>1 DEF PlaceOp
  <2> QED BY <2>1, <2>2
<1>11. Placing' /\ (Searching' => AtEnds(k) = 0) /\ op'.at # "return"
  BY <1>10 DEF Placing, Searching
<1>12. PageType'
  <2>1. ASSUME NEW p \in DOMAIN record' PROVE p \in Int /\ record'[p].key \in Int /\ record'[p].val \in Value
    <3>1. CASE p = o
      BY <1>4, <1>7, <3>1
    <3>2. CASE p \in DOMAIN record
      BY <1>7, <3>2 DEF PageInv, PageType
    <3> QED BY <1>7, <3>1, <3>2
  <2> QED BY <1>2, <1>4, <1>10, <2>1 DEF PageInv, PageType
<1>13. Room'
  <2>1. Slots(Len(items))' = Len(items) + 1
    BY <1>2, <1>11 DEF Slots
  <2> QED BY <1>2, <1>4, <2>1 DEF Room
<1>14. Offsets'
  <2>1. \A p \in DOMAIN record' : p >= o /\ ((\E i \in DOMAIN items : items[i] = p) \/ p = o)
    BY <1>4, <1>5, <1>6, <1>7
  <2>2. \A i \in DOMAIN items : items[i] \in DOMAIN record' /\ items[i] # o
    BY <1>5, <1>6, <1>7
  <2>3. o \in DOMAIN record' /\ record'[o].key = op'.key
    BY <1>7, <1>10
  <2> QED BY <1>2, <1>5, <1>11, <2>1, <2>2, <2>3 DEF Offsets
<1>15. Sorted'
  BY <1>2, <1>9 DEF PageInv, Sorted
<1>16. SearchInv'
  <2>1. ASSUME Searching' PROVE /\ op'.low = 1 /\ op'.high = Len(items) /\ ~op'.found
    BY <1>10, <1>11, <2>1
  <2>2. 1 \in 1 .. Len(items) + 1 /\ Len(items) \in 0 .. Len(items)
    BY <1>8
  <2>3. \A i \in DOMAIN items : ~(i < 1) /\ ~(i > Len(items))
    BY <1>8
  <2> QED BY <1>2, <2>1, <2>2, <2>3 DEF SearchInv
<1>17. PlaceInv'
  <2>1. ASSUME op'.at = "place" PROVE AtEnds(k) # 0 /\ op'.low = AtEnds(k)
    BY <1>10, <2>1
  <2>2. AtEnds(k) # 0 => Fits(k, AtEnds(k))
    BY <1>4, AtEndsFits
  <2> QED BY <1>2, <1>9, <1>10, <2>1, <2>2 DEF PlaceInv, Fits
<1>18. StoredExact'
  <2>1. {<<record'[p].key, record'[p].val>> : p \in DOMAIN record'}
          = {<<record[p].key, record[p].val>> : p \in DOMAIN record} \cup {<<k, v>>}
    <3>1. record'[o].key = k /\ record'[o].val = v
      BY <1>7
    <3> QED BY <1>7, <3>1
  <2> QED BY <1>2, <2>1 DEF PageInv, StoredExact
<1>19. FindExact'
  BY <1>11 DEF FindExact
<1> QED BY <1>12, <1>13, <1>14, <1>15, <1>16, <1>17, <1>18, <1>19 DEF PageInv

----------------------------------------------------------------------------
(* The theorems                                                            *)

LEMMA PageNextInv == PageInv /\ [PageNext]_pageVars => PageInv'
<1> SUFFICES ASSUME PageInv, [PageNext]_pageVars PROVE PageInv'
  OBVIOUS
<1>1. CASE UNCHANGED pageVars
  <2>1. UNCHANGED <<_upper, items, record, stored, op>>
    BY <1>1 DEF pageVars
  <2>2. op' \in {Idle} \cup SearchOp \cup PlaceOp \cup ReturnOp /\ (Placing' <=> Placing)
    BY <2>1 DEF PageInv, PageType, Placing
  <2>3. /\ PageType' /\ Room' /\ Offsets' /\ Sorted' /\ StoredExact'
        /\ \A i : KeyAt(i)' = KeyAt(i)
    BY <2>1, <2>2, PageKept
  <2>4. SearchInv' /\ PlaceInv'
    BY <2>1, <2>3 DEF PageInv, SearchInv, Searching, PlaceInv, Fits
  <2>5. FindExact'
    BY <2>1 DEF PageInv, FindExact
  <2> QED BY <2>3, <2>4, <2>5 DEF PageInv
<1>2. ASSUME NEW k \in Key, NEW v \in Value, Insert(k, v) PROVE PageInv'
  BY <1>2, InsertKeepsPage
<1>3. ASSUME NEW k \in Key, Find(k) PROVE PageInv'
  BY <1>3, FindKeepsPage
<1>4. CASE Place \/ Probe \/ FindResult \/ FindReturns \/ ReturnPosition
  BY <1>4, PlaceKeepsPage, ProbeKeepsPage, FindResultKeepsPage, ReturnKeepsPage, ReturnPositionKeepsPage
<1> QED BY <1>1, <1>2, <1>3, <1>4 DEF PageNext, InsertDropped

\* The search and the page fit each other in every reachable state.
THEOREM PageInductive == PageSpec => []PageInv
  BY PageInitInv, PageNextInv, PTL DEF PageSpec

\* Whatever is inserted in whatever order, the offset array stays clear of the
\* records, points at them and is sorted by key.
THEOREM PageAlwaysWellFormed == PageSpec => []PageWellFormed
<1>1. PageInv => PageWellFormed
  <2> SUFFICES ASSUME PageInv PROVE PageWellFormed
    OBVIOUS
  <2>1. HeaderSize + OffsetSize * (Len(items) + (IF op.at \in {"position", "place"} THEN 1 ELSE 0)) <= _upper
    BY DEF PageInv, Room, Slots, Placing
  <2>2. \A i \in DOMAIN items : items[i] \in DOMAIN record /\ items[i] >= _upper
    BY DEF PageInv, Offsets
  <2>3. ASSUME NEW i \in DOMAIN items, NEW j \in DOMAIN items, i < j
        PROVE  items[i] # items[j] /\ KeyAt(i) <= KeyAt(j)
    <3>1. i # j
      BY <2>3, ItemsType DEF PageInv
    <3> QED BY <2>3, <3>1 DEF PageInv, Offsets, Sorted
  <2> QED BY <2>1, <2>2, <2>3 DEF PageWellFormed
<1> QED BY <1>1, PageInductive, PTL

\* find returns what was stored under its key, and InvalidPid only if there was
\* nothing: its binary search and the one of insert agree.
THEOREM FindAlwaysExact == PageSpec => []FindExact
  BY PageInductive, PTL DEF PageInv
=============================================================================
