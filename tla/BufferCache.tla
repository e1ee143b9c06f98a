---------------------------- MODULE BufferCache ----------------------------
(***************************************************************************)
(* btree/buffercache.h: pages of one array, taken with initNextFreePage    *)
(* and given back with free, both under _rwMutex.  A page is _ptr plus     *)
(* pid * PageSize, a product of 32 bits, as is the size of the array.      *)
(* Nothing compares the pages taken with the pages there are.              *)
(***************************************************************************)
EXTENDS Naturals, Sequences, FiniteSets

CONSTANTS
  User,        \* holders of at most one page each
  NoPage,
  PageBytes,   \* PageSize
  UIntRange,   \* 2^32
  PageCounts   \* arguments of the constructor

ASSUME CacheAssumption ==
  /\ IsFiniteSet(User) /\ NoPage \notin Nat
  /\ PageBytes \in Nat \ {0} /\ UIntRange \in Nat \ {0} /\ PageCounts \subseteq Nat

VARIABLES
  _pages, _next_free_page, _freeList,
  array,       \* bytes of the array, NoPage before the constructor
  page,        \* page[u]: the page u holds, or NoPage
  peak         \* the most pages held at once

cacheVars == <<_pages, _next_free_page, _freeList, array, page, peak>>

CacheInit ==
  /\ _pages = 0 /\ _next_free_page = 0 /\ _freeList = << >>
  /\ array = NoPage
  /\ page = [u \in User |-> NoPage] /\ peak = 0

Construct ==
  /\ array = NoPage
  /\ \E n \in PageCounts : _pages' = n /\ array' = (n * PageBytes) % UIntRange
  /\ UNCHANGED <<_next_free_page, _freeList, page, peak>>

Held == {u \in User : page[u] # NoPage}
Higher(n) == IF n > peak THEN n ELSE peak

NeverReuses == FALSE                                         \* mutant
Reuses == Len(_freeList) > 0

initNextFreePage(u) ==
  /\ array # NoPage /\ page[u] = NoPage
  /\ IF Reuses
       THEN /\ page' = [page EXCEPT ![u] = _freeList[Len(_freeList)]]
            /\ _freeList' = SubSeq(_freeList, 1, Len(_freeList) - 1)
            /\ UNCHANGED _next_free_page
       ELSE /\ page' = [page EXCEPT ![u] = _next_free_page]
            /\ _next_free_page' = (_next_free_page + 1) % UIntRange
            /\ UNCHANGED _freeList
  /\ peak' = Higher(Cardinality(Held) + 1)
  /\ UNCHANGED <<_pages, array>>

free(u) ==
  /\ page[u] # NoPage
  /\ _freeList' = Append(_freeList, page[u])
  /\ page' = [page EXCEPT ![u] = NoPage]
  /\ UNCHANGED <<_pages, _next_free_page, array, peak>>

CacheNext == Construct \/ \E u \in User : initNextFreePage(u) \/ free(u)

CacheSpec == CacheInit /\ [][CacheNext]_cacheVars

----------------------------------------------------------------------------
\* _ptr + pid * PageSize, as an offset
Address(pid) == (pid * PageBytes) % UIntRange

\* Whatever is taken and freed in whatever order, no page has two holders, as
\* long as _next_free_page does not overflow.  If no more than _pages were held
\* at once, and the array is smaller than 2^32 bytes, the pages held do not
\* overlap and are inside the array.
PagesSafe ==
  /\ peak <= UIntRange =>
       /\ \A u, v \in Held : u # v => page[u] # page[v]
       /\ \A u \in Held : \A i \in DOMAIN _freeList : _freeList[i] # page[u]
  /\ peak <= _pages /\ _pages * PageBytes < UIntRange =>
       /\ \A u \in Held : Address(page[u]) + PageBytes <= array
       /\ \A u, v \in Held : u # v => Address(page[u]) # Address(page[v])
=============================================================================
