---------------------------- MODULE ObjectPool -----------------------------
(***************************************************************************)
(* object_pool.cc: objects in a free list that runs through the objects    *)
(* themselves, handed out as unique_ptrs whose deleter returns them.  The  *)
(* program is single-threaded; a step is a statement on a unique_ptr.      *)
(* Get of an empty pool throws and changes nothing.                        *)
(***************************************************************************)
EXTENDS Naturals, FiniteSets

CONSTANTS
  PoolSize,    \* objects of the pool
  Pointer,     \* variables of type unique_ptr<T, Deleter<T>>
  Null

ASSUME PoolAssumption ==
  PoolSize \in Nat \ {0} /\ IsFiniteSet(Pointer) /\ Null \notin 0 .. PoolSize

VARIABLES
  next_,       \* next_[o]: next() of objects_[o]
  freelist_, freelist_size_,
  pointer      \* pointer[p]: the object p owns, or Null

poolVars == <<next_, freelist_, freelist_size_, pointer>>

Objects == 0 .. PoolSize - 1

PoolInit ==
  /\ next_ = [o \in Objects |-> IF o = PoolSize - 1 THEN Null ELSE o + 1]
  /\ freelist_ = 0 /\ freelist_size_ = PoolSize
  /\ pointer = [p \in Pointer |-> Null]

\* auto p = pool.Get()
GetNew(p) ==
  /\ pointer[p] = Null
  /\ freelist_ # Null
  /\ pointer' = [pointer EXCEPT ![p] = freelist_]
  /\ freelist_' = next_[freelist_]
  /\ next_' = [next_ EXCEPT ![freelist_] = Null]
  /\ freelist_size_' = freelist_size_ - 1

\* obj->set_next(freelist_), in a list from which Get has taken the first object
KeepsNext(taken, obj) == [next_ EXCEPT ![taken] = Null]      \* mutant
Relink(taken, obj) == [next_ EXCEPT ![taken] = Null, ![obj] = next_[taken]]

\* p = pool.Get(): Get comes first, then p's old object goes back
GetAgain(p) ==
  /\ pointer[p] # Null
  /\ freelist_ # Null
  /\ pointer' = [pointer EXCEPT ![p] = freelist_]
  /\ next_' = Relink(freelist_, pointer[p])
  /\ freelist_' = pointer[p]
  /\ UNCHANGED freelist_size_

\* p goes out of scope: its deleter calls Return
Return_(p) ==
  /\ pointer[p] # Null
  /\ next_' = [next_ EXCEPT ![pointer[p]] = freelist_]
  /\ freelist_' = pointer[p]
  /\ freelist_size_' = freelist_size_ + 1
  /\ pointer' = [pointer EXCEPT ![p] = Null]

PoolNext == \E p \in Pointer : GetNew(p) \/ GetAgain(p) \/ Return_(p)

PoolSpec == PoolInit /\ [][PoolNext]_poolVars

----------------------------------------------------------------------------
\* the i-th object PrintFreelist comes to, or Null
Visited(first, next) ==
  LET visit[i \in 0 .. PoolSize] ==
        IF i = 0 THEN first
        ELSE IF visit[i - 1] = Null THEN Null ELSE next[visit[i - 1]]
  IN  visit

Free == {Visited(freelist_, next_)[i] : i \in 0 .. PoolSize} \ {Null}

Allocation == INSTANCE Allocator WITH
  Object <- Objects, Owner <- Pointer, Nothing <- Null,
  free <- Free, available <- freelist_size_, owned <- pointer

\* The pool is an allocator: through any sequence of Get, assignment and
\* destruction the free list holds exactly the objects no unique_ptr owns, each
\* once, and freelist_size_ counts them.
PoolContract == Allocation!AllocatorSpec
=============================================================================
