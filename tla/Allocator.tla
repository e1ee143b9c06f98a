----------------------------- MODULE Allocator -----------------------------
(***************************************************************************)
(* What a pool of objects promises: an object has at most one owner, and   *)
(* one that is given back can be had again.                                *)
(***************************************************************************)
EXTENDS Naturals, FiniteSets

CONSTANTS Object, Owner, Nothing

VARIABLES
  free,        \* objects that can be had
  available,   \* how many
  owned        \* owned[p]: the object of p, or Nothing

allocatorVars == <<free, available, owned>>

AllocatorInit ==
  /\ free = Object /\ available = Cardinality(Object)
  /\ owned = [p \in Owner |-> Nothing]

\* what p owned is given back when it gets another object
Acquire(p) ==
  \E o \in free :
    /\ owned' = [owned EXCEPT ![p] = o]
    /\ free' = (free \ {o}) \cup ({owned[p]} \ {Nothing})
    /\ available' = Cardinality(free')

GiveBack(p) ==
  /\ owned[p] # Nothing
  /\ owned' = [owned EXCEPT ![p] = Nothing]
  /\ free' = free \cup {owned[p]}
  /\ available' = Cardinality(free')

AllocatorNext == \E p \in Owner : Acquire(p) \/ GiveBack(p)

AllocatorSpec == AllocatorInit /\ [][AllocatorNext]_allocatorVars
=============================================================================
