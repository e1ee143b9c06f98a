----------------------------- MODULE MpScFifo ------------------------------
(***************************************************************************)
(* What a multi-producer single-consumer queue promises its users: each    *)
(* producer's elements are taken once, in the order in which it enqueued   *)
(* them.  Elements of different producers may be taken in any order.  The  *)
(* n-th element of producer p is <<p, n>>.                                 *)
(***************************************************************************)
EXTENDS Naturals

CONSTANT Producers

VARIABLES
  put,       \* put[p]: how many elements p has enqueued
  inbox      \* elements enqueued and not taken yet

Init == put = [p \in Producers |-> 0] /\ inbox = {}

Enqueue(p) ==
  /\ put' = [put EXCEPT ![p] = @ + 1]
  /\ inbox' = inbox \cup {<<p, put[p] + 1>>}

Oldest(v) == \A u \in inbox : u[1] = v[1] => v[2] <= u[2]

Take(v) ==
  /\ Oldest(v)
  /\ inbox' = inbox \ {v}
  /\ put' = put

Next == (\E p \in Producers : Enqueue(p)) \/ (\E v \in inbox : Take(v))

Spec == Init /\ [][Next]_<<put, inbox>>
=============================================================================
