---------------------------- MODULE BoundedFifo ----------------------------
(***************************************************************************)
(* What the storage of a bounded queue between one producer and one        *)
(* consumer promises: elements enter at the end and are removed from the   *)
(* front, once each, and at most Limit of them wait.  Where a removed      *)
(* element goes is not part of it.                                         *)
(***************************************************************************)
EXTENDS Naturals, Sequences

CONSTANTS Item, Limit

VARIABLE waiting     \* elements in the queue, oldest first

Init == waiting = << >>

Put ==
  /\ Len(waiting) < Limit
  /\ \E v \in Item : waiting' = Append(waiting, v)

Remove ==
  /\ waiting # << >>
  /\ waiting' = Tail(waiting)

Next == Put \/ Remove

Spec == Init /\ [][Next]_waiting
=============================================================================
