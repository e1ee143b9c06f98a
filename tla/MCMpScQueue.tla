---------------------------- MODULE MCMpScQueue ----------------------------
(***************************************************************************)
(* Bounds for the runs of MpScQueue: how often each producer enqueues.     *)
(***************************************************************************)
EXTENDS MpScQueue, TLC

CONSTANTS p1, p2

Calls2_2 == p1 :> 2 @@ p2 :> 2
Calls1_4 == p1 :> 1 @@ p2 :> 4
=============================================================================
