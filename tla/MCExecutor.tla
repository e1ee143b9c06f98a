----------------------------- MODULE MCExecutor ----------------------------
(***************************************************************************)
(* Two vcores.  On vcore 0 the shutting down thread's kHigh task competes  *)
(* with a client's kLowest task, on vcore 1 there is another kHigh task of *)
(* the client; each may be resubmitted for ever.                           *)
(***************************************************************************)
EXTENDS Executor, TLC

CONSTANTS main, client, high, lowest, other

MCOwner == high :> main @@ lowest :> client @@ other :> client
MCVcore == high :> 0 @@ lowest :> 0 @@ other :> 1
MCPriority == high :> kHigh @@ lowest :> kLowest @@ other :> kHigh
=============================================================================
