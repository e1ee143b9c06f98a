------------------------------ MODULE IoUring ------------------------------
(***************************************************************************)
(* The part of liburing and the kernel that io_uring/read_write.cc and     *)
(* io_uring/async_write_coroutine.cc rely on.  A ring holds the requests   *)
(* prepared and not submitted (sq), those the kernel works on (flight) and *)
(* the completions not yet seen (cq, oldest first).  The kernel completes  *)
(* requests in any order.                                                  *)
(***************************************************************************)
EXTENDS Naturals, Sequences

EmptyRing == [sq |-> << >>, flight |-> {}, cq |-> << >>]

\* io_uring_get_sqe returns an entry, with the given number of entries
HasSqe(ring, entries) == Len(ring.sq) < entries

Prep(ring, r) == [ring EXCEPT !.sq = Append(@, r)]

Submit(ring) ==
  [ring EXCEPT !.sq = << >>, !.flight = @ \cup {ring.sq[i] : i \in DOMAIN ring.sq}]

Complete(ring, r, res) ==
  [ring EXCEPT !.flight = @ \ {r}, !.cq = Append(@, [req |-> r, res |-> res])]

CqeSeen(ring) == [ring EXCEPT !.cq = Tail(@)]
=============================================================================
