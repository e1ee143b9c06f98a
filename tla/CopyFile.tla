------------------------------ MODULE CopyFile -----------------------------
(***************************************************************************)
(* copy_file of io_uring/read_write.cc: blocks of BS units are read with   *)
(* up to QD requests in the ring, and each completed read becomes a write  *)
(* of the same buffer.  The kernel may transfer less than asked, answer    *)
(* -EAGAIN or another error, refuse a submission and fail a wait.          *)
(*                                                                         *)
(* A step is what the thread does between two looks at the ring.  A        *)
(* request is named by its block, which owns one io_data.                  *)
(***************************************************************************)
EXTENDS Integers, Sequences, FiniteSets, FiniteSetsExt, IoUring

CONSTANTS
  QD, BS,     \* entries of the ring, units of a block
  Size        \* units of the input file

ASSUME CopyAssumption == QD \in Nat \ {0} /\ BS \in Nat \ {0} /\ Size \in Nat \ {0}

VARIABLES
  pc,         \* where copy_file is
  next,       \* first block not queued for reading: offset and insize
  write_left, reads, writes,
  data,       \* data[b]: the io_data of block b
  buf,        \* buf[b]: what its buffer holds
  out,        \* the output file
  ring,
  odd         \* what the kernel did besides completing requests in full

vars == <<pc, next, write_left, reads, writes, data, buf, out, ring, odd>>

Blocks == 0 .. (Size + BS - 1) \div BS - 1
Offset(b) == b * BS                             \* first_offset
FirstLen(b) == Min({BS, Size - Offset(b)})      \* first_len
Units == 0 .. Size - 1
Garbage == Size                                 \* any byte that is not of the input

Again == 0 - 11                                 \* -EAGAIN, and any other error
Error == 0 - 5

Init ==
  /\ pc = "top"
  /\ next = 0 /\ write_left = Size /\ reads = 0 /\ writes = 0
  /\ data = [b \in Blocks |-> [read |-> TRUE, base |-> 0, len |-> FirstLen(b)]]
  /\ buf = [b \in Blocks |-> [i \in 0 .. FirstLen(b) - 1 |-> Garbage]]
  /\ out = [u \in Units |-> Garbage]
  /\ ring = EmptyRing
  /\ odd = {}

UpToQD(queued) == reads + writes + queued <= QD              \* mutant
BelowQD(queued) == reads + writes + queued < QD

\* blocks the inner loop queues for reading: an initial part of the rest
Queued ==
  {b \in Blocks : /\ b >= next
                  /\ \A k \in 0 .. b - next : /\ BelowQD(k)
                                              /\ Len(ring.sq) + k < QD}

\* the outer loop's condition fails
OneIsZero == next \notin Blocks \/ write_left = 0              \* mutant
BothZero == next \notin Blocks /\ write_left = 0

\* the top of the outer loop, with the queueing of reads and their submission
QueueReads ==
  LET n == Cardinality(Queued)
      prepared == [ring EXCEPT !.sq = @ \o [i \in 1 .. n |-> next + i - 1]]
  IN  /\ pc = "top"
      /\ ~BothZero
      /\ next' = next + n
      /\ reads' = reads + n
      /\ \/ /\ ring' = IF n > 0 THEN Submit(prepared) ELSE ring
            /\ pc' = IF write_left # 0 THEN "wait" ELSE "top"
            /\ UNCHANGED odd
         \/ /\ n > 0                            \* io_uring_submit fails: break
            /\ ring' = prepared
            /\ pc' = "returned 0"
            /\ odd' = odd \cup {"submit"}
      /\ UNCHANGED <<write_left, writes, data, buf, out>>

ReturnZero ==
  /\ pc = "top"
  /\ BothZero
  /\ pc' = "returned 0"
  /\ UNCHANGED <<next, write_left, reads, writes, data, buf, out, ring, odd>>

----------------------------------------------------------------------------
(* A completion: io_uring_wait_cqe for the first one, then peek            *)

AtCqe == pc \in {"wait", "peek"} /\ ring.cq # << >>
Cqe == Head(ring.cq)
Requeue(b) == CqeSeen(Prep(ring, b))

\* the loop goes on as long as write_left is not 0
Continue(left) == pc' = IF left # 0 THEN "peek" ELSE "top"

PeekFindsNone ==
  /\ pc = "peek" /\ ring.cq = << >>
  /\ pc' = "top"
  /\ UNCHANGED <<next, write_left, reads, writes, data, buf, out, ring, odd>>

\* io_uring_wait_cqe is interrupted, or either call fails otherwise
WaitFails ==
  /\ pc \in {"wait", "peek"} /\ ring.cq = << >>
  /\ pc' = "returned 1"
  /\ odd' = odd \cup {"wait"}
  /\ UNCHANGED <<next, write_left, reads, writes, data, buf, out, ring>>

TryAgain ==
  /\ AtCqe /\ Cqe.res = Again
  /\ ring' = Requeue(Cqe.req)
  /\ Continue(write_left)
  /\ UNCHANGED <<next, write_left, reads, writes, data, buf, out, odd>>

CqeFailed ==
  /\ AtCqe /\ Cqe.res = Error
  /\ pc' = "returned 1"
  /\ UNCHANGED <<next, write_left, reads, writes, data, buf, out, ring, odd>>

\* iov_base += res, iov_len -= res; the file offset stays
KeepsLen(d, res) == [d EXCEPT !.base = @ + res]              \* mutant
Adjust(d, res) == [d EXCEPT !.base = @ + res, !.len = @ - res]

ShortTransfer ==
  LET b == Cqe.req IN
  /\ AtCqe /\ Cqe.res >= 0 /\ Cqe.res # data[b].len
  /\ data' = [data EXCEPT ![b] = Adjust(@, Cqe.res)]
  /\ ring' = Requeue(b)
  /\ Continue(write_left)
  /\ UNCHANGED <<next, write_left, reads, writes, buf, out, odd>>

\* queue_write's io_data
WriteData(b) == [read |-> FALSE, base |-> 0, len |-> FirstLen(b)]

\* a read is done: queue_write, which submits whatever is prepared and does not
\* look whether that worked
ReadDone ==
  LET b == Cqe.req IN
  /\ AtCqe /\ Cqe.res = data[b].len /\ data[b].read
  /\ data' = [data EXCEPT ![b] = WriteData(b)]
  /\ \/ ring' = CqeSeen(Submit(Prep(ring, b))) /\ UNCHANGED odd
     \/ ring' = CqeSeen(Prep(ring, b)) /\ odd' = odd \cup {"submit"}
  /\ write_left' = write_left - FirstLen(b)
  /\ reads' = reads - 1 /\ writes' = writes + 1
  /\ Continue(write_left')
  /\ UNCHANGED <<next, buf, out>>

StillCounted == writes                                       \* mutant
OneWriteLess == writes - 1

WriteDone ==
  /\ AtCqe /\ Cqe.res = data[Cqe.req].len /\ ~data[Cqe.req].read
  /\ ring' = CqeSeen(ring)
  /\ writes' = OneWriteLess
  /\ Continue(write_left)
  /\ UNCHANGED <<next, write_left, reads, data, buf, out, odd>>

----------------------------------------------------------------------------
(* The kernel: n units are transferred at the request's file offset, at    *)
(* least one, since the input ends at Size and does not shrink             *)

Transfer(b, n) ==
  LET d == data[b] IN
  IF d.read
    THEN /\ buf' = [buf EXCEPT ![b] = [i \in DOMAIN @ |->
                      IF i >= d.base /\ i < d.base + n THEN Offset(b) + i - d.base ELSE @[i]]]
         /\ UNCHANGED out
    ELSE /\ out' = [u \in Units |->
                      IF u >= Offset(b) /\ u < Offset(b) + n
                        THEN buf[b][u - Offset(b) + d.base] ELSE out[u]]
         /\ UNCHANGED buf

Kernel ==
  /\ \E b \in ring.flight :
       \/ \E n \in 1 .. data[b].len :
            /\ Transfer(b, n)
            /\ ring' = Complete(ring, b, n)
            /\ odd' = IF n = data[b].len THEN odd ELSE odd \cup {"short"}
       \/ \E e \in {Again, Error} :
            /\ ring' = Complete(ring, b, e)
            /\ odd' = odd \cup {IF e = Again THEN "again" ELSE "error"}
            /\ UNCHANGED <<buf, out>>
  /\ UNCHANGED <<pc, next, write_left, reads, writes, data>>

Thread ==
  \/ QueueReads \/ ReturnZero \/ PeekFindsNone \/ TryAgain \/ CqeFailed
  \/ ShortTransfer \/ ReadDone \/ WriteDone

\* copy_file has returned, or waits for a completion that will not come
Stopped ==
  /\ \/ pc \in {"returned 0", "returned 1"}
     \/ pc = "wait" /\ ring.flight = {} /\ ring.cq = << >>
  /\ UNCHANGED vars

Next == Thread \/ WaitFails \/ Kernel \/ Stopped

\* The kernel completes what was submitted while copy_file runs; after its
\* return the requests left may as well be cancelled.
Spec ==
  /\ Init /\ [][Next]_vars
  /\ WF_vars(Thread)
  /\ WF_vars(pc = "wait" /\ Kernel)

----------------------------------------------------------------------------
\* assert(sqe) in queue_prepped never fails: reads and writes count what is in the
\* ring, whatever failed, and what is requeued finds an entry, after short
\* transfers and retries, too.
SqeAvailable ==
  /\ AtCqe => HasSqe(ring, QD)
  /\ Len(ring.sq) + Cardinality(ring.flight) + Len(ring.cq) = reads + writes

\* A transfer never leaves the buffer of its block, however often it was short.
TransferInBuffer ==
  \A b \in ring.flight : data[b].len > 0 /\ data[b].base + data[b].len <= FirstLen(b)

\* the input is in the output, or on its way there
Copied(b) ==
  \/ \A i \in 0 .. FirstLen(b) - 1 : out[Offset(b) + i] = Offset(b) + i
  \/ /\ b \in ring.flight /\ ~data[b].read
     /\ \A i \in 0 .. FirstLen(b) - 1 : buf[b][i] = Offset(b) + i

\* If the kernel completed every request in full and took every submission, a
\* copy_file that returns 0 has written every block, but for those whose write
\* is still in flight with the right contents.
CopyExact == pc = "returned 0" /\ odd = {} => \A b \in Blocks : Copied(b)

InRing(b) == \/ b \in ring.flight
             \/ \E i \in DOMAIN ring.sq : ring.sq[i] = b
             \/ \E i \in DOMAIN ring.cq : ring.cq[i].req = b

\* The comment on short transfers, "adjust and requeue": a block that was queued
\* and has left the ring is copied, although some of its transfers were short.
ShortTransfersAdjusted ==
  odd \subseteq {"short"} => \A b \in Blocks : b < next /\ ~InRing(b) => Copied(b)

\* Without short transfers, retries and failures copy_file returns.
CopyReturns == <>(pc = "returned 0" \/ odd # {})
=============================================================================
