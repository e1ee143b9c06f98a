--------------------------- MODULE ReadBenchmark ---------------------------
(***************************************************************************)
(* io_uring/read_benchmark.cc: a file is read once in blocks, either in    *)
(* batches through a ring (io_uring_read) or with read (regular_read).     *)
(* The size of the file, an off_t, becomes an int.  The kernel may refuse  *)
(* a submission, fail a wait, fail a read or transfer less than asked.     *)
(*                                                                         *)
(* A request is its offset and the length in its io_data.                  *)
(***************************************************************************)
EXTENDS Integers, Sequences, FiniteSets, FiniteSetsExt, IoUring

CONSTANTS
  BatchSize, BufferLimit,  \* reads of a batch, bytes of a read
  Entries,                 \* entries of the ring
  IoData,                  \* bytes of an io_data, which precedes the buffer
  IntMod,                  \* 2^32
  FileSizes

ASSUME ReadAssumption ==
  /\ BatchSize \in Nat \ {0} /\ BufferLimit \in Nat \ {0} /\ Entries \in Nat
  /\ IoData \in Nat /\ IntMod \in Nat /\ BufferLimit < IntMod \div 2
  /\ FileSizes \subseteq Nat

VARIABLES
  reader,      \* the thread: where it is, its locals, and the global total_read
  readRing,
  faults       \* what the kernel did wrong

readVars == <<reader, readRing, faults>>

ReadInit ==
  /\ reader = [at |-> "main", size |-> 0, remaining |-> 0, pending_reads |-> 0,
               file_offset |-> 0, total_read |-> 0, ret |-> 0, batches |-> 0]
  /\ readRing = EmptyRing
  /\ faults = {}

\* an off_t passed as an int
Narrow(n) ==
  LET m == n % IntMod IN IF m < IntMod \div 2 THEN m ELSE m - IntMod

WholeBuffer(remaining) == BufferLimit                        \* mutant
BufferSize(remaining) == IF remaining > BufferLimit THEN BufferLimit ELSE remaining

Return(r) == reader' = [reader EXCEPT !.at = "returned", !.ret = r]

\* main opens a file; the build chooses how it is read
ReadMain ==
  /\ reader.at = "main"
  /\ \E size \in FileSizes, at \in {"queue", "read"} :
       reader' = [reader EXCEPT !.at = at, !.size = Narrow(size), !.remaining = Narrow(size)]
  /\ UNCHANGED <<readRing, faults>>

----------------------------------------------------------------------------
(* io_uring_read                                                           *)

\* malloc(size + sizeof(*data)), converted to size_t, is possible
Mallocs(size) == size + IoData >= 0

QueueFails ==
  /\ reader.at = "queue"
  /\ ~Mallocs(BufferSize(reader.remaining)) \/ ~HasSqe(readRing, Entries)
  /\ Return(-1)
  /\ UNCHANGED <<readRing, faults>>

\* queue_read; a full batch, or the last one, is submitted, whether or not that works
QueueRead ==
  LET len == BufferSize(reader.remaining)
      prepared == Prep(readRing, [offset |-> reader.file_offset, len |-> len])
      left == reader.remaining - len
      full == reader.pending_reads + 1 = BatchSize \/ left = 0
  IN
  /\ reader.at = "queue"
  /\ Mallocs(len) /\ HasSqe(readRing, Entries)
  /\ reader' = [reader EXCEPT
       !.at = IF full THEN "wait" ELSE "queue",
       !.remaining = left,
       !.file_offset = @ + len,
       !.pending_reads = IF full THEN 0 ELSE @ + 1,
       !.batches = IF full THEN @ + 1 ELSE @]
  /\ \/ /\ readRing' = IF full THEN Submit(prepared) ELSE prepared
        /\ UNCHANGED faults
     \/ /\ full
        /\ readRing' = prepared
        /\ faults' = faults \cup {"submit"}

\* io_uring_wait_cqe for the first completion, then io_uring_peek_cqe
HasBatch == Len(readRing.cq) >= IF reader.at = "wait" THEN BatchSize ELSE 1  \* mutant
HasOne == readRing.cq # << >>

GetResult ==
  /\ reader.at \in {"wait", "peek"} /\ HasOne
  /\ reader' = [reader EXCEPT !.at = "peek",
                              !.total_read = Narrow(@ + Head(readRing.cq).req.len)]
  /\ readRing' = CqeSeen(readRing)
  /\ UNCHANGED faults

\* either call fails; that one succeeds without a completion does not happen
WaitFails ==
  /\ reader.at \in {"wait", "peek"} /\ readRing.cq = << >>
  /\ Return(-1)
  /\ faults' = faults \cup {"wait"}
  /\ UNCHANGED readRing

\* -EAGAIN: the batch is done with, and with the last one io_uring_read
PeekEmpty ==
  /\ reader.at = "peek" /\ readRing.cq = << >>
  /\ IF reader.remaining = 0 THEN Return(0) ELSE reader' = [reader EXCEPT !.at = "queue"]
  /\ UNCHANGED <<readRing, faults>>

\* the kernel completes a read, with all, some or none of the bytes
CompleteRead ==
  /\ reader.at # "returned"
  /\ \E r \in readRing.flight :
       \E res \in {-1} \cup 0 .. r.len : readRing' = Complete(readRing, r, res)
  /\ UNCHANGED <<reader, faults>>

----------------------------------------------------------------------------
(* regular_read                                                            *)

\* a read of len bytes, which fails if len, as a size_t, is too large
RegularRead(res) ==
  LET len == BufferSize(reader.remaining) IN
  /\ reader.at = "read" /\ reader.remaining # 0
  /\ res <= len \/ res = -1
  /\ IF res = -1
       THEN Return(-1) /\ faults' = faults \cup {"read"}
       ELSE /\ reader' = [reader EXCEPT !.remaining = @ - res,
                                        !.file_offset = @ + res,
                                        !.total_read = @ + res]
            /\ faults' = IF res = 0 THEN faults \cup {"end of file"} ELSE faults
  /\ UNCHANGED readRing

RegularDone ==
  /\ reader.at = "read" /\ reader.remaining = 0
  /\ Return(0)
  /\ UNCHANGED <<readRing, faults>>

ReadStep ==
  \/ ReadMain \/ QueueFails \/ QueueRead \/ GetResult \/ PeekEmpty \/ RegularDone
  \/ \E res \in {-1} \cup 0 .. BufferLimit : RegularRead(res)

ReadNext == ReadStep \/ WaitFails \/ CompleteRead

\* a submitted read completes, and the thread goes on
ReadSpec ==
  /\ ReadInit /\ [][ReadNext]_readVars
  /\ WF_readVars(ReadStep) /\ WF_readVars(CompleteRead)

----------------------------------------------------------------------------
Lengths(reqs) == MapThenSumSet(LAMBDA r : r.len, reqs)
Unseen == {readRing.cq[i].req : i \in DOMAIN readRing.cq}
Unsubmitted == {readRing.sq[i] : i \in DOMAIN readRing.sq}
Outstanding == Unsubmitted \cup readRing.flight \cup Unseen

\* Each byte of the file, as far as an int counts them, is counted in
\* total_read, belongs to one read on its way, or is left: no read overlaps
\* another one or goes past the end.  Each batch is worth at least one completion before the next is
\* queued, so reads that are not waited for do not pile up by whole batches; and
\* regular_read returns 0 only when the whole file was read.
TotalAccounted ==
  /\ Narrow(reader.total_read + Lengths(Outstanding) + reader.remaining) = reader.size
  /\ \A r, s \in Outstanding : r = s \/ r.offset + r.len <= s.offset \/ s.offset + s.len <= r.offset
  /\ reader.size >= 0 => \A r \in Outstanding : r.offset + r.len <= reader.size
  /\ reader.at \in {"queue", "returned"} /\ faults = {} =>
       Cardinality(Outstanding) <= reader.batches * (BatchSize - 1) + reader.pending_reads

\* If the kernel takes every submission and the file does not shrink, the
\* benchmark returns: no wait is for a completion that will not come.
ReadReturns == reader.at \in {"queue", "read"} ~> (reader.at = "returned" \/ faults # {})
=============================================================================
