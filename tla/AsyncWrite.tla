----------------------------- MODULE AsyncWrite ----------------------------
(***************************************************************************)
(* io_uring/async_write_coroutine.cc: one thread per file adds a task to   *)
(* an executor with one vcore; the task is a coroutine that queues a write *)
(* for every page, submits them and suspends.  A detached thread reaps the *)
(* completions, frees the pages and adds a task that resumes a file's      *)
(* coroutine.  main shuts everything down when its sleep is over.          *)
(*                                                                         *)
(* The executor is used through what Executor checks: tasks of one         *)
(* priority run in order, one at a time; a task of either priority may be  *)
(* next.  The ring is IoUring's.  async_write.cc is the same pipeline with *)
(* no coroutine to resume.                                                 *)
(***************************************************************************)
EXTENDS Integers, Sequences, FiniteSets, IoUring

CONSTANTS
  File,       \* the Files files
  Pages,      \* pages of a file
  BuffSize,   \* units of a page
  RingSize    \* entries of the submission queue

ASSUME WriteAssumption ==
  /\ IsFiniteSet(File)
  /\ Pages \in Nat \ {0} /\ BuffSize \in Nat \ {0} /\ RingSize \in Nat \ {0}

VARIABLES
  ring,
  medium, high,   \* the executor's kMedium and kHigh queues
  exec,           \* the executor's thread: where it is, its file and page
  co,             \* co[f]: the coroutine of file f
  size,           \* size[f]: file_info->size, which nothing ever sets
  size_written, total, reaper,
  freed,          \* pages whose buffer is freed
  main,           \* "running", "join" or "exited"
  odd             \* short writes, errors and refused submissions so far

vars == <<ring, medium, high, exec, co, size, size_written, total, reaper, freed, main, odd>>

Page == File \X (0 .. Pages - 1)
FileSize == Pages * BuffSize
Error == 0 - 5
ShutdownTask == "shutdown"
Idle == [at |-> "idle"]

Init ==
  /\ ring = EmptyRing
  /\ medium = << >> /\ high = << >> /\ exec = Idle
  /\ co = [f \in File |-> "none"]
  /\ size \in [File -> 0 .. FileSize]
  /\ size_written = [f \in File |-> 0] /\ total = 0 /\ reaper = "running"
  /\ freed = {}
  /\ main = "running"
  /\ odd = {}

Reaping == <<size_written, total, reaper, freed>>

\* worker: open the file and add its task
AddWriteTask(f) ==
  /\ co[f] = "none"
  /\ co' = [co EXCEPT ![f] = "added"]
  /\ medium' = Append(medium, f)
  /\ UNCHANGED <<ring, high, exec, size, Reaping, main, odd>>

----------------------------------------------------------------------------
(* The executor's thread                                                   *)

\* write_one_file is called: the coroutine starts at once
StartWrite ==
  /\ exec = Idle /\ medium # << >>
  /\ exec' = [at |-> "page", file |-> Head(medium), page |-> 0]
  /\ medium' = Tail(medium)
  /\ co' = [co EXCEPT ![Head(medium)] = "started"]
  /\ UNCHANGED <<ring, high, size, Reaping, main, odd>>

\* io_uring_submit, whose result nobody looks at
TrySubmit ==
  \/ ring' = Submit(ring) /\ UNCHANGED odd
  \/ UNCHANGED ring /\ odd' = odd \cup {"busy"}

\* queue_iouring_write: one round of its loop
QueuePage ==
  /\ exec.at = "page"
  /\ IF HasSqe(ring, RingSize)
       THEN /\ ring' = Prep(ring, <<exec.file, exec.page>>)
            /\ exec' = IF exec.page + 1 = Pages
                         THEN [exec EXCEPT !.at = "submit"]
                         ELSE [exec EXCEPT !.page = @ + 1]
            /\ UNCHANGED odd
       ELSE TrySubmit /\ UNCHANGED exec
  /\ UNCHANGED <<medium, high, co, size, Reaping, main>>

SubmitFile ==
  /\ exec.at = "submit"
  /\ TrySubmit
  /\ exec' = [exec EXCEPT !.at = "suspend"]
  /\ UNCHANGED <<medium, high, co, size, Reaping, main>>

\* co_await: await_suspend stores the promise and the task returns
Suspend ==
  /\ exec.at = "suspend"
  /\ co' = [co EXCEPT ![exec.file] = "suspended"]
  /\ exec' = Idle
  /\ UNCHANGED <<ring, medium, high, size, Reaping, main, odd>>

\* a kHigh task: resume a coroutine, which then ends and destroys its frame,
\* or shut down
RunHigh ==
  /\ exec = Idle /\ high # << >>
  /\ high' = Tail(high)
  /\ IF Head(high) = ShutdownTask
       THEN exec' = [at |-> "exited"] /\ UNCHANGED co
       ELSE co' = [co EXCEPT ![Head(high)] = "done"] /\ UNCHANGED exec
  /\ UNCHANGED <<ring, medium, size, Reaping, main, odd>>

Execute == StartWrite \/ QueuePage \/ SubmitFile \/ Suspend \/ RunHigh

----------------------------------------------------------------------------
(* reap_iouring_completion                                                 *)

PastSize(f, written) == written >= size[f]                   \* mutant
ReachesSize(f, written) == written = size[f]

FreesFile(p) == freed \cup {p[1]} \X (0 .. Pages - 1)        \* mutant
FreePage(p) == freed \cup {p}

NeverDone == FALSE                                           \* mutant
AllWritten == total' >= Cardinality(File) * FileSize

\* A completion with res >= 0; one with an error is never marked seen, and the
\* loop finds it again and again
Reap ==
  LET p == Head(ring.cq).req
      res == Head(ring.cq).res
      f == p[1]
  IN  /\ reaper = "running" /\ ring.cq # << >>
      /\ res >= 0
      /\ size_written' = [size_written EXCEPT ![f] = @ + res]
      /\ total' = total + res
      /\ ring' = CqeSeen(ring)
      /\ freed' = FreePage(p)
      /\ high' = IF ReachesSize(f, size_written'[f]) THEN Append(high, f) ELSE high
      /\ reaper' = IF AllWritten THEN "done" ELSE "running"
      /\ UNCHANGED <<medium, exec, co, size, main, odd>>

----------------------------------------------------------------------------
(* main and the kernel                                                     *)

\* the sleep is over, at whatever point the other threads are
StartShutdown ==
  /\ main = "running" /\ \A f \in File : co[f] # "none"
  /\ main' = "join"
  /\ high' = Append(high, ShutdownTask)
  /\ UNCHANGED <<ring, medium, exec, co, size, Reaping, odd>>

Exit ==
  /\ main = "join" /\ exec.at = "exited"
  /\ main' = "exited"
  /\ UNCHANGED <<ring, medium, high, exec, co, size, Reaping, odd>>

\* A write of more than nothing to a regular file transfers at least one byte or
\* fails: res = 0, which the reaper would accept, is not among the answers.
Kernel ==
  /\ \E p \in ring.flight :
       \/ \E n \in 1 .. BuffSize :
            /\ ring' = Complete(ring, p, n)
            /\ odd' = IF n = BuffSize THEN odd ELSE odd \cup {"short"}
       \/ /\ ring' = Complete(ring, p, Error)
          /\ odd' = odd \cup {"error"}
  /\ UNCHANGED <<medium, high, exec, co, size, Reaping, main>>

\* the process has ended
Ended == main = "exited" /\ UNCHANGED vars

\* every thread polls or sleeps: the executor's queues are empty, and the
\* reaper waits for a completion or spins on a failed one
Quiet ==
  /\ main = "running" /\ exec = Idle /\ medium = << >> /\ high = << >>
  /\ UNCHANGED vars

Next ==
  \/ main # "exited" /\ ((\E f \in File : AddWriteTask(f)) \/ Execute \/ Reap \/ Kernel)
  \/ StartShutdown \/ Exit \/ Ended \/ Quiet

\* Threads are scheduled and the kernel completes what was submitted.  The end
\* of the sleep may come at any time or, within the run, never.
Spec ==
  /\ Init /\ [][Next]_vars
  /\ \A f \in File : WF_vars(AddWriteTask(f))
  /\ WF_vars(main # "exited" /\ Execute)
  /\ WF_vars(main # "exited" /\ Reap)
  /\ WF_vars(main # "exited" /\ Kernel)

----------------------------------------------------------------------------
InRing(p) == \/ p \in ring.flight
             \/ \E i \in DOMAIN ring.sq : ring.sq[i] = p
             \/ \E i \in DOMAIN ring.cq : ring.cq[i].req = p

\* A coroutine is resumed only while it is suspended, with its promise stored,
\* and once, whatever file_info->size happens to be and although its pages are
\* submitted before await_suspend runs; if size is the file's, all its pages
\* have been reaped by then.
ResumeSafe ==
  /\ \A i \in DOMAIN high :
       high[i] # ShutdownTask =>
         /\ exec = Idle => co[high[i]] = "suspended"
         /\ \A j \in DOMAIN high : high[j] = high[i] => j = i
  /\ \A f \in File :
       co[f] = "done" /\ size[f] = FileSize => {f} \X (0 .. Pages - 1) \subseteq freed

\* A page's buffer is freed only after the kernel is done with it, and the reaper
\* ends only when every page of every file was written in full and freed.
BuffersSafe ==
  /\ \A p \in freed : ~InRing(p)
  /\ reaper = "done" => freed = Page /\ \A f \in File : size_written[f] = FileSize

\* Without short writes, errors and refused submissions the reaper ends, unless
\* main's sleep does first.
ReaperEnds == <>(reaper = "done" \/ odd # {} \/ main # "running")
=============================================================================
