----------------------------- MODULE ThreadPool ----------------------------
(***************************************************************************)
(* thread_pool.cc with function_queue.cc: workers that register themselves *)
(* in tids_ and size_ after they were spawned, poll a shared queue and     *)
(* leave when they see shuttingDown_; Reset, which grows the pool by       *)
(* spawning and shrinks it by shutting everyone down and growing again;    *)
(* and the monitor that sets the workers' sleep from the queue's length.   *)
(*                                                                         *)
(* One thread, the owner, calls Reset.  Enqueue and Shutdown come from any *)
(* thread.  A step is one access to shared state or one critical section.  *)
(***************************************************************************)
EXTENDS Integers, Sequences, FiniteSets

CONSTANTS
  Thread,      \* ids the kernel can give to workers; bounds the live ones
  Sizes,       \* arguments of Reset
  Function,    \* the functions that are enqueued
  Window,      \* 10: samples per decision of the monitor
  SleepLimit   \* 1000000: microseconds from which the sleep no longer doubles

ASSUME SizesAssumption == Sizes \subseteq Nat
ASSUME MonitorAssumption == Window \in Nat \ {0} /\ SleepLimit \in Nat \ {0}
ASSUME ThreadAssumption == IsFiniteSet(Thread)

VARIABLES
  queue_, size_, tids_, shuttingDown_, sleepMicrosSeconds_, monitoring_,
  monitor,     \* the monitor's locals total and counter
  pc, item,    \* each worker's next step and the function it took
  owner,       \* Reset in progress: its next step, newSize, threads to spawn
  pending,     \* functions enqueued and not finished
  target,      \* size asked for by the last Reset, 0 before
  orderly,     \* no Shutdown yet, and every Reset found all workers registered
  down         \* Shutdown was called between two Resets, none has started since

shared == <<queue_, size_, tids_, shuttingDown_, sleepMicrosSeconds_, monitoring_>>
ghost == <<target, orderly, down>>
vars == <<shared, monitor, pc, item, owner, pending, ghost>>

NoFunction == "nullptr"
Idle == [at |-> "idle", newSize |-> 0, added |-> 0]

Init ==
  /\ queue_ = << >> /\ size_ = 0 /\ tids_ = {}
  /\ shuttingDown_ = FALSE /\ sleepMicrosSeconds_ = 0 /\ monitoring_ = FALSE
  /\ monitor = [total |-> 0, counter |-> 0]
  /\ pc = [t \in Thread |-> "none"]
  /\ item = [t \in Thread |-> NoFunction]
  /\ owner = Idle
  /\ pending = {}
  /\ target = 0 /\ orderly = TRUE /\ down = FALSE

----------------------------------------------------------------------------
(* The owner                                                               *)

Live == {t \in Thread : pc[t] # "none"}
Settled == \A t \in Thread : pc[t] # "start"

\* Reset, up to its call of StartMonitoring.  The first conjunct bounds the
\* live threads by Thread.
Reset(n) ==
  /\ Cardinality(Live \ tids_) + n <= Cardinality(Thread)
  /\ owner.at = "idle"
  /\ owner' = [at |-> "compare", newSize |-> n, added |-> 0]
  /\ monitoring_' = TRUE
  /\ target' = n /\ orderly' = (orderly /\ Settled) /\ down' = FALSE
  /\ UNCHANGED <<queue_, size_, tids_, shuttingDown_, sleepMicrosSeconds_, monitor,
                 pc, item, pending>>

OwnerGoes(from, to) ==
  /\ owner.at = from
  /\ owner' = [owner EXCEPT !.at = to]

Grows == owner.newSize > size_

\* the comparison, and then the second read of size_ for the difference
Compare ==
  /\ OwnerGoes("compare", IF Grows THEN "difference" ELSE "stop")
  /\ UNCHANGED <<shared, monitor, pc, item, pending, ghost>>

Difference ==
  /\ owner.at = "difference"
  /\ owner' = [owner EXCEPT !.at = "spawn", !.added = owner.newSize - size_]
  /\ UNCHANGED <<shared, monitor, pc, item, pending, ghost>>

Spawn ==
  /\ owner.at = "spawn" /\ owner.added > 0
  /\ \E t \in Thread \ Live : pc' = [pc EXCEPT ![t] = "start"]
  /\ owner' = [owner EXCEPT !.added = @ - 1]
  /\ UNCHANGED <<shared, monitor, item, pending, ghost>>

ResetReturns ==
  /\ owner.at = "spawn" /\ owner.added <= 0
  /\ owner' = Idle
  /\ UNCHANGED <<shared, monitor, pc, item, pending, ghost>>

\* the pool is not too small: stop every worker
StopAll ==
  /\ OwnerGoes("stop", "spin")
  /\ shuttingDown_' = TRUE
  /\ UNCHANGED <<queue_, size_, tids_, sleepMicrosSeconds_, monitoring_, monitor, pc, item,
                 pending, ghost>>

NoSpin == TRUE                                               \* mutant
Stopped == size_ <= 0

\* the spin loop ends; the recursive call has nothing to do for the monitor
Restart ==
  /\ Stopped
  /\ OwnerGoes("spin", "compare")
  /\ shuttingDown_' = FALSE
  /\ UNCHANGED <<queue_, size_, tids_, sleepMicrosSeconds_, monitoring_, monitor, pc, item,
                 pending, ghost>>

Owner == Compare \/ Difference \/ Spawn \/ ResetReturns \/ StopAll \/ Restart

----------------------------------------------------------------------------
(* Other threads                                                           *)

\* ThreadPool::Enqueue; a function that has finished may be enqueued again
Enqueue(f) ==
  /\ f \notin pending
  /\ queue_' = Append(queue_, f)
  /\ pending' = pending \cup {f}
  /\ UNCHANGED <<size_, tids_, shuttingDown_, sleepMicrosSeconds_, monitoring_, monitor, pc,
                 item, owner, ghost>>

Shutdown ==
  /\ shuttingDown_' = TRUE
  /\ orderly' = FALSE
  /\ down' = (down \/ owner.at = "idle")
  /\ UNCHANGED <<queue_, size_, tids_, sleepMicrosSeconds_, monitoring_, monitor, pc, item,
                 owner, pending, target>>

\* the sleep the average length of the queue calls for
LongerSleep(s) == CASE s = 0 -> 1 [] s > 0 /\ s < SleepLimit -> s * 2 [] OTHER -> s

\* one round of the monitor's loop
Monitor ==
  LET total == monitor.total + Len(queue_)
      counter == monitor.counter + 1
  IN  /\ monitoring_
      /\ IF counter = Window
           THEN /\ monitor' = [total |-> 0, counter |-> 0]
                /\ sleepMicrosSeconds_' = IF total \div counter > 0
                                            THEN 0 ELSE LongerSleep(sleepMicrosSeconds_)
           ELSE /\ monitor' = [total |-> total, counter |-> counter]
                /\ UNCHANGED sleepMicrosSeconds_
      /\ UNCHANGED <<queue_, size_, tids_, shuttingDown_, monitoring_, pc, item, owner,
                     pending, ghost>>

----------------------------------------------------------------------------
(* A worker                                                                *)

Goes(t, from, to) ==
  /\ pc[t] = from
  /\ pc' = [pc EXCEPT ![t] = to]

\* the first critical section; a tid that is already there is "not possible"
Register(t) ==
  /\ t \notin tids_
  /\ Goes(t, "start", "take")
  /\ tids_' = tids_ \cup {t}
  /\ size_' = size_ + 1
  /\ UNCHANGED <<queue_, shuttingDown_, sleepMicrosSeconds_, monitoring_, monitor, item, owner,
                 pending, ghost>>

\* FunctionQueue::Dequeue
TakesAlways(t) == "check"                                    \* mutant
AfterTake(t) == IF queue_ = << >> THEN "check" ELSE "run"

Dequeue(t) ==
  /\ Goes(t, "take", AfterTake(t))
  /\ IF queue_ = << >>
       THEN UNCHANGED <<queue_, item>>
       ELSE /\ item' = [item EXCEPT ![t] = Head(queue_)]
            /\ queue_' = Tail(queue_)
  /\ UNCHANGED <<size_, tids_, shuttingDown_, sleepMicrosSeconds_, monitoring_, monitor, owner,
                 pending, ghost>>

Run(t) ==
  /\ Goes(t, "run", "check")
  /\ pending' = pending \ {item[t]}
  /\ item' = [item EXCEPT ![t] = NoFunction]
  /\ UNCHANGED <<shared, monitor, owner, ghost>>

\* after the sleep
IgnoresShutdown == FALSE                                     \* mutant
SeesShutdown == shuttingDown_

Check(t) ==
  /\ Goes(t, "check", IF SeesShutdown THEN "leave" ELSE "take")
  /\ UNCHANGED <<shared, monitor, item, owner, pending, ghost>>

\* the last critical section
KeepsTid(t) == tids_                                         \* mutant
Erase(t) == tids_ \ {t}

Leave(t) ==
  /\ Goes(t, "leave", "none")
  /\ tids_' = Erase(t)
  /\ size_' = size_ - 1
  /\ UNCHANGED <<queue_, shuttingDown_, sleepMicrosSeconds_, monitoring_, monitor, item, owner,
                 pending, ghost>>

Worker(t) == Register(t) \/ Dequeue(t) \/ Run(t) \/ Check(t) \/ Leave(t)

Next ==
  \/ \E n \in Sizes : Reset(n)
  \/ Owner
  \/ \E f \in Function : Enqueue(f)
  \/ Shutdown
  \/ Monitor
  \/ \E t \in Thread : Worker(t)

\* Threads are scheduled, functions return and sleeps end.
Spec ==
  /\ Init /\ [][Next]_vars
  /\ WF_vars(Owner)
  /\ \A t \in Thread : WF_vars(Worker(t))

----------------------------------------------------------------------------
\* A worker never finds its own tid registered (the throw "not possible"),
\* although the kernel reuses the tids of workers that left, and size_ counts
\* the registered workers.
TidsExact ==
  /\ \A t \in Thread : pc[t] \in {"none", "start"} => t \notin tids_
  /\ size_ = Cardinality(tids_)

\* If every Reset was called with all earlier workers registered, the pool has
\* the size the last one asked for as soon as its workers are registered, after
\* a shrink as well.
ExactSize == orderly /\ owner.at = "idle" /\ Settled => size_ = target

\* A Reset that asks for a worker returns, whether it grows or shrinks the pool,
\* while functions and shutdowns keep coming.  Reset(0) never does: with no worker
\* left it still takes the branch that shrinks.
ResetTerminates == owner.at # "idle" /\ owner.newSize > 0 ~> owner.at = "idle"

\* Once a Reset has returned an enqueued function runs, in spite of any number
\* of later Resets, unless the pool is shut down or asked to have no workers.
EveryFunctionRuns ==
  \A f \in Function :
    (f \in pending /\ target > 0 /\ ~shuttingDown_) ~>
      (f \notin pending \/ ~orderly \/ target = 0)

\* A Shutdown between two Resets makes every worker leave, also those that
\* register after it.
ShutdownStops == down ~> (Live = {} \/ ~down)
=============================================================================
