----------------------------- MODULE Executor ------------------------------
(***************************************************************************)
(* io_uring/executor.h: one MpScExecutor per vcore, each a thread that     *)
(* polls four MpScQueues by weighted round robin (the queue of the round's *)
(* priority first, then all of them from kHigh down), runs what it finds,  *)
(* and leaves its loop when a task has set shutdown_.                      *)
(*                                                                         *)
(* A queue is used through what MpScQueue guarantees within one buffer:    *)
(* elements leave in the real-time order of their enqueue calls, none is   *)
(* lost, and dequeue returns false only when the queue is empty.  So an    *)
(* enqueue is one step on a FIFO; overlapping calls take either order.     *)
(***************************************************************************)
EXTENDS Naturals, Sequences

CONSTANTS
  count_vcore,  \* size of mpsc_executors_; start_vcore is 0
  Clients,      \* threads that call AddCPUTask
  Main,         \* the thread that calls Start and Shutdown; a client, too
  Task,         \* the tasks of the clients
  Owner,        \* Owner[t]: the client that submits t
  Vcore,        \* Vcore[t] and Priority[t]: its other arguments
  Priority

Vcores == 0 .. count_vcore - 1

kLowest == 1
kLow == 2
kMedium == 3
kHigh == 4
Priorities == kLowest .. kHigh
TotalWeight == 10       \* TaskPriority_TotalWeight()

\* the lambda Shutdown adds for one vcore
ShutdownTask == "shutdown"
ASSUME TasksAssumption ==
  /\ ShutdownTask \notin Task
  /\ Main \in Clients
  /\ Owner \in [Task -> Clients]
  /\ Vcore \in [Task -> Vcores]
  /\ Priority \in [Task -> Priorities]
ASSUME VcoreAssumption == count_vcore \in Nat \ {0}

VARIABLES
  queues_,      \* queues_[e][q]: tasks waiting in queue q of executor e
  counter_,     \* counter_[e] % TotalWeight: the code uses nothing else of it
  shutdown_,    \* shutdown_[e]: never initialised by the constructor
  pc,           \* next step of each executor's thread
  tried,        \* priority of the next dequeue
  task,         \* the task found
  caller,       \* the progress of Start and Shutdown
  pending,      \* tasks submitted and not run yet
  ahead,        \* kHigh tasks Main had submitted to a vcore before its Shutdown
  backlog       \* priorities that had work when the round began

vars == <<queues_, counter_, shutdown_, pc, tried, task, caller, pending, ahead, backlog>>

AllTasks == Task \cup {ShutdownTask}
NoTask == "none"

Init ==
  /\ queues_ = [e \in Vcores |-> [q \in Priorities |-> << >>]]
  /\ counter_ = [e \in Vcores |-> 0]
  /\ shutdown_ \in [Vcores -> BOOLEAN]
  /\ pc = [e \in Vcores |-> "unstarted"]
  /\ tried = [e \in Vcores |-> kHigh]
  /\ task = [e \in Vcores |-> NoTask]
  /\ caller = [at |-> "start", vcore |-> 0]
  /\ pending = {}
  /\ ahead = [e \in Vcores |-> {}]
  /\ backlog = [e \in Vcores |-> {}]

VcoreState == <<counter_, shutdown_, pc, tried, task, backlog>>

\* MpScExecutor::Add
Add(e, q, t) == queues_' = [queues_ EXCEPT ![e][q] = Append(@, t)]

\* Executor::AddCPUTask; a task that has run may be submitted again.  It returns
\* false when enqueue cannot allocate a buffer; memory is taken to suffice.
AddCPUTask(t) ==
  /\ t \notin pending
  /\ caller.at # "terminated"
  /\ Owner[t] = Main => caller.at = "running"
  /\ Add(Vcore[t], Priority[t], t)
  /\ pending' = pending \cup {t}
  /\ UNCHANGED <<VcoreState, caller, ahead>>

\* Executor::Start
Start ==
  /\ caller.at = "start"
  /\ pc' = [e \in Vcores |-> "check"]
  /\ caller' = [at |-> "running", vcore |-> 0]
  /\ UNCHANGED <<queues_, counter_, shutdown_, tried, task, pending, ahead, backlog>>

\* pthread_setaffinity_np fails for a vcore the machine does not have: nobody
\* catches the exception, and the process ends with its threads; what those may
\* have run by then is left out
StartFails ==
  /\ caller.at = "start"
  /\ caller' = [at |-> "terminated", vcore |-> 0]
  /\ UNCHANGED <<queues_, VcoreState, pending, ahead>>

ShutdownLow == kMedium         \* mutant
ShutdownPriority == kHigh

\* Executor::Shutdown, one vcore after the other: add the task, then join
Shutdown ==
  LET e == caller.vcore IN
  /\ caller.at \in {"running", "next"}
  /\ Add(e, ShutdownPriority, ShutdownTask)
  /\ caller' = [caller EXCEPT !.at = "join"]
  /\ ahead' = [ahead EXCEPT ![e] = {t \in pending : Owner[t] = Main /\ Vcore[t] = e
                                                     /\ Priority[t] = kHigh}]
  /\ UNCHANGED <<VcoreState, pending>>

Join ==
  /\ caller.at = "join"
  /\ pc[caller.vcore] = "exited"
  /\ caller' = IF caller.vcore + 1 = count_vcore
                 THEN [caller EXCEPT !.at = "returned"]
                 ELSE [at |-> "next", vcore |-> caller.vcore + 1]
  /\ UNCHANGED <<queues_, VcoreState, pending, ahead>>

----------------------------------------------------------------------------
(* MpScExecutor::Execute                                                   *)

Goto(e, from, to) ==
  /\ pc[e] = from
  /\ pc' = [pc EXCEPT ![e] = to]

\* the priority a round tries first
FlatPriority(n) == kHigh       \* mutant: no weights
RoundPriority(n) ==
  CASE n + 1 >= 7 -> kHigh
    [] n + 1 \in 4 .. 6 -> kMedium
    [] n + 1 \in 2 .. 3 -> kLow
    [] OTHER -> kLowest

StuckCounter(n) == n           \* mutant: the ++ is missing
NextCounter(n) == (n + 1) % TotalWeight

HasWork(e, q) == queues_[e][q] # << >>

CheckShutdown(e) ==
  /\ shutdown_[e]
  /\ Goto(e, "check", "exited")
  /\ UNCHANGED <<queues_, counter_, shutdown_, tried, task, caller, pending, ahead, backlog>>

BeginRound(e) ==
  /\ ~shutdown_[e]
  /\ Goto(e, "check", "first")
  /\ tried' = [tried EXCEPT ![e] = RoundPriority(counter_[e])]
  /\ counter_' = [counter_ EXCEPT ![e] = NextCounter(@)]
  /\ backlog' = [backlog EXCEPT ![e] = {q \in Priorities : HasWork(e, q)}]
  /\ UNCHANGED <<queues_, shutdown_, task, caller, pending, ahead>>

\* dequeue succeeds
Dequeue(e) ==
  /\ pc[e] \in {"first", "rest"}
  /\ HasWork(e, tried[e])
  /\ task' = [task EXCEPT ![e] = Head(queues_[e][tried[e]])]
  /\ queues_' = [queues_ EXCEPT ![e][tried[e]] = Tail(@)]
  /\ pc' = [pc EXCEPT ![e] = "run"]
  /\ UNCHANGED <<counter_, shutdown_, tried, caller, pending, ahead, backlog>>

\* the fall back loop over p1
UpFromLowest(e) ==             \* mutant: the loop runs upwards
  IF pc[e] = "first" THEN kLowest ELSE IF tried[e] = kHigh THEN 0 ELSE tried[e] + 1
NextTried(e) == IF pc[e] = "first" THEN kHigh ELSE tried[e] - 1

LastTried(e) == NextTried(e) < kLowest

\* dequeue returns false: try the next priority, or end the round
DequeueFails(e) ==
  /\ pc[e] \in {"first", "rest"}
  /\ ~HasWork(e, tried[e])
  /\ IF LastTried(e)
       THEN /\ pc' = [pc EXCEPT ![e] = "check"]
            /\ tried' = [tried EXCEPT ![e] = kHigh]
            /\ backlog' = [backlog EXCEPT ![e] = {}]
       ELSE /\ pc' = [pc EXCEPT ![e] = "rest"]
            /\ tried' = [tried EXCEPT ![e] = NextTried(e)]
            /\ UNCHANGED backlog
  /\ UNCHANGED <<queues_, counter_, shutdown_, task, caller, pending, ahead>>

\* task() returns
RunTask(e) ==
  /\ Goto(e, "run", "check")
  /\ shutdown_' = IF task[e] = ShutdownTask THEN [shutdown_ EXCEPT ![e] = TRUE] ELSE shutdown_
  /\ pending' = pending \ {task[e]}
  /\ task' = [task EXCEPT ![e] = NoTask]
  /\ tried' = [tried EXCEPT ![e] = kHigh]
  /\ backlog' = [backlog EXCEPT ![e] = {}]
  /\ UNCHANGED <<queues_, counter_, caller, ahead>>

Execute(e) ==
  \/ CheckShutdown(e) \/ BeginRound(e) \/ Dequeue(e) \/ DequeueFails(e) \/ RunTask(e)

\* main() has returned, or the process was terminated
Finished == caller.at \in {"returned", "terminated"} /\ UNCHANGED vars

Next ==
  \/ \E t \in Task : AddCPUTask(t)
  \/ Start \/ StartFails \/ Shutdown \/ Join
  \/ \E e \in Vcores : Execute(e)
  \/ Finished

\* The threads are scheduled by the kernel.  Clients may stop submitting, and
\* nothing forces the call of Shutdown; once made it runs to its end.
Spec ==
  /\ Init /\ [][Next]_vars
  /\ WF_vars(Start)
  /\ WF_vars(caller.at = "next" /\ Shutdown)
  /\ WF_vars(Join)
  /\ \A e \in Vcores : WF_vars(Execute(e))

----------------------------------------------------------------------------
\* A thread that found shutdown_ clear at its start leaves its loop only after
\* it has run every kHigh task the shutting down thread had added before:
\* Shutdown does not overtake its caller's own kHigh tasks.
EarlyTasksRun ==
  (\A e \in Vcores : ~shutdown_[e]) =>
    [](\A e \in Vcores : pc[e] = "exited" => ahead[e] \cap pending = {})

\* The fall back takes the most urgent work: a round whose first queue was
\* empty never runs a task while a higher queue has had work since the round
\* began.
MostUrgentFirst ==
  [][\A e \in Vcores :
       pc[e] = "rest" /\ pc'[e] = "run" =>
         \A q \in backlog[e] : q > tried[e] => ~HasWork(e, q)]_vars

\* No starvation: on a vcore whose shutdown_ started out clear every submitted
\* task runs, whatever its priority and however often others resubmit, unless
\* the vcore is shut down or Start could not bind its threads.
EveryTaskRuns ==
  (\A e \in Vcores : ~shutdown_[e]) =>
    \A t \in Task :
      (t \in pending) ~> (t \notin pending \/ shutdown_[Vcore[t]] \/ caller.at = "terminated")

\* Shutdown joins every thread, whatever is still queued or being submitted.
ShutdownReturns == (caller.at = "join") ~> (caller.at = "returned")
=============================================================================
