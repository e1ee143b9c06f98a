--------------------------- MODULE CoroutineDemo ---------------------------
(***************************************************************************)
(* coroutine/demo.cc and coroutine/main.cc: a chain of coroutines in which *)
(* Foo_k awaits Foo_k+1 and the last one awaits a detached thread that     *)
(* sleeps and resumes it.  Awaiting stores the caller in prev_ of the      *)
(* callee's promise; a coroutine that ends resumes prev_ inside its        *)
(* final_suspend and destroys its frame after that.                        *)
(***************************************************************************)
EXTENDS Integers, Sequences

CONSTANT LastFrames      \* for each program, the number of its last coroutine

ASSUME CoAssumption == LastFrames \subseteq Nat

VARIABLES
  last,        \* the number of the last coroutine of the program that runs
  frame,       \* frame[k]: state of the coroutine frame of Foo_k
  prev_,       \* prev_[k]: the promise Foo_k resumes at its end, or NoPromise
  main,        \* where the main thread is, and the coroutine it is in
  resumer,     \* the detached thread: where it is and whom it resumes
  ending,      \* coroutines in final_suspend on its stack, innermost last
  early,       \* it woke before the main thread had left the chain
  dangling     \* the main thread wrote to a destroyed promise

coVars == <<last, frame, prev_, main, resumer, ending, early, dangling>>

NoPromise == -1
Frames == 0 .. last

CoInit ==
  /\ last = 0
  /\ frame = << >> /\ prev_ = << >>
  /\ main = [at |-> "start", in |-> 0]
  /\ resumer = [at |-> "none", of |-> NoPromise]
  /\ ending = << >>
  /\ early = FALSE /\ dangling = FALSE

CoStart ==
  /\ main.at = "start"
  /\ \E n \in LastFrames :
       /\ last' = n
       /\ frame' = [k \in 0 .. n |-> "none"]
       /\ prev_' = [k \in 0 .. n |-> NoPromise]
  /\ main' = [main EXCEPT !.at = "call"]
  /\ UNCHANGED <<resumer, ending, early, dangling>>

----------------------------------------------------------------------------
(* The main thread: down the chain of calls and back                       *)

\* initial_suspend never suspends: Foo_k runs until it calls Foo_k+1
Call ==
  /\ main.at = "call" /\ main.in < last
  /\ frame' = [frame EXCEPT ![main.in] = "running"]
  /\ main' = [main EXCEPT !.in = @ + 1]
  /\ UNCHANGED <<last, prev_, resumer, ending, early, dangling>>

\* co_await of return_type(true): await_suspend starts the thread, and returns
AwaitThread ==
  /\ main.at = "call" /\ main.in = last
  /\ frame' = [frame EXCEPT ![last] = "suspended"]
  /\ resumer' = [at |-> "sleeping", of |-> last]
  /\ main' = [at |-> "await", in |-> last - 1]
  /\ UNCHANGED <<last, prev_, ending, early, dangling>>

\* await_suspend of the caller, suspended by then, writes to the callee's promise
AwaitCallee ==
  LET k == main.in IN
  /\ main.at = "await" /\ k >= 0
  /\ frame' = [frame EXCEPT ![k] = "suspended"]
  /\ IF frame[k + 1] = "destroyed"
       THEN dangling' = TRUE /\ UNCHANGED prev_
       ELSE prev_' = [prev_ EXCEPT ![k + 1] = k] /\ UNCHANGED dangling
  /\ main' = [main EXCEPT !.in = k - 1]
  /\ UNCHANGED <<last, resumer, ending, early>>

\* Foo0 has returned to main, which sleeps; then the process ends
MainSleeps ==
  /\ main.at = "await" /\ main.in < 0
  /\ main' = [main EXCEPT !.at = "sleeping"]
  /\ UNCHANGED <<last, frame, prev_, resumer, ending, early, dangling>>

MainEnds ==
  /\ main.at = "sleeping"
  /\ main' = [main EXCEPT !.at = "ended"]
  /\ UNCHANGED <<last, frame, prev_, resumer, ending, early, dangling>>

----------------------------------------------------------------------------
(* The detached thread: up the chain, in nested calls of resume            *)

Wake ==
  /\ resumer.at = "sleeping" /\ main.at # "ended"
  /\ resumer' = [resumer EXCEPT !.at = "resume"]
  /\ early' = (main.at # "sleeping")
  /\ UNCHANGED <<last, frame, prev_, main, ending, dangling>>

\* h.resume(): the rest of the body, up to final_suspend
Resume ==
  /\ resumer.at = "resume" /\ main.at # "ended"
  /\ frame' = [frame EXCEPT ![resumer.of] = "final"]
  /\ ending' = Append(ending, resumer.of)
  /\ resumer' = [resumer EXCEPT !.at = "final"]
  /\ UNCHANGED <<last, prev_, main, early, dangling>>

ResumesNobody(k) == NoPromise                                \* mutant
Continuation(k) == prev_[k]

FinalSuspend ==
  LET caller == Continuation(resumer.of) IN
  /\ resumer.at = "final" /\ main.at # "ended"
  /\ resumer' = IF caller # NoPromise
                  THEN [at |-> "resume", of |-> caller]
                  ELSE [resumer EXCEPT !.at = "unwind"]
  /\ UNCHANGED <<last, frame, prev_, main, ending, early, dangling>>

\* final_suspend returns suspend_never: the frame is destroyed
Unwind ==
  /\ resumer.at = "unwind" /\ main.at # "ended"
  /\ frame' = [frame EXCEPT ![ending[Len(ending)]] = "destroyed"]
  /\ ending' = SubSeq(ending, 1, Len(ending) - 1)
  /\ resumer' = IF Len(ending) = 1 THEN [resumer EXCEPT !.at = "done"] ELSE resumer
  /\ UNCHANGED <<last, prev_, main, early, dangling>>

CoNext ==
  \/ CoStart \/ Call \/ AwaitThread \/ AwaitCallee \/ MainSleeps \/ MainEnds
  \/ Wake \/ Resume \/ FinalSuspend \/ Unwind

CoSpec == CoInit /\ [][CoNext]_coVars

----------------------------------------------------------------------------
\* A coroutine is resumed only while it is suspended, and its frame outlives the
\* final_suspend of those it resumes.  If the detached thread wakes after the
\* main thread has left the chain, no destroyed promise is written to and the
\* thread's end is the end of every coroutine; if it wakes before that, a
\* coroutine it did not resume is never resumed, and those it did are gone.
ChainResumed ==
  /\ resumer.at = "resume" => frame[resumer.of] = "suspended"
  /\ \A i \in DOMAIN ending : frame[ending[i]] = "final" /\ prev_[ending[i]] \in {ending[i] - 1, NoPromise}
  /\ dangling => early
  /\ resumer.at = "done" =>
       LET gone == {k \in Frames : frame[k] = "destroyed"} IN
       /\ gone = Frames \/ early
       /\ \E k \in Frames : gone = k .. last
=============================================================================
