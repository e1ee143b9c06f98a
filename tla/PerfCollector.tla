--------------------------- MODULE PerfCollector ---------------------------
(***************************************************************************)
(* perf_collector.cc: named timers of CPU time (cpu_, under mutex_) and of *)
(* elapsed time (latency_, under mutex2_), started, stopped and reset by   *)
(* any thread.  A step is one critical section; the test with which        *)
(* StopLatency begins is outside its own.  That test is a data race with   *)
(* the sections that change the map: here it sees the map before or after  *)
(* such a change.                                                          *)
(*                                                                         *)
(* A call that throws changes nothing and is left out.  CPU clocks are per *)
(* thread (CLOCK_THREAD_CPUTIME_ID); thread ids are reused.                *)
(***************************************************************************)
EXTENDS Integers, FiniteSets, FiniteSetsExt

CONSTANTS
  Thread,              \* ids of threads that use the collector
  CpuName, LatencyName,\* names given to the two kinds of timers
  Billion,             \* nanoseconds per second
  MaxCpu, MaxNow       \* bounds of the clocks

ASSUME PerfAssumption ==
  /\ IsFiniteSet(Thread) /\ IsFiniteSet(CpuName) /\ IsFiniteSet(LatencyName)
  /\ Billion \in Nat \ {0} /\ MaxCpu \in Nat /\ MaxNow \in Nat \ {0}

VARIABLES
  cpu_,        \* cpu_[n] = [id, start, stop] for the names in the map
  latency_,    \* latency_[n] = [start, stop]
  call,        \* call[t]: the rest of a call of t that takes two steps
  cpuClock, now,
  stopped,     \* names in cpu_ for which StopCpu was called
  orphans,     \* names in cpu_ whose thread has ended
  torn         \* names whose StopLatency met a Reset after its test

perfVars == <<cpu_, latency_, call, cpuClock, now, stopped, orphans, torn>>

NoCall == [at |-> "none"]
Empty == [n \in {} |-> NoCall]
Put(map, n, v) == [m \in DOMAIN map \cup {n} |-> IF m = n THEN v ELSE map[m]]

\* time_t and nanoseconds of a clock, and back
Timespec(ns) == [sec |-> ns \div Billion, nsec |-> ns % Billion]
Nanoseconds(ts) == ts.sec * Billion + ts.nsec

PerfInit ==
  /\ cpu_ = Empty /\ latency_ = Empty
  /\ call = [t \in Thread |-> NoCall]
  /\ cpuClock = [t \in Thread |-> 0] /\ now = 1
  /\ stopped = {} /\ orphans = {} /\ torn = {}

----------------------------------------------------------------------------
(* CPU time                                                                *)

StartCpu(t, n) ==
  /\ call[t] = NoCall
  /\ n \notin DOMAIN cpu_
  /\ cpu_' = Put(cpu_, n, [id |-> t, start |-> Timespec(cpuClock[t]), stop |-> Timespec(0)])
  /\ stopped' = stopped \ {n} /\ orphans' = orphans \ {n}
  /\ UNCHANGED <<latency_, call, cpuClock, now, torn>>

\* start and stop of a timer must be on the same thread
SameThread(t, n) == cpu_[n].id = t

StopCpu(t, n) ==
  /\ call[t] = NoCall
  /\ n \in DOMAIN cpu_ /\ SameThread(t, n)
  /\ cpu_' = [cpu_ EXCEPT ![n].stop = Timespec(cpuClock[t])]
  /\ stopped' = stopped \cup {n}
  /\ UNCHANGED <<latency_, call, cpuClock, now, orphans, torn>>

\* the difference of two timespecs, with a borrow from the seconds
DiffCpu(start, end) ==
  LET borrow == end.nsec - start.nsec < 0
      diff == IF borrow
                THEN [sec |-> end.sec - start.sec - 1, nsec |-> Billion + end.nsec - start.nsec]
                ELSE [sec |-> end.sec - start.sec, nsec |-> end.nsec - start.nsec]
  IN  Nanoseconds(diff)

GetCpuTotal == MapThenSumSet(LAMBDA n : DiffCpu(cpu_[n].start, cpu_[n].stop), DOMAIN cpu_)

----------------------------------------------------------------------------
(* Elapsed time                                                            *)

StartLatency(t, n) ==
  /\ call[t] = NoCall
  /\ n \notin DOMAIN latency_
  /\ latency_' = Put(latency_, n, [start |-> now, stop |-> now])
  /\ UNCHANGED <<cpu_, call, cpuClock, now, stopped, orphans, torn>>

NoTest(n) == TRUE                                            \* mutant
Started(n) == n \in DOMAIN latency_

\* the test, without the lock
TestLatency(t, n) ==
  /\ call[t] = NoCall
  /\ Started(n)
  /\ call' = [call EXCEPT ![t] = [at |-> "stop", name |-> n]]
  /\ UNCHANGED <<cpu_, latency_, cpuClock, now, stopped, orphans, torn>>

\* latency_[name].second = stop; operator[] makes an entry of zeros if there is none
StopLatency(t) ==
  LET n == call[t].name IN
  /\ call[t].at = "stop"
  /\ latency_' = Put(latency_, n,
                     [start |-> IF n \in DOMAIN latency_ THEN latency_[n].start ELSE 0,
                      stop |-> now])
  /\ call' = [call EXCEPT ![t] = NoCall]
  /\ UNCHANGED <<cpu_, cpuClock, now, stopped, orphans, torn>>

GetLatencyTotal ==
  MapThenSumSet(LAMBDA n : latency_[n].stop - latency_[n].start, DOMAIN latency_)

----------------------------------------------------------------------------
(* Reset takes the two locks one after the other                           *)

ResetCpu(t) ==
  /\ call[t] = NoCall
  /\ cpu_' = Empty
  /\ call' = [call EXCEPT ![t] = [at |-> "reset"]]
  /\ stopped' = {} /\ orphans' = {}
  /\ UNCHANGED <<latency_, cpuClock, now, torn>>

ResetLatency(t) ==
  /\ call[t].at = "reset"
  /\ latency_' = Empty
  /\ call' = [call EXCEPT ![t] = NoCall]
  /\ torn' = {call[u].name : u \in {v \in Thread : call[v].at = "stop"}}
  /\ UNCHANGED <<cpu_, cpuClock, now, stopped, orphans>>

----------------------------------------------------------------------------
(* The clocks, and a thread that ends: its id goes to a new thread         *)

ThreadWorks(t) ==
  /\ cpuClock[t] < MaxCpu
  /\ cpuClock' = [cpuClock EXCEPT ![t] = @ + 1]
  /\ UNCHANGED <<cpu_, latency_, call, now, stopped, orphans, torn>>

TimePasses ==
  /\ now < MaxNow
  /\ now' = now + 1
  /\ UNCHANGED <<cpu_, latency_, call, cpuClock, stopped, orphans, torn>>

ThreadEnds(t) ==
  /\ call[t] = NoCall
  /\ cpuClock' = [cpuClock EXCEPT ![t] = 0]
  /\ orphans' = orphans \cup {n \in DOMAIN cpu_ : cpu_[n].id = t}
  /\ UNCHANGED <<cpu_, latency_, call, now, stopped, torn>>

PerfNext ==
  \/ \E t \in Thread :
       \/ \E n \in CpuName : StartCpu(t, n) \/ StopCpu(t, n)
       \/ \E n \in LatencyName : StartLatency(t, n) \/ TestLatency(t, n)
       \/ StopLatency(t) \/ ResetCpu(t) \/ ResetLatency(t)
       \/ ThreadWorks(t) \/ ThreadEnds(t)
  \/ TimePasses

PerfSpec == PerfInit /\ [][PerfNext]_perfVars

----------------------------------------------------------------------------
\* A stopped CPU timer has measured a time that is not negative, in the units
\* of both clock readings, unless its thread ended and the id was reused; and so
\* has their total, which GetCpuMilisec and its like return without a sign, when
\* every timer is stopped.
CpuTimesSound ==
  /\ \A n \in stopped \ orphans :
       LET d == DiffCpu(cpu_[n].start, cpu_[n].stop) IN
       d >= 0 /\ d = Nanoseconds(cpu_[n].stop) - Nanoseconds(cpu_[n].start)
  /\ stopped \ orphans = DOMAIN cpu_ => GetCpuTotal >= 0

\* An entry of latency_ was made by StartLatency and stops no earlier than it
\* starts, unless a Reset came between the test and the lock of a StopLatency
\* for its name.
LatenciesSound ==
  /\ \A n \in DOMAIN latency_ \ torn :
       0 < latency_[n].start /\ latency_[n].start <= latency_[n].stop
  /\ torn = {} => GetLatencyTotal >= 0

\* Both kinds of timers, and their totals, are sound but for those exceptions.
TimesSound == CpuTimesSound /\ LatenciesSound
=============================================================================
