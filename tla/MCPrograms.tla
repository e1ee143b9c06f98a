---------------------------- MODULE MCPrograms -----------------------------
(***************************************************************************)
(* The programs of the repository that stand alone.  A behaviour is one of *)
(* any of them, chosen at the start; the others stay in their first state. *)
(***************************************************************************)
EXTENDS SocketServer, PerfCollector, ReadBenchmark, CoroutineDemo, ObjectPool, BufferCache,
        BTreeNode

\* a string that fits its length byte, and one that does not
Short == [name |-> "short", len |-> 0]
Long == [name |-> "long", len |-> 3]
MCValue == {Short, Long}

VARIABLE program

vars == <<program, socketVars, perfVars, readVars, coVars, poolVars, cacheVars, pageVars>>

\* only the sockets have several first states
Init ==
  /\ program \in {"sockets", "perf", "read", "coroutines", "pool", "cache", "page"}
  /\ SocketInit /\ PerfInit /\ ReadInit /\ CoInit /\ PoolInit /\ CacheInit
  /\ PageInit
  /\ program # "sockets" => ~path /\ \A p \in DOMAIN fds : fds[p] = CHOOSE n \in FdLimits : TRUE

\* a step of one of the programs
Sockets(A) ==
  /\ program = "sockets" /\ A
  /\ UNCHANGED <<program, perfVars, readVars, coVars, poolVars, cacheVars, pageVars>>
Perf(A) ==
  /\ program = "perf" /\ A
  /\ UNCHANGED <<program, socketVars, readVars, coVars, poolVars, cacheVars, pageVars>>
Read(A) ==
  /\ program = "read" /\ A
  /\ UNCHANGED <<program, socketVars, perfVars, coVars, poolVars, cacheVars, pageVars>>
Coroutines(A) ==
  /\ program = "coroutines" /\ A
  /\ UNCHANGED <<program, socketVars, perfVars, readVars, poolVars, cacheVars, pageVars>>
Pool(A) ==
  /\ program = "pool" /\ A
  /\ UNCHANGED <<program, socketVars, perfVars, readVars, coVars, cacheVars, pageVars>>
Cache(A) ==
  /\ program = "cache" /\ A
  /\ UNCHANGED <<program, socketVars, perfVars, readVars, coVars, poolVars, pageVars>>
BTreePage(A) ==
  /\ program = "page" /\ A
  /\ UNCHANGED <<program, socketVars, perfVars, readVars, coVars, poolVars, cacheVars>>

Next ==
  \/ Sockets(SocketNext) \/ Perf(PerfNext) \/ Read(ReadNext)
  \/ Coroutines(CoNext) \/ Pool(PoolNext) \/ Cache(CacheNext) \/ BTreePage(PageNext)

\* with the fairness of SocketSpec and ReadSpec
Spec ==
  /\ Init /\ [][Next]_vars
  /\ WF_socketVars(program = "sockets" /\ Master)
  /\ WF_socketVars(program = "sockets" /\ Slave)
  /\ \A c \in Client :
       /\ WF_socketVars(program = "sockets" /\ Serve(c))
       /\ WF_socketVars(program = "sockets" /\ ReadsAnswer(c))
  /\ WF_readVars(program = "read" /\ ReadStep)
  /\ WF_readVars(program = "read" /\ CompleteRead)
=============================================================================
