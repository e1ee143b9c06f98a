------------------------- MODULE ThreadPoolProofs -------------------------
(***************************************************************************)
(* For every finite set of thread ids and all sizes: tids_ and size_ are   *)
(* exact whatever Reset and Shutdown do, and a pool that is only resized   *)
(* when its workers are registered gets exactly the size it was asked for. *)
(***************************************************************************)
EXTENDS ThreadPool, FiniteSetTheorems, TLAPS

InLoop == {"take", "run", "check", "leave"}
OwnerStep == {"idle", "compare", "difference", "spawn", "stop", "spin"}

TypeOK ==
  /\ tids_ \subseteq Thread /\ size_ \in Nat
  /\ shuttingDown_ \in BOOLEAN
  /\ pc \in [Thread -> {"none", "start"} \cup InLoop]
  /\ owner \in [at : OwnerStep, newSize : Nat, added : Int]
  /\ target \in Nat /\ orderly \in BOOLEAN

\* tids_ holds the workers between their two critical sections, and size_
\* counts them.
Registered ==
  /\ \A t \in Thread : t \in tids_ <=> pc[t] \in InLoop
  /\ size_ = Cardinality(tids_)

\* What Reset relies on while it runs: no worker is on its way to or from the
\* pool but those it starts or stops itself, so that the size it read stays true.
Resizing ==
  /\ shuttingDown_ => owner.at = "spin"
  /\ owner.at # "spin" => \A t \in Thread : pc[t] # "leave"
  /\ owner.at \notin {"idle", "spawn"} => Settled
  /\ owner.at # "idle" => owner.newSize = target
  /\ owner.at = "difference" => size_ < target
  /\ owner.at = "spawn" => owner.added >= 0 /\ Cardinality(Live) + owner.added = target
  /\ owner.at = "idle" => Cardinality(Live) = target

IInv == TypeOK /\ Registered /\ (orderly => Resizing)

----------------------------------------------------------------------------
\* Threads are finite in number, so are the registered and the live ones.
LEMMA Finite ==
  ASSUME TypeOK
  PROVE  IsFiniteSet(tids_) /\ IsFiniteSet(Live) /\ Cardinality(Live) \in Nat
<1>1. IsFiniteSet(tids_)
  BY ThreadAssumption, FS_Subset DEF TypeOK
<1>2. IsFiniteSet(Live)
  BY ThreadAssumption, FS_Subset DEF Live
<1> QED BY <1>1, <1>2, FS_CardinalityType

\* With every worker registered the live threads are those of tids_.
LEMMA SettledLive ==
  ASSUME IInv, Settled
  PROVE  Live = tids_ /\ Cardinality(Live) = size_
<1>1. Live = tids_
  BY DEF IInv, TypeOK, Registered, Settled, Live, InLoop
<1> QED BY <1>1 DEF IInv, Registered

\* A worker that goes from one live step to another leaves Live as it is.
LEMMA LiveKept ==
  ASSUME TypeOK, NEW t \in Thread, NEW from, NEW to,
         Goes(t, from, to), from # "none", to # "none"
  PROVE  Live' = Live
  BY DEF TypeOK, Goes, Live

LEMMA InitIInv == Init => IInv
<1> SUFFICES ASSUME Init PROVE IInv
  OBVIOUS
<1>1. TypeOK
  <2>1. shuttingDown_ \in BOOLEAN /\ orderly \in BOOLEAN
    BY DEF Init
  <2>2. owner \in [at : OwnerStep, newSize : Nat, added : Int]
    BY DEF Init, Idle, OwnerStep
  <2> QED BY <2>1, <2>2 DEF Init, TypeOK
<1>2. Registered
  BY FS_EmptySet DEF Init, Registered, InLoop
<1>3. Live = {} /\ Cardinality(Live) = 0
  BY FS_EmptySet DEF Init, Live
<1>4. Resizing
  BY <1>3 DEF Init, Resizing, Idle
<1> QED BY <1>1, <1>2, <1>4 DEF IInv

\* The owner's steps other than Spawn change no worker.
LEMMA OwnerKeeps ==
  ASSUME IInv, Compare \/ Difference \/ ResetReturns \/ StopAll \/ Restart
  PROVE  /\ TypeOK' /\ Registered'
         /\ Live' = Live /\ Settled' = Settled /\ pc' = pc
         /\ UNCHANGED <<size_, tids_, target, orderly>>
<1>1. UNCHANGED <<size_, tids_, pc, target, orderly>>
  BY DEF Compare, Difference, ResetReturns, StopAll, Restart, shared, ghost
<1>2. owner' \in [at : OwnerStep, newSize : Nat, added : Int]
  <2>1. CASE Compare \/ StopAll \/ Restart
    BY <2>1 DEF IInv, TypeOK, Compare, StopAll, Restart, OwnerGoes, OwnerStep
  <2>2. CASE Difference
    <3>1. owner.newSize - size_ \in Int /\ "spawn" \in OwnerStep
      BY DEF IInv, TypeOK, OwnerStep
    <3> QED BY <2>2, <3>1 DEF IInv, TypeOK, Difference
  <2>3. CASE ResetReturns
    BY <2>3 DEF ResetReturns, Idle, OwnerStep
  <2> QED BY <2>1, <2>2, <2>3
<1>3. shuttingDown_' \in BOOLEAN
  BY Zenon DEF IInv, TypeOK, Compare, Difference, ResetReturns, StopAll, Restart, shared
<1> QED BY <1>1, <1>2, <1>3 DEF IInv, TypeOK, Registered, Live, Settled

LEMMA OwnerIInv ==
  ASSUME IInv, Owner
  PROVE  IInv'
<1> USE DEF IInv
<1>1. CASE Compare
  <2>1. ASSUME orderly' PROVE Resizing'
    BY <1>1, <2>1, OwnerKeeps, SettledLive
    DEF Compare, OwnerGoes, Grows, Resizing, TypeOK, OwnerStep, shared
  <2> QED BY <1>1, <2>1, OwnerKeeps
<1>2. CASE Difference
  <2>1. ASSUME orderly' PROVE Resizing'
    <3>1. Resizing /\ owner.at = "difference" /\ shuttingDown_' = shuttingDown_
      BY <1>2, <2>1, OwnerKeeps DEF Difference, shared
    <3>2. owner'.at = "spawn" /\ owner'.newSize = owner.newSize /\ owner'.added = owner.newSize - size_
      BY <1>2 DEF Difference, TypeOK
    <3>3. Cardinality(Live) = size_ /\ size_ < target
      BY <3>1, SettledLive DEF Resizing
    <3>4. owner'.newSize = target /\ owner'.added >= 0 /\ Cardinality(Live) + owner'.added = target
      BY <3>1, <3>2, <3>3 DEF Resizing, TypeOK
    <3>5. UNCHANGED <<pc, target>> /\ Live' = Live
      BY <1>2, OwnerKeeps
    <3> QED BY <3>1, <3>2, <3>4, <3>5 DEF Resizing
  <2> QED BY <1>2, <2>1, OwnerKeeps
<1>3. CASE ResetReturns
  <2>1. ASSUME orderly' PROVE Resizing'
    <3>1. Resizing /\ owner.at = "spawn" /\ owner.added <= 0 /\ shuttingDown_' = shuttingDown_
      BY <1>3, <2>1, OwnerKeeps DEF ResetReturns, shared
    <3>2. Cardinality(Live) = target
      BY <3>1, Finite DEF Resizing, TypeOK
    <3>3. owner'.at = "idle"
      BY <1>3 DEF ResetReturns, Idle
    <3> QED BY <1>3, <3>1, <3>2, <3>3, OwnerKeeps DEF Resizing
  <2> QED BY <1>3, <2>1, OwnerKeeps
<1>4. CASE StopAll
  <2>1. ASSUME orderly' PROVE Resizing'
    BY <1>4, <2>1, OwnerKeeps DEF StopAll, OwnerGoes, Resizing, TypeOK, OwnerStep
  <2> QED BY <1>4, <2>1, OwnerKeeps
<1>5. CASE Restart
  <2>1. tids_ = {}
    BY <1>5, Finite, FS_EmptySet DEF Restart, Stopped, TypeOK, Registered
  <2>2. \A t \in Thread : pc[t] # "leave"
    BY <2>1 DEF Registered, InLoop
  <2>3. ASSUME orderly' PROVE Resizing'
    BY <1>5, <2>2, <2>3, OwnerKeeps DEF Restart, OwnerGoes, Resizing, TypeOK, OwnerStep
  <2> QED BY <1>5, <2>3, OwnerKeeps
<1>6. CASE Spawn
  <2>1. PICK t \in Thread \ Live : pc' = [pc EXCEPT ![t] = "start"]
    BY <1>6 DEF Spawn
  <2>2. /\ owner.at = "spawn" /\ owner.added > 0
        /\ owner' = [owner EXCEPT !.added = owner.added - 1]
        /\ UNCHANGED <<size_, tids_, shuttingDown_, target, orderly>>
    BY <1>6 DEF Spawn, shared, ghost
  <2>3. TypeOK'
    BY <2>1, <2>2 DEF TypeOK
  <2>4. Registered'
    BY <2>1, <2>2 DEF TypeOK, Registered, Live, InLoop
  <2>5. Live' = Live \cup {t}
    BY <2>1 DEF TypeOK, Live
  <2>6. Cardinality(Live') = Cardinality(Live) + 1
    BY <2>1, <2>5, Finite, FS_AddElement
  <2>7. ASSUME orderly' PROVE Resizing'
    BY <2>1, <2>2, <2>6, <2>7, Finite DEF TypeOK, Resizing
  <2> QED BY <2>3, <2>4, <2>7
<1> QED BY <1>1, <1>2, <1>3, <1>4, <1>5, <1>6 DEF Owner

\* What the owner's callers and the monitor do to the state IInv is about.
LEMMA OthersIInv ==
  ASSUME IInv,
         (\E n \in Sizes : Reset(n)) \/ (\E f \in Function : Enqueue(f)) \/ Shutdown \/ Monitor
  PROVE  IInv'
<1>1. UNCHANGED <<size_, tids_, pc>>
  BY DEF Reset, Enqueue, Shutdown, Monitor
<1>2. Live' = Live /\ Settled' = Settled /\ Registered'
  BY <1>1 DEF IInv, Registered, Live, Settled
<1>3. ASSUME NEW n \in Sizes, Reset(n) PROVE IInv'
  <2>1. TypeOK'
    BY <1>1, <1>3, SizesAssumption DEF IInv, TypeOK, Reset, OwnerStep, Settled
  <2>2. ASSUME orderly' PROVE Resizing'
    BY <1>1, <1>2, <1>3, <2>2 DEF IInv, TypeOK, Resizing, Reset
  <2> QED BY <1>2, <2>1, <2>2 DEF IInv
<1>4. CASE (\E f \in Function : Enqueue(f)) \/ Monitor
  <2>1. UNCHANGED <<owner, shuttingDown_, target, orderly>>
    BY <1>4 DEF Enqueue, Monitor, ghost
  <2> QED BY <1>1, <1>2, <2>1 DEF IInv, TypeOK, Registered, Resizing
<1>5. CASE Shutdown
  BY <1>1, <1>2, <1>5 DEF IInv, TypeOK, Shutdown
<1> QED BY <1>3, <1>4, <1>5

----------------------------------------------------------------------------
(* The workers                                                             *)

LEMMA WorkerIInv ==
  ASSUME IInv, NEW t \in Thread, Worker(t)
  PROVE  IInv'
<1> USE DEF IInv
<1>0. UNCHANGED <<owner, shuttingDown_, target, orderly>>
  BY DEF Worker, Register, Dequeue, Run, Check, Leave, shared, ghost
<1>1. CASE Register(t)
  <2>1. TypeOK'
    BY <1>0, <1>1 DEF Register, Goes, TypeOK, InLoop
  <2>2. Cardinality(tids_') = Cardinality(tids_) + 1
    BY <1>1, Finite, FS_AddElement DEF Register
  <2>3. Registered'
    BY <1>1, <2>2 DEF Register, Goes, TypeOK, Registered, InLoop
  <2>4. Live' = Live /\ (Settled => Settled')
    BY <1>1, LiveKept DEF Register, Goes, Settled, TypeOK
  <2>5. ASSUME orderly' PROVE Resizing'
    <3>1. ~Settled
      BY <1>1 DEF Register, Goes, Settled
    <3> QED BY <1>0, <1>1, <2>4, <2>5, <3>1 DEF Register, Goes, TypeOK, Resizing, OwnerStep
  <2> QED BY <2>1, <2>3, <2>5
<1>2. CASE Dequeue(t) \/ Run(t) \/ Check(t)
  <2>1. PICK from \in InLoop, to \in InLoop :
          Goes(t, from, to) /\ (to = "leave" => shuttingDown_)
    BY <1>2 DEF Dequeue, AfterTake, Run, Check, SeesShutdown, InLoop
  <2>2. UNCHANGED <<size_, tids_>>
    BY <1>2 DEF Dequeue, Run, Check, shared
  <2>3. Live' = Live
    BY <2>1, LiveKept DEF InLoop
  <2>4. TypeOK' /\ Registered'
    BY <1>0, <2>1, <2>2 DEF Goes, TypeOK, Registered
  <2>5. Settled => Settled'
    BY <2>1 DEF Goes, Settled, TypeOK, InLoop
  <2>6. ASSUME orderly' PROVE Resizing'
    BY <1>0, <2>1, <2>2, <2>3, <2>5, <2>6 DEF Goes, TypeOK, Resizing, OwnerStep
  <2> QED BY <2>4, <2>6
<1>3. CASE Leave(t)
  <2>1. t \in tids_ /\ tids_' = tids_ \ {t} /\ size_' = size_ - 1
    BY <1>3 DEF Leave, Goes, Erase, Registered, InLoop
  <2>2. Cardinality(tids_') = Cardinality(tids_) - 1
    BY <2>1, Finite, FS_RemoveElement
  <2>3. size_' = Cardinality(tids_') /\ size_' \in Nat
    <3>1. IsFiniteSet(tids_')
      BY <2>1, Finite, FS_RemoveElement
    <3> QED BY <2>1, <2>2, <3>1, FS_CardinalityType DEF Registered
  <2>4. TypeOK'
    BY <1>0, <1>3, <2>1, <2>3 DEF Leave, Goes, TypeOK
  <2>5. Registered'
    BY <1>3, <2>1, <2>3 DEF Leave, Goes, TypeOK, Registered, InLoop
  <2>6. ASSUME orderly' PROVE Resizing'
    <3>1. owner.at = "spin"
      BY <1>0, <1>3, <2>6 DEF Leave, Goes, Resizing
    <3>2. Settled => Settled'
      BY <1>3 DEF Leave, Goes, Settled, TypeOK
    <3> QED BY <1>0, <2>6, <3>1, <3>2 DEF Resizing
  <2> QED BY <2>4, <2>5, <2>6
<1> QED BY <1>1, <1>2, <1>3 DEF Worker

LEMMA NextIInv == IInv /\ [Next]_vars => IInv'
<1> SUFFICES ASSUME IInv, [Next]_vars PROVE IInv'
  OBVIOUS
<1>1. CASE Owner
  BY <1>1, OwnerIInv
<1>2. CASE (\E n \in Sizes : Reset(n)) \/ (\E f \in Function : Enqueue(f)) \/ Shutdown \/ Monitor
  BY <1>2, OthersIInv
<1>3. CASE \E t \in Thread : Worker(t)
  BY <1>3, WorkerIInv
<1>4. CASE UNCHANGED vars
  BY <1>4 DEF vars, shared, ghost, IInv, TypeOK, Registered, Resizing, Live, Settled
<1> QED BY <1>1, <1>2, <1>3, <1>4 DEF Next

\* The state stays what thread_pool.cc's types and steps allow, and Reset's
\* reasoning about size_ holds while it runs.
THEOREM PoolInductive == Spec => []IInv
  BY InitIInv, NextIInv, PTL DEF Spec

\* No worker finds its tid registered, the "not possible" of thread_pool.cc, and
\* size_ counts tids_, for any mix of Resets and Shutdowns.
THEOREM TidsAlwaysExact == Spec => []TidsExact
<1>1. IInv => TidsExact
  BY DEF IInv, Registered, TidsExact, InLoop
<1> QED BY <1>1, PoolInductive, PTL

\* A pool whose Resets find all workers registered has the size asked for.
THEOREM PoolReachesSize == Spec => []ExactSize
<1>1. IInv => ExactSize
  BY SettledLive DEF IInv, Resizing, ExactSize
<1> QED BY <1>1, PoolInductive, PTL
=============================================================================
