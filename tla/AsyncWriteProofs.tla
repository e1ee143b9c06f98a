-------------------------- MODULE AsyncWriteProofs -------------------------
(***************************************************************************)
(* For every number of files and pages, every size of a page and every     *)
(* ring: a page's buffer is freed when the kernel is done with it and not  *)
(* before, the reaper ends only when all is written, and no coroutine is   *)
(* resumed twice, too early or after its frame is gone.                    *)
(***************************************************************************)
EXTENDS AsyncWrite, IoUringProofs

Writing == exec.at \in {"page", "submit", "suspend"}
Touched == Requests(ring) \cup freed
FilePages(f) == {f} \X (0 .. Pages - 1)
FreedOf(f) == freed \cap FilePages(f)

TypeOK ==
  /\ ring \in Rings(Page) /\ freed \subseteq Page
  /\ medium \in Seq(File) /\ high \in Seq(File \cup {ShutdownTask})
  /\ exec \in {Idle, [at |-> "exited"]} \cup
              [at : {"page", "submit", "suspend"}, file : File, page : 0 .. Pages - 1]
  /\ co \in [File -> {"none", "added", "started", "suspended", "done"}]
  /\ size \in [File -> Nat] /\ size_written \in [File -> Nat] /\ total \in Nat
  /\ reaper \in {"running", "done"}

\* Each page is in one place: not queued yet, in one part of the ring, or freed.
Places ==
  /\ OnePlace(ring) /\ freed \cap Requests(ring) = {}
  /\ \A p \in Touched :
       /\ co[p[1]] \notin {"none", "added"}
       /\ exec.at = "page" /\ exec.file = p[1] => p[2] < exec.page

\* The kernel writes at least a unit or fails.
Results == \A c \in Elements(ring.cq) : c.res = Error \/ c.res \in 1 .. BuffSize

\* The executor's queue of writes, and the one coroutine that runs.
Tasks ==
  /\ Distinct(medium)
  /\ \A f \in File : f \in Elements(medium) <=> co[f] = "added"
  /\ \A f \in File : co[f] = "started" <=> Writing /\ exec.file = f

\* units of freed pages that were not written, for one file and for all
Short(f) == BuffSize * Cardinality(FreedOf(f)) - size_written[f]
ShortTotal == BuffSize * Cardinality(freed) - total

\* No file lacks more than all files together.
Accounts ==
  /\ 0 <= ShortTotal
  /\ \A f \in File : 0 <= Short(f) /\ Short(f) <= ShortTotal
  /\ reaper = "done" => total >= Cardinality(File) * FileSize

\* A file whose size was reached is waiting to be resumed, or was resumed, once.
Resumes ==
  /\ \A i, j \in DOMAIN high : high[i] = high[j] /\ high[i] # ShutdownTask => i = j
  /\ \A f \in Elements(high) \ {ShutdownTask} :
       co[f] \in {"started", "suspended"} /\ size_written[f] >= size[f]
  /\ \A f \in File : co[f] = "done" => size_written[f] >= size[f]

IInv == TypeOK /\ Places /\ Results /\ Tasks /\ Accounts /\ Resumes

----------------------------------------------------------------------------
(* Facts about the state                                                   *)

\* A task that writes has a file and a page.
LEMMA ExecType ==
  ASSUME TypeOK
  PROVE  /\ Writing => exec \in [at : {"page", "submit", "suspend"}, file : File, page : 0 .. Pages - 1]
         /\ exec = Idle => ~Writing
         /\ exec = [at |-> "exited"] => ~Writing
  BY DEF TypeOK, Writing, Idle

LEMMA PageType ==
  ASSUME NEW p \in Page
  PROVE  p[1] \in File /\ p[2] \in 0 .. Pages - 1 /\ p = <<p[1], p[2]>>
  BY DEF Page

LEMMA TouchedType ==
  ASSUME TypeOK
  PROVE  Touched \subseteq Page
<1>1. ring.sq \in Seq(Page) /\ ring.flight \subseteq Page /\ ring.cq \in Seq(Completions(Page))
  BY DEF TypeOK, Rings
<1>2. Prepared(ring) \subseteq Page
  BY <1>1 DEF Prepared, Elements
<1>3. Elements(ring.cq) \subseteq Completions(Page)
  BY <1>1 DEF Elements
<1>4. Completed(ring) \subseteq Page
  BY <1>3 DEF Completed, Completions
<1> QED BY <1>1, <1>2, <1>4 DEF TypeOK, Touched, Requests

\* The pages of one file and of all files are finitely many.
LEMMA PageCount ==
  /\ IsFiniteSet(Page) /\ Cardinality(Page) = Cardinality(File) * Pages
  /\ \A f \in File : IsFiniteSet(FilePages(f)) /\ Cardinality(FilePages(f)) = Pages
<1>1. IsFiniteSet(0 .. Pages - 1) /\ Cardinality(0 .. Pages - 1) = Pages
  BY WriteAssumption, FS_Interval
<1>2. IsFiniteSet(Page) /\ Cardinality(Page) = Cardinality(File) * Pages
  BY <1>1, WriteAssumption, FS_Product DEF Page
<1>3. ASSUME NEW f \in File
      PROVE  IsFiniteSet(FilePages(f)) /\ Cardinality(FilePages(f)) = Pages
  <2>1. IsFiniteSet({f}) /\ Cardinality({f}) = 1
    BY FS_Singleton
  <2>2. Cardinality(FilePages(f)) = 1 * Pages
    BY <1>1, <2>1, FS_Product DEF FilePages
  <2>3. IsFiniteSet(FilePages(f))
    BY <1>1, <2>1, FS_Product DEF FilePages
  <2> QED BY <2>2, <2>3, WriteAssumption
<1> QED BY <1>2, <1>3

LEMMA FreedCount ==
  ASSUME TypeOK
  PROVE  /\ IsFiniteSet(freed) /\ Cardinality(freed) \in Nat
         /\ Cardinality(freed) <= Cardinality(File) * Pages
         /\ \A f \in File : /\ IsFiniteSet(FreedOf(f)) /\ Cardinality(FreedOf(f)) \in Nat
                            /\ Cardinality(FreedOf(f)) <= Pages
<1>1. IsFiniteSet(freed) /\ Cardinality(freed) <= Cardinality(File) * Pages
  BY PageCount, FS_Subset DEF TypeOK
<1>2. ASSUME NEW f \in File
      PROVE  IsFiniteSet(FreedOf(f)) /\ Cardinality(FreedOf(f)) <= Pages
  <2>1. FreedOf(f) \in SUBSET FilePages(f)
    BY DEF FreedOf
  <2> QED BY <2>1, PageCount, FS_Subset
<1>3. Cardinality(freed) \in Nat /\ \A f \in File : Cardinality(FreedOf(f)) \in Nat
  BY <1>1, <1>2, FS_CardinalityType
<1> QED BY <1>1, <1>2, <1>3

----------------------------------------------------------------------------
(* Conjuncts whose variables a step leaves alone                           *)

LEMMA AccountsKept ==
  ASSUME Accounts, UNCHANGED <<freed, size_written, total, reaper>>
  PROVE  Accounts'
  BY DEF Accounts, Short, ShortTotal, FreedOf

LEMMA InitIInv == Init => IInv
<1> SUFFICES ASSUME Init PROVE IInv
  OBVIOUS
<1>1. OnePlace(ring) /\ ring \in Rings(Page) /\ Requests(ring) = {} /\ Elements(ring.cq) = {}
  BY EmptyRingFacts DEF Init, EmptyRing, Elements
<1>2. TypeOK
  <2>1. size \in [File -> Nat]
    BY WriteAssumption DEF Init, FileSize
  <2>2. exec = Idle /\ medium = << >> /\ high = << >>
    BY DEF Init
  <2> QED BY <1>1, <2>1, <2>2 DEF Init, TypeOK
<1>3. Places /\ Results
  BY <1>1 DEF Init, Places, Results, Touched
<1>4. Tasks
  BY DEF Init, Tasks, Distinct, Elements, Idle, Writing
<1>5. Accounts
  <2>1. Cardinality(freed) = 0 /\ BuffSize * 0 = 0
    BY FS_EmptySet, WriteAssumption DEF Init
  <2>2. ASSUME NEW f \in File PROVE Short(f) = 0
    <3>1. FreedOf(f) = {}
      BY DEF FreedOf, Init
    <3> QED BY <2>1, <3>1, FS_EmptySet DEF Init, Short
  <2>3. ShortTotal = 0
    BY <2>1 DEF Init, ShortTotal
  <2> QED BY <2>2, <2>3 DEF Init, Accounts
<1>6. Resumes
  BY DEF Init, Resumes, Elements
<1> QED BY <1>2, <1>3, <1>4, <1>5, <1>6 DEF IInv

LEMMA AddWriteTaskIInv ==
  ASSUME IInv, NEW f \in File, AddWriteTask(f)
  PROVE  IInv'
<1> USE DEF IInv
<1>1. /\ co[f] = "none" /\ co' = [co EXCEPT ![f] = "added"] /\ medium' = Append(medium, f)
      /\ UNCHANGED <<ring, high, exec, size, size_written, total, reaper, freed>>
  BY DEF AddWriteTask, Reaping
<1>2. medium \in Seq(File)
  BY DEF TypeOK
<1>3. TypeOK'
  BY <1>1, <1>2, AppendElements DEF TypeOK
<1>4. Places'
  BY <1>1, TouchedType, PageType DEF Places, Touched, TypeOK
<1>5. Tasks'
  <2>1. f \notin Elements(medium)
    BY <1>1 DEF Tasks
  <2>2. Distinct(medium') /\ Elements(medium') = Elements(medium) \cup {f}
    BY <1>1, <1>2, <2>1, AppendElements DEF Tasks
  <2> QED BY <1>1, <2>2 DEF Tasks, TypeOK, Writing
<1>6. Results' /\ Accounts'
  BY <1>1, AccountsKept DEF Results
<1>7. Resumes'
  BY <1>1 DEF Resumes, TypeOK, Elements
<1> QED BY <1>3, <1>4, <1>5, <1>6, <1>7

LEMMA StartWriteIInv ==
  ASSUME IInv, StartWrite
  PROVE  IInv'
<1> USE DEF IInv
<1> DEFINE f == Head(medium)
<1>1. /\ exec = Idle /\ medium # << >> /\ medium' = Tail(medium)
      /\ exec' = [at |-> "page", file |-> f, page |-> 0]
      /\ co' = [co EXCEPT ![f] = "started"]
      /\ UNCHANGED <<ring, high, size, size_written, total, reaper, freed>>
  BY DEF StartWrite, Reaping
<1>2. medium \in Seq(File)
  BY DEF TypeOK
<1>3. /\ f \in File /\ medium' \in Seq(File) /\ Elements(medium) = Elements(medium') \cup {f}
      /\ Distinct(medium') /\ f \notin Elements(medium')
  BY <1>1, <1>2, TailElements DEF Tasks
<1>4. co[f] = "added"
  BY <1>3 DEF Tasks
<1> HIDE DEF f
<1>5. TypeOK'
  BY <1>1, <1>3, WriteAssumption DEF TypeOK
<1>6. Places'
  BY <1>1, <1>3, <1>4, TouchedType, PageType DEF Places, Touched, TypeOK
<1>7. Tasks'
  <2>1. \A g \in File : co[g] # "started"
    BY <1>1, ExecType DEF Tasks
  <2> QED BY <1>1, <1>3, <1>4, <2>1 DEF Tasks, TypeOK, Writing
<1>8. Results' /\ Accounts'
  BY <1>1, AccountsKept DEF Results
<1>9. Resumes'
  BY <1>1, <1>3, <1>4 DEF Resumes, TypeOK, Elements
<1> QED BY <1>5, <1>6, <1>7, <1>8, <1>9

\* io_uring_submit moves requests within the ring or leaves it alone.
LEMMA SubmitKeeps ==
  ASSUME IInv, TrySubmit
  PROVE  /\ ring' \in Rings(Page) /\ OnePlace(ring')
         /\ Requests(ring') = Requests(ring) /\ ring'.cq = ring.cq
  BY SubmitFacts DEF TrySubmit, IInv, TypeOK, Places

LEMMA QueuePageIInv ==
  ASSUME IInv, QueuePage
  PROVE  IInv'
<1> USE DEF IInv
<1>1. /\ exec.at = "page"
      /\ UNCHANGED <<medium, high, co, size, size_written, total, reaper, freed>>
  BY DEF QueuePage, Reaping
<1>2. /\ exec \in [at : {"page", "submit", "suspend"}, file : File, page : 0 .. Pages - 1]
      /\ co[exec.file] = "started"
  BY <1>1, ExecType DEF Writing, Tasks
<1> DEFINE p == <<exec.file, exec.page>>
<1>3. p \in Page /\ p[1] = exec.file /\ p[2] = exec.page
  BY <1>2 DEF Page
<1> HIDE DEF p
<1>4. p \notin Touched
  BY <1>1, <1>2, <1>3 DEF Places
<1>5. CASE HasSqe(ring, RingSize)
  <2>1. /\ ring' = Prep(ring, p)
        /\ exec' = IF exec.page + 1 = Pages THEN [exec EXCEPT !.at = "submit"]
                                            ELSE [exec EXCEPT !.page = exec.page + 1]
    BY <1>5 DEF QueuePage, p
  <2>2. /\ ring' \in Rings(Page) /\ OnePlace(ring') /\ ring'.cq = ring.cq
        /\ Requests(ring') = Requests(ring) \cup {p}
    BY <1>3, <1>4, <2>1, PrepFacts DEF TypeOK, Places, Touched
  <2>3. /\ exec' \in [at : {"page", "submit", "suspend"}, file : File, page : 0 .. Pages - 1]
        /\ exec'.file = exec.file
        /\ exec'.at = "page" => exec'.page = exec.page + 1
    BY <1>2, <2>1, WriteAssumption
  <2>4. TypeOK'
    BY <1>1, <2>2, <2>3 DEF TypeOK
  <2>5. Places'
    <3>1. Touched' = Touched \cup {p}
      BY <1>1, <2>2 DEF Touched
    <3>2. ASSUME NEW q \in Touched', exec'.at = "page", exec'.file = q[1] PROVE q[2] < exec'.page
      <4>1. CASE q = p
        BY <1>2, <1>3, <2>3, <3>2, <4>1
      <4>2. CASE q \in Touched
        <5>1. q[2] < exec.page /\ q[2] \in Int
          BY <1>1, <2>3, <3>2, <4>2, TouchedType, PageType DEF Places
        <5> QED BY <1>2, <2>3, <3>2, <5>1
      <4> QED BY <3>1, <4>1, <4>2
    <3>3. \A q \in Touched' : co'[q[1]] \notin {"none", "added"}
      BY <1>1, <1>2, <1>3, <3>1 DEF Places
    <3>4. freed' \cap Requests(ring') = {}
      BY <1>1, <1>4, <2>2 DEF Places, Touched
    <3> QED BY <2>2, <3>2, <3>3, <3>4 DEF Places
  <2>6. Tasks'
    BY <1>1, <1>2, <2>3 DEF Tasks, Writing
  <2>7. Results' /\ Accounts' /\ Resumes'
    BY <1>1, <2>2, AccountsKept DEF Results, Resumes
  <2> QED BY <2>4, <2>5, <2>6, <2>7
<1>6. CASE ~HasSqe(ring, RingSize)
  <2>1. TrySubmit /\ exec' = exec
    BY <1>6 DEF QueuePage
  <2>2. TypeOK' /\ Places'
    BY <1>1, <2>1, SubmitKeeps DEF TypeOK, Places, Touched
  <2>3. Tasks' /\ Results' /\ Accounts' /\ Resumes'
    BY <1>1, <2>1, SubmitKeeps, AccountsKept DEF Tasks, Writing, Results, Resumes
  <2> QED BY <2>2, <2>3
<1> QED BY <1>5, <1>6

LEMMA SubmitFileIInv ==
  ASSUME IInv, SubmitFile
  PROVE  IInv'
<1> USE DEF IInv
<1>1. /\ exec.at = "submit" /\ TrySubmit /\ exec' = [exec EXCEPT !.at = "suspend"]
      /\ UNCHANGED <<medium, high, co, size, size_written, total, reaper, freed>>
  BY DEF SubmitFile, Reaping
<1>2. exec \in [at : {"page", "submit", "suspend"}, file : File, page : 0 .. Pages - 1]
  BY <1>1, ExecType DEF Writing
<1>3. /\ exec' \in [at : {"page", "submit", "suspend"}, file : File, page : 0 .. Pages - 1]
      /\ exec'.file = exec.file /\ exec'.at = "suspend"
  BY <1>1, <1>2
<1>4. TypeOK'
  BY <1>1, <1>3, SubmitKeeps DEF TypeOK
<1>5. Places'
  BY <1>1, <1>3, SubmitKeeps DEF Places, Touched
<1>6. Tasks' /\ Results' /\ Accounts' /\ Resumes'
  BY <1>1, <1>3, SubmitKeeps, AccountsKept DEF Tasks, Writing, Results, Resumes
<1> QED BY <1>4, <1>5, <1>6

LEMMA SuspendIInv ==
  ASSUME IInv, Suspend
  PROVE  IInv'
<1> USE DEF IInv
<1>1. /\ exec.at = "suspend" /\ exec' = Idle /\ co' = [co EXCEPT ![exec.file] = "suspended"]
      /\ UNCHANGED <<ring, medium, high, size, size_written, total, reaper, freed>>
  BY DEF Suspend, Reaping
<1>2. exec.file \in File /\ Writing /\ co[exec.file] = "started"
  BY <1>1, ExecType DEF Writing, Tasks
<1>3. TypeOK' /\ ~Writing'
  BY <1>1, <1>2 DEF TypeOK, Writing, Idle
<1>4. Places'
  BY <1>1, <1>2, TouchedType, PageType DEF Places, Touched, TypeOK, Idle
<1>5. Tasks'
  BY <1>1, <1>2, <1>3 DEF Tasks, TypeOK
<1>6. Results' /\ Accounts'
  BY <1>1, AccountsKept DEF Results
<1>7. Resumes'
  BY <1>1, <1>2 DEF Resumes, TypeOK, Elements
<1> QED BY <1>3, <1>4, <1>5, <1>6, <1>7

LEMMA RunHighIInv ==
  ASSUME IInv, RunHigh
  PROVE  IInv'
<1> USE DEF IInv
<1> DEFINE h == Head(high)
           HighTask == File \cup {ShutdownTask}
<1>1. /\ exec = Idle /\ high # << >> /\ high' = Tail(high)
      /\ UNCHANGED <<ring, medium, size, size_written, total, reaper, freed>>
  BY DEF RunHigh, Reaping
<1>2. high \in Seq(HighTask)
  BY DEF TypeOK
<1> HIDE DEF HighTask
<1>3. /\ h \in HighTask /\ high' \in Seq(HighTask)
      /\ Elements(high) = Elements(high') \cup {h}
  BY <1>1, <1>2, TailElements
<1>4. /\ DOMAIN high = 1 .. Len(high) /\ DOMAIN high' = 1 .. Len(high) - 1
      /\ Len(high) \in Nat \ {0} /\ h = high[1]
      /\ \A i \in 1 .. Len(high) - 1 : high'[i] = high[i + 1]
  BY <1>1, <1>2, TailAt
<1> HIDE DEF h
<1>5. /\ \A i, j \in DOMAIN high' : high'[i] = high'[j] /\ high'[i] # ShutdownTask => i = j
      /\ h # ShutdownTask => h \notin Elements(high')
  <2>1. ASSUME NEW i \in 1 .. Len(high) - 1, NEW j \in 1 .. Len(high) - 1,
               high'[i] = high'[j], high'[i] # ShutdownTask
        PROVE  i = j
    <3>1. i + 1 \in DOMAIN high /\ j + 1 \in DOMAIN high
      BY <1>4
    <3>2. i + 1 = j + 1
      BY <1>4, <2>1, <3>1 DEF Resumes
    <3> QED BY <3>2
  <2>2. ASSUME h # ShutdownTask, NEW i \in 1 .. Len(high) - 1, high'[i] = h PROVE FALSE
    <3>1. i + 1 \in DOMAIN high /\ 1 \in DOMAIN high
      BY <1>4
    <3>2. i + 1 = 1
      BY <1>4, <2>2, <3>1 DEF Resumes
    <3> QED BY <3>2
  <2> QED BY <1>4, <2>1, <2>2 DEF Elements
<1>6. Results' /\ Accounts' /\ (high \in Seq(File \cup {ShutdownTask}))'
  BY <1>1, <1>3, AccountsKept DEF Results, HighTask
<1>7. CASE h = ShutdownTask
  <2>1. exec' = [at |-> "exited"] /\ co' = co
    BY <1>7 DEF RunHigh, h
  <2>2. TypeOK' /\ ~Writing' /\ ~Writing
    BY <1>1, <1>6, <2>1, ExecType DEF TypeOK, Writing
  <2>3. Places'
    BY <1>1, <2>1 DEF Places, Touched
  <2>4. Tasks'
    BY <1>1, <2>1, <2>2 DEF Tasks
  <2>5. Resumes'
    BY <1>1, <1>3, <1>5, <2>1 DEF Resumes
  <2> QED BY <1>6, <2>2, <2>3, <2>4, <2>5
<1>8. CASE h # ShutdownTask
  <2>1. co' = [co EXCEPT ![h] = "done"] /\ exec' = exec
    BY <1>8 DEF RunHigh, h
  <2>2. h \in File /\ co[h] = "suspended" /\ size_written[h] >= size[h]
    <3>1. h \in File
      BY <1>3, <1>8 DEF HighTask
    <3> QED BY <1>1, <1>3, <1>8, <3>1, ExecType DEF Resumes, Tasks
  <2>3. TypeOK'
    BY <1>1, <1>6, <2>1, <2>2 DEF TypeOK
  <2>4. Places'
    BY <1>1, <2>1, <2>2, TouchedType, PageType DEF Places, Touched, TypeOK
  <2>5. Tasks'
    BY <1>1, <2>1, <2>2 DEF Tasks, TypeOK, Writing
  <2>6. Resumes'
    BY <1>1, <1>3, <1>5, <1>8, <2>1, <2>2 DEF Resumes, TypeOK
  <2> QED BY <1>6, <2>3, <2>4, <2>5, <2>6
<1> QED BY <1>7, <1>8

----------------------------------------------------------------------------
(* The reaper                                                              *)

\* One more freed page and res more units written.
LEMMA ShortGrows ==
  ASSUME NEW pages \in Nat, NEW written \in Nat, NEW res \in Nat
  PROVE  /\ BuffSize * (pages + 1) - (written + res) = (BuffSize * pages - written) + (BuffSize - res)
         /\ BuffSize * pages - written \in Int
  BY WriteAssumption

LEMMA ReapIInv ==
  ASSUME IInv, Reap
  PROVE  IInv'
<1> USE DEF IInv
<1>1. PICK p, res, f :
        /\ p = Head(ring.cq).req /\ res = Head(ring.cq).res /\ f = p[1]
        /\ ring.cq # << >> /\ res >= 0
        /\ size_written' = [size_written EXCEPT ![f] = size_written[f] + res]
        /\ total' = total + res /\ ring' = CqeSeen(ring) /\ freed' = freed \cup {p}
        /\ high' = IF size_written'[f] = size[f] THEN Append(high, f) ELSE high
        /\ reaper' = IF total' >= Cardinality(File) * FileSize THEN "done" ELSE "running"
        /\ UNCHANGED <<medium, exec, co, size>>
  BY DEF Reap, ReachesSize, FreePage, AllWritten
<1>2. /\ ring' \in Rings(Page) /\ OnePlace(ring') /\ p \in Page
      /\ Head(ring.cq) \in Elements(ring.cq)
      /\ Elements(ring'.cq) \subseteq Elements(ring.cq)
      /\ p \in Completed(ring) /\ Requests(ring') = Requests(ring) \ {p}
  BY <1>1, CqeSeenFacts DEF TypeOK, Places
<1>3. p \in Requests(ring) /\ p \notin freed /\ Touched' = Touched
  BY <1>1, <1>2 DEF Requests, Places, Touched
<1>4. res \in Nat \ {0} /\ res <= BuffSize
  BY <1>1, <1>2, WriteAssumption DEF Results, Error
<1>5. f \in File /\ p \in FilePages(f) /\ co[f] \in {"started", "suspended", "done"}
  <2>1. f \in File /\ p \in FilePages(f)
    BY <1>1, <1>2, PageType DEF FilePages
  <2>2. co[f] \notin {"none", "added"}
    BY <1>1, <1>3 DEF Places, Touched
  <2> QED BY <2>1, <2>2 DEF TypeOK
<1>6. /\ size_written' \in [File -> Nat] /\ size_written'[f] = size_written[f] + res
      /\ \A g \in File : g # f => size_written'[g] = size_written[g]
  <2>1. size_written \in [File -> Nat] /\ size_written[f] + res \in Nat
    BY <1>4, <1>5 DEF TypeOK
  <2>2. size_written' = [size_written EXCEPT ![f] = size_written[f] + res]
    BY <1>1
  <2> QED BY <1>5, <2>1, <2>2
<1>7. Places' /\ Results'
  BY <1>1, <1>2, <1>3 DEF Places, Touched, Results
<1>8. Tasks'
  BY <1>1 DEF Tasks, Writing
<1>9. Accounts'
  <2>1. Cardinality(freed') = Cardinality(freed) + 1 /\ Cardinality(freed) \in Nat
    BY <1>1, <1>3, FreedCount, FS_AddElement
  <2>2. Cardinality(FreedOf(f)') = Cardinality(FreedOf(f)) + 1 /\ Cardinality(FreedOf(f)) \in Nat
    <3>1. FreedOf(f)' = FreedOf(f) \cup {p} /\ p \notin FreedOf(f)
      BY <1>1, <1>3, <1>5 DEF FreedOf
    <3> QED BY <1>5, <3>1, FreedCount, FS_AddElement
  <2>3. ASSUME NEW g \in File, g # f PROVE FreedOf(g)' = FreedOf(g)
    BY <1>1, <1>5, <2>3 DEF FreedOf, FilePages
  <2>4. ShortTotal' = ShortTotal + (BuffSize - res) /\ ShortTotal \in Int
    <3>1. total \in Nat /\ total' = total + res
      BY <1>1 DEF TypeOK
    <3>2. ShortTotal' = BuffSize * (Cardinality(freed) + 1) - (total + res)
      BY <2>1, <3>1 DEF ShortTotal
    <3>3. /\ BuffSize * (Cardinality(freed) + 1) - (total + res)
               = (BuffSize * Cardinality(freed) - total) + (BuffSize - res)
          /\ BuffSize * Cardinality(freed) - total \in Int
      BY <1>4, <2>1, <3>1, ShortGrows
    <3> QED BY <3>2, <3>3 DEF ShortTotal
  <2>5. Short(f)' = Short(f) + (BuffSize - res) /\ Short(f) \in Int
    <3>1. size_written[f] \in Nat
      BY <1>5 DEF TypeOK
    <3>2. Short(f)' = BuffSize * (Cardinality(FreedOf(f)) + 1) - (size_written[f] + res)
      BY <1>6, <2>2 DEF Short
    <3>3. /\ BuffSize * (Cardinality(FreedOf(f)) + 1) - (size_written[f] + res)
               = (BuffSize * Cardinality(FreedOf(f)) - size_written[f]) + (BuffSize - res)
          /\ BuffSize * Cardinality(FreedOf(f)) - size_written[f] \in Int
      BY <1>4, <2>2, <3>1, ShortGrows
    <3> QED BY <3>2, <3>3 DEF Short
  <2>6. ASSUME NEW g \in File, g # f PROVE Short(g)' = Short(g) /\ Short(g) \in Int
    BY <1>6, <2>3, <2>6, FreedCount, WriteAssumption DEF Short, TypeOK
  <2>7. BuffSize - res >= 0 /\ BuffSize - res \in Int
    BY <1>4, WriteAssumption
  <2>8. 0 <= ShortTotal' /\ \A g \in File : 0 <= Short(g)' /\ Short(g)' <= ShortTotal'
    <3>1. 0 <= ShortTotal'
      BY <2>4, <2>7 DEF Accounts
    <3>2. 0 <= Short(f)' /\ Short(f)' <= ShortTotal'
      BY <1>5, <2>4, <2>5, <2>7 DEF Accounts
    <3>3. ASSUME NEW g \in File, g # f PROVE 0 <= Short(g)' /\ Short(g)' <= ShortTotal'
      BY <2>4, <2>6, <2>7, <3>3 DEF Accounts
    <3> QED BY <3>1, <3>2, <3>3
  <2>9. reaper' = "done" => total' >= Cardinality(File) * FileSize
    BY <1>1
  <2> QED BY <2>8, <2>9 DEF Accounts
<1>10. TypeOK' /\ Resumes'
  <2>1. TypeOK'
    <3>1. high' \in Seq(File \cup {ShutdownTask})
      BY <1>1, <1>5 DEF TypeOK
    <3>2. freed' \subseteq Page /\ total' \in Nat /\ reaper' \in {"running", "done"}
      BY <1>1, <1>2, <1>4 DEF TypeOK
    <3> QED BY <1>1, <1>2, <1>6, <3>1, <3>2 DEF TypeOK
  <2>2. \A g \in File : size_written'[g] >= size_written[g]
    <3>1. ASSUME NEW g \in File PROVE size_written'[g] >= size_written[g]
      <4>1. size_written[g] \in Nat
        BY DEF TypeOK
      <4> QED BY <1>4, <1>6, <4>1
    <3> QED BY <3>1
  <2>3. CASE high' = high
    <3>1. ASSUME NEW g \in File, size_written[g] >= size[g] PROVE size_written'[g] >= size'[g]
      <4>1. size_written[g] \in Nat /\ size_written'[g] \in Nat /\ size[g] \in Nat
        BY <1>6 DEF TypeOK
      <4> QED BY <1>1, <2>2, <3>1, <4>1
    <3>2. Elements(high) \ {ShutdownTask} \subseteq File
      BY DEF TypeOK, Elements
    <3> QED BY <1>1, <2>1, <2>3, <3>1, <3>2 DEF Resumes
  <2>4. CASE size_written'[f] = size[f] /\ high' = Append(high, f)
    <3>1. size_written[f] < size[f]
      BY <1>4, <1>5, <1>6, <2>4 DEF TypeOK
    <3>2. co[f] # "done" /\ (f # ShutdownTask => f \notin Elements(high))
      BY <1>5, <3>1 DEF Resumes, TypeOK
    <3>3. high \in Seq(File \cup {ShutdownTask}) /\ f \in File \cup {ShutdownTask}
      BY <1>5 DEF TypeOK
    <3>4. Elements(high') = Elements(high) \cup {f}
      BY <2>4, <3>3, AppendElements
    <3>5. /\ DOMAIN high = 1 .. Len(high) /\ DOMAIN high' = 1 .. Len(high) + 1 /\ Len(high) \in Nat
          /\ high'[Len(high) + 1] = f
          /\ \A i \in 1 .. Len(high) : high'[i] = high[i]
      BY <2>4, <3>3, AppendAt
    <3>6. \A i, j \in DOMAIN high' : high'[i] = high'[j] /\ high'[i] # ShutdownTask => i = j
      BY <3>2, <3>5 DEF Resumes, Elements
    <3>7. ASSUME NEW g \in Elements(high') \ {ShutdownTask}
          PROVE  co'[g] \in {"started", "suspended"} /\ size_written'[g] >= size'[g]
      <4>1. CASE g = f
        BY <1>1, <1>5, <2>4, <3>1, <3>2, <4>1 DEF TypeOK
      <4>2. CASE g \in Elements(high)
        <5>1. g \in File
          BY <3>3, <4>2 DEF Elements
        <5>2. co[g] \in {"started", "suspended"} /\ size_written[g] >= size[g]
          BY <3>7, <4>2 DEF Resumes
        <5> QED BY <1>1, <1>6, <2>2, <5>1, <5>2 DEF TypeOK
      <4> QED BY <3>4, <4>1, <4>2
    <3>8. \A g \in File : co'[g] = "done" => size_written'[g] >= size'[g]
      BY <1>1, <1>6, <2>2 DEF Resumes, TypeOK
    <3> QED BY <2>1, <3>6, <3>7, <3>8 DEF Resumes
  <2> QED BY <1>1, <2>1, <2>3, <2>4
<1> QED BY <1>7, <1>8, <1>9, <1>10

----------------------------------------------------------------------------
(* main and the kernel                                                     *)

LEMMA StartShutdownIInv ==
  ASSUME IInv, StartShutdown
  PROVE  IInv'
<1> USE DEF IInv
<1>1. /\ high' = Append(high, ShutdownTask)
      /\ UNCHANGED <<ring, medium, exec, co, size, size_written, total, reaper, freed>>
  BY DEF StartShutdown, Reaping
<1>2. high \in Seq(File \cup {ShutdownTask}) /\ ShutdownTask \in File \cup {ShutdownTask}
  BY DEF TypeOK
<1>3. high' \in Seq(File \cup {ShutdownTask}) /\ Elements(high') = Elements(high) \cup {ShutdownTask}
  BY <1>1, <1>2, AppendElements
<1>4. TypeOK' /\ Places' /\ Results' /\ Tasks' /\ Accounts'
  BY <1>1, <1>3, AccountsKept DEF TypeOK, Places, Touched, Results, Tasks, Writing
<1>5. Resumes'
  <2>1. /\ DOMAIN high = 1 .. Len(high) /\ DOMAIN high' = 1 .. Len(high) + 1 /\ Len(high) \in Nat
        /\ high'[Len(high) + 1] = ShutdownTask
        /\ \A i \in 1 .. Len(high) : high'[i] = high[i]
    BY <1>1, <1>2, AppendAt
  <2>2. \A i, j \in DOMAIN high' : high'[i] = high'[j] /\ high'[i] # ShutdownTask => i = j
    BY <2>1 DEF Resumes
  <2> QED BY <1>1, <1>3, <2>2 DEF Resumes
<1> QED BY <1>4, <1>5

LEMMA KernelIInv ==
  ASSUME IInv, Kernel
  PROVE  IInv'
<1> USE DEF IInv
<1>1. PICK p \in ring.flight, res \in Int :
        /\ ring' = Complete(ring, p, res)
        /\ res = Error \/ res \in 1 .. BuffSize
  BY WriteAssumption DEF Kernel, Error
<1>2. UNCHANGED <<medium, high, exec, co, size, size_written, total, reaper, freed>>
  BY DEF Kernel, Reaping
<1>3. /\ ring' \in Rings(Page) /\ OnePlace(ring') /\ Requests(ring') = Requests(ring)
      /\ Elements(ring'.cq) = Elements(ring.cq) \cup {[req |-> p, res |-> res]}
  BY <1>1, CompleteFacts DEF TypeOK, Places
<1>4. TypeOK' /\ Places'
  BY <1>2, <1>3 DEF TypeOK, Places, Touched
<1>5. Results'
  BY <1>1, <1>3 DEF Results
<1>6. Tasks' /\ Accounts' /\ Resumes'
  BY <1>2, AccountsKept DEF Tasks, Writing, Resumes
<1> QED BY <1>4, <1>5, <1>6

LEMMA NextIInv == IInv /\ [Next]_vars => IInv'
<1> SUFFICES ASSUME IInv, [Next]_vars PROVE IInv'
  OBVIOUS
<1>1. CASE \E f \in File : AddWriteTask(f)
  BY <1>1, AddWriteTaskIInv
<1>2. CASE Execute
  BY <1>2, StartWriteIInv, QueuePageIInv, SubmitFileIInv, SuspendIInv, RunHighIInv DEF Execute
<1>3. CASE Reap \/ Kernel \/ StartShutdown
  BY <1>3, ReapIInv, KernelIInv, StartShutdownIInv
<1>4. CASE Exit \/ UNCHANGED vars
  <2>1. UNCHANGED <<ring, medium, high, exec, co, size, size_written, total, reaper, freed>>
    BY <1>4 DEF Exit, Reaping, vars
  <2> QED BY <2>1, AccountsKept
          DEF IInv, TypeOK, Places, Touched, Results, Tasks, Writing, Resumes
<1> QED BY <1>1, <1>2, <1>3, <1>4 DEF Next, Ended, Quiet

\* The pages, the tasks and the accounts of the pipeline stay consistent.
THEOREM PipelineInductive == Spec => []IInv
  BY InitIInv, NextIInv, PTL DEF Spec

----------------------------------------------------------------------------
\* Whole pages that make up so many units are so many pages.
LEMMA UnitsToPages ==
  ASSUME NEW a \in Nat, NEW b \in Nat, BuffSize * a >= BuffSize * b
  PROVE  a >= b
<1> SUFFICES ASSUME a < b PROVE FALSE
  OBVIOUS
<1>1. b - a \in Nat /\ b - a >= 1
  OBVIOUS
<1>2. BuffSize * (b - a) >= BuffSize
  BY <1>1, WriteAssumption
<1>3. BuffSize * b = BuffSize * a + BuffSize * (b - a)
  BY WriteAssumption
<1> QED BY <1>2, <1>3, WriteAssumption

\* If all that the files should hold was written, every page was, in full.
LEMMA AllWrittenFacts ==
  ASSUME IInv, total >= Cardinality(File) * FileSize
  PROVE  freed = Page /\ \A f \in File : size_written[f] = FileSize
<1>1. Cardinality(File) \in Nat
  BY WriteAssumption, FS_CardinalityType
<1> DEFINE n == Cardinality(File) * Pages
<1>2. n \in Nat /\ Cardinality(File) * FileSize = BuffSize * n
  BY <1>1, WriteAssumption DEF FileSize
<1>3. Cardinality(freed) \in Nat /\ Cardinality(freed) <= n
  BY FreedCount DEF IInv
<1> HIDE DEF n
<1>4. BuffSize * Cardinality(freed) >= BuffSize * n
  BY <1>2, <1>3, WriteAssumption DEF IInv, TypeOK, Accounts, ShortTotal
<1>5. Cardinality(freed) = n
  BY <1>2, <1>3, <1>4, UnitsToPages
<1>6. freed = Page
  BY <1>5, PageCount, FS_Subset DEF IInv, TypeOK, n
<1>7. ASSUME NEW f \in File PROVE size_written[f] = FileSize
  <2>1. ShortTotal <= 0
    BY <1>2, <1>5, WriteAssumption DEF IInv, TypeOK, ShortTotal
  <2>2. FreedOf(f) = FilePages(f)
    BY <1>6 DEF FreedOf, FilePages, Page
  <2>3. Short(f) = FileSize - size_written[f]
    BY <2>2, PageCount, WriteAssumption DEF Short, FileSize
  <2>4. ShortTotal \in Int /\ Short(f) \in Int /\ size_written[f] \in Nat /\ FileSize \in Nat
    BY <1>3, <2>3, WriteAssumption DEF IInv, TypeOK, ShortTotal, FileSize
  <2> QED BY <2>1, <2>3, <2>4 DEF IInv, Accounts
<1> QED BY <1>6, <1>7

\* A page's buffer is freed only after the kernel is done with it, and the reaper
\* ends only when every page was written in full and freed.
THEOREM BuffersAlwaysSafe == Spec => []BuffersSafe
<1>1. ASSUME IInv PROVE BuffersSafe
  <2>1. \A p : InRing(p) <=> p \in Requests(ring)
    BY DEF InRing, Requests, Prepared, Completed, Elements
  <2>2. \A p \in freed : ~InRing(p)
    BY <1>1, <2>1 DEF IInv, Places
  <2> QED BY <1>1, <2>2, AllWrittenFacts DEF BuffersSafe, IInv, Accounts
<1> QED BY <1>1, PipelineInductive, PTL

\* A coroutine is resumed once, while it is suspended, whatever file_info->size
\* holds, and with the file's size there not before its pages are reaped.
THEOREM ResumesAlwaysSafe == Spec => []ResumeSafe
<1>1. ASSUME IInv PROVE ResumeSafe
  <2>1. ASSUME NEW i \in DOMAIN high, high[i] # ShutdownTask
        PROVE  /\ exec = Idle => co[high[i]] = "suspended"
               /\ \A j \in DOMAIN high : high[j] = high[i] => j = i
    <3>1. high[i] \in Elements(high) /\ high[i] \in File
      BY <1>1, <2>1 DEF Elements, IInv, TypeOK
    <3> QED BY <1>1, <2>1, <3>1, ExecType DEF IInv, Resumes, Tasks
  <2>2. ASSUME NEW f \in File, co[f] = "done", size[f] = FileSize
        PROVE  {f} \X (0 .. Pages - 1) \subseteq freed
    <3>1. Cardinality(FreedOf(f)) \in Nat /\ Cardinality(FreedOf(f)) <= Pages
      BY <1>1, FreedCount DEF IInv
    <3>2. size_written[f] >= FileSize /\ size_written[f] \in Nat
      BY <1>1, <2>2 DEF IInv, Resumes, TypeOK
    <3>3. BuffSize * Cardinality(FreedOf(f)) >= BuffSize * Pages
      BY <1>1, <3>1, <3>2, WriteAssumption DEF IInv, Accounts, Short, FileSize
    <3>4. Cardinality(FreedOf(f)) = Pages
      BY <3>1, <3>3, UnitsToPages, WriteAssumption
    <3>5. FreedOf(f) \in SUBSET FilePages(f)
      BY DEF FreedOf
    <3>6. FreedOf(f) = FilePages(f)
      BY <3>4, <3>5, PageCount, FS_Subset
    <3> QED BY <3>6 DEF FreedOf, FilePages
  <2> QED BY <2>1, <2>2 DEF ResumeSafe
<1> QED BY <1>1, PipelineInductive, PTL
=============================================================================
