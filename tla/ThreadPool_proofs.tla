-------------------------- MODULE ThreadPool_proofs --------------------------
(***************************************************************************)
(* jobs_left is right and WaitAll does not return early, for every number  *)
(* of workers, callers and jobs.                                           *)
(*                                                                         *)
(* WaitAllDrains speaks of jobs, jobs_left is a number: PoolInv ties the   *)
(* two.  Every job submitted is executed, queued or in the hand of a       *)
(* worker (JobsAccounted), and jobs_left is the size of the last two       *)
(* (JobsLeftCounts), so when it is read as 0 only the first is left.       *)
(***************************************************************************)
EXTENDS ThreadPool, SequenceTheorems, FiniteSetTheorems, TLAPS

JobsAccounted ==
    \A j \in added :
        \/ j \in ran
        \/ \E i \in 1..Len(queue) : queue[i] = j
        \/ \E w \in Worker : pc[w] = "run" /\ job[w] = j

SeenWasAdded == \A c \in Caller : seen[c] \subseteq added

PoolInv == TypeOK /\ JobsLeftCounts /\ JobsAccounted /\ SeenWasAdded

-----------------------------------------------------------------------------

\* notify_one moves at most one thread, from "waiting" to "lock".
LEMMA WorkersNotified ==
    ASSUME TypeOK, pc' \in Notified(pc)
    PROVE  /\ pc' \in [Worker -> WorkerPC]
           /\ \A w \in Worker :
                 pc'[w] = pc[w] \/ (pc[w] = "waiting" /\ pc'[w] = "lock")
BY DEF TypeOK, WorkerPC, Notified

LEMMA CallersNotified ==
    ASSUME TypeOK, cpc' \in Notified(cpc)
    PROVE  /\ cpc' \in [Caller -> CallerPC]
           /\ \A c \in Caller :
                 cpc'[c] = cpc[c] \/ (cpc[c] = "waiting" /\ cpc'[c] = "lock")
BY DEF TypeOK, CallerPC, Notified

\* The initial state satisfies the invariant.
LEMMA PoolInit == ThreadPoolAssumption /\ Init => PoolInv
<1> SUFFICES ASSUME ThreadPoolAssumption, Init PROVE PoolInv
  OBVIOUS
<1>1. TypeOK
  <2>1. queue \in Seq(Jobs)
    BY DEF Init
  <2>2. /\ pc \in [Worker -> WorkerPC] /\ job \in [Worker -> Jobs \cup {Injected}]
        /\ cpc \in [Caller -> CallerPC] /\ seen \in [Caller -> SUBSET Jobs]
    BY DEF Init, WorkerPC, CallerPC
  <2>3. jobsLeft \in Int
    BY DEF Init
  <2>4. /\ bailout \in BOOLEAN /\ joining \in BOOLEAN
        /\ added \in SUBSET Jobs /\ ran \in SUBSET Jobs
    BY DEF Init
  <2> QED  BY <2>1, <2>2, <2>3, <2>4 DEF TypeOK
<1>2. Taken = {}
  BY DEF Init, Taken
<1>3. JobsLeftCounts
  BY <1>2, FS_EmptySet DEF Init, JobsLeftCounts
<1>4. JobsAccounted /\ SeenWasAdded
  BY DEF Init, JobsAccounted, SeenWasAdded
<1> QED  BY <1>1, <1>3, <1>4 DEF PoolInv

\* Every step keeps the types.
LEMMA PoolTypes == ThreadPoolAssumption /\ TypeOK /\ [Next]_vars => TypeOK'
<1> SUFFICES ASSUME ThreadPoolAssumption, TypeOK, [Next]_vars PROVE TypeOK'
  OBVIOUS
<1> USE DEF WorkerPC, CallerPC
<1>1. ASSUME NEW w \in Worker, WorkerStep(w) PROVE TypeOK'
  <2>1. CASE Loop(w)
    BY <2>1 DEF TypeOK, Loop
  <2>2. CASE FindNoJob(w)
    BY <2>2 DEF TypeOK, FindNoJob
  <2>3. CASE WaitForJob(w)
    BY <2>3 DEF TypeOK, WaitForJob
  <2>4. CASE NextJob(w)
    <3>1. CASE TakeJob(w)
      <4>1. Head(queue) \in Jobs /\ Tail(queue) \in Seq(Jobs)
        BY <3>1, HeadTailProperties DEF TypeOK, TakeJob
      <4> QED  BY <2>4, <3>1, <4>1 DEF TypeOK, NextJob, TakeJob
    <3>2. CASE InjectJob(w)
      BY <2>4, <3>2 DEF TypeOK, NextJob, InjectJob
    <3> QED  BY <2>4, <3>1, <3>2 DEF NextJob
  <2>5. CASE Run(w)
    BY <2>5 DEF TypeOK, Run
  <2>6. CASE Count(w)
    BY <2>6 DEF TypeOK, Count
  <2>7. CASE Notify(w)
    <3>1. cpc' \in [Caller -> CallerPC]
      BY <2>7, CallersNotified DEF Notify
    <3> QED  BY <2>7, <3>1 DEF TypeOK, Notify
  <2> QED  BY <1>1, <2>1, <2>2, <2>3, <2>4, <2>5, <2>6, <2>7 DEF WorkerStep
<1>2. ASSUME NEW c \in Caller, CallerStep(c) PROVE TypeOK'
  <2>1. CASE Check(c)
    BY <2>1 DEF TypeOK, Check, Returned
  <2>2. CASE TestDrained(c)
    BY <2>2 DEF TypeOK, TestDrained, Returned
  <2>3. CASE Block(c)
    BY <2>3 DEF TypeOK, Block
  <2>4. CASE BailOut
    BY <2>4 DEF TypeOK, BailOut
  <2>5. CASE WakeAll
    BY <2>5 DEF TypeOK, WakeAll, NotifiedAll
  <2>6. CASE Join
    BY <2>6 DEF TypeOK, Join
  <2> QED  BY <1>2, <2>1, <2>2, <2>3, <2>4, <2>5, <2>6 DEF CallerStep
<1>3. ASSUME NEW c \in Caller, NEW j \in Jobs, AddJob(c, j) PROVE TypeOK'
  <2>1. pc' \in [Worker -> WorkerPC]
    BY <1>3, WorkersNotified DEF AddJob
  <2>2. Append(queue, j) \in Seq(Jobs)
    BY AppendProperties DEF TypeOK
  <2> QED  BY <1>3, <2>1, <2>2 DEF TypeOK, AddJob
<1>4. ASSUME NEW c \in Caller, CallWaitAll(c) PROVE TypeOK'
  BY <1>4 DEF TypeOK, CallWaitAll
<1>5. ASSUME NEW b \in BOOLEAN, CallJoinAll(b) PROVE TypeOK'
  BY <1>5 DEF TypeOK, CallJoinAll
<1>6. CASE SpuriousWakeup
  BY <1>6 DEF TypeOK, SpuriousWakeup
<1>7. CASE UNCHANGED vars
  BY <1>7 DEF TypeOK, vars
<1> QED  BY <1>1, <1>2, <1>3, <1>4, <1>5, <1>6, <1>7 DEF Next, Call

-----------------------------------------------------------------------------

LEMMA TakenIsFinite ==
    ThreadPoolAssumption => IsFiniteSet(Taken) /\ Cardinality(Taken) \in Nat
BY FS_Subset, FS_CardinalityType DEF ThreadPoolAssumption, Taken

\* A step that moves no worker to or from a job, and no job, keeps the count
\* and the account.
LEMMA Undisturbed ==
    ASSUME PoolInv,
           UNCHANGED <<queue, jobsLeft, job, added, ran>>,
           \A w \in Worker :
              \/ pc'[w] = pc[w]
              \/ pc[w] \notin {"run", "count"} /\ pc'[w] \notin {"run", "count"}
    PROVE  JobsLeftCounts' /\ JobsAccounted'
<1>1. Taken' = Taken
  BY DEF Taken
<1>2. JobsLeftCounts'
  BY <1>1 DEF PoolInv, JobsLeftCounts
<1>3. JobsAccounted'
  BY DEF PoolInv, JobsAccounted
<1> QED  BY <1>2, <1>3

\* NextJob: a job leaves the queue, or is made up and counted, and is in the
\* worker's hand.
LEMMA NextJobKeepsBooks ==
    ASSUME ThreadPoolAssumption, PoolInv, NEW w \in Worker, NextJob(w)
    PROVE  JobsLeftCounts' /\ JobsAccounted'
<1>1. w \notin Taken /\ Taken' = Taken \cup {w}
  BY DEF PoolInv, TypeOK, NextJob, Taken
<1>2. Cardinality(Taken') = Cardinality(Taken) + 1 /\ Cardinality(Taken) \in Nat
  BY <1>1, TakenIsFinite, FS_AddElement
<1>3. queue \in Seq(Jobs) /\ Len(queue) \in Nat /\ jobsLeft \in Int
  BY LenProperties DEF PoolInv, TypeOK
<1>4. CASE TakeJob(w)
  <2>1. /\ Len(queue') = Len(queue) - 1
        /\ \A i \in 1..Len(queue') : queue'[i] = queue[i + 1]
    BY <1>3, <1>4, HeadTailProperties DEF TakeJob
  <2>2. JobsLeftCounts'
    BY <1>2, <1>3, <1>4, <2>1 DEF PoolInv, JobsLeftCounts, TakeJob
  <2>3. ASSUME NEW j \in added'
        PROVE  \/ j \in ran'
               \/ \E i \in 1..Len(queue') : queue'[i] = j
               \/ \E v \in Worker : pc'[v] = "run" /\ job'[v] = j
    <3>1. pc'[w] = "run" /\ job'[w] = queue[1]
      BY <1>4 DEF PoolInv, TypeOK, NextJob, TakeJob
    <3>2. CASE j \in ran
      BY <3>2 DEF NextJob
    <3>3. ASSUME NEW i \in 1..Len(queue), queue[i] = j
          PROVE  \/ \E k \in 1..Len(queue') : queue'[k] = j
                 \/ \E v \in Worker : pc'[v] = "run" /\ job'[v] = j
      <4>1. CASE i = 1
        BY <3>1, <3>3, <4>1
      <4>2. CASE i # 1
        <5>1. i - 1 \in 1..Len(queue') /\ queue'[i - 1] = queue[i]
          BY <1>3, <2>1, <4>2
        <5> QED  BY <3>3, <5>1
      <4> QED  BY <4>1, <4>2
    <3>4. ASSUME NEW v \in Worker, pc[v] = "run", job[v] = j
          PROVE  pc'[v] = "run" /\ job'[v] = j
      BY <1>4, <3>4 DEF PoolInv, TypeOK, NextJob, TakeJob
    <3> QED  BY <3>2, <3>3, <3>4 DEF PoolInv, JobsAccounted, NextJob
  <2> QED  BY <2>2, <2>3 DEF JobsAccounted
<1>5. CASE InjectJob(w)
  <2>1. JobsLeftCounts'
    BY <1>2, <1>3, <1>5 DEF PoolInv, JobsLeftCounts, InjectJob
  <2>2. \A v \in Worker : pc[v] = "run" => pc'[v] = "run" /\ job'[v] = job[v]
    BY <1>5 DEF PoolInv, TypeOK, NextJob, InjectJob
  <2>3. JobsAccounted'
    BY <1>5, <2>2 DEF PoolInv, JobsAccounted, NextJob, InjectJob
  <2> QED  BY <2>1, <2>3
<1> QED  BY <1>4, <1>5 DEF NextJob

\* Run: the job in hand becomes a job executed, still counted.
LEMMA RunKeepsBooks ==
    ASSUME ThreadPoolAssumption, PoolInv, NEW w \in Worker, Run(w)
    PROVE  JobsLeftCounts' /\ JobsAccounted'
<1>1. Taken' = Taken
  BY DEF PoolInv, TypeOK, Run, Taken
<1>2. JobsLeftCounts'
  BY <1>1 DEF PoolInv, JobsLeftCounts, Run
<1>3. ASSUME NEW j \in added, NEW v \in Worker, pc[v] = "run", job[v] = j
      PROVE  j \in ran' \/ (pc'[v] = "run" /\ job'[v] = j)
  <2>1. j # Injected
    BY DEF ThreadPoolAssumption, PoolInv, TypeOK
  <2> QED  BY <1>3, <2>1 DEF PoolInv, TypeOK, Run
<1>4. JobsAccounted'
  BY <1>3 DEF PoolInv, JobsAccounted, Run
<1> QED  BY <1>2, <1>4

\* Count: the worker lets go of a job already executed.
LEMMA CountKeepsBooks ==
    ASSUME ThreadPoolAssumption, PoolInv, NEW w \in Worker, Count(w)
    PROVE  JobsLeftCounts' /\ JobsAccounted'
<1>1. w \in Taken /\ Taken' = Taken \ {w}
  BY DEF PoolInv, TypeOK, Count, Taken
<1>2. Cardinality(Taken') = Cardinality(Taken) - 1 /\ Cardinality(Taken) \in Nat
  BY <1>1, TakenIsFinite, FS_RemoveElement
<1>3. Len(queue) \in Nat /\ jobsLeft \in Int
  BY LenProperties DEF PoolInv, TypeOK
<1>4. JobsLeftCounts'
  BY <1>2, <1>3 DEF PoolInv, JobsLeftCounts, Count
<1>5. \A v \in Worker : pc[v] = "run" => pc'[v] = "run"
  BY DEF PoolInv, TypeOK, Count
<1>6. JobsAccounted'
  BY <1>5 DEF PoolInv, JobsAccounted, Count
<1> QED  BY <1>4, <1>6

\* AddJob: a job is queued and counted; the thread notified takes none yet.
LEMMA AddJobKeepsBooks ==
    ASSUME ThreadPoolAssumption, PoolInv,
           NEW c \in Caller, NEW j \in Jobs, AddJob(c, j)
    PROVE  JobsLeftCounts' /\ JobsAccounted'
<1>1. \A w \in Worker : pc'[w] = pc[w] \/ (pc[w] = "waiting" /\ pc'[w] = "lock")
  BY WorkersNotified DEF PoolInv, AddJob
<1>2. Taken' = Taken
  BY <1>1 DEF Taken
<1>3. Cardinality(Taken) \in Nat /\ Len(queue) \in Nat /\ jobsLeft \in Int
  BY TakenIsFinite, LenProperties DEF PoolInv, TypeOK
<1>4. /\ Len(queue') = Len(queue) + 1
      /\ \A i \in 1..Len(queue) : queue'[i] = queue[i]
      /\ queue'[Len(queue) + 1] = j
  BY AppendProperties DEF PoolInv, TypeOK, AddJob
<1>5. JobsLeftCounts'
  BY <1>2, <1>3, <1>4 DEF PoolInv, JobsLeftCounts, AddJob
<1>6. \E i \in 1..Len(queue') : queue'[i] = j
  BY <1>3, <1>4
<1>7. \A i \in 1..Len(queue) : i \in 1..Len(queue') /\ queue'[i] = queue[i]
  BY <1>3, <1>4
<1>8. \A w \in Worker : pc[w] = "run" => pc'[w] = "run"
  BY <1>1
<1>9. ASSUME NEW k \in added'
      PROVE  \/ k \in ran'
             \/ \E i \in 1..Len(queue') : queue'[i] = k
             \/ \E w \in Worker : pc'[w] = "run" /\ job'[w] = k
  <2>1. CASE k = j
    BY <1>6, <2>1
  <2>2. CASE k \in added
    BY <1>7, <1>8, <2>2 DEF PoolInv, JobsAccounted, AddJob
  <2> QED  BY <2>1, <2>2 DEF AddJob
<1> QED  BY <1>5, <1>9 DEF JobsAccounted

\* What a call saw was submitted, and stays submitted.
LEMMA SeenStaysAdded ==
    ASSUME PoolInv, TypeOK', [Next]_vars PROVE SeenWasAdded'
<1>1. CASE \E c \in Caller : CallWaitAll(c)
  BY <1>1 DEF PoolInv, TypeOK, SeenWasAdded, CallWaitAll
<1>2. CASE \E b \in BOOLEAN : CallJoinAll(b)
  BY <1>2 DEF PoolInv, TypeOK, SeenWasAdded, CallJoinAll
<1>3. CASE \E c \in Caller : \E j \in Jobs : AddJob(c, j)
  BY <1>3 DEF PoolInv, SeenWasAdded, AddJob
<1>4. CASE UNCHANGED <<added, seen>>
  BY <1>4 DEF PoolInv, SeenWasAdded
<1>5. CASE \E w \in Worker : WorkerStep(w)
  BY <1>4, <1>5 DEF WorkerStep, Loop, FindNoJob, WaitForJob, NextJob, Run, Count, Notify
<1>6. CASE \E c \in Caller : CallerStep(c)
  BY <1>4, <1>6 DEF CallerStep, Check, TestDrained, Block, BailOut, WakeAll, Join
<1>7. CASE SpuriousWakeup
  BY <1>4, <1>7 DEF SpuriousWakeup
<1>8. CASE UNCHANGED vars
  BY <1>4, <1>8 DEF vars
<1> QED  BY <1>1, <1>2, <1>3, <1>5, <1>6, <1>7, <1>8 DEF Next, Call

-----------------------------------------------------------------------------

\* Every step keeps the invariant.
LEMMA PoolStep == ThreadPoolAssumption /\ PoolInv /\ [Next]_vars => PoolInv'
<1> SUFFICES ASSUME ThreadPoolAssumption, PoolInv, [Next]_vars PROVE PoolInv'
  OBVIOUS
<1> DEFINE Books == JobsLeftCounts' /\ JobsAccounted'
<1>1. TypeOK'
  BY PoolTypes DEF PoolInv
<1>2. SeenWasAdded'
  BY <1>1, SeenStaysAdded
<1>3. pc \in [Worker -> WorkerPC]
  BY DEF PoolInv, TypeOK
<1>4. ASSUME NEW w \in Worker, WorkerStep(w) PROVE Books
  <2>1. CASE Loop(w)
    BY <1>3, <2>1, Undisturbed DEF Loop
  <2>2. CASE FindNoJob(w)
    BY <1>3, <2>2, Undisturbed DEF FindNoJob
  <2>3. CASE WaitForJob(w)
    BY <1>3, <2>3, Undisturbed DEF WaitForJob
  <2>4. CASE Notify(w)
    BY <1>3, <2>4, Undisturbed DEF Notify
  <2> QED  BY <1>4, <2>1, <2>2, <2>3, <2>4, NextJobKeepsBooks, RunKeepsBooks,
              CountKeepsBooks DEF WorkerStep
<1>5. ASSUME NEW c \in Caller, CallerStep(c) PROVE Books
  <2>1. CASE Check(c) \/ TestDrained(c) \/ Block(c) \/ BailOut \/ Join
    BY <2>1, Undisturbed DEF Check, TestDrained, Block, BailOut, Join
  <2>2. CASE WakeAll
    <3>1. \A w \in Worker : pc'[w] = pc[w] \/ (pc[w] = "waiting" /\ pc'[w] = "lock")
      BY <1>3, <2>2 DEF WakeAll, NotifiedAll
    <3> QED  BY <2>2, <3>1, Undisturbed DEF WakeAll
  <2> QED  BY <1>5, <2>1, <2>2 DEF CallerStep
<1>6. ASSUME NEW c \in Caller, CallWaitAll(c) PROVE Books
  BY <1>6, Undisturbed DEF CallWaitAll
<1>7. ASSUME NEW b \in BOOLEAN, CallJoinAll(b) PROVE Books
  BY <1>7, Undisturbed DEF CallJoinAll
<1>8. ASSUME SpuriousWakeup PROVE Books
  BY <1>3, <1>8, Undisturbed DEF SpuriousWakeup
<1>9. ASSUME UNCHANGED vars PROVE Books
  BY <1>9, Undisturbed DEF vars
<1>10. Books
  BY <1>4, <1>5, <1>6, <1>7, <1>8, <1>9, AddJobKeepsBooks DEF Next, Call
<1> QED  BY <1>1, <1>2, <1>10 DEF PoolInv

\* When jobs_left is read as 0, nothing that was submitted is left to do.
LEMMA DrainedMeansRan ==
    ThreadPoolAssumption /\ PoolInv /\ Drained => added \subseteq ran
<1> SUFFICES ASSUME ThreadPoolAssumption, PoolInv, Drained
             PROVE  added \subseteq ran
  OBVIOUS
<1>1. Len(queue) \in Nat /\ Cardinality(Taken) \in Nat
  BY TakenIsFinite, LenProperties DEF PoolInv, TypeOK
<1>2. Len(queue) = 0 /\ Cardinality(Taken) = 0
  BY <1>1 DEF PoolInv, JobsLeftCounts, Drained
<1>3. Taken = {}
  BY <1>2, TakenIsFinite, FS_EmptySet
<1>4. \A w \in Worker : pc[w] # "run"
  BY <1>3 DEF Taken
<1> QED  BY <1>2, <1>4 DEF PoolInv, JobsAccounted

\* Only the two tests of jobs_left end a wait.
LEMMA ReturnStep ==
    ASSUME ThreadPoolAssumption, PoolInv, Next, NEW c \in Caller,
           cpc[c] \in {"check", "lock"}, cpc'[c] \in {"idle", "bail"}
    PROVE  Drained
<1>0. cpc \in [Caller -> CallerPC]
  BY DEF PoolInv, TypeOK
<1>1. ASSUME NEW w \in Worker, WorkerStep(w) PROVE FALSE
  <2>1. CASE Notify(w)
    <3>1. cpc'[c] = cpc[c] \/ cpc'[c] = "lock"
      BY <2>1, CallersNotified DEF PoolInv, Notify
    <3> QED  BY <3>1
  <2> QED  BY <1>1, <2>1 DEF WorkerStep, Loop, FindNoJob, WaitForJob, NextJob, Run, Count
<1>2. ASSUME NEW d \in Caller, CallerStep(d) PROVE Drained
  <2>1. CASE Check(d) \/ TestDrained(d)
    BY <1>0, <2>1 DEF Check, TestDrained
  <2>2. CASE Block(d)
    BY <1>0, <2>2 DEF Block
  <2>3. CASE BailOut \/ WakeAll \/ Join
    BY <1>0, <2>3 DEF BailOut, WakeAll, Join
  <2> QED  BY <1>2, <2>1, <2>2, <2>3 DEF CallerStep
<1>3. ASSUME NEW d \in Caller, Call(d) PROVE FALSE
  BY <1>0, <1>3 DEF Call, AddJob, CallWaitAll
<1>4. ASSUME NEW b \in BOOLEAN, CallJoinAll(b) PROVE FALSE
  BY <1>4 DEF CallJoinAll
<1>5. CASE SpuriousWakeup
  BY <1>0, <1>5 DEF SpuriousWakeup
<1> QED  BY <1>1, <1>2, <1>3, <1>4, <1>5 DEF Next

-----------------------------------------------------------------------------

LEMMA PoolInvariant == ThreadPoolAssumption => (Spec => []PoolInv)
<1> SUFFICES ASSUME ThreadPoolAssumption PROVE Spec => []PoolInv
  OBVIOUS
<1>1. Init => PoolInv
  BY PoolInit
<1>2. PoolInv /\ [Next]_vars => PoolInv'
  BY PoolStep
<1> QED  BY <1>1, <1>2, PTL DEF Spec

\* The variables keep their types in every behaviour of the pool.
THEOREM PoolTypeCorrect == ThreadPoolAssumption => (Spec => []TypeOK)
<1>1. PoolInv => TypeOK
  BY DEF PoolInv
<1> QED  BY <1>1, PoolInvariant, PTL

\* jobs_left, changed by every thread without a common lock, always counts
\* the jobs queued and the jobs in hand.
THEOREM PoolJobsLeftCounts == ThreadPoolAssumption => (Spec => []JobsLeftCounts)
<1>1. PoolInv => JobsLeftCounts
  BY DEF PoolInv
<1> QED  BY <1>1, PoolInvariant, PTL

\* WaitAll never returns before every job submitted when it was called has
\* been executed.
THEOREM PoolWaitAllDrains == ThreadPoolAssumption => (Spec => WaitAllDrains)
<1> SUFFICES ASSUME ThreadPoolAssumption PROVE Spec => WaitAllDrains
  OBVIOUS
<1> DEFINE Return == \A c \in Caller :
               cpc[c] \in {"check", "lock"} /\ cpc'[c] \in {"idle", "bail"}
                  => seen[c] \subseteq ran
<1>1. PoolInv /\ [Next]_vars => [Return]_vars
  <2> SUFFICES ASSUME PoolInv, Next PROVE Return
    OBVIOUS
  <2> SUFFICES ASSUME NEW c \in Caller, cpc[c] \in {"check", "lock"},
                      cpc'[c] \in {"idle", "bail"}
               PROVE  seen[c] \subseteq ran
    OBVIOUS
  <2>1. added \subseteq ran
    BY ReturnStep, DrainedMeansRan
  <2> QED  BY <2>1 DEF PoolInv, SeenWasAdded
<1>2. Spec => []PoolInv
  BY PoolInvariant
<1> QED  BY <1>1, <1>2, PTL DEF Spec, WaitAllDrains

=============================================================================
