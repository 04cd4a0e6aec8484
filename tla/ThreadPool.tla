----------------------------- MODULE ThreadPool -----------------------------
(***************************************************************************)
(* util::ThreadPool (util/threadpool.h), the pool on which the market data *)
(* provider (cerebro/mdlink.cpp) fetches quotes.  Callers submit jobs and  *)
(* wait for the pool to drain; the owner joins the pool when nobody else   *)
(* uses it any more, as a destructor must.                                 *)
(*                                                                         *)
(* A condition variable's wait is three steps: the predicate is found      *)
(* false under the mutex ("blocking"), the thread joins the wait set and   *)
(* releases the mutex ("waiting"), and after a notification it takes the   *)
(* mutex and looks again ("lock").  A notification wakes threads that are  *)
(* "waiting" and no others.  AddJob notifies under queue_mutex; the        *)
(* worker's --jobs_left and JoinAll's bailout take no mutex at all.        *)
(***************************************************************************)
EXTENDS Integers, Sequences, FiniteSets

CONSTANTS Worker,    \* the pool's threads
          Caller,    \* the threads that use the pool
          Owner,     \* the caller that calls JoinAll
          Jobs,      \* the jobs ever submitted, which bounds AddJob
          Injected   \* the empty job next_job makes up while bailing out

ASSUME ThreadPoolAssumption ==
    /\ IsFiniteSet(Worker)
    /\ Owner \in Caller
    /\ Injected \notin Jobs

VARIABLES queue, jobsLeft, bailout,
          pc,        \* where each worker is in Task() and next_job()
          job,       \* the job each worker took last
          cpc,       \* where each caller is in WaitAll() and JoinAll()
          joining,   \* the owner is in JoinAll(), or has left it
          added,     \* history: jobs submitted so far
          seen,      \* history: jobs submitted before a caller's WaitAll
          ran        \* history: jobs executed

vars == <<queue, jobsLeft, bailout, pc, job, cpc, joining, added, seen, ran>>

WorkerPC == {"loop", "lock", "blocking", "waiting", "run", "count", "notify", "done"}
CallerPC == {"idle", "check", "lock", "blocking", "waiting",
             "bail", "wake", "join", "done"}

QueueMutexFree == \A w \in Worker : pc[w] # "blocking"
WaitMutexFree == \A c \in Caller : cpc[c] # "blocking"

\* The functions that notify_one may turn p into: one thread of the wait set,
\* whichever the implementation picks, is on its way to the mutex.
NobodyNotified(p) == {p}
Notified(p) ==
    LET waiting == {t \in DOMAIN p : p[t] = "waiting"}
    IN  IF waiting = {} THEN {p} ELSE {[p EXCEPT ![t] = "lock"] : t \in waiting}

\* The functions that notify_all turns p into.
NotifiedAll(p) == [t \in DOMAIN p |-> IF p[t] = "waiting" THEN "lock" ELSE p[t]]

Init ==
    /\ queue = <<>>
    /\ jobsLeft = 0
    /\ bailout = FALSE
    /\ pc = [w \in Worker |-> "loop"]
    /\ job = [w \in Worker |-> Injected]
    /\ cpc = [c \in Caller |-> "idle"]
    /\ joining = FALSE
    /\ added = {}
    /\ seen = [c \in Caller |-> {}]
    /\ ran = {}

-----------------------------------------------------------------------------
(* The worker: Task() and next_job().                                      *)

\* while( !bailout )
Loop(w) ==
    /\ pc[w] = "loop"
    /\ pc' = [pc EXCEPT ![w] = IF bailout THEN "done" ELSE "lock"]
    /\ UNCHANGED <<queue, jobsLeft, bailout, job, cpc, joining, added, seen, ran>>

\* The predicate is false: the worker holds queue_mutex and is about to wait.
FindNoJob(w) ==
    /\ pc[w] = "lock"
    /\ QueueMutexFree
    /\ queue = <<>> /\ ~bailout
    /\ pc' = [pc EXCEPT ![w] = "blocking"]
    /\ UNCHANGED <<queue, jobsLeft, bailout, job, cpc, joining, added, seen, ran>>

WaitForJob(w) ==
    /\ pc[w] = "blocking"
    /\ pc' = [pc EXCEPT ![w] = "waiting"]
    /\ UNCHANGED <<queue, jobsLeft, bailout, job, cpc, joining, added, seen, ran>>

\* The front of the queue.
TakeJob(w) ==
    /\ ~bailout /\ queue # <<>>
    /\ job' = [job EXCEPT ![w] = Head(queue)]
    /\ queue' = Tail(queue)
    /\ UNCHANGED jobsLeft

\* A bailing worker leaves the queue alone and makes up a job, which it
\* counts.
InjectJobQueued(w) ==
    /\ bailout
    /\ job' = [job EXCEPT ![w] = Injected]
    /\ queue' = Append(queue, Injected)
    /\ jobsLeft' = jobsLeft + 1
InjectJobUncounted(w) ==
    /\ bailout
    /\ job' = [job EXCEPT ![w] = Injected]
    /\ UNCHANGED <<queue, jobsLeft>>
InjectJob(w) ==
    /\ bailout
    /\ job' = [job EXCEPT ![w] = Injected]
    /\ jobsLeft' = jobsLeft + 1
    /\ UNCHANGED queue

NextJob(w) ==
    /\ pc[w] = "lock"
    /\ QueueMutexFree
    /\ TakeJob(w) \/ InjectJob(w)
    /\ pc' = [pc EXCEPT ![w] = "run"]
    /\ UNCHANGED <<bailout, cpc, joining, added, seen, ran>>

Run(w) ==
    /\ pc[w] = "run"
    /\ ran' = ran \cup ({job[w]} \ {Injected})
    /\ pc' = [pc EXCEPT ![w] = "count"]
    /\ UNCHANGED <<queue, jobsLeft, bailout, job, cpc, joining, added, seen>>

\* --jobs_left, without wait_mutex
Count(w) ==
    /\ pc[w] = "count"
    /\ jobsLeft' = jobsLeft - 1
    /\ pc' = [pc EXCEPT ![w] = "notify"]
    /\ UNCHANGED <<queue, bailout, job, cpc, joining, added, seen, ran>>

\* wait_var.notify_one(), without wait_mutex
Notify(w) ==
    /\ pc[w] = "notify"
    /\ cpc' \in Notified(cpc)
    /\ pc' = [pc EXCEPT ![w] = "loop"]
    /\ UNCHANGED <<queue, jobsLeft, bailout, job, joining, added, seen, ran>>

-----------------------------------------------------------------------------
(* The callers: AddJob, WaitAll, JoinAll.                                  *)

\* emplace_back, ++jobs_left and notify_one in one critical section.
AddJob(c, j) ==
    /\ cpc[c] = "idle" /\ ~joining
    /\ j \notin added
    /\ QueueMutexFree
    /\ queue' = Append(queue, j)
    /\ jobsLeft' = jobsLeft + 1
    /\ pc' \in Notified(pc)
    /\ added' = added \cup {j}
    /\ UNCHANGED <<bailout, job, cpc, joining, seen, ran>>

CallWaitAll(c) ==
    /\ cpc[c] = "idle" /\ ~joining
    /\ cpc' = [cpc EXCEPT ![c] = "check"]
    /\ seen' = [seen EXCEPT ![c] = added]
    /\ UNCHANGED <<queue, jobsLeft, bailout, pc, job, joining, added, ran>>

\* JoinAll(WaitForAll), when no other caller is inside the pool.
CallJoinAll(WaitForAll) ==
    /\ ~joining
    /\ \A c \in Caller : cpc[c] = "idle"
    /\ joining' = TRUE
    /\ cpc' = [cpc EXCEPT ![Owner] = IF WaitForAll THEN "check" ELSE "bail"]
    /\ seen' = [seen EXCEPT ![Owner] = added]
    /\ UNCHANGED <<queue, jobsLeft, bailout, pc, job, added, ran>>

\* What WaitAll waits for.
QueueEmpty == queue = <<>>
Drained == jobsLeft = 0

\* WaitAll returns: JoinAll goes on, any other caller is done.
Returned(c) == IF joining THEN "bail" ELSE "idle"

\* if( jobs_left > 0 ), without a mutex
Check(c) ==
    /\ cpc[c] = "check"
    /\ cpc' = [cpc EXCEPT ![c] = IF Drained THEN Returned(c) ELSE "lock"]
    /\ UNCHANGED <<queue, jobsLeft, bailout, pc, job, joining, added, seen, ran>>

\* The predicate of wait_var.wait, under wait_mutex.
TestDrained(c) ==
    /\ cpc[c] = "lock"
    /\ WaitMutexFree
    /\ cpc' = [cpc EXCEPT ![c] = IF Drained THEN Returned(c) ELSE "blocking"]
    /\ UNCHANGED <<queue, jobsLeft, bailout, pc, job, joining, added, seen, ran>>

Block(c) ==
    /\ cpc[c] = "blocking"
    /\ cpc' = [cpc EXCEPT ![c] = "waiting"]
    /\ UNCHANGED <<queue, jobsLeft, bailout, pc, job, joining, added, seen, ran>>

\* bailout = true, without queue_mutex
BailOut ==
    /\ cpc[Owner] = "bail"
    /\ bailout' = TRUE
    /\ cpc' = [cpc EXCEPT ![Owner] = "wake"]
    /\ UNCHANGED <<queue, jobsLeft, pc, job, joining, added, seen, ran>>

WakeAll ==
    /\ cpc[Owner] = "wake"
    /\ pc' = NotifiedAll(pc)
    /\ cpc' = [cpc EXCEPT ![Owner] = "join"]
    /\ UNCHANGED <<queue, jobsLeft, bailout, job, joining, added, seen, ran>>

\* x.join() of every thread, then finished = true
Join ==
    /\ cpc[Owner] = "join"
    /\ \A w \in Worker : pc[w] = "done"
    /\ cpc' = [cpc EXCEPT ![Owner] = "done"]
    /\ UNCHANGED <<queue, jobsLeft, bailout, pc, job, joining, added, seen, ran>>

\* A wait may also end without a notification.
SpuriousWakeup ==
    /\ \/ /\ \E w \in Worker : pc[w] = "waiting" /\ pc' = [pc EXCEPT ![w] = "lock"]
          /\ UNCHANGED cpc
       \/ /\ \E c \in Caller : cpc[c] = "waiting" /\ cpc' = [cpc EXCEPT ![c] = "lock"]
          /\ UNCHANGED pc
    /\ UNCHANGED <<queue, jobsLeft, bailout, job, joining, added, seen, ran>>

-----------------------------------------------------------------------------

WorkerStep(w) ==
    \/ Loop(w) \/ FindNoJob(w) \/ WaitForJob(w) \/ NextJob(w)
    \/ Run(w) \/ Count(w) \/ Notify(w)

\* The steps of a call that was made.
CallerStep(c) ==
    \/ Check(c) \/ TestDrained(c) \/ Block(c)
    \/ c = Owner /\ (BailOut \/ WakeAll \/ Join)

Call(c) ==
    \/ \E j \in Jobs : AddJob(c, j)
    \/ CallWaitAll(c)

Next ==
    \/ \E w \in Worker : WorkerStep(w)
    \/ \E c \in Caller : CallerStep(c) \/ Call(c)
    \/ \E WaitForAll \in BOOLEAN : CallJoinAll(WaitForAll)
    \/ SpuriousWakeup

\* The scheduler runs every thread that can run.  Nobody has to call, and no
\* wait has to end spuriously.
Fairness ==
    /\ \A w \in Worker : WF_vars(WorkerStep(w))
    /\ \A c \in Caller : WF_vars(CallerStep(c))

Spec == Init /\ [][Next]_vars /\ Fairness

-----------------------------------------------------------------------------

\* The types of the variables.
TypeOK ==
    /\ queue \in Seq(Jobs)
    /\ jobsLeft \in Int
    /\ bailout \in BOOLEAN
    /\ pc \in [Worker -> WorkerPC]
    /\ job \in [Worker -> Jobs \cup {Injected}]
    /\ cpc \in [Caller -> CallerPC]
    /\ joining \in BOOLEAN
    /\ added \in SUBSET Jobs
    /\ seen \in [Caller -> SUBSET Jobs]
    /\ ran \in SUBSET Jobs

Taken == {w \in Worker : pc[w] \in {"run", "count"}}

\* jobs_left, which Task() decrements without a lock and next_job() corrects
\* with an injected job, counts the jobs queued and the jobs in hand.
JobsLeftCounts == jobsLeft = Len(queue) + Cardinality(Taken)

\* WaitAll (and the wait in JoinAll) returns only when every job that had
\* been submitted when it was called has been executed, although it tests
\* jobs_left and not the queue and may test it without a mutex.
WaitAllDrains ==
    [][\A c \in Caller :
         cpc[c] \in {"check", "lock"} /\ cpc'[c] \in {"idle", "bail"}
            => seen[c] \subseteq ran]_vars

\* No wakeup for a job is lost: AddJob notifies under queue_mutex, so a job
\* submitted is executed unless the pool is told to bail out.
EveryJobRuns == \A j \in Jobs : j \in added ~> (j \in ran \/ bailout)

\* A caller that waits for the pool to empty continues when it has.
WaitAllReturns ==
    \A c \in Caller : cpc[c] = "check" ~> cpc[c] \in {"idle", "bail"}

=============================================================================
