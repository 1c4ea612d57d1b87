---------------------------- MODULE Multiplexer ----------------------------
(***************************************************************************)
(* The job scheduler of sconex: Multiplexer, Job, JobThread and the Thread *)
(* and ConditionEvent they are built on, with the part of Kernel::run()    *)
(* that drives Multiplexer::spin() and Multiplexer::close().               *)
(*                                                                         *)
(* The main thread runs spin() in a loop: resize the pool, take in the new *)
(* jobs, prepare() every job, select(), hand every ready job to a pool     *)
(* thread (or run it on the spot when the pool has size 0), purge.  A pool *)
(* thread sleeps on its own condition until it is handed a job.  A job may *)
(* call back into the scheduler while it runs: Kernel::add_job,            *)
(* Kernel::end_job, Multiplexer::set_num_threads.                          *)
(*                                                                         *)
(* Names are those of the source without the m_ prefix.  m_job_mutex is    *)
(* the variable lock; a critical section in which nothing can block is one *)
(* action whose guard is Free.  A JobThread's own mutex needs no variable: *)
(* the thread holds it except while it sleeps in await_wakeup (MutexFree). *)
(* m_jobs, m_jobs_new and the two thread lists are sets: the order of the  *)
(* lists decides who is served first, which no property depends on.        *)
(***************************************************************************)
EXTENDS Naturals, FiniteSets

CONSTANTS
  Jobs,        \* Job objects; the bound on how many are ever created
  FdJobs,      \* DescriptorJobs; the others are PeriodicJobs (fd -1)
  Threads,     \* JobThread objects alive at once; the bound on the pool
  Main,        \* the main thread
  NoJob,       \* the null Job pointer
  NoProc,      \* nobody (an unlocked mutex, no thread picked)
  InitJobs,    \* jobs added by the configuration before the loop starts
  PoolSizes,   \* values set_num_threads may be called with
  EndCallers,  \* DescriptorJobs whose run() may call end_job
  Throwers,    \* jobs whose run() may throw
  CreateFails  \* TRUE iff pthread_create may fail

ASSUME ConstantsAssumption ==
  /\ FdJobs \subseteq Jobs
  /\ InitJobs \subseteq Jobs
  /\ PoolSizes \subseteq Nat
  /\ IsFiniteSet(Threads)
  /\ Main \notin Threads
  /\ NoJob \notin Jobs
  /\ NoProc \notin Threads \cup {Main}
  /\ CreateFails \in BOOLEAN

VARIABLES
  pc,            \* what each thread of control is about to do
  lock,          \* owner of m_job_mutex (recursive), or NoProc
  jobs,          \* m_jobs
  jobs_new,      \* m_jobs_new
  job_state,     \* Job::m_job_state, with "new" and "deleted" around it
  due,           \* PeriodicJobs whose m_timeout is not in the future
  threads_pool,  \* m_threads_pool
  threads_busy,  \* m_threads_busy
  num_threads,   \* m_num_threads
  job,           \* JobThread::m_job; for Main the job it runs in place
  exiting,       \* threads whose m_state is WaitingExit
  todo,          \* jobs spin() has not visited yet in its dispatch loop
  alloc,         \* the job allocate_job is working on
  pick,          \* the thread allocate_job took from the pool
  stopping,      \* threads the owner of lock is destroying
  job_waiters,   \* who sleeps on m_job_condition
  end_waiters,   \* who sleeps on m_end_condition
  target,        \* target[p]: argument of the end_job call p is in
  unheard,       \* history: the threads that were handed their job before
                 \* they listened for it, and have not looked at it since
  kernel         \* Kernel::m_state: "Run", "Stop" (Restart or Shutdown),
                 \* or "Close" once Kernel::run() calls close()

vars == <<pc, lock, jobs, jobs_new, job_state, due, threads_pool,
          threads_busy, num_threads, job, exiting, todo, alloc, pick,
          stopping, job_waiters, end_waiters, target, unheard, kernel>>

jobVars    == <<jobs, jobs_new, job_state, due>>
threadVars == <<threads_pool, threads_busy, num_threads, exiting, stopping>>
spinVars   == <<todo, alloc, pick>>
waitVars   == <<job_waiters, end_waiters>>
callVars   == <<job, target, unheard>>

Procs == Threads \cup {Main}

JobStates == {"new", "Wait", "Run", "Cycle", "Purge", "deleted"}

(* Inside a job's run(), possibly in a call it made to the scheduler. *)
CallPCs   == {"resize", "pool", "endwait", "purgewait"}
ThreadPCs == {"none", "starting", "failed", "await", "woken", "run",
              "finish", "tail", "exited"} \cup CallPCs
MainPCs   == {"check", "collect", "select", "dispatch", "alloc", "allocwait",
              "take", "give", "inline", "purge", "loop", "close",
              "closewait", "delete", "closed"} \cup CallPCs

Executing(p) == IF p = Main THEN job[Main] # NoJob
                            ELSE pc[p] \in {"run"} \cup CallPCs

-----------------------------------------------------------------------------
(* The mutexes and condition variables *)

Free(p)    == lock \in {NoProc, p}
Acquire(p) == Free(p) /\ lock' = p

(* Main still owns m_job_mutex once around the job it runs in place. *)
Release(p) == lock' = IF p = Main /\ job[Main] # NoJob THEN Main ELSE NoProc

(* ConditionEvent::signal() wakes one of the sleepers, if there is one. *)
Signal(W) == IF W = {} THEN {{}} ELSE {W \ {w} : w \in W}

(* m_mutex of a JobThread is held by its thread from await_wakeup's return
   until it sleeps again. *)
MutexFree(t) == pc[t] \in {"starting", "failed", "await", "woken"}

(* The thread has reached its first await_wakeup(). *)
Listens(t) == pc[t] \notin {"starting", "failed"}

(* Thread::m_state = Running *)
Running(t) == pc[t] \notin {"none", "starting", "failed"} /\ t \notin exiting

(* new JobThread, Thread::start(): pthread_create's failure is logged and
   otherwise ignored.  The wait for the thread to come up is only compiled
   under HAVE_PTHREAD_YIELD, which no build file of the repository defines: the
   call returns at once. *)
Created(S) == IF CreateFails THEN [S -> {"starting", "failed"}]
                             ELSE [S -> {"starting"}]

(* Where check_thread_pool returns to. *)
Back(p) == IF p # Main THEN "run"
           ELSE IF job[Main] # NoJob THEN "inline"
           ELSE IF kernel = "Close" THEN "delete"
           ELSE "collect"

Goto(p, l) == pc' = [pc EXCEPT ![p] = l]
At(p, l)   == pc[p] = l

-----------------------------------------------------------------------------
Init ==
  /\ pc = [p \in Procs |-> IF p = Main THEN "check" ELSE "none"]
  /\ lock = NoProc
  /\ jobs = {} /\ jobs_new = InitJobs
  /\ job_state = [j \in Jobs |-> IF j \in InitJobs THEN "Wait" ELSE "new"]
  /\ due = {}
  /\ threads_pool = {} /\ threads_busy = {}
  /\ num_threads \in PoolSizes
  /\ job = [p \in Procs |-> NoJob]
  /\ exiting = {} /\ stopping = {}
  /\ todo = {} /\ alloc = NoJob /\ pick = NoProc
  /\ job_waiters = {} /\ end_waiters = {}
  /\ target = [p \in Procs |-> NoJob] /\ unheard = {}
  /\ kernel = "Run"

-----------------------------------------------------------------------------
(* Multiplexer::check_thread_pool(), called by spin() ("check"), by
   set_num_threads() out of a job ("resize") and by close() ("resize"). *)

InCheck(p) == pc[p] \in {"check", "resize"}

NumThreadObjects == Cardinality(threads_pool) + Cardinality(threads_busy)

PoolAsIs(p) ==
  /\ InCheck(p) /\ Free(p)
  /\ num_threads = NumThreadObjects
  /\ Goto(p, Back(p))
  /\ UNCHANGED <<lock, jobVars, threadVars, spinVars, waitVars, callVars, kernel>>

PoolGrow(p) ==
  /\ InCheck(p) /\ Acquire(p)
  /\ num_threads > NumThreadObjects
  /\ \E S \in SUBSET {t \in Threads : pc[t] = "none"} :
       /\ Cardinality(S) = num_threads - NumThreadObjects
       /\ threads_pool' = threads_pool \cup S
       /\ \E born \in Created(S) :
            pc' = [q \in Procs |-> IF q = p THEN "pool"
                                   ELSE IF q \in S THEN born[q] ELSE pc[q]]
  /\ UNCHANGED <<jobVars, threads_busy, num_threads, exiting, stopping,
                 spinVars, waitVars, callVars, kernel>>

PoolShrink(p) ==
  /\ InCheck(p) /\ Acquire(p)
  /\ num_threads < NumThreadObjects
  /\ \E S \in SUBSET threads_pool :
       /\ \/ Cardinality(S) = NumThreadObjects - num_threads
          \/ S = threads_pool /\ Cardinality(S) < NumThreadObjects - num_threads
       /\ threads_pool' = threads_pool \ S
       /\ stopping' = S
  /\ Goto(p, "pool")
  /\ UNCHANGED <<jobVars, threads_busy, num_threads, exiting, spinVars,
                 waitVars, callVars, kernel>>

(* delete thread, Thread::stop(): a thread that is not Running yet is not
   waited for.  Its pthread, if it has one, outlives its Thread object; what it
   does to the freed object is undefined and left out. *)
StopUnstarted(p, t) ==
  /\ At(p, "pool") /\ lock = p /\ t \in stopping
  /\ pc[t] \in {"starting", "failed"}
  /\ Goto(t, "none")
  /\ stopping' = stopping \ {t}
  /\ UNCHANGED <<lock, jobVars, threads_pool, threads_busy, num_threads,
                 exiting, spinVars, waitVars, callVars, kernel>>

StopRunning(p, t) ==
  /\ At(p, "pool") /\ lock = p /\ t \in stopping
  /\ exiting = {} /\ Running(t) /\ MutexFree(t)
  /\ exiting' = {t}
  /\ Goto(t, "woken")
  /\ UNCHANGED <<lock, jobVars, threads_pool, threads_busy, num_threads,
                 stopping, spinVars, waitVars, callVars, kernel>>

Join(p, t) ==
  /\ At(p, "pool") /\ lock = p /\ t \in stopping
  /\ pc[t] = "exited"
  /\ Goto(t, "none")
  /\ exiting' = exiting \ {t} /\ stopping' = stopping \ {t}
  /\ UNCHANGED <<lock, jobVars, threads_pool, threads_busy, num_threads,
                 spinVars, waitVars, callVars, kernel>>

PoolDone(p) ==
  /\ At(p, "pool") /\ lock = p
  /\ stopping = {}
  /\ Release(p)
  /\ Goto(p, Back(p))
  /\ UNCHANGED <<jobVars, threadVars, spinVars, waitVars, callVars, kernel>>

CheckThreadPool(p) ==
  \/ PoolAsIs(p) \/ PoolGrow(p) \/ PoolShrink(p) \/ PoolDone(p)
  \/ \E t \in Threads : StopUnstarted(p, t) \/ StopRunning(p, t) \/ Join(p, t)

-----------------------------------------------------------------------------
(* Multiplexer::spin() on the main thread *)

(* Slip: prepare() without its "case Run: return false". *)
CollectRecyclesRunning ==
  /\ At(Main, "collect") /\ Free(Main)
  /\ LET all     == jobs \cup jobs_new
         waiting == {j \in all : job_state[j] \in {"Wait", "Cycle", "Run"}}
     IN /\ jobs' = all /\ jobs_new' = {}
        /\ job_state' = [j \in Jobs |-> IF j \in waiting /\ all # {}
                                        THEN "Wait" ELSE job_state[j]]
        /\ due' = due \ waiting
        /\ Goto(Main, IF all = {} THEN "close"
                      ELSE IF waiting \cap FdJobs = {} THEN "loop"
                      ELSE "select")
        /\ kernel' = IF all = {} THEN "Close" ELSE kernel
  /\ UNCHANGED <<lock, threadVars, spinVars, waitVars, callVars>>

(* Take in the new jobs and prepare() them all: a Cycle job becomes Wait, a
   PeriodicJob whose time has come is given its next period.  No jobs at all
   ends the loop; no waiting job with a descriptor ends this spin() before
   its select, dispatch and purge. *)
Collect ==
  /\ At(Main, "collect") /\ Free(Main)
  /\ LET all     == jobs \cup jobs_new
         waiting == {j \in all : job_state[j] \in {"Wait", "Cycle"}}
     IN /\ jobs' = all /\ jobs_new' = {}
        /\ job_state' = [j \in Jobs |-> IF j \in waiting /\ all # {}
                                        THEN "Wait" ELSE job_state[j]]
        /\ due' = due \ waiting
        /\ Goto(Main, IF all = {} THEN "close"
                      ELSE IF waiting \cap FdJobs = {} THEN "loop"
                      ELSE "select")
        /\ kernel' = IF all = {} THEN "Close" ELSE kernel
  /\ UNCHANGED <<lock, threadVars, spinVars, waitVars, callVars>>

(* select() is bounded by the latency, so it always returns. *)
SelectOk ==
  /\ At(Main, "select")
  /\ todo' = jobs
  /\ Goto(Main, "dispatch")
  /\ UNCHANGED <<lock, jobVars, threadVars, alloc, pick, waitVars, callVars, kernel>>

SelectError ==
  /\ At(Main, "select")
  /\ Goto(Main, "purge")
  /\ UNCHANGED <<lock, jobVars, threadVars, spinVars, waitVars, callVars, kernel>>

(* Slip: ready() without the test of m_job_state. *)
ReadyInAnyState(j) == j \in FdJobs \/ j \in due

(* DescriptorJob::ready and PeriodicJob::ready, read without m_job_mutex *)
Ready(j) == job_state[j] = "Wait" /\ (j \in FdJobs \/ j \in due)

Visit(j) ==
  /\ At(Main, "dispatch") /\ j \in todo
  /\ todo' = todo \ {j}
  /\ IF Ready(j) THEN alloc' = j /\ Goto(Main, "alloc")
                 ELSE UNCHANGED <<alloc, pc>>
  /\ UNCHANGED <<lock, jobVars, threadVars, pick, waitVars, callVars, kernel>>

DispatchDone ==
  /\ At(Main, "dispatch") /\ todo = {}
  /\ Goto(Main, "purge")
  /\ UNCHANGED <<lock, jobVars, threadVars, spinVars, waitVars, callVars, kernel>>

(* allocate_job *)
AllocInline ==
  /\ At(Main, "alloc") /\ num_threads = 0 /\ Acquire(Main)
  /\ job_state' = [job_state EXCEPT ![alloc] = "Run"]
  /\ job' = [job EXCEPT ![Main] = alloc]
  /\ alloc' = NoJob
  /\ Goto(Main, "inline")
  /\ UNCHANGED <<jobs, jobs_new, due, threadVars, todo, pick, waitVars, target, unheard, kernel>>

AllocTake ==
  /\ \/ At(Main, "alloc") /\ num_threads # 0
     \/ At(Main, "allocwait") /\ Main \notin job_waiters
  /\ threads_pool # {} /\ Acquire(Main)
  /\ Goto(Main, "take")
  /\ UNCHANGED <<jobVars, threadVars, spinVars, waitVars, callVars, kernel>>

AllocWait ==
  /\ \/ At(Main, "alloc") /\ num_threads # 0
     \/ At(Main, "allocwait") /\ Main \notin job_waiters
  /\ threads_pool = {} /\ Free(Main)
  /\ job_waiters' = job_waiters \cup {Main}
  /\ Goto(Main, "allocwait")
  /\ UNCHANGED <<lock, jobVars, threadVars, spinVars, end_waiters, callVars, kernel>>

(* The wait times out: another thread is added to the pool for good. *)
AllocTimeout ==
  /\ At(Main, "allocwait") /\ Main \in job_waiters /\ Acquire(Main)
  /\ job_waiters' = job_waiters \ {Main}
  /\ \E t \in Threads :
       /\ pc[t] = "none"
       /\ threads_pool' = threads_pool \cup {t}
       /\ \E born \in Created({t}) :
            pc' = [pc EXCEPT ![t] = born[t], ![Main] = "take"]
  /\ num_threads' = num_threads + 1
  /\ UNCHANGED <<jobVars, threads_busy, exiting, stopping, spinVars,
                 end_waiters, callVars, kernel>>

Take(t) ==
  /\ At(Main, "take")
  /\ t \in threads_pool
  /\ threads_pool' = threads_pool \ {t}
  /\ threads_busy' = threads_busy \cup {t}
  /\ pick' = t
  /\ Goto(Main, "give")
  /\ UNCHANGED <<lock, jobVars, num_threads, exiting, stopping, todo, alloc,
                 waitVars, callVars, kernel>>

(* Slip: allocate_job does not take the thread's mutex. *)
GiveUnlocked ==
  /\ At(Main, "give")
  /\ job' = [job EXCEPT ![pick] = alloc]
  /\ unheard' = IF Listens(pick) THEN unheard ELSE unheard \cup {pick}
  /\ job_state' = [job_state EXCEPT ![alloc] = "Run"]
  /\ pc' = [pc EXCEPT ![pick] = IF @ = "await" THEN "woken" ELSE @,
                      ![Main] = "dispatch"]
  /\ alloc' = NoJob /\ pick' = NoProc
  /\ lock' = NoProc
  /\ UNCHANGED <<jobs, jobs_new, due, threadVars, todo, waitVars, target, kernel>>

(* JobThread::allocate_job: the signal reaches a thread only if it sleeps. *)
Give ==
  /\ At(Main, "give") /\ MutexFree(pick)
  /\ job' = [job EXCEPT ![pick] = alloc]
  /\ unheard' = IF Listens(pick) THEN unheard ELSE unheard \cup {pick}
  /\ job_state' = [job_state EXCEPT ![alloc] = "Run"]
  /\ pc' = [pc EXCEPT ![pick] = IF @ = "await" THEN "woken" ELSE @,
                      ![Main] = "dispatch"]
  /\ alloc' = NoJob /\ pick' = NoProc
  /\ lock' = NoProc
  /\ UNCHANGED <<jobs, jobs_new, due, threadVars, todo, waitVars, target, kernel>>

Purge ==
  /\ At(Main, "purge") /\ Free(Main)
  /\ LET gone == {j \in jobs : job_state[j] = "Purge"}
     IN /\ jobs' = jobs \ gone
        /\ job_state' = [j \in Jobs |-> IF j \in gone THEN "deleted"
                                                      ELSE job_state[j]]
  /\ end_waiters' \in Signal(end_waiters)
  /\ Goto(Main, "loop")
  /\ UNCHANGED <<lock, jobs_new, due, threadVars, spinVars, job_waiters, callVars, kernel>>

(* Kernel::run() looks at the state between two spins. *)
Loop ==
  /\ At(Main, "loop")
  /\ Goto(Main, IF kernel = "Run" THEN "check" ELSE "close")
  /\ kernel' = IF kernel = "Run" THEN "Run" ELSE "Close"
  /\ UNCHANGED <<lock, jobVars, threadVars, spinVars, waitVars, callVars>>

(* Multiplexer::close() *)
CloseWait ==
  /\ \/ At(Main, "close")
     \/ At(Main, "closewait") /\ Main \notin job_waiters
  /\ Free(Main) /\ threads_busy # {}
  /\ job_waiters' = job_waiters \cup {Main}
  /\ Goto(Main, "closewait")
  /\ UNCHANGED <<lock, jobVars, threadVars, spinVars, end_waiters, callVars, kernel>>

(* Slip: close() does not wait for the busy threads. *)
CloseThreadsAtOnce ==
  /\ At(Main, "close") /\ Free(Main)
  /\ num_threads' = 0
  /\ Goto(Main, "resize")
  /\ UNCHANGED <<lock, jobs, jobs_new, job_state, due, threads_pool,
                 threads_busy, exiting, stopping, spinVars, waitVars, callVars,
                 kernel>>

CloseThreads ==
  /\ \/ At(Main, "close")
     \/ At(Main, "closewait") /\ Main \notin job_waiters
  /\ Free(Main) /\ threads_busy = {}
  /\ num_threads' = 0
  /\ Goto(Main, "resize")
  /\ UNCHANGED <<lock, jobVars, threads_pool, threads_busy, exiting, stopping,
                 spinVars, waitVars, callVars, kernel>>

CloseDelete ==
  /\ At(Main, "delete")
  /\ job_state' = [j \in Jobs |-> IF j \in jobs \cup jobs_new
                                  THEN "deleted" ELSE job_state[j]]
  /\ jobs' = {} /\ jobs_new' = {}
  /\ Goto(Main, "closed")
  /\ UNCHANGED <<lock, due, threadVars, spinVars, waitVars, callVars, kernel>>

MainStep ==
  \/ Collect \/ SelectOk \/ SelectError \/ DispatchDone
  \/ \E j \in Jobs : Visit(j)
  \/ AllocInline \/ AllocTake \/ AllocWait \/ AllocTimeout
  \/ \E t \in Threads : Take(t)
  \/ Give \/ Purge \/ Loop
  \/ CloseWait \/ CloseThreads \/ CloseDelete

-----------------------------------------------------------------------------
(* JobThread::run() and Thread::await_wakeup() *)

ThreadStart(t) ==
  /\ At(t, "starting")
  /\ Goto(t, "await")
  /\ UNCHANGED <<lock, jobVars, threadVars, spinVars, waitVars, callVars, kernel>>

(* pthread_cond_wait may return without a signal. *)
SpuriousWakeup(t) ==
  /\ At(t, "await")
  /\ Goto(t, "woken")
  /\ UNCHANGED <<lock, jobVars, threadVars, spinVars, waitVars, callVars, kernel>>

(* Job::run_job() sets the state to Run once more. *)
ThreadWake(t) ==
  /\ At(t, "woken")
  /\ Goto(t, IF t \in exiting THEN "exited"
             ELSE IF job[t] = NoJob THEN "await" ELSE "run")
  /\ job_state' = IF t \notin exiting /\ job[t] # NoJob
                  THEN [job_state EXCEPT ![job[t]] = "Run"] ELSE job_state
  /\ unheard' = unheard \ {t}
  /\ UNCHANGED <<lock, jobs, jobs_new, due, threadVars, spinVars, waitVars,
                 job, target, kernel>>

(* Slip: finished_job does not signal m_job_condition. *)
ThreadFinishUnsignalled(t) ==
  /\ At(t, "finish") /\ Free(t)
  /\ threads_busy' = threads_busy \ {t}
  /\ threads_pool' = threads_pool \cup {t}
  /\ Goto(t, "tail")
  /\ UNCHANGED <<lock, jobVars, num_threads, exiting, stopping, spinVars,
                 waitVars, callVars, kernel>>

(* finished_job *)
ThreadFinish(t) ==
  /\ At(t, "finish") /\ Free(t)
  /\ job_waiters' \in Signal(job_waiters)
  /\ threads_busy' = threads_busy \ {t}
  /\ threads_pool' = threads_pool \cup {t}
  /\ Goto(t, "tail")
  /\ UNCHANGED <<lock, jobVars, num_threads, exiting, stopping, spinVars,
                 end_waiters, callVars, kernel>>

ThreadTail(t) ==
  /\ At(t, "tail")
  /\ job' = [job EXCEPT ![t] = NoJob]
  /\ Goto(t, "await")
  /\ UNCHANGED <<lock, jobVars, threadVars, spinVars, waitVars, target, unheard, kernel>>

(* Job::run_job() once run() has returned: true purges the job, which only a
   DescriptorJob's dispatch asks for. *)
RunReturns(p) ==
  /\ pc[p] \in {"run", "inline"}
  /\ \E s \in {"Cycle", "Purge"} :
       /\ s = "Purge" => job[p] \in FdJobs
       /\ job_state' = [job_state EXCEPT ![job[p]] = s]
  /\ IF p = Main THEN /\ Goto(Main, "dispatch") /\ lock' = NoProc
                      /\ job' = [job EXCEPT ![Main] = NoJob]
                 ELSE Goto(p, "finish") /\ UNCHANGED <<lock, job>>
  /\ UNCHANGED <<jobs, jobs_new, due, threadVars, spinVars, waitVars, target, unheard, kernel>>

(* run() throws in a pool thread: the exception is swallowed and the thread
   goes back to the pool, the job's state stays Run. *)
RunThrows(t) ==
  /\ At(t, "run") /\ job[t] \in Throwers
  /\ Goto(t, "finish")
  /\ UNCHANGED <<lock, jobVars, threadVars, spinVars, waitVars, callVars, kernel>>

ThreadStep(t) ==
  \/ ThreadStart(t) \/ SpuriousWakeup(t) \/ ThreadWake(t)
  \/ ThreadFinish(t) \/ ThreadTail(t) \/ RunThrows(t)

-----------------------------------------------------------------------------
(* What a running job asks of the scheduler *)

InJob(p) == pc[p] \in {"run", "inline"}

AddJob(p, j) ==
  /\ InJob(p) /\ job_state[j] = "new"
  /\ jobs_new' = jobs_new \cup {j}
  /\ job_state' = [job_state EXCEPT ![j] = "Wait"]
  /\ UNCHANGED <<pc, lock, jobs, due, threadVars, spinVars, waitVars, callVars, kernel>>

SetNumThreads(p, n) ==
  /\ InJob(p) /\ Free(p) /\ num_threads # n
  /\ num_threads' = n
  /\ Goto(p, "resize")
  /\ UNCHANGED <<lock, jobVars, threads_pool, threads_busy, exiting, stopping,
                 spinVars, waitVars, callVars, kernel>>

(* Kernel::end_job() and Multiplexer::end_job(): wait for the job's run to
   end, mark it Purge, wait until it has left m_jobs.  A job that is still in
   m_jobs_new is not found, and the call returns as if it were gone. *)
EndOrWait(p, j) ==
  IF job_state[j] = "Run"
  THEN /\ job_waiters' = job_waiters \cup {p}
       /\ Goto(p, "endwait")
       /\ UNCHANGED <<job_state, end_waiters>>
  ELSE /\ job_state' = [job_state EXCEPT ![j] = "Purge"]
       /\ end_waiters' = end_waiters \cup {p}
       /\ Goto(p, "purgewait")
       /\ UNCHANGED job_waiters

EndJob(p, j) ==
  /\ InJob(p) /\ job[p] \in EndCallers /\ kernel = "Run"
  /\ Free(p) /\ j \in jobs
  /\ target' = [target EXCEPT ![p] = j]
  /\ EndOrWait(p, j)
  /\ UNCHANGED <<lock, jobs, jobs_new, due, threadVars, spinVars, job, unheard, kernel>>

EndJobWake(p) ==
  /\ At(p, "endwait") /\ p \notin job_waiters /\ Free(p)
  /\ EndOrWait(p, target[p])
  /\ UNCHANGED <<lock, jobs, jobs_new, due, threadVars, spinVars, callVars, kernel>>

EndJobPurged(p) ==
  /\ At(p, "purgewait") /\ p \notin end_waiters /\ Free(p)
  /\ IF target[p] \in jobs
     THEN end_waiters' = end_waiters \cup {p} /\ UNCHANGED <<pc, target>>
     ELSE /\ target' = [target EXCEPT ![p] = NoJob]
          /\ Goto(p, IF p = Main THEN "inline" ELSE "run")
          /\ UNCHANGED end_waiters
  /\ UNCHANGED <<lock, jobVars, threadVars, spinVars, job_waiters, job, unheard, kernel>>

JobStep(p) ==
  \/ RunReturns(p)
  \/ \E j \in Jobs : AddJob(p, j)
  \/ \E n \in PoolSizes : SetNumThreads(p, n)
  \/ \E j \in Jobs \ FdJobs : EndJob(p, j)
  \/ EndJobWake(p) \/ EndJobPurged(p)

-----------------------------------------------------------------------------
(* The environment: time passes, a signal or a script stops the kernel. *)

Expire(j) ==
  /\ j \in jobs \ due
  /\ due' = due \cup {j}
  /\ UNCHANGED <<pc, lock, jobs, jobs_new, job_state, threadVars, spinVars,
                 waitVars, callVars, kernel>>

Stop ==
  /\ kernel = "Run"
  /\ kernel' = "Stop"
  /\ UNCHANGED <<pc, lock, jobVars, threadVars, spinVars, waitVars, callVars>>

(* The process has returned from Kernel::run(); it may stay so forever. *)
Closed == At(Main, "closed") /\ UNCHANGED vars

Next ==
  \/ MainStep
  \/ \E t \in Threads : ThreadStep(t)
  \/ \E p \in Procs : CheckThreadPool(p) \/ JobStep(p)
  \/ \E j \in Jobs \ FdJobs : Expire(j)
  \/ Stop
  \/ Closed

Spec == Init /\ [][Next]_vars

(* The operating system runs every runnable thread, a thread that keeps asking
   for m_job_mutex gets it in the end however often others take it, and every
   Job::run() returns after finitely many calls into the scheduler, which is
   what the event handlers promise by never blocking.  Nothing is assumed of
   timers, signals, spurious wakeups, or of which way a choice goes. *)
Fairness ==
  /\ WF_vars(MainStep \/ CheckThreadPool(Main))
  /\ \A t \in Threads : SF_vars(\/ ThreadStart(t) \/ ThreadWake(t)
                                \/ ThreadFinish(t) \/ ThreadTail(t)
                                \/ CheckThreadPool(t))
  /\ \A p \in Procs : SF_vars(RunReturns(p))

FairSpec == Spec /\ Fairness

-----------------------------------------------------------------------------
(* Properties *)

(* Every variable ranges over the values the members it models can hold. *)
TypeOK ==
  /\ pc \in [Procs -> ThreadPCs \cup MainPCs]
  /\ lock \in Procs \cup {NoProc}
  /\ jobs \subseteq Jobs /\ jobs_new \subseteq Jobs /\ due \subseteq Jobs
  /\ job_state \in [Jobs -> JobStates]
  /\ threads_pool \subseteq Threads /\ threads_busy \subseteq Threads
  /\ num_threads \in Nat
  /\ job \in [Procs -> Jobs \cup {NoJob}]
  /\ exiting \subseteq Threads /\ stopping \subseteq Threads
  /\ todo \subseteq Jobs /\ alloc \in Jobs \cup {NoJob}
  /\ pick \in Threads \cup {NoProc}
  /\ job_waiters \subseteq Procs /\ end_waiters \subseteq Procs
  /\ target \in [Procs -> Jobs \cup {NoJob}]
  /\ unheard \subseteq Threads
  /\ kernel \in {"Run", "Stop", "Close"}

(* A job that is being executed belongs to the one thread that executes it,
   although spin() reads its state in ready() without m_job_mutex and run_job()
   writes it without: no second thread executes it, and the scheduler still owns
   it and has it marked Run, so that neither the purge at the end of spin() nor
   end_job() takes it away. *)
OneRunner ==
  \A p \in Procs : Executing(p) =>
    /\ job[p] \in jobs /\ job_state[job[p]] = "Run"
    /\ \A q \in Procs \ {p} : Executing(q) => job[q] # job[p]

(* p runs job j, or is awake and about to look at m_job. *)
WillRun(p, j) ==
  /\ job[p] = j
  /\ p # Main => pc[p] \in {"woken", "run"} \cup CallPCs

(* Whatever the order in which finished_job() puts a thread back, allocate_job()
   takes it, and the run loop clears m_job, a job that is marked Run has
   somebody who will run it or is running it (or its run() has thrown); a mark
   nobody takes back is a job lost, and an end_job() or a close() that waits for
   ever.  The one way to lose it is to hand it to a thread before that listens
   (unheard): see NoLostWakeup. *)
NoJobStranded ==
  \A j \in Jobs \ Throwers : job_state[j] = "Run" =>
    \E p \in Procs : WillRun(p, j) \/ (p \in unheard /\ job[p] = j)

(* DEBUG_ASSERT(m_job==0) in JobThread::allocate_job: the thread taken from the
   pool has put down its last job, although finished_job() put it back into
   the pool before it cleared m_job. *)
AllocFindsIdle ==
  At(Main, "give") /\ MutexFree(pick) => job[pick] = NoJob

(* When close() goes on to delete the jobs, no thread is left that executes or
   could execute one; DEBUG_ASSERT(m_threads_pool.empty()) is a part of it. *)
CloseIsQuiet ==
  At(Main, "delete") =>
    /\ threads_pool = {} /\ threads_busy = {}
    /\ \A t \in Threads : pc[t] = "none"

(* A thread that has been handed a job does not sleep: Thread.h:62-64 says that
   start() waits for await_wakeup() before it returns, so that the signal of
   allocate_job() is not sent before the thread can hear it.  The code does not
   have this property, as nothing defines HAVE_PTHREAD_YIELD. *)
NoLostWakeup ==
  \A t \in Threads : At(t, "await") => job[t] = NoJob

(* "Job is running, wait for it to finish" (Multiplexer.cpp:85): who sleeps in
   end_job() sleeps for a job that is still running, or whose thread has yet to
   call finished_job().  The code does not have this property: finished_job()
   signals one sleeper, which may be the main thread in allocate_job() or in
   close(), and nobody signals again for a job that has ended. *)
EndJobAwaitsRun ==
  \A p \in job_waiters \ {Main} :
    \/ job_state[target[p]] = "Run"
    \/ \E t \in Threads : At(t, "finish") /\ job[t] = target[p]

(* The job diagram of Multiplexer.h:5-13: a purged job has no way back, it is
   deleted next.  The code does not have this property if jobs call end_job():
   spin() may hand out the job that it saw waiting before the mark. *)
PurgeIsFinal ==
  [][\A j \in Jobs : job_state[j] = "Purge" =>
       job_state'[j] \in {"Purge", "deleted"}]_vars

(* Once a restart or a shutdown has been asked for, the spin loop ends, the
   pool empties and close() returns, whatever the threads are doing, unless a
   thread that was handed its job too early never looks at it: the one call
   that is lost this way keeps close() waiting, see NoLostWakeup. *)
ShutdownCompletes ==
  []<>(unheard = {}) => (kernel = "Stop" ~> At(Main, "closed"))

(* Job.h:82: run() returns true to remove the job.  The code does not have this
   property: without a waiting DescriptorJob, spin() returns before it purges. *)
PurgedIsDeleted ==
  \A j \in Jobs : job_state[j] = "Purge" ~> job_state[j] = "deleted"

(* The scheduler implements the job diagram: with the threads, locks, lists and
   conditions hidden, every step is one of the diagram or changes nothing. *)
Doing == [p \in Procs |-> IF Executing(p) THEN job[p] ELSE NoJob]

Diagram == INSTANCE JobLifecycle WITH
  state <- job_state, doing <- Doing, Workers <- Procs

FollowsDiagram == Diagram!Spec

-----------------------------------------------------------------------------
(* The inductive invariant behind the safety properties *)

(* p has been handed a job and has not come back from its run() yet. *)
Holding(p) == /\ job[p] # NoJob
              /\ p # Main => pc[p] \notin {"finish", "tail"}

(* Who owns m_job_mutex: the main thread from taking a pool thread until it has
   given it the job, and around a job it runs in place; whoever resizes. *)
LockInv ==
  /\ pc[Main] \in {"take", "give", "inline"} => lock = Main
  /\ job[Main] # NoJob => lock = Main
  /\ \A p \in Procs : pc[p] = "pool" => lock = p
  /\ stopping # {} => lock # NoProc /\ pc[lock] = "pool"

(* Where the main thread is in its loop decides what it has in hand. *)
MainInv ==
  /\ pc[Main] \in MainPCs
  /\ job[Main] # NoJob => pc[Main] \in {"inline"} \cup CallPCs
  /\ pc[Main] \in {"inline", "endwait", "purgewait"} => job[Main] # NoJob
  /\ pc[Main] = "resize" => job[Main] # NoJob \/ kernel = "Close"
  /\ todo \subseteq jobs
  /\ todo # {} => \/ job[Main] # NoJob
                  \/ pc[Main] \in {"dispatch", "alloc", "allocwait", "take", "give"}
  /\ alloc # NoJob <=> pc[Main] \in {"alloc", "allocwait", "take", "give"}
  /\ alloc # NoJob => alloc \in jobs /\ job_state[alloc] \in {"Wait", "Purge"}
  /\ pick # NoProc <=> pc[Main] = "give"

(* Where a thread is decides which list it is in. *)
ThreadInv ==
  /\ threads_pool \cap threads_busy = {}
  /\ stopping \cap (threads_pool \cup threads_busy) = {}
  /\ exiting \subseteq {t \in stopping : pc[t] \in {"woken", "exited"}}
  /\ \A t \in Threads :
       /\ pc[t] \in ThreadPCs
       /\ t \in threads_pool \cup threads_busy \cup stopping
            <=> pc[t] # "none"
       /\ pc[t] \in {"run", "finish"} \cup CallPCs => job[t] # NoJob
       /\ pc[t] = "exited" => t \in exiting
       /\ Holding(t) \/ pc[t] = "finish" => t \in threads_busy
       /\ t \in threads_busy /\ pc[t] = "tail" => pick = t
       /\ t \in threads_busy /\ job[t] = NoJob => pick = t
  /\ pick # NoProc => pick \in threads_busy /\ ~Holding(pick) /\ pc[pick] # "finish"

(* Whoever sleeps, or is yet to listen, with a job in hand was handed it before
   it listened. *)
UnheardInv ==
  /\ \A t \in unheard : Holding(t) /\ MutexFree(t)
  /\ \A t \in Threads :
       Holding(t) /\ pc[t] \in {"starting", "failed", "await"} => t \in unheard

(* A job in the hands of a thread is marked Run and owned by the scheduler, in
   no other hands, and, unless it throws, every job marked Run is in hands. *)
HandsInv ==
  /\ \A p \in Procs : Holding(p) => job[p] \in jobs /\ job_state[job[p]] = "Run"
  /\ \A p, q \in Procs : p # q /\ Holding(p) /\ Holding(q) => job[p] # job[q]
  /\ \A j \in Jobs \ Throwers :
       job_state[j] = "Run" => \E p \in Procs : Holding(p) /\ job[p] = j

(* close() has waited for the busy threads, and then destroys the others. *)
CloseInv ==
  /\ pc[Main] \in {"close", "closewait", "delete", "closed"} => kernel = "Close"
  /\ kernel = "Close" =>
       /\ pc[Main] \in {"close", "closewait", "resize", "pool", "delete", "closed"}
       /\ job[Main] = NoJob
       /\ pc[Main] \notin {"close", "closewait"} => threads_busy = {} /\ num_threads = 0
       /\ pc[Main] \in {"pool", "delete", "closed"} => threads_pool = {}
  /\ pc[Main] \in {"delete", "closed"} => stopping = {}

IInv == TypeOK /\ LockInv /\ MainInv /\ ThreadInv /\ UnheardInv /\ HandsInv
        /\ CloseInv
=============================================================================
