------------------------ MODULE MultiplexerProofs ------------------------
(***************************************************************************)
(* Proofs about Multiplexer, for any set of jobs, any finite set of        *)
(* threads, and every choice of the other constants: the safety properties *)
(* follow from IInv, which Init establishes and every step keeps; and with *)
(* neither end_job() calls nor exceptions the scheduler implements the job *)
(* diagram of Multiplexer.h.                                               *)
(***************************************************************************)
EXTENDS Multiplexer, FiniteSetTheorems, TLAPS

-----------------------------------------------------------------------------
(* The thread lists are finite, so their sizes are numbers. *)
LEMMA ListSizes ==
  ASSUME TypeOK
  PROVE  /\ Cardinality(threads_pool) \in Nat
         /\ Cardinality(threads_busy) \in Nat
         /\ Cardinality(threads_pool) = 0 => threads_pool = {}
<1>1. IsFiniteSet(threads_pool) /\ IsFiniteSet(threads_busy)
  BY ConstantsAssumption, FS_Subset DEF TypeOK
<1>. QED
  BY <1>1, FS_CardinalityType, FS_EmptySet

(* check_thread_pool() with m_num_threads = 0 and no busy thread removes every
   thread of the pool: what close() relies on. *)
LEMMA ShrinkToNothing ==
  ASSUME TypeOK, num_threads = 0, threads_busy = {},
         NEW p \in Procs, PoolShrink(p)
  PROVE  threads_pool' = {}
<1>1. PICK S \in SUBSET threads_pool :
        /\ \/ Cardinality(S) = NumThreadObjects - num_threads
           \/ S = threads_pool
        /\ threads_pool' = threads_pool \ S
  BY DEF PoolShrink
<1>2. NumThreadObjects - num_threads = Cardinality(threads_pool)
  BY ListSizes, FS_EmptySet DEF NumThreadObjects
<1>3. IsFiniteSet(threads_pool)
  BY ConstantsAssumption, FS_Subset DEF TypeOK
<1>4. S = threads_pool
  BY <1>1, <1>2, <1>3, FS_Subset
<1>. QED
  BY <1>1, <1>4

(* Every step of check_thread_pool() keeps the invariant, whoever calls it. *)
LEMMA CheckThreadPoolKeeps ==
  ASSUME IInv, NEW p \in Procs, CheckThreadPool(p)
  PROVE  IInv'
<1>. USE ConstantsAssumption DEF IInv, TypeOK, LockInv, MainInv, ThreadInv, UnheardInv,
                                  HandsInv, CloseInv, Holding, Procs, JobStates, CallPCs,
                                  ThreadPCs, MainPCs, jobVars, threadVars, spinVars,
                                  waitVars, callVars, Goto, At, Free, Acquire, Release,
                                  MutexFree, Listens
<1>1. CASE PoolAsIs(p)
  <2>1. num_threads = 0 => threads_pool = {}
    BY <1>1, ListSizes DEF PoolAsIs, NumThreadObjects
  <2>. QED
    BY <1>1, <2>1, SMTT(30) DEF PoolAsIs, InCheck, Back
<1>2. CASE PoolGrow(p)
  <2>1. num_threads # 0
    BY <1>2, ListSizes DEF PoolGrow, NumThreadObjects
  <2>. QED
    BY <1>2, <2>1, SMTT(30) DEF PoolGrow, InCheck, Created
<1>3. CASE PoolShrink(p)
  <2>1. kernel = "Close" /\ p = Main => threads_pool' = {}
    BY <1>3, ShrinkToNothing DEF PoolShrink, InCheck
  <2>. QED
    BY <1>3, <2>1, SMTT(30) DEF PoolShrink, InCheck
<1>4. CASE PoolDone(p)
  BY <1>4, SMTT(30) DEF PoolDone, Back
<1>5. ASSUME NEW t \in Threads, StopUnstarted(p, t) PROVE IInv'
  BY <1>5, SMTT(30) DEF StopUnstarted
<1>6. ASSUME NEW t \in Threads, StopRunning(p, t) PROVE IInv'
  BY <1>6, SMTT(30) DEF StopRunning, Running, MutexFree
<1>7. ASSUME NEW t \in Threads, Join(p, t) PROVE IInv'
  BY <1>7, SMTT(30) DEF Join
<1>. QED
  BY <1>1, <1>2, <1>3, <1>4, <1>5, <1>6, <1>7 DEF CheckThreadPool

(* So does every step of spin(), allocate_job() and close(). *)
LEMMA MainStepKeeps ==
  ASSUME IInv, MainStep
  PROVE  IInv'
<1>. USE ConstantsAssumption DEF IInv, TypeOK, LockInv, MainInv, ThreadInv, UnheardInv,
                                  HandsInv, CloseInv, Holding, Procs, JobStates, CallPCs,
                                  ThreadPCs, MainPCs, jobVars, threadVars, spinVars,
                                  waitVars, callVars, Goto, At, Free, Acquire, Release,
                                  MutexFree, Listens
<1>1. CASE Collect
  BY <1>1, SMTT(30) DEF Collect
<1>2. CASE SelectOk
  BY <1>2, SMTT(30) DEF SelectOk
<1>3. CASE SelectError
  BY <1>3, SMTT(30) DEF SelectError
<1>4. ASSUME NEW j \in Jobs, Visit(j) PROVE IInv'
  BY <1>4, SMTT(30) DEF Visit, Ready
<1>5. CASE DispatchDone
  BY <1>5, SMTT(30) DEF DispatchDone
<1>6. CASE AllocInline
  BY <1>6, SMTT(30) DEF AllocInline
<1>7. CASE AllocTake
  BY <1>7, SMTT(30) DEF AllocTake
<1>8. CASE AllocWait
  BY <1>8, SMTT(30) DEF AllocWait
<1>9. CASE AllocTimeout
  BY <1>9, SMTT(30) DEF AllocTimeout, Created
<1>10. ASSUME NEW t \in Threads, Take(t) PROVE IInv'
  BY <1>10, SMTT(30) DEF Take
<1>11. CASE Give
  <2>1. /\ TypeOK' /\ LockInv' /\ MainInv' /\ ThreadInv'
    BY <1>11, SMTT(30) DEF Give
  <2>2. HandsInv' /\ CloseInv'
    BY <1>11, SMTT(30) DEF Give
  <2>3. UnheardInv'
    BY <1>11, SMTT(30) DEF Give
  <2>. QED
    BY <2>1, <2>2, <2>3
<1>12. CASE Purge
  BY <1>12, SMTT(30) DEF Purge, Signal
<1>13. CASE Loop
  BY <1>13, SMTT(30) DEF Loop
<1>14. CASE CloseWait
  BY <1>14, SMTT(30) DEF CloseWait
<1>15. CASE CloseThreads
  BY <1>15, SMTT(30) DEF CloseThreads
<1>16. CASE CloseDelete
  BY <1>16, SMTT(30) DEF CloseDelete
<1>. QED
  BY <1>1, <1>2, <1>3, <1>4, <1>5, <1>6, <1>7, <1>8, <1>9, <1>10, <1>11, <1>12,
     <1>13, <1>14, <1>15, <1>16 DEF MainStep

(* So does every step of JobThread::run(). *)
LEMMA ThreadStepKeeps ==
  ASSUME IInv, NEW t \in Threads, ThreadStep(t)
  PROVE  IInv'
<1>. USE ConstantsAssumption DEF IInv, TypeOK, LockInv, MainInv, ThreadInv, UnheardInv,
                                  HandsInv, CloseInv, Holding, Procs, JobStates, CallPCs,
                                  ThreadPCs, MainPCs, jobVars, threadVars, spinVars,
                                  waitVars, callVars, Goto, At, Free, Acquire, Release,
                                  MutexFree, Listens
<1>1. CASE ThreadStart(t)
  BY <1>1, SMTT(30) DEF ThreadStart
<1>2. CASE SpuriousWakeup(t)
  BY <1>2, SMTT(30) DEF SpuriousWakeup
<1>3. CASE ThreadWake(t)
  BY <1>3, SMTT(30) DEF ThreadWake
<1>4. CASE ThreadFinish(t)
  BY <1>4, SMTT(30) DEF ThreadFinish, Signal
<1>5. CASE ThreadTail(t)
  BY <1>5, SMTT(30) DEF ThreadTail
<1>6. CASE RunThrows(t)
  BY <1>6, SMTT(30) DEF RunThrows
<1>. QED
  BY <1>1, <1>2, <1>3, <1>4, <1>5, <1>6 DEF ThreadStep

(* So does every call a running job makes, and its return. *)
LEMMA JobStepKeeps ==
  ASSUME IInv, NEW p \in Procs, JobStep(p)
  PROVE  IInv'
<1>. USE ConstantsAssumption DEF IInv, TypeOK, LockInv, MainInv, ThreadInv, UnheardInv,
                                  HandsInv, CloseInv, Holding, Procs, JobStates, CallPCs,
                                  ThreadPCs, MainPCs, jobVars, threadVars, spinVars,
                                  waitVars, callVars, Goto, At, Free, Acquire, Release,
                                  MutexFree, Listens
<1>1. CASE RunReturns(p)
  BY <1>1, SMTT(30) DEF RunReturns
<1>2. ASSUME NEW j \in Jobs, AddJob(p, j) PROVE IInv'
  BY <1>2, SMTT(30) DEF AddJob, InJob
<1>3. ASSUME NEW n \in PoolSizes, SetNumThreads(p, n) PROVE IInv'
  BY <1>3, SMTT(30) DEF SetNumThreads, InJob
<1>4. ASSUME NEW j \in Jobs, EndJob(p, j) PROVE IInv'
  BY <1>4, SMTT(30) DEF EndJob, InJob, EndOrWait
<1>5. CASE EndJobWake(p)
  BY <1>5, SMTT(30) DEF EndJobWake, EndOrWait
<1>6. CASE EndJobPurged(p)
  BY <1>6, SMTT(30) DEF EndJobPurged
<1>. QED
  BY <1>1, <1>2, <1>3, <1>4, <1>5, <1>6 DEF JobStep

-----------------------------------------------------------------------------
(* The invariant holds when the loop starts. *)
LEMMA InitEstablishes == Init => IInv
  BY ConstantsAssumption
     DEF Init, IInv, TypeOK, LockInv, MainInv, ThreadInv, UnheardInv, HandsInv, CloseInv,
         Holding, Procs, JobStates, CallPCs, ThreadPCs, MainPCs

(* Every step keeps it. *)
LEMMA NextKeeps == IInv /\ [Next]_vars => IInv'
<1>. SUFFICES ASSUME IInv, [Next]_vars PROVE IInv'
  OBVIOUS
<1>1. ASSUME NEW p \in Procs, CheckThreadPool(p) \/ JobStep(p) PROVE IInv'
  BY <1>1, CheckThreadPoolKeeps, JobStepKeeps
<1>2. CASE MainStep
  BY <1>2, MainStepKeeps
<1>3. ASSUME NEW t \in Threads, ThreadStep(t) PROVE IInv'
  BY <1>3, ThreadStepKeeps
<1>4. ASSUME NEW j \in Jobs \ FdJobs, Expire(j) PROVE IInv'
  BY <1>4 DEF Expire, IInv, TypeOK, LockInv, MainInv, ThreadInv, UnheardInv, HandsInv, MutexFree,
              CloseInv, Holding, Procs, threadVars, spinVars, waitVars, callVars
<1>5. CASE Stop
  BY <1>5 DEF Stop, IInv, TypeOK, LockInv, MainInv, ThreadInv, UnheardInv, HandsInv, MutexFree,
              CloseInv, Holding, Procs, jobVars, threadVars, spinVars, waitVars,
              callVars
<1>6. CASE UNCHANGED vars
  BY <1>6 DEF vars, IInv, TypeOK, LockInv, MainInv, ThreadInv, UnheardInv, HandsInv, MutexFree,
              CloseInv, Holding, Procs
<1>. QED
  BY <1>1, <1>2, <1>3, <1>4, <1>5, <1>6 DEF Next, Closed

(* The inductive invariant holds in every reachable state of the scheduler. *)
THEOREM Invariant == Spec => []IInv
  BY InitEstablishes, NextKeeps, PTL DEF Spec

-----------------------------------------------------------------------------
(* The thread lists, the job lists and the program counters of Multiplexer,
   Job and Thread keep their types. *)
THEOREM TypeCorrect == Spec => []TypeOK
<1>1. IInv => TypeOK
  BY DEF IInv
<1>. QED
  BY Invariant, <1>1, PTL

(* A thread inside run_job() is Holding the job it runs. *)
LEMMA ExecutingHolds ==
  ASSUME IInv, NEW p \in Procs, Executing(p)
  PROVE  Holding(p)
<1>1. CASE p = Main
  BY <1>1 DEF Executing, Holding
<1>2. CASE p # Main
  BY <1>2 DEF Executing, Holding, IInv, ThreadInv, Procs, CallPCs
<1>. QED
  BY <1>1, <1>2

(* A job has one thread that executes it and is kept for it: spin()'s unlocked
   ready() and the run_job() of the pool threads never hand it out twice, and
   neither the purge in spin() nor end_job() nor close() takes it away. *)
THEOREM OneRunnerAlways == Spec => []OneRunner
<1>1. IInv => OneRunner
  BY ExecutingHolds DEF IInv, HandsInv, OneRunner
<1>. QED
  BY Invariant, <1>1, PTL

(* A job marked Run is run or about to be run by somebody, unless its run()
   threw or its thread was handed it before that listened. *)
THEOREM NoJobStrandedAlways == Spec => []NoJobStranded
<1>1. ASSUME IInv, NEW j \in Jobs \ Throwers, job_state[j] = "Run"
      PROVE  \E p \in Procs : WillRun(p, j) \/ (p \in unheard /\ job[p] = j)
  <2>1. PICK p \in Procs : Holding(p) /\ job[p] = j
    BY <1>1 DEF IInv, HandsInv
  <2>2. CASE p = Main
    BY <2>1, <2>2 DEF WillRun
  <2>3. CASE p # Main
    <3>1. /\ p \in Threads /\ pc[p] \in ThreadPCs /\ pc[p] \notin {"none", "finish", "tail"}
          /\ pc[p] \in {"starting", "failed", "await"} => p \in unheard
          /\ p \notin exiting /\ pc[p] # "exited"
      BY <1>1, <2>1, <2>3 DEF IInv, ThreadInv, UnheardInv, Holding, Procs
    <3>. QED
      BY <2>1, <3>1 DEF WillRun, ThreadPCs
  <2>. QED
    BY <2>2, <2>3
<1>2. IInv => NoJobStranded
  BY <1>1 DEF NoJobStranded
<1>. QED
  BY Invariant, <1>2, PTL

(* The DEBUG_ASSERT of JobThread::allocate_job never fires. *)
THEOREM AllocFindsIdleAlways == Spec => []AllocFindsIdle
<1>1. IInv => AllocFindsIdle
  BY ConstantsAssumption
     DEF IInv, MainInv, ThreadInv, TypeOK, AllocFindsIdle, Holding, MutexFree,
         At, Procs
<1>. QED
  BY Invariant, <1>1, PTL

(* The jobs close() deletes are deleted with no thread left to run them. *)
THEOREM CloseIsQuietAlways == Spec => []CloseIsQuiet
<1>1. IInv => CloseIsQuiet
  BY DEF IInv, MainInv, ThreadInv, CloseInv, CloseIsQuiet, At
<1>. QED
  BY Invariant, <1>1, PTL

-----------------------------------------------------------------------------
(* What the job diagram needs beyond IInv, when no job calls end_job() and none
   throws: nobody else touches the job spin() is about to hand out, and a job
   is in one of the two lists from add_job() until it is deleted. *)
DiagramInv ==
  /\ \A p \in Procs : pc[p] \notin {"endwait", "purgewait"}
  /\ alloc # NoJob => job_state[alloc] = "Wait"
  /\ \A j \in Jobs : job_state[j] \in {"new", "deleted"} <=> j \notin jobs \cup jobs_new
  /\ jobs \cap jobs_new = {}

(* Init and every step establish it. *)
LEMMA DiagramInvInductive ==
  ASSUME EndCallers = {}, Throwers = {}
  PROVE  /\ Init => DiagramInv
         /\ IInv /\ DiagramInv /\ [Next]_vars => DiagramInv'
<1>. USE ConstantsAssumption DEF Procs, CallPCs, jobVars, threadVars, spinVars,
                                  waitVars, callVars, Goto, At
<1>1. Init => DiagramInv
  BY DEF Init, DiagramInv
<1>2. SUFFICES ASSUME IInv, DiagramInv, [Next]_vars PROVE DiagramInv'
  BY <1>1
<1>. USE DEF DiagramInv, IInv, TypeOK, MainInv, JobStates
<1>3. ASSUME NEW p \in Procs, PoolAsIs(p) PROVE DiagramInv'
  BY <1>2, <1>3 DEF PoolAsIs, Back
<1>4. ASSUME NEW p \in Procs, PoolGrow(p) PROVE DiagramInv'
  BY <1>2, <1>4 DEF PoolGrow, Created
<1>5. ASSUME NEW p \in Procs, PoolShrink(p) PROVE DiagramInv'
  BY <1>2, <1>5 DEF PoolShrink
<1>6. ASSUME NEW p \in Procs, PoolDone(p) PROVE DiagramInv'
  BY <1>2, <1>6 DEF PoolDone, Back
<1>7. ASSUME NEW p \in Procs, NEW t \in Threads, StopUnstarted(p, t) PROVE DiagramInv'
  BY <1>2, <1>7 DEF StopUnstarted
<1>8. ASSUME NEW p \in Procs, NEW t \in Threads, StopRunning(p, t) PROVE DiagramInv'
  BY <1>2, <1>8 DEF StopRunning
<1>9. ASSUME NEW p \in Procs, NEW t \in Threads, Join(p, t) PROVE DiagramInv'
  BY <1>2, <1>9 DEF Join
<1>10. CASE Collect
  BY <1>2, <1>10 DEF Collect
<1>11. CASE SelectOk
  BY <1>2, <1>11 DEF SelectOk
<1>12. CASE SelectError
  BY <1>2, <1>12 DEF SelectError
<1>13. ASSUME NEW j \in Jobs, Visit(j) PROVE DiagramInv'
  BY <1>2, <1>13 DEF Visit, Ready
<1>14. CASE DispatchDone
  BY <1>2, <1>14 DEF DispatchDone
<1>15. CASE AllocInline
  BY <1>2, <1>15 DEF AllocInline
<1>16. CASE AllocTake
  BY <1>2, <1>16 DEF AllocTake
<1>17. CASE AllocWait
  BY <1>2, <1>17 DEF AllocWait
<1>18. CASE AllocTimeout
  BY <1>2, <1>18 DEF AllocTimeout, Created
<1>19. ASSUME NEW t \in Threads, Take(t) PROVE DiagramInv'
  BY <1>2, <1>19 DEF Take
<1>20. CASE Give
  BY <1>2, <1>20 DEF Give
<1>21. CASE Purge
  BY <1>2, <1>21 DEF Purge
<1>22. CASE Loop
  BY <1>2, <1>22 DEF Loop
<1>23. CASE CloseWait
  BY <1>2, <1>23 DEF CloseWait
<1>24. CASE CloseThreads
  BY <1>2, <1>24 DEF CloseThreads
<1>25. CASE CloseDelete
  BY <1>2, <1>25 DEF CloseDelete
<1>26. ASSUME NEW t \in Threads, ThreadStart(t) PROVE DiagramInv'
  BY <1>2, <1>26 DEF ThreadStart
<1>27. ASSUME NEW t \in Threads, SpuriousWakeup(t) PROVE DiagramInv'
  BY <1>2, <1>27 DEF SpuriousWakeup
<1>28. ASSUME NEW t \in Threads, ThreadWake(t) PROVE DiagramInv'
  BY <1>2, <1>28 DEF ThreadWake, ThreadInv, HandsInv, Holding
<1>29. ASSUME NEW t \in Threads, ThreadFinish(t) PROVE DiagramInv'
  BY <1>2, <1>29 DEF ThreadFinish
<1>30. ASSUME NEW t \in Threads, ThreadTail(t) PROVE DiagramInv'
  BY <1>2, <1>30 DEF ThreadTail
<1>31. ASSUME NEW p \in Procs, RunReturns(p) PROVE DiagramInv'
  BY <1>2, <1>31 DEF RunReturns, HandsInv, ThreadInv, Holding, LockInv
<1>32. ASSUME NEW t \in Threads, RunThrows(t) PROVE DiagramInv'
  BY <1>2, <1>32 DEF RunThrows
<1>33. ASSUME NEW p \in Procs, NEW j \in Jobs, AddJob(p, j) PROVE DiagramInv'
  BY <1>2, <1>33 DEF AddJob, InJob
<1>34. ASSUME NEW p \in Procs, NEW n \in PoolSizes, SetNumThreads(p,
   n) PROVE DiagramInv'
  BY <1>2, <1>34 DEF SetNumThreads, InJob
<1>35. ASSUME NEW p \in Procs, NEW j \in Jobs, EndJob(p, j) PROVE DiagramInv'
  BY <1>2, <1>35 DEF EndJob, InJob, EndOrWait
<1>36. ASSUME NEW p \in Procs, EndJobWake(p) PROVE DiagramInv'
  BY <1>2, <1>36 DEF EndJobWake, EndOrWait
<1>37. ASSUME NEW p \in Procs, EndJobPurged(p) PROVE DiagramInv'
  BY <1>2, <1>37 DEF EndJobPurged
<1>38. ASSUME NEW j \in Jobs, Expire(j) PROVE DiagramInv'
  BY <1>2, <1>38 DEF Expire
<1>39. CASE Stop
  BY <1>2, <1>39 DEF Stop
<1>40. CASE UNCHANGED vars
  BY <1>2, <1>40 DEF vars
<1>. QED
  BY <1>2, <1>3, <1>4, <1>5, <1>6, <1>7, <1>8, <1>9, <1>10, <1>11, <1>12, <1>13,
     <1>14, <1>15, <1>16, <1>17, <1>18, <1>19, <1>20, <1>21, <1>22, <1>23, <1>24,
        <1>25, <1>26, <1>27, <1>28, <1>29, <1>30, <1>31, <1>32, <1>33, <1>34, <1>35,
           <1>36, <1>37, <1>38, <1>39, <1>40
     DEF Next, MainStep, ThreadStep, CheckThreadPool, JobStep, Closed

(* Initially every job is outside the scheduler or waiting, and none runs. *)
LEMMA InitMaps == Init => Diagram!Init
  BY ConstantsAssumption DEF Init, Procs, Executing, Doing, Diagram!Init

(* What the diagram sees of the threads. *)
LEMMA DoingIs ==
  /\ Doing \in [Procs -> {Doing[p] : p \in Procs}]
  /\ \A p \in Procs : Doing[p] = IF Executing(p) THEN job[p] ELSE NoJob
  BY DEF Doing

(* The diagram's steps of a worker and a job are steps of the diagram. *)
LEMMA WorkerSteps ==
  ASSUME NEW p \in Procs, NEW j \in Jobs
  PROVE  /\ Diagram!Begin(p, j) => Diagram!Next
         /\ Diagram!AllocateAndBegin(p, j) => Diagram!Next
         /\ Diagram!Finish(p) => Diagram!Next
  BY DEF Diagram!Next

(* Every step of the scheduler is a step of the diagram or changes nothing the
   diagram shows. *)
LEMMA StepMaps ==
  ASSUME EndCallers = {}, Throwers = {}, IInv, DiagramInv, [Next]_vars
  PROVE  [Diagram!Next]_Diagram!vars
<1>. USE ConstantsAssumption DEF Procs, CallPCs, jobVars, threadVars, spinVars,
                                  waitVars, callVars, Goto, At, Executing,
                                  DiagramInv, IInv, TypeOK, MainInv, ThreadInv,
                                  JobStates, ThreadPCs, MainPCs
<1>1. ASSUME NEW p \in Procs, PoolAsIs(p)
      PROVE  [Diagram!Next]_Diagram!vars
  BY <1>1 DEF PoolAsIs, InCheck, Back, Doing, Diagram!vars
<1>2. ASSUME NEW p \in Procs, PoolGrow(p)
      PROVE  [Diagram!Next]_Diagram!vars
  BY <1>2 DEF PoolGrow, InCheck, Created, Doing, Diagram!vars
<1>3. ASSUME NEW p \in Procs, PoolShrink(p)
      PROVE  [Diagram!Next]_Diagram!vars
  BY <1>3 DEF PoolShrink, InCheck, Doing, Diagram!vars
<1>4. ASSUME NEW p \in Procs, PoolDone(p)
      PROVE  [Diagram!Next]_Diagram!vars
  BY <1>4 DEF PoolDone, Back, Doing, Diagram!vars
<1>5. ASSUME NEW p \in Procs, NEW t \in Threads, StopUnstarted(p, t)
      PROVE  [Diagram!Next]_Diagram!vars
  BY <1>5 DEF StopUnstarted, Doing, Diagram!vars
<1>6. ASSUME NEW p \in Procs, NEW t \in Threads, StopRunning(p, t)
      PROVE  [Diagram!Next]_Diagram!vars
  BY <1>6 DEF StopRunning, MutexFree, Doing, Diagram!vars
<1>7. ASSUME NEW p \in Procs, NEW t \in Threads, Join(p, t)
      PROVE  [Diagram!Next]_Diagram!vars
  BY <1>7 DEF Join, Doing, Diagram!vars
<1>8. CASE Collect
  <2>1. Diagram!Recycle({j \in jobs \cup jobs_new : job_state[j] = "Cycle"})
    BY <1>8 DEF Collect, Doing, Diagram!Recycle, Diagram!Moved
  <2>. QED
    BY <2>1 DEF Diagram!Next
<1>9. CASE SelectOk
  BY <1>9 DEF SelectOk, Doing, Diagram!vars
<1>10. CASE SelectError
  BY <1>10 DEF SelectError, Doing, Diagram!vars
<1>11. ASSUME NEW j \in Jobs, Visit(j)
      PROVE  [Diagram!Next]_Diagram!vars
  BY <1>11 DEF Visit, Doing, Diagram!vars
<1>12. CASE DispatchDone
  BY <1>12 DEF DispatchDone, Doing, Diagram!vars
<1>13. CASE AllocInline
  <2>1. alloc \in Jobs /\ Main \in Procs /\ ~Executing(Main)
    BY <1>13 DEF AllocInline
  <2>2. \A q \in Procs : Executing(q) => job[q] # alloc
    BY <1>13, ExecutingHolds DEF AllocInline, HandsInv
  <2>3. Doing' = [Doing EXCEPT ![Main] = alloc]
    BY <1>13, <2>1 DEF AllocInline, Doing
  <2>4. job_state' = Diagram!Moved({alloc}, "Run")
    BY <1>13 DEF AllocInline, Diagram!Moved
  <2>5. Diagram!AllocateAndBegin(Main, alloc)
    BY <1>13, <2>1, <2>2, <2>3, <2>4, DoingIs
       DEF AllocInline, Diagram!AllocateAndBegin
  <2>. QED
    BY <2>1, <2>5, WorkerSteps
<1>14. CASE AllocTake
  BY <1>14 DEF AllocTake, Doing, Diagram!vars
<1>15. CASE AllocWait
  BY <1>15 DEF AllocWait, Doing, Diagram!vars
<1>16. CASE AllocTimeout
  BY <1>16 DEF AllocTimeout, Created, Doing, Diagram!vars
<1>17. ASSUME NEW t \in Threads, Take(t)
      PROVE  [Diagram!Next]_Diagram!vars
  BY <1>17 DEF Take, Doing, Diagram!vars
<1>18. CASE Give
  <2>1. alloc \in Jobs /\ pick \in Threads /\ ~Executing(pick)
    BY <1>18 DEF Give, MutexFree
  <2>2. Doing' = Doing
    BY <1>18, <2>1 DEF Give, MutexFree, Doing
  <2>3. job_state' = Diagram!Moved({alloc}, "Run")
    BY <1>18 DEF Give, Diagram!Moved
  <2>4. Diagram!Allocate(alloc)
    BY <1>18, <2>1, <2>2, <2>3 DEF Give, Diagram!Allocate
  <2>. QED
    BY <2>1, <2>4 DEF Diagram!Next
<1>19. CASE Purge
  <2>1. Diagram!Delete({j \in jobs : job_state[j] = "Purge"})
    BY <1>19 DEF Purge, Doing, Diagram!Delete, Diagram!Moved
  <2>. QED
    BY <1>19, <2>1 DEF Diagram!Next
<1>20. CASE Loop
  BY <1>20 DEF Loop, Doing, Diagram!vars
<1>21. CASE CloseWait
  BY <1>21 DEF CloseWait, Doing, Diagram!vars
<1>22. CASE CloseThreads
  BY <1>22 DEF CloseThreads, Doing, Diagram!vars
<1>23. CASE CloseDelete
  <2>1. \A p \in Procs : ~Executing(p)
    BY <1>23, ExecutingHolds DEF CloseDelete, CloseInv, ThreadInv
  <2>2. Diagram!DeleteAll
    BY <1>23, <2>1 DEF CloseDelete, Doing, Diagram!DeleteAll
  <2>. QED
    BY <2>2 DEF Diagram!Next
<1>24. ASSUME NEW t \in Threads, ThreadStart(t)
      PROVE  [Diagram!Next]_Diagram!vars
  BY <1>24 DEF ThreadStart, Doing, Diagram!vars
<1>25. ASSUME NEW t \in Threads, SpuriousWakeup(t)
      PROVE  [Diagram!Next]_Diagram!vars
  BY <1>25 DEF SpuriousWakeup, Doing, Diagram!vars
<1>26. ASSUME NEW t \in Threads, ThreadWake(t)
      PROVE  [Diagram!Next]_Diagram!vars
  <2>1. CASE t \notin exiting /\ job[t] # NoJob
    <3>1. Holding(t) /\ ~Executing(t) /\ job[t] \in Jobs
      BY <1>26, <2>1 DEF ThreadWake, Holding
    <3>2. job_state[job[t]] = "Run" /\ job_state' = job_state
      BY <1>26, <2>1, <3>1 DEF ThreadWake, HandsInv
    <3>3. \A q \in Procs : Executing(q) => job[q] # job[t]
      BY <3>1, ExecutingHolds DEF HandsInv
    <3>4. Doing' = [Doing EXCEPT ![t] = job[t]]
      BY <1>26, <2>1 DEF ThreadWake, Doing
    <3>5. Diagram!Begin(t, job[t])
      BY <3>1, <3>2, <3>3, <3>4, DoingIs DEF Diagram!Begin
    <3>. QED
      BY <3>1, <3>5, WorkerSteps
  <2>2. CASE ~(t \notin exiting /\ job[t] # NoJob)
    BY <1>26, <2>2 DEF ThreadWake, Doing, Diagram!vars
  <2>. QED
    BY <2>1, <2>2
<1>27. ASSUME NEW t \in Threads, ThreadFinish(t)
      PROVE  [Diagram!Next]_Diagram!vars
  BY <1>27 DEF ThreadFinish, Doing, Diagram!vars
<1>28. ASSUME NEW t \in Threads, ThreadTail(t)
      PROVE  [Diagram!Next]_Diagram!vars
  BY <1>28 DEF ThreadTail, Doing, Diagram!vars
<1>29. ASSUME NEW p \in Procs, RunReturns(p)
      PROVE  [Diagram!Next]_Diagram!vars
  <2>1. Executing(p) /\ job[p] \in Jobs
    BY <1>29 DEF RunReturns
  <2>2. ~Executing(p)'
    BY <1>29 DEF RunReturns
  <2>3. \A q \in Procs \ {p} : job'[q] = job[q] /\ pc'[q] = pc[q]
    BY <1>29 DEF RunReturns
  <2>4. Doing' = [Doing EXCEPT ![p] = NoJob]
    <3>1. \A q \in Procs \ {p} : Doing'[q] = Doing[q]
      BY <2>3 DEF Doing
    <3>2. Doing'[p] = NoJob
      BY <2>2 DEF Doing
    <3>. QED
      BY <3>1, <3>2 DEF Doing
  <2>5. PICK s \in {"Cycle", "Purge"} : job_state' = [job_state EXCEPT ![job[p]] = s]
    BY <1>29 DEF RunReturns
  <2>6. job_state' = Diagram!Moved({job[p]}, s)
    BY <2>5 DEF Diagram!Moved
  <2>7. Doing[p] = job[p] /\ job[p] # NoJob
    BY <2>1, DoingIs
  <2>8. Diagram!Finish(p)
    BY <2>4, <2>6, <2>7 DEF Diagram!Finish
  <2>. QED
    BY <2>1, <2>8, WorkerSteps
<1>30. ASSUME NEW t \in Threads, RunThrows(t)
      PROVE  [Diagram!Next]_Diagram!vars
  BY <1>30 DEF RunThrows, Doing, Diagram!vars
<1>31. ASSUME NEW p \in Procs, NEW j \in Jobs, AddJob(p, j)
      PROVE  [Diagram!Next]_Diagram!vars
  <2>1. Doing' = Doing
    BY <1>31 DEF AddJob, Doing
  <2>2. job_state' = Diagram!Moved({j}, "Wait")
    BY <1>31 DEF AddJob, Diagram!Moved
  <2>3. Diagram!Add(j)
    BY <1>31, <2>1, <2>2 DEF AddJob, Diagram!Add
  <2>. QED
    BY <2>3 DEF Diagram!Next
<1>32. ASSUME NEW p \in Procs, NEW n \in PoolSizes, SetNumThreads(p, n)
      PROVE  [Diagram!Next]_Diagram!vars
  BY <1>32 DEF SetNumThreads, InJob, Doing, Diagram!vars
<1>33. ASSUME NEW p \in Procs, NEW j \in Jobs, EndJob(p, j)
      PROVE  [Diagram!Next]_Diagram!vars
  BY <1>33 DEF EndJob, InJob, Doing, Diagram!vars
<1>34. ASSUME NEW p \in Procs, EndJobWake(p)
      PROVE  [Diagram!Next]_Diagram!vars
  BY <1>34 DEF EndJobWake, Doing, Diagram!vars
<1>35. ASSUME NEW p \in Procs, EndJobPurged(p)
      PROVE  [Diagram!Next]_Diagram!vars
  BY <1>35 DEF EndJobPurged, Doing, Diagram!vars
<1>36. ASSUME NEW j \in Jobs, Expire(j)
      PROVE  [Diagram!Next]_Diagram!vars
  BY <1>36 DEF Expire, Doing, Diagram!vars
<1>37. CASE Stop
  BY <1>37 DEF Stop, Doing, Diagram!vars
<1>38. CASE UNCHANGED vars
  BY <1>38 DEF vars, Doing, Diagram!vars
<1>. QED
  BY <1>1, <1>2, <1>3, <1>4, <1>5, <1>6, <1>7, <1>8, <1>9, <1>10, <1>11, <1>12,
     <1>13, <1>14, <1>15, <1>16, <1>17, <1>18, <1>19, <1>20, <1>21, <1>22, <1>23,
        <1>24, <1>25, <1>26, <1>27, <1>28, <1>29, <1>30, <1>31, <1>32, <1>33, <1>34,
           <1>35, <1>36, <1>37, <1>38
     DEF Next, MainStep, ThreadStep, CheckThreadPool, JobStep, Closed

(* With no end_job() and no exception, the scheduler implements the job diagram
   of Multiplexer.h, with any number of jobs and threads. *)
THEOREM Refinement ==
  ASSUME EndCallers = {}, Throwers = {}
  PROVE  Spec => FollowsDiagram
<1>1. Spec => [](IInv /\ DiagramInv)
  <2>1. Init => IInv /\ DiagramInv
    BY InitEstablishes, DiagramInvInductive
  <2>2. IInv /\ DiagramInv /\ [Next]_vars => (IInv /\ DiagramInv)'
    BY NextKeeps, DiagramInvInductive
  <2>. QED
    BY <2>1, <2>2, PTL DEF Spec
<1>2. IInv /\ DiagramInv /\ [Next]_vars => [Diagram!Next]_Diagram!vars
  BY StepMaps
<1>. QED
  BY <1>1, <1>2, InitMaps, PTL DEF Spec, FollowsDiagram, Diagram!Spec
=============================================================================
