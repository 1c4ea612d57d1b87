------------------------------- MODULE Logger -------------------------------
(***************************************************************************)
(* sconex Logger and LogThread, and what Kernel does with them.            *)
(*                                                                         *)
(* log() puts an entry into the queue and then either wakes the log thread *)
(* or, when there is none, empties the queue itself.  set_async() starts   *)
(* and stops the log thread.  Main runs the configuration, where scripts   *)
(* enable asynchronous logging, then the scheduler loop with its pool      *)
(* threads, then Kernel::close(), which disables it while the pool threads *)
(* still run; a restart replaces the Logger.                               *)
(*                                                                         *)
(* An entry is the number it gets when it enters the queue.  A pool thread *)
(* that has seen m_thread set may call wakeup() on one that has since been *)
(* deleted, or on the null pointer it finds at its second look: both are   *)
(* undefined, and modelled as a call without effect.                       *)
(***************************************************************************)
EXTENDS Naturals, Sequences

CONSTANTS
  Workers,     \* pool threads that log
  Main,        \* the main thread
  LogThreads,  \* LogThread objects; the bound on how many are ever created
  NoThread,    \* the null LogThread pointer
  NoProc,      \* nobody (an unlocked mutex)
  Admins,      \* pool threads on which a console may run logger.set_async()
  MaxLogs,     \* bound: calls of log() of each thread
  MaxRuns      \* bound: times Kernel::run() is called

Procs == Workers \cup {Main}
All   == Procs \cup LogThreads

ASSUME LoggerAssumption ==
  /\ Main \notin Workers /\ Admins \subseteq Workers
  /\ Procs \cap LogThreads = {}
  /\ NoThread \notin LogThreads
  /\ NoProc \notin All
  /\ MaxLogs \in Nat /\ MaxRuns \in Nat

VARIABLES
  accepted,    \* entries that have entered the queue so far
  queue,       \* m_queue
  written,     \* what the channels have been given
  mutex,       \* who keeps m_mutex over a step
  thread,      \* m_thread
  running,     \* log threads whose Thread::m_state is Running
  pc,          \* where each thread is
  hand,        \* the entry a thread is writing, 0 if none
  separate,    \* threads whose local separate_thread in process_queue() is true
  seen,        \* the m_thread that log() read
  left,        \* calls of log() that a thread has left
  phase        \* what Kernel is doing, and how often run() was called

vars == <<accepted, queue, written, mutex, thread, running, pc, hand, separate,
          seen, left, phase>>

threadVars == <<thread, running>>
entryVars  == <<accepted, queue, written, hand>>

Goto(p, l) == pc' = [pc EXCEPT ![p] = l]
Fresh      == {t \in LogThreads : pc[t] = "none"}

-----------------------------------------------------------------------------
Init ==
  /\ accepted = 0 /\ queue = <<>> /\ written = <<>>
  /\ mutex = NoProc /\ thread = NoThread /\ running = {}
  /\ pc = [p \in All |-> IF p \in Procs THEN "idle" ELSE "none"]
  /\ hand = [p \in All |-> 0]
  /\ separate = {}
  /\ seen = [p \in Procs |-> NoThread]
  /\ left = [p \in Procs |-> MaxLogs]
  /\ phase = [at |-> "config", run |-> 1]

(* Pool threads exist while the scheduler loop runs, and until close() has
   stopped them. *)
MayLog(p) == p = Main \/ phase.at \in {"loop", "close"}

(* log(): the entry enters the queue, under m_mutex.  set_async() itself logs
   what it has done ("note"). *)
Submit(p) ==
  /\ mutex = NoProc
  /\ \/ pc[p] = "note" /\ UNCHANGED left
     \/ pc[p] = "idle" /\ MayLog(p) /\ left[p] > 0 /\ left' = [left EXCEPT ![p] = @ - 1]
  /\ accepted' = accepted + 1
  /\ queue' = Append(queue, accepted + 1)
  /\ Goto(p, "queued")
  /\ UNCHANGED <<written, mutex, threadVars, hand, separate, seen, phase>>

(* if (m_thread) *)
LookAtThread(p) ==
  /\ pc[p] = "queued"
  /\ seen' = [seen EXCEPT ![p] = thread]
  /\ Goto(p, IF thread = NoThread THEN "process" ELSE "wakeup")
  /\ UNCHANGED <<entryVars, mutex, threadVars, separate, left, phase>>

(* m_thread->wakeup(): the pointer is read again, and may be null by now, or the
   thread deleted.  Nobody hears it unless the thread is waiting. *)
Wakeup(p) ==
  /\ pc[p] = "wakeup"
  /\ \E t \in {seen[p], thread} :
       pc' = IF t \in LogThreads /\ pc[t] = "waiting"
             THEN [pc EXCEPT ![p] = "idle", ![t] = "woken"]
             ELSE [pc EXCEPT ![p] = "idle"]
  /\ UNCHANGED <<entryVars, mutex, threadVars, separate, seen, left, phase>>

-----------------------------------------------------------------------------
(* Logger::process_queue(), of a thread that logs or of the log thread *)

Idle(p) == IF p \in LogThreads THEN "await" ELSE "idle"

(* Slip: the mutex is taken for each access to the queue in either mode. *)
ProcessUnlocked(p) ==
  /\ pc[p] = "process"
  /\ separate' = separate \cup {p}
  /\ Goto(p, "take")
  /\ UNCHANGED mutex

(* The flag is read, and without a log thread the mutex is taken until the end. *)
Process(p) ==
  /\ pc[p] = "process"
  /\ separate' = IF thread = NoThread THEN separate \ {p} ELSE separate \cup {p}
  /\ Goto(p, IF thread = NoThread THEN "lock" ELSE "take")
  /\ UNCHANGED mutex

Lock(p) ==
  /\ pc[p] = "lock" /\ mutex = NoProc
  /\ mutex' = p
  /\ Goto(p, "take")
  /\ UNCHANGED separate

(* The next entry is taken, or there is none and process_queue() returns. *)
Take(p) ==
  /\ pc[p] = "take" /\ mutex = IF p \in separate THEN NoProc ELSE p
  /\ IF queue = <<>>
     THEN Goto(p, Idle(p)) /\ mutex' = NoProc /\ UNCHANGED <<queue, hand>>
     ELSE /\ hand' = [hand EXCEPT ![p] = Head(queue)]
          /\ queue' = Tail(queue)
          /\ Goto(p, "write")
          /\ UNCHANGED mutex

(* log_entry() has given the entry to the channels, and returns. *)
Write(p) ==
  /\ pc[p] = "write"
  /\ written' = Append(written, hand[p])
  /\ hand' = [hand EXCEPT ![p] = 0]
  /\ Goto(p, "take")

ProcessQueue(p) ==
  /\ \/ (Process(p) \/ Lock(p)) /\ UNCHANGED entryVars
     \/ Take(p) /\ UNCHANGED <<accepted, written, separate>>
     \/ Write(p) /\ UNCHANGED <<accepted, queue, mutex, separate>>
  /\ UNCHANGED <<threadVars, seen, left, phase>>

-----------------------------------------------------------------------------
(* LogThread::run() *)

(* The first await_wakeup(): from here on the state is Running. *)
ThreadStart(t) ==
  /\ pc[t] = "starting"
  /\ running' = running \cup {t}
  /\ Goto(t, "waiting")
  /\ UNCHANGED <<entryVars, mutex, thread, separate, seen, left, phase>>

Spurious(t) ==
  /\ pc[t] = "waiting"
  /\ Goto(t, "woken")
  /\ UNCHANGED <<entryVars, mutex, threadVars, separate, seen, left, phase>>

ThreadWoken(t) ==
  /\ pc[t] = "woken"
  /\ Goto(t, IF t \in running THEN "process" ELSE "exited")
  /\ UNCHANGED <<entryVars, mutex, threadVars, separate, seen, left, phase>>

(* The thread holds its own mutex from one wait to the next. *)
ThreadWaits(t) ==
  /\ pc[t] = "await"
  /\ Goto(t, "waiting")
  /\ UNCHANGED <<entryVars, mutex, threadVars, separate, seen, left, phase>>

-----------------------------------------------------------------------------
(* Logger::set_async() *)

MaySetAsync(p) ==
  /\ pc[p] = "idle"
  /\ \/ p = Main /\ phase.at = "config"
     \/ p \in Admins /\ phase.at = "loop"

(* The new thread starts, or pthread_create() fails and nobody notices; start()
   does not wait for it. *)
EnableAsync(p) ==
  /\ MaySetAsync(p) /\ thread = NoThread
  /\ \E t \in Fresh :
       /\ thread' = t
       /\ \E how \in {"starting", "failed"} : pc' = [pc EXCEPT ![t] = how, ![p] = "note"]
  /\ UNCHANGED <<entryVars, mutex, running, separate, seen, left, phase>>

(* Thread::stop() of a thread that is not running does nothing, and the thread
   object is deleted under the pthread that was about to run. *)
Discarded(t) == IF pc[t] = "starting" THEN "orphan" ELSE "deleted"

(* Slip: stop() sets the state and does not signal. *)
StopUnsignalled(p) ==
  IF thread \in running
  THEN /\ pc[thread] \in {"waiting", "woken"}
       /\ running' = running \ {thread}
       /\ Goto(p, "join")
       /\ UNCHANGED thread
  ELSE /\ pc' = [pc EXCEPT ![p] = "note", ![thread] = Discarded(thread)]
       /\ thread' = NoThread
       /\ UNCHANGED running

(* stop() needs the thread's mutex, so it gets in only while that waits. *)
Stop(p) ==
  IF thread \in running
  THEN /\ pc[thread] \in {"waiting", "woken"}
       /\ running' = running \ {thread}
       /\ pc' = [pc EXCEPT ![p] = "join", ![thread] = "woken"]
       /\ UNCHANGED thread
  ELSE /\ pc' = [pc EXCEPT ![p] = "note", ![thread] = Discarded(thread)]
       /\ thread' = NoThread
       /\ UNCHANGED running

DisableAsync(p) ==
  /\ \/ MaySetAsync(p) \/ pc[p] = "disable"
  /\ thread # NoThread
  /\ Stop(p)
  /\ UNCHANGED <<entryVars, mutex, separate, seen, left, phase>>

(* Slip: set_async(false) does not log, and so does not empty the queue. *)
JoinSilent(p) ==
  /\ pc[p] = "join" /\ pc[thread] = "exited"
  /\ pc' = [pc EXCEPT ![p] = "idle", ![thread] = "deleted"]
  /\ thread' = NoThread
  /\ UNCHANGED <<entryVars, mutex, running, separate, seen, left, phase>>

(* The thread has ended: it is deleted, and the note that asynchronous logging
   is disabled is the first entry to be processed by its caller. *)
Join(p) ==
  /\ pc[p] = "join" /\ pc[thread] = "exited"
  /\ pc' = [pc EXCEPT ![p] = "note", ![thread] = "deleted"]
  /\ thread' = NoThread
  /\ UNCHANGED <<entryVars, mutex, running, separate, seen, left, phase>>

-----------------------------------------------------------------------------
(* Kernel *)

At(a) == phase' = [phase EXCEPT !.at = a]

EnterLoop ==
  /\ pc[Main] = "idle" /\ phase.at = "config"
  /\ At("loop")
  /\ UNCHANGED <<entryVars, mutex, threadVars, pc, separate, seen, left>>

(* close(): set_async(false) first.  That a console is in set_async() at the same
   time, so that both stop and delete the thread, is left out. *)
Close ==
  /\ pc[Main] = "idle" /\ phase.at = "loop"
  /\ \A p \in Admins : pc[p] # "join"
  /\ At("close")
  /\ Goto(Main, IF thread = NoThread THEN "idle" ELSE "disable")
  /\ UNCHANGED <<entryVars, mutex, threadVars, separate, seen, left>>

(* Multiplexer::close() has waited for every pool thread. *)
ThreadsStopped ==
  /\ phase.at = "close" /\ \A p \in Procs : pc[p] = "idle"
  /\ At("closed")
  /\ UNCHANGED <<entryVars, mutex, threadVars, pc, separate, seen, left>>

(* Logger::init(): the Logger and what is in its queue are deleted, and a new
   one made; the next Kernel::run() starts with it. *)
Restart ==
  /\ phase.at = "closed" /\ pc[Main] = "idle" /\ phase.run < MaxRuns
  /\ phase' = [at |-> "config", run |-> phase.run + 1]
  /\ queue' = <<>>
  /\ thread' = NoThread
  /\ UNCHANGED <<accepted, written, mutex, running, pc, hand, separate, seen, left>>

Exit == phase.at = "closed" /\ UNCHANGED vars

LogStep(p)    == Submit(p) \/ LookAtThread(p) \/ Wakeup(p)
AsyncStep(p)  == EnableAsync(p) \/ DisableAsync(p) \/ Join(p)
ThreadStep(t) == ThreadStart(t) \/ ThreadWoken(t) \/ ThreadWaits(t)
KernelStep    == EnterLoop \/ Close \/ ThreadsStopped \/ Restart

Next ==
  \/ \E p \in Procs : LogStep(p) \/ AsyncStep(p)
  \/ \E p \in All : ProcessQueue(p)
  \/ \E t \in LogThreads : ThreadStep(t) \/ Spurious(t)
  \/ KernelStep \/ Exit

Spec == Init /\ [][Next]_vars

(* The operating system runs every thread, and who asks for a mutex again and
   again gets it; a log() or set_async() that has begun goes on, but nobody has
   to begin one. *)
Fairness ==
  /\ \A p \in Procs :
       /\ WF_vars(pc[p] # "idle" /\ LogStep(p))
       /\ SF_vars(pc[p] # "idle" /\ AsyncStep(p))
       /\ WF_vars(ProcessQueue(p))
  /\ \A t \in LogThreads : WF_vars(ThreadStep(t)) /\ WF_vars(ProcessQueue(t))
  /\ WF_vars(ThreadsStopped)

FairSpec == Spec /\ Fairness

-----------------------------------------------------------------------------
(* Properties *)

ProcPCs   == {"idle", "note", "queued", "wakeup", "process", "lock", "take",
              "write", "disable", "join"}
ThreadPCs == {"none", "starting", "failed", "waiting", "woken", "await", "process",
              "lock", "take", "write", "exited", "deleted", "orphan"}

(* The variables keep to their types; whoever keeps m_mutex is in process_queue(),
   and a thread has an entry in its hands exactly while it is in log_entry(). *)
TypeOK ==
  /\ accepted \in Nat /\ queue \in Seq(Nat) /\ written \in Seq(Nat)
  /\ mutex \in All \cup {NoProc}
  /\ mutex # NoProc => pc[mutex] \in {"take", "write"} /\ mutex \notin separate
  /\ thread \in LogThreads \cup {NoThread}
  /\ running \subseteq LogThreads
  /\ pc \in [All -> ProcPCs \cup ThreadPCs]
  /\ hand \in [All -> Nat]
  /\ \A p \in All : hand[p] # 0 <=> pc[p] = "write"
  /\ separate \subseteq All
  /\ seen \in [Procs -> LogThreads \cup {NoThread}]
  /\ left \in [Procs -> Nat]
  /\ phase \in [at : {"config", "loop", "close", "closed"}, run : Nat]

(* Logger.cpp:516: "If logging in a separate thread, then we only need to protect
   access to the queue, otherwise we need to protect the log_entry calls too":
   the channels, which have no lock, are used by one thread at a time. *)
OneInLogEntry ==
  \A p, q \in All : pc[p] = "write" /\ pc[q] = "write" => p = q

(* Without a log thread nothing stays behind: once every log() has returned the
   queue is empty, so that neither set_async(false) nor the Logger that a restart
   deletes loses the entries that the log thread was not woken for. *)
SyncLeavesNothing ==
  thread = NoThread /\ (\A p \in Procs : pc[p] = "idle") => queue = <<>>

(* The entries are written in the order in which they entered the queue, each
   once, in either mode and over every change of mode and every restart. *)
Abstract == INSTANCE OrderedLog

KeepsOrder == Abstract!Spec

(* close() comes to its end: it stops the log thread, whatever that is doing. *)
CloseEnds == phase.at = "close" ~> phase.at = "closed"
=============================================================================
