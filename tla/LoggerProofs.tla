---------------------------- MODULE LoggerProofs ----------------------------
(***************************************************************************)
(* Proofs about Logger, for any set of pool threads and log threads and    *)
(* any bounds, when set_async() is called as the configuration and the     *)
(* kernel call it: by the main thread, before and after the scheduler loop *)
(* (Admins = {}).  The invariant says who may be in process_queue(), that  *)
(* the queue continues what has been written, and who will empty it.       *)
(***************************************************************************)
EXTENDS Logger, TLAPS

-----------------------------------------------------------------------------
(* The inductive invariant *)

PcTypes ==
  /\ pc \in [All -> ProcPCs \cup ThreadPCs]
  /\ \A p \in Procs : pc[p] \in ProcPCs
  /\ \A t \in LogThreads : pc[t] \in ThreadPCs \ {"lock"}

EntryTypes ==
  /\ accepted \in Nat /\ queue \in Seq(Nat) /\ written \in Seq(Nat)
  /\ hand \in [All -> Nat]

OtherTypes ==
  /\ mutex \in All \cup {NoProc}
  /\ thread \in LogThreads \cup {NoThread}
  /\ running \subseteq LogThreads
  /\ separate \subseteq All
  /\ seen \in [Procs -> LogThreads \cup {NoThread}]
  /\ left \in [Procs -> Nat]
  /\ phase \in [at : {"config", "loop", "close", "closed"}, run : Nat]

Types == PcTypes /\ EntryTypes /\ OtherTypes

(* Only the log thread in m_thread is alive, and set_async() is in the main
   thread; what it finds not Running has not begun, or has been told to stop. *)
ThreadInv ==
  /\ \A t \in LogThreads : pc[t] \notin {"none", "deleted", "orphan"} => thread = t
  /\ \A p \in Procs : pc[p] \in {"note", "disable", "join"} => p = Main
  /\ pc[Main] \in {"disable", "join"} => thread # NoThread
  /\ \A p \in Procs : pc[p] = "wakeup" => seen[p] # NoThread
  /\ thread # NoThread /\ thread \notin running =>
       \/ pc[thread] \in {"starting", "failed"}
       \/ pc[Main] = "join" /\ pc[thread] \in {"woken", "exited"}

(* When there are pool threads, and when there may be a log thread. *)
PhaseInv ==
  /\ phase.at \in {"config", "closed"} => \A p \in Workers : pc[p] = "idle"
  /\ phase.at = "close" => thread = NoThread \/ pc[Main] \in {"disable", "join"}
  /\ phase.at = "closed" => thread = NoThread

(* Who is in process_queue(): the log thread without m_mutex, or, when there is
   none, one of the others with it. *)
ProcessInv ==
  /\ thread # NoThread =>
       \A p \in Procs : pc[p] \notin {"process", "lock", "take", "write"}
  /\ \A p \in Procs : pc[p] \in {"take", "write"} => mutex = p
  /\ \A p \in Procs : pc[p] \in {"lock", "take", "write"} => p \notin separate
  /\ \A t \in LogThreads : pc[t] \in {"take", "write"} => t \in separate
  /\ mutex # NoProc => mutex \in Procs /\ pc[mutex] \in {"take", "write"}

(* The queue continues what has been written and is being written. *)
Writing == \E p \in All : pc[p] = "write"

Base == IF Writing THEN Len(written) + 1 ELSE Len(written)

OrderInv ==
  /\ \A p \in All : hand[p] = IF pc[p] = "write" THEN Len(written) + 1 ELSE 0
  /\ accepted = Base + Len(queue)
  /\ \A i \in 1..Len(queue) : queue[i] = Base + i

(* Without a log thread somebody is on the way to empty the queue. *)
Drains(p) == pc[p] \in {"note", "queued", "process", "lock", "take", "write"}

DrainInv == thread = NoThread /\ queue # <<>> => \E p \in Procs : Drains(p)

Control == ThreadInv /\ PhaseInv /\ ProcessInv

IInv == Types /\ Control /\ OrderInv /\ DrainInv

-----------------------------------------------------------------------------
(* Steps that leave the entries alone leave their order alone. *)
LEMMA OrderKept ==
  ASSUME OrderInv, UNCHANGED entryVars,
         \A p \in All : pc'[p] = "write" <=> pc[p] = "write"
  PROVE  OrderInv'
<1>1. Writing' <=> Writing  BY DEF Writing
<1>2. Base' = Base  BY <1>1 DEF Base, entryVars
<1> QED  BY <1>2 DEF OrderInv, entryVars

(* The initial states. *)
LEMMA InitEstablishes == Init => IInv
<1> SUFFICES ASSUME Init PROVE IInv  OBVIOUS
<1>1. Types
  <2>1. PcTypes
    BY LoggerAssumption DEF Init, PcTypes, All, Procs, ProcPCs, ThreadPCs
  <2>2. EntryTypes
    BY DEF Init, EntryTypes
  <2>3. OtherTypes
    BY LoggerAssumption DEF Init, OtherTypes
  <2> QED  BY <2>1, <2>2, <2>3 DEF Types
<1>2. Control
  BY LoggerAssumption
     DEF Init, Control, ThreadInv, PhaseInv, ProcessInv, All, Procs
<1>3. OrderInv /\ DrainInv
  <2>1. ~Writing  BY DEF Init, Writing
  <2> QED  BY <2>1 DEF Init, OrderInv, DrainInv, Base
<1> QED  BY <1>1, <1>2, <1>3 DEF IInv

-----------------------------------------------------------------------------
(* log() *)

LEMMA SubmitKeeps ==
  ASSUME IInv, Admins = {}, NEW p \in Procs, Submit(p)
  PROVE  IInv'
<1> USE DEF IInv
<1>1. Types'
  <2>1. PcTypes'
    BY LoggerAssumption DEF Submit, Types, PcTypes, Goto, All, Procs, ProcPCs, ThreadPCs
  <2>2. EntryTypes'
    BY DEF Submit, Types, EntryTypes
  <2>3. OtherTypes'
    BY DEF Submit, Types, OtherTypes, threadVars
  <2> QED  BY <2>1, <2>2, <2>3 DEF Types
<1>2. Control'
  BY LoggerAssumption DEF Submit, Control, Types, PcTypes, ThreadInv, PhaseInv, ProcessInv,
                          Goto, threadVars, MayLog, All, Procs
<1>3. OrderInv'
  <2>1. \A q \in All : pc'[q] = "write" <=> pc[q] = "write"
    BY LoggerAssumption DEF Submit, Types, PcTypes, Goto, All, Procs
  <2>2. Base' = Base /\ Base \in Nat
    BY <2>1 DEF Submit, Base, Writing, Types, EntryTypes
  <2>3. /\ Len(queue') = Len(queue) + 1
        /\ \A i \in 1..Len(queue) : queue'[i] = queue[i]
        /\ queue'[Len(queue) + 1] = Base + Len(queue) + 1
    BY DEF Submit, Types, EntryTypes, OrderInv
  <2>4. \A q \in All : hand'[q] = IF pc'[q] = "write" THEN Len(written') + 1 ELSE 0
    BY <2>1 DEF Submit, OrderInv
  <2>5. accepted' = Base' + Len(queue')
    BY <2>2, <2>3 DEF Submit, OrderInv, Types, EntryTypes
  <2>6. ASSUME NEW i \in 1..Len(queue') PROVE queue'[i] = Base' + i
    <3>1. Len(queue) \in Nat  BY DEF Types, EntryTypes
    <3>2. i \in 1..Len(queue) \/ i = Len(queue) + 1  BY <2>3, <3>1
    <3> QED  BY <2>2, <2>3, <3>1, <3>2 DEF OrderInv
  <2> QED
    BY <2>4, <2>5, <2>6 DEF OrderInv
<1>4. DrainInv'
  BY LoggerAssumption DEF Submit, DrainInv, Drains, Types, PcTypes, Goto, All, Procs
<1> QED  BY <1>1, <1>2, <1>3, <1>4

LEMMA LookAtThreadKeeps ==
  ASSUME IInv, Admins = {}, NEW p \in Procs, LookAtThread(p)
  PROVE  IInv'
<1> USE DEF IInv
<1>1. Types'
  BY LoggerAssumption DEF LookAtThread, Types, PcTypes, EntryTypes, OtherTypes, Goto,
                          entryVars, threadVars, All, Procs, ProcPCs, ThreadPCs
<1>2. Control'
  BY LoggerAssumption DEF LookAtThread, Control, Types, PcTypes, OtherTypes, ThreadInv,
                          PhaseInv, ProcessInv, Goto, threadVars, All, Procs
<1>3. OrderInv'
  <2>1. \A q \in All : pc'[q] = "write" <=> pc[q] = "write"
    BY LoggerAssumption DEF LookAtThread, Types, PcTypes, Goto, All, Procs
  <2> QED  BY <2>1, OrderKept DEF LookAtThread
<1>4. DrainInv'
  BY LoggerAssumption DEF LookAtThread, DrainInv, Drains, Types, PcTypes, Goto, entryVars,
                          threadVars, All, Procs
<1> QED  BY <1>1, <1>2, <1>3, <1>4

LEMMA WakeupKeeps ==
  ASSUME IInv, Admins = {}, NEW p \in Procs, Wakeup(p)
  PROVE  IInv'
<1> USE DEF IInv
<1>1. PICK t \in {seen[p], thread} :
        pc' = IF t \in LogThreads /\ pc[t] = "waiting"
              THEN [pc EXCEPT ![p] = "idle", ![t] = "woken"]
              ELSE [pc EXCEPT ![p] = "idle"]
  BY DEF Wakeup
<1>2. CASE t \in LogThreads /\ pc[t] = "waiting"
  <2>0. pc' = [pc EXCEPT ![p] = "idle", ![t] = "woken"]
    BY <1>1, <1>2
  <2>1. Types'
    BY <1>2, <2>0, LoggerAssumption
       DEF Wakeup, Types, PcTypes, EntryTypes, OtherTypes, entryVars, threadVars, All,
           Procs, ProcPCs, ThreadPCs
  <2>2. Control'
    BY <1>2, <2>0, LoggerAssumption
       DEF Wakeup, Control, Types, PcTypes, OtherTypes, ThreadInv, PhaseInv, ProcessInv,
           threadVars, All, Procs
  <2>3. OrderInv'
    <3>1. \A q \in All : pc'[q] = "write" <=> pc[q] = "write"
      BY <1>2, <2>0, LoggerAssumption DEF Wakeup, Types, PcTypes, All, Procs
    <3> QED  BY <3>1, OrderKept DEF Wakeup
  <2>4. DrainInv'
    BY <1>2, <2>0, LoggerAssumption
       DEF Wakeup, DrainInv, Drains, Types, PcTypes, entryVars, threadVars, All, Procs
  <2> QED  BY <2>1, <2>2, <2>3, <2>4
<1>3. CASE ~(t \in LogThreads /\ pc[t] = "waiting")
  <2>0. pc' = [pc EXCEPT ![p] = "idle"]
    BY <1>1, <1>3
  <2>1. Types'
    BY <2>0, LoggerAssumption
       DEF Wakeup, Types, PcTypes, EntryTypes, OtherTypes, entryVars, threadVars, All,
           Procs, ProcPCs, ThreadPCs
  <2>2. Control'
    BY <2>0, LoggerAssumption
       DEF Wakeup, Control, Types, PcTypes, OtherTypes, ThreadInv, PhaseInv, ProcessInv,
           threadVars, All, Procs
  <2>3. OrderInv'
    <3>1. \A q \in All : pc'[q] = "write" <=> pc[q] = "write"
      BY <2>0, LoggerAssumption DEF Wakeup, Types, PcTypes, All, Procs
    <3> QED  BY <3>1, OrderKept DEF Wakeup
  <2>4. DrainInv'
    BY <2>0, LoggerAssumption
       DEF Wakeup, DrainInv, Drains, Types, PcTypes, entryVars, threadVars, All, Procs
  <2> QED  BY <2>1, <2>2, <2>3, <2>4
<1> QED  BY <1>2, <1>3

-----------------------------------------------------------------------------
(* process_queue() *)

(* Whoever is about to take an entry or is writing one is alone in that. *)
LEMMA Alone ==
  ASSUME Types, Control, NEW p \in All, NEW q \in All,
         pc[p] \in {"take", "write"}, pc[q] \in {"take", "write"}
  PROVE  p = q
<1>1. CASE p \in Procs /\ q \in Procs
  BY <1>1 DEF Control, ProcessInv
<1>2. CASE p \in LogThreads /\ q \in LogThreads
  BY <1>2 DEF Control, ThreadInv
<1>3. ASSUME NEW a \in Procs, NEW t \in LogThreads,
             pc[a] \in {"take", "write"}, pc[t] \in {"take", "write"}
      PROVE  FALSE
  <2>1. thread = t  BY <1>3 DEF Control, ThreadInv
  <2>2. thread # NoThread  BY <2>1, LoggerAssumption
  <2> QED  BY <1>3, <2>2 DEF Control, ProcessInv
<1> QED  BY <1>1, <1>2, <1>3 DEF All

LEMMA ProcessKeeps ==
  ASSUME IInv, Admins = {}, NEW p \in All, Process(p),
         UNCHANGED entryVars, UNCHANGED <<threadVars, seen, left, phase>>
  PROVE  IInv'
<1> USE DEF IInv
<1>0. p \in LogThreads => thread = p /\ thread # NoThread
  BY LoggerAssumption DEF Process, Control, ThreadInv
<1>1. Types'
  BY <1>0, LoggerAssumption
     DEF Process, Types, PcTypes, EntryTypes, OtherTypes, Goto, entryVars, threadVars, All,
         Procs, ProcPCs, ThreadPCs
<1>2. Control'
  BY <1>0, LoggerAssumption
     DEF Process, Control, Types, PcTypes, OtherTypes, ThreadInv, PhaseInv, ProcessInv, Goto,
         threadVars, All, Procs
<1>3. OrderInv'
  <2>1. \A q \in All : pc'[q] = "write" <=> pc[q] = "write"
    BY LoggerAssumption DEF Process, Types, PcTypes, Goto, All, Procs
  <2> QED  BY <2>1, OrderKept
<1>4. DrainInv'
  BY <1>0, LoggerAssumption
     DEF Process, DrainInv, Drains, Types, PcTypes, Goto, entryVars, threadVars, All, Procs
<1> QED  BY <1>1, <1>2, <1>3, <1>4

LEMMA LockKeeps ==
  ASSUME IInv, Admins = {}, NEW p \in All, Lock(p),
         UNCHANGED entryVars, UNCHANGED <<threadVars, seen, left, phase>>
  PROVE  IInv'
<1> USE DEF IInv
<1>0. p \in Procs
  BY DEF Lock, Types, PcTypes, All
<1>1. Types'
  BY <1>0, LoggerAssumption
     DEF Lock, Types, PcTypes, EntryTypes, OtherTypes, Goto, entryVars, threadVars, All,
         Procs, ProcPCs, ThreadPCs
<1>2. Control'
  BY <1>0, LoggerAssumption
     DEF Lock, Control, Types, PcTypes, OtherTypes, ThreadInv, PhaseInv, ProcessInv, Goto,
         threadVars, All, Procs
<1>3. OrderInv'
  <2>1. \A q \in All : pc'[q] = "write" <=> pc[q] = "write"
    BY LoggerAssumption DEF Lock, Types, PcTypes, Goto, All, Procs
  <2> QED  BY <2>1, OrderKept
<1>4. DrainInv'
  BY <1>0, LoggerAssumption
     DEF Lock, DrainInv, Drains, Types, PcTypes, Goto, entryVars, threadVars, All, Procs
<1> QED  BY <1>1, <1>2, <1>3, <1>4

LEMMA TakeKeeps ==
  ASSUME IInv, Admins = {}, NEW p \in All, Take(p), UNCHANGED <<accepted, written, separate>>,
         UNCHANGED <<threadVars, seen, left, phase>>
  PROVE  IInv'
<1> USE DEF IInv
<1>0. /\ p \in LogThreads => thread = p /\ thread # NoThread
      /\ ~Writing
      /\ p \in LogThreads <=> p \in separate
  <2>1. p \in LogThreads => thread = p /\ thread # NoThread
    BY LoggerAssumption DEF Take, Control, ThreadInv
  <2>2. ~Writing
    BY Alone DEF Take, Writing
  <2>3. p \in LogThreads <=> p \in separate
    BY LoggerAssumption DEF Take, Control, ProcessInv, All
  <2> QED  BY <2>1, <2>2, <2>3
<1>1. CASE queue = <<>>
  <2>1. Types'
    <3>1. PcTypes'
      BY <1>1, LoggerAssumption
         DEF Take, Types, PcTypes, Goto, Idle, All, Procs, ProcPCs, ThreadPCs
    <3>2. EntryTypes'
      BY <1>1 DEF Take, Types, EntryTypes
    <3>3. OtherTypes'
      BY <1>1 DEF Take, Types, OtherTypes, threadVars
    <3> QED  BY <3>1, <3>2, <3>3 DEF Types
  <2>2. Control'
    BY <1>0, <1>1, LoggerAssumption
       DEF Take, Control, Types, PcTypes, OtherTypes, ThreadInv, PhaseInv, ProcessInv, Goto,
           Idle, threadVars, All, Procs
  <2>3. OrderInv'
    <3>1. \A q \in All : pc'[q] = "write" <=> pc[q] = "write"
      BY <1>1, LoggerAssumption DEF Take, Types, PcTypes, Goto, Idle, All, Procs
    <3> QED  BY <1>1, <3>1, OrderKept DEF Take, entryVars
  <2>4. DrainInv'
    BY <1>1 DEF Take, DrainInv
  <2> QED  BY <2>1, <2>2, <2>3, <2>4
<1>2. CASE queue # <<>>
  <2>0. /\ Len(queue) \in Nat /\ Len(queue) >= 1
        /\ Head(queue) \in Nat /\ Head(queue) = queue[1]
        /\ queue' \in Seq(Nat) /\ Len(queue') = Len(queue) - 1
        /\ \A i \in 1..Len(queue') : queue'[i] = queue[i + 1]
    <3>1. queue \in Seq(Nat) /\ queue' = Tail(queue)
      BY <1>2 DEF Take, Types, EntryTypes
    <3>2. Len(queue) \in Nat /\ Len(queue) >= 1
      BY <1>2, <3>1
    <3>3. Head(queue) = queue[1] /\ queue[1] \in Nat
      BY <3>1, <3>2
    <3>4. Tail(queue) \in Seq(Nat) /\ Len(Tail(queue)) = Len(queue) - 1
      BY <1>2, <3>1, <3>2
    <3>5. \A i \in 1..Len(Tail(queue)) : Tail(queue)[i] = queue[i + 1]
      BY <3>1, <3>2
    <3> QED  BY <3>1, <3>2, <3>3, <3>4, <3>5
  <2>1. Types'
    <3>1. PcTypes'
      BY <1>2, LoggerAssumption
         DEF Take, Types, PcTypes, Goto, All, Procs, ProcPCs, ThreadPCs
    <3>2. EntryTypes'
      BY <1>2, <2>0 DEF Take, Types, EntryTypes
    <3>3. OtherTypes'
      BY <1>2 DEF Take, Types, OtherTypes, threadVars
    <3> QED  BY <3>1, <3>2, <3>3 DEF Types
  <2>2. Control'
    BY <1>0, <1>2, LoggerAssumption
       DEF Take, Control, Types, PcTypes, OtherTypes, ThreadInv, PhaseInv, ProcessInv, Goto,
           threadVars, All, Procs
  <2>3. OrderInv'
    <3>1. pc'[p] = "write" /\ \A q \in All : q # p => pc'[q] = pc[q] /\ pc[q] # "write"
      BY <1>0, <1>2 DEF Take, Types, PcTypes, Goto, Writing
    <3>2. Base = Len(written) /\ Base' = Len(written) + 1 /\ Base \in Nat
      BY <1>0, <3>1 DEF Base, Writing, Types, EntryTypes
    <3>3. Head(queue) = Base + 1
      BY <2>0 DEF OrderInv
    <3>4. \A q \in All : hand'[q] = IF pc'[q] = "write" THEN Len(written') + 1 ELSE 0
      BY <1>2, <3>1, <3>2, <3>3 DEF Take, OrderInv, Types, EntryTypes
    <3>5. accepted' = Base' + Len(queue')
      BY <2>0, <3>2 DEF OrderInv
    <3>6. ASSUME NEW i \in 1..Len(queue') PROVE queue'[i] = Base' + i
      <4>1. i \in Nat /\ i + 1 \in 1..Len(queue) /\ queue'[i] = queue[i + 1]
        BY <2>0
      <4>2. queue[i + 1] = Base + (i + 1)
        BY <4>1 DEF OrderInv
      <4> QED  BY <4>1, <4>2, <3>2
    <3> QED  BY <3>4, <3>5, <3>6 DEF OrderInv
  <2>4. DrainInv'
    BY <1>0, <1>2, LoggerAssumption
       DEF Take, DrainInv, Drains, Types, PcTypes, Goto, threadVars, All, Procs
  <2> QED  BY <2>1, <2>2, <2>3, <2>4
<1> QED  BY <1>1, <1>2

LEMMA WriteKeeps ==
  ASSUME IInv, Admins = {}, NEW p \in All, Write(p), UNCHANGED <<accepted, queue, mutex, separate>>,
         UNCHANGED <<threadVars, seen, left, phase>>
  PROVE  IInv'
<1> USE DEF IInv
<1>1. Types'
  BY LoggerAssumption
     DEF Write, Types, PcTypes, EntryTypes, OtherTypes, Goto, threadVars, All, Procs,
         ProcPCs, ThreadPCs
<1>2. Control'
  BY LoggerAssumption
     DEF Write, Control, Types, PcTypes, OtherTypes, ThreadInv, PhaseInv, ProcessInv, Goto,
         threadVars, All, Procs
<1>3. OrderInv'
  <2>1. \A q \in All : q # p => pc[q] # "write"
    BY Alone DEF Write
  <2>2. Writing /\ ~Writing'
    BY <2>1 DEF Write, Writing, Goto, Types, PcTypes
  <2>3. Len(written') = Len(written) + 1 /\ Len(written) \in Nat
    BY DEF Write, Types, EntryTypes
  <2>4. Base' = Base
    BY <2>2, <2>3 DEF Base
  <2>5. \A q \in All : hand'[q] = IF pc'[q] = "write" THEN Len(written') + 1 ELSE 0
    BY <2>1, <2>2 DEF Write, OrderInv, Types, EntryTypes, Writing
  <2> QED  BY <2>4, <2>5 DEF OrderInv
<1>4. DrainInv'
  BY LoggerAssumption
     DEF Write, DrainInv, Drains, Types, PcTypes, Goto, threadVars, All, Procs
<1> QED  BY <1>1, <1>2, <1>3, <1>4

-----------------------------------------------------------------------------
(* The log thread *)

LEMMA ThreadStepKeeps ==
  ASSUME IInv, Admins = {}, NEW t \in LogThreads, ThreadStep(t) \/ Spurious(t)
  PROVE  IInv'
<1> USE DEF IInv
<1>0. /\ thread = t /\ thread # NoThread
      /\ pc[t] \in {"starting", "waiting", "woken", "await"}
      /\ UNCHANGED <<entryVars, mutex, thread, separate, seen, left, phase>>
  <2>1. /\ pc[t] \in {"starting", "waiting", "woken", "await"}
        /\ UNCHANGED <<entryVars, mutex, thread, separate, seen, left, phase>>
    BY DEF ThreadStep, ThreadStart, ThreadWoken, ThreadWaits, Spurious, threadVars
  <2> QED  BY <2>1, LoggerAssumption DEF Control, ThreadInv
<1>1. CASE ThreadStart(t)
  <2>1. Types'
    BY <1>0, <1>1, LoggerAssumption
       DEF ThreadStart, Types, PcTypes, EntryTypes, OtherTypes, Goto, entryVars, All,
           Procs, ProcPCs, ThreadPCs
  <2>2. Control'
    BY <1>0, <1>1, LoggerAssumption
       DEF ThreadStart, Control, Types, PcTypes, OtherTypes, ThreadInv, PhaseInv,
           ProcessInv, Goto, All, Procs
  <2> QED  BY <1>0, <1>1, <2>1, <2>2, OrderKept, LoggerAssumption
           DEF ThreadStart, Goto, Types, PcTypes, DrainInv, All
<1>2. CASE Spurious(t) \/ ThreadWaits(t)
  <2>1. Types'
    <3>1. PcTypes'
      BY <1>2, LoggerAssumption
         DEF ThreadWaits, Spurious, Types, PcTypes, Goto, All, Procs, ProcPCs, ThreadPCs
    <3>2. EntryTypes' /\ OtherTypes'
      BY <1>0, <1>2 DEF ThreadWaits, Spurious, Types, EntryTypes, OtherTypes, entryVars,
                        threadVars
    <3> QED  BY <3>1, <3>2 DEF Types
  <2>2. Control'
    BY <1>0, <1>2, LoggerAssumption
       DEF ThreadWaits, Spurious, Control, Types, PcTypes, OtherTypes, ThreadInv, PhaseInv,
           ProcessInv, Goto, threadVars, All, Procs
  <2> QED  BY <1>0, <1>2, <2>1, <2>2, OrderKept, LoggerAssumption
           DEF ThreadWaits, Spurious, Goto, Types, PcTypes, DrainInv, All
<1>3. CASE ThreadWoken(t)
  <2>1. Types'
    <3>1. PcTypes'
      BY <1>3, LoggerAssumption
         DEF ThreadWoken, Types, PcTypes, Goto, All, Procs, ProcPCs, ThreadPCs
    <3>2. EntryTypes' /\ OtherTypes'
      BY <1>0, <1>3 DEF ThreadWoken, Types, EntryTypes, OtherTypes, entryVars, threadVars
    <3> QED  BY <3>1, <3>2 DEF Types
  <2>2. Control'
    BY <1>0, <1>3, LoggerAssumption
       DEF ThreadWoken, Control, Types, PcTypes, OtherTypes, ThreadInv, PhaseInv,
           ProcessInv, Goto, threadVars, All, Procs
  <2> QED  BY <1>0, <1>3, <2>1, <2>2, OrderKept, LoggerAssumption
           DEF ThreadWoken, Goto, Types, PcTypes, DrainInv, All
<1> QED  BY <1>1, <1>2, <1>3 DEF ThreadStep

-----------------------------------------------------------------------------
(* set_async() *)

LEMMA EnableAsyncKeeps ==
  ASSUME IInv, Admins = {}, NEW p \in Procs, EnableAsync(p)
  PROVE  IInv'
<1> USE DEF IInv
<1>0. p = Main /\ phase.at = "config" /\ pc[Main] = "idle"
  BY DEF EnableAsync, MaySetAsync
<1>1. PICK t \in Fresh, how \in {"starting", "failed"} :
        thread' = t /\ pc' = [pc EXCEPT ![t] = how, ![Main] = "note"]
  BY <1>0 DEF EnableAsync
<1>2. /\ t \in LogThreads /\ pc[t] = "none" /\ t # Main /\ t # NoThread
      /\ thread = NoThread
      /\ pc'[t] = how /\ pc'[Main] = "note"
      /\ \A q \in All : q # Main /\ q # t => pc'[q] = pc[q]
  BY <1>1, LoggerAssumption DEF Fresh, EnableAsync, Types, PcTypes, All, Procs
<1>3. Types'
  BY <1>0, <1>1, <1>2, LoggerAssumption
     DEF EnableAsync, Types, PcTypes, EntryTypes, OtherTypes, entryVars, All, Procs,
         ProcPCs, ThreadPCs
<1>4. Control'
  <2>1. \A u \in LogThreads : pc[u] \in {"none", "deleted", "orphan"}
    BY <1>2, LoggerAssumption DEF Control, ThreadInv
  <2>2. \A q \in Procs : pc'[q] = IF q = Main THEN "note" ELSE "idle"
    BY <1>0, <1>2, LoggerAssumption DEF Control, PhaseInv, All, Procs
  <2>3. ThreadInv'
    <3>1. ASSUME NEW u \in LogThreads, u # t PROVE pc'[u] \in {"none", "deleted", "orphan"}
      BY <1>2, <2>1, <3>1, LoggerAssumption DEF All, Procs
    <3>2. /\ \A q \in Procs : pc'[q] \in {"note", "disable", "join", "wakeup"} => q = Main
          /\ pc'[Main] = "note"
      BY <2>2 DEF Procs
    <3>3. pc'[thread'] \in {"starting", "failed"}
      BY <1>1, <1>2 DEF All
    <3> QED  BY <1>1, <3>1, <3>2, <3>3 DEF ThreadInv
  <2>4. PhaseInv'
    BY <1>0, <1>2, <2>2, LoggerAssumption DEF PhaseInv, EnableAsync, Procs
  <2>5. ProcessInv'
    BY <1>0, <1>2, <2>1, <2>2, LoggerAssumption
       DEF Control, ProcessInv, EnableAsync, All, Procs
  <2> QED  BY <2>3, <2>4, <2>5 DEF Control
<1>5. OrderInv'
  <2>1. ASSUME NEW q \in All PROVE pc'[q] = "write" <=> pc[q] = "write"
    <3>1. CASE q = Main  BY <1>0, <1>2, <3>1
    <3>2. CASE q = t  BY <1>2, <3>2
    <3> QED  BY <1>2, <3>1, <3>2
  <2> QED  BY <2>1, OrderKept DEF EnableAsync
<1>6. DrainInv'
  BY <1>1, <1>2 DEF DrainInv
<1> QED  BY <1>3, <1>4, <1>5, <1>6

LEMMA DisableAsyncKeeps ==
  ASSUME IInv, Admins = {}, NEW p \in Procs, DisableAsync(p)
  PROVE  IInv'
<1> USE DEF IInv
<1>0. /\ p = Main /\ pc[Main] \in {"idle", "disable"} /\ Main \in Procs
      /\ thread \in LogThreads /\ thread # NoThread /\ thread # Main
      /\ UNCHANGED <<entryVars, mutex, separate, seen, left, phase>>
      /\ pc[Main] = "disable" \/ phase.at = "config"
  BY LoggerAssumption
     DEF DisableAsync, MaySetAsync, Control, ThreadInv, Types, OtherTypes, Procs
<1>1. CASE thread \in running
  <2>1. /\ running' = running \ {thread} /\ thread' = thread
        /\ pc[thread] \in {"waiting", "woken"}
        /\ pc' = [pc EXCEPT ![Main] = "join", ![thread] = "woken"]
    BY <1>0, <1>1 DEF DisableAsync, Stop
  <2>2. /\ pc'[thread] = "woken" /\ pc'[Main] = "join"
        /\ \A q \in All : q # Main /\ q # thread => pc'[q] = pc[q]
    BY <1>0, <2>1 DEF Types, PcTypes, All
  <2>3. Types'
    BY <1>0, <2>1, <2>2, LoggerAssumption
       DEF Types, PcTypes, EntryTypes, OtherTypes, entryVars, All, Procs, ProcPCs, ThreadPCs
  <2>4. Control'
    <3>1. ThreadInv'
      BY <1>0, <2>1, <2>2, LoggerAssumption DEF Control, ThreadInv, All, Procs
    <3>2. PhaseInv'
      BY <1>0, <2>1, <2>2, LoggerAssumption DEF Control, PhaseInv, All, Procs
    <3>3. ProcessInv'
      BY <1>0, <2>1, <2>2, LoggerAssumption
         DEF Control, Types, OtherTypes, ProcessInv, All, Procs
    <3> QED  BY <3>1, <3>2, <3>3 DEF Control
  <2>5. OrderInv'
    <3>1. ASSUME NEW q \in All PROVE pc'[q] = "write" <=> pc[q] = "write"
      <4>1. CASE q = thread  BY <1>0, <2>1, <2>2, <4>1
      <4>2. CASE q = Main  BY <1>0, <2>2, <4>2
      <4> QED  BY <2>2, <4>1, <4>2
    <3> QED  BY <1>0, <3>1, OrderKept
  <2>6. DrainInv'
    BY <1>0, <2>1 DEF DrainInv
  <2> QED  BY <2>3, <2>4, <2>5, <2>6
<1>2. CASE thread \notin running
  <2>1. /\ running' = running /\ thread' = NoThread
        /\ pc' = [pc EXCEPT ![Main] = "note", ![thread] = Discarded(thread)]
    BY <1>0, <1>2 DEF DisableAsync, Stop
  <2>2. /\ pc[thread] \in {"starting", "failed"}
        /\ Discarded(thread) \in {"orphan", "deleted"}
    BY <1>0, <1>2 DEF Control, ThreadInv, Discarded
  <2>3. /\ pc'[thread] = Discarded(thread) /\ pc'[Main] = "note"
        /\ \A q \in All : q # Main /\ q # thread => pc'[q] = pc[q]
    BY <1>0, <2>1 DEF Types, PcTypes, All
  <2>4. Types'
    BY <1>0, <2>1, <2>2, <2>3, LoggerAssumption
       DEF Types, PcTypes, EntryTypes, OtherTypes, entryVars, All, Procs, ProcPCs, ThreadPCs
  <2>5. Control'
    <3>1. ThreadInv'
      BY <1>0, <2>1, <2>2, <2>3, LoggerAssumption DEF Control, ThreadInv, All, Procs
    <3>2. PhaseInv'
      BY <1>0, <2>1, <2>2, <2>3, LoggerAssumption DEF Control, PhaseInv, All, Procs
    <3>3. ProcessInv'
      BY <1>0, <2>1, <2>2, <2>3, LoggerAssumption
         DEF Control, Types, OtherTypes, ProcessInv, All, Procs
    <3> QED  BY <3>1, <3>2, <3>3 DEF Control
  <2>6. OrderInv'
    <3>1. ASSUME NEW q \in All PROVE pc'[q] = "write" <=> pc[q] = "write"
      <4>1. CASE q = thread  BY <1>0, <2>2, <2>3, <4>1
      <4>2. CASE q = Main  BY <1>0, <2>3, <4>2
      <4> QED  BY <2>3, <4>1, <4>2
    <3> QED  BY <1>0, <3>1, OrderKept
  <2>7. DrainInv'
    BY <1>0, <2>3 DEF DrainInv, Drains, All
  <2> QED  BY <2>4, <2>5, <2>6, <2>7
<1> QED  BY <1>1, <1>2

LEMMA JoinKeeps ==
  ASSUME IInv, Admins = {}, NEW p \in Procs, Join(p)
  PROVE  IInv'
<1> USE DEF IInv
<1>0. /\ p = Main /\ pc[Main] = "join" /\ Main \in Procs
      /\ thread \in LogThreads /\ thread # NoThread /\ thread # Main
      /\ pc[thread] = "exited" /\ thread' = NoThread
      /\ pc' = [pc EXCEPT ![Main] = "note", ![thread] = "deleted"]
      /\ UNCHANGED <<entryVars, mutex, running, separate, seen, left, phase>>
  BY LoggerAssumption DEF Join, Control, ThreadInv, Types, OtherTypes, Procs
<1>1. /\ pc'[thread] = "deleted" /\ pc'[Main] = "note"
      /\ \A q \in All : q # Main /\ q # thread => pc'[q] = pc[q]
  BY <1>0 DEF Types, PcTypes, All
<1>2. Types'
  BY <1>0, <1>1, LoggerAssumption
     DEF Types, PcTypes, EntryTypes, OtherTypes, entryVars, All, Procs, ProcPCs, ThreadPCs
<1>3. Control'
  <2>1. ThreadInv'
    BY <1>0, <1>1, LoggerAssumption DEF Control, ThreadInv, All, Procs
  <2>2. PhaseInv'
    BY <1>0, <1>1, LoggerAssumption DEF Control, PhaseInv, All, Procs
  <2>3. ProcessInv'
    BY <1>0, <1>1, LoggerAssumption DEF Control, Types, OtherTypes, ProcessInv, All, Procs
  <2> QED  BY <2>1, <2>2, <2>3 DEF Control
<1>4. OrderInv'
  <2>1. ASSUME NEW q \in All PROVE pc'[q] = "write" <=> pc[q] = "write"
    <3>1. CASE q = thread  BY <1>0, <1>1, <3>1
    <3>2. CASE q = Main  BY <1>0, <1>1, <3>2
    <3> QED  BY <1>1, <3>1, <3>2
  <2> QED  BY <1>0, <2>1, OrderKept
<1>5. DrainInv'
  BY <1>0, <1>1 DEF DrainInv, Drains, All
<1> QED  BY <1>2, <1>3, <1>4, <1>5

-----------------------------------------------------------------------------
(* Kernel *)

(* Once close() has waited for the pool threads there is no log thread, and
   nobody is on the way to a queue that therefore is empty. *)
LEMMA QueueEmptyAtRest ==
  ASSUME IInv, thread = NoThread, \A p \in Procs : pc[p] = "idle"
  PROVE  queue = <<>>
BY DEF IInv, DrainInv, Drains

LEMMA KernelStepKeeps ==
  ASSUME IInv, Admins = {}, KernelStep
  PROVE  IInv'
<1> USE DEF IInv
<1>1. CASE EnterLoop \/ ThreadsStopped
  <2>1. UNCHANGED <<entryVars, mutex, threadVars, pc, separate, seen, left>>
    BY <1>1 DEF EnterLoop, ThreadsStopped
  <2>2. phase' \in [at : {"config", "loop", "close", "closed"}, run : Nat]
    BY <1>1 DEF EnterLoop, ThreadsStopped, At, Types, OtherTypes
  <2>3. Types'
    BY <2>1, <2>2 DEF Types, PcTypes, EntryTypes, OtherTypes, entryVars, threadVars
  <2>4. PhaseInv'
    <3>1. CASE EnterLoop
      BY <2>1, <3>1 DEF EnterLoop, At, PhaseInv, Types, OtherTypes
    <3>2. CASE ThreadsStopped
      BY <2>1, <3>2 DEF ThreadsStopped, At, Control, PhaseInv, Types, OtherTypes, threadVars,
                        Procs
    <3> QED  BY <1>1, <3>1, <3>2
  <2>5. ThreadInv' /\ ProcessInv'
    BY <2>1 DEF Control, ThreadInv, ProcessInv, threadVars
  <2>6. OrderInv'
    BY <2>1, OrderKept
  <2>7. DrainInv'
    BY <2>1 DEF DrainInv, Drains, entryVars, threadVars
  <2> QED  BY <2>3, <2>4, <2>5, <2>6, <2>7 DEF Control
<1>2. CASE Close
  <2>1. /\ UNCHANGED <<entryVars, mutex, threadVars, separate, seen, left>>
        /\ phase.at = "loop" /\ phase' = [phase EXCEPT !.at = "close"]
        /\ pc[Main] = "idle" /\ Main \in Procs
    BY <1>2 DEF Close, At, Procs
  <2>2. /\ pc'[Main] = IF thread = NoThread THEN "idle" ELSE "disable"
        /\ \A q \in All : q # Main => pc'[q] = pc[q]
        /\ pc' \in [All -> ProcPCs \cup ThreadPCs]
    BY <1>2, <2>1 DEF Close, Goto, Types, PcTypes, All, ProcPCs
  <2>3. phase'.at = "close" /\ phase' \in [at : {"config", "loop", "close", "closed"}, run : Nat]
    BY <2>1 DEF Types, OtherTypes
  <2>4. Types'
    <3>1. PcTypes'
      BY <2>1, <2>2, LoggerAssumption DEF Types, PcTypes, All, ProcPCs
    <3>2. EntryTypes' /\ OtherTypes'
      BY <2>1, <2>3 DEF Types, EntryTypes, OtherTypes, entryVars, threadVars
    <3> QED  BY <3>1, <3>2 DEF Types
  <2>5. Control'
    <3>1. ThreadInv'
      <4>1. /\ thread' = thread /\ running' = running
            /\ \A t \in LogThreads : pc'[t] = pc[t]
        BY <2>1, <2>2, LoggerAssumption DEF threadVars, All, Procs
      <4>2. CASE thread = NoThread
        BY <2>1, <2>2, <4>1, <4>2, LoggerAssumption DEF Control, ThreadInv, All, Procs
      <4>3. CASE thread # NoThread
        BY <2>1, <2>2, <4>1, <4>3, LoggerAssumption
           DEF Control, ThreadInv, Types, OtherTypes, All, Procs
      <4> QED  BY <4>2, <4>3
    <3>2. PhaseInv'
      BY <2>1, <2>2, <2>3, LoggerAssumption DEF PhaseInv, threadVars
    <3>3. ProcessInv'
      BY <2>1, <2>2, LoggerAssumption
         DEF Control, ProcessInv, Types, OtherTypes, threadVars, All, Procs
    <3> QED  BY <3>1, <3>2, <3>3 DEF Control
  <2>6. OrderInv'
    <3>1. ASSUME NEW q \in All PROVE pc'[q] = "write" <=> pc[q] = "write"
      <4>1. CASE q = Main  BY <2>1, <2>2, <4>1
      <4> QED  BY <2>2, <4>1
    <3> QED  BY <2>1, <3>1, OrderKept
  <2>7. DrainInv'
    BY <2>1, <2>2 DEF DrainInv, Drains, entryVars, threadVars, All
  <2> QED  BY <2>4, <2>5, <2>6, <2>7
<1>3. CASE Restart
  <2>1. /\ thread = NoThread /\ \A p \in Procs : pc[p] = "idle"
        /\ thread' = NoThread /\ queue' = <<>>
        /\ UNCHANGED <<accepted, written, mutex, running, pc, hand, separate, seen, left>>
        /\ phase' = [at |-> "config", run |-> phase.run + 1]
    BY <1>3 DEF Restart, Control, PhaseInv, Procs
  <2>2. queue' = queue
    BY <2>1, QueueEmptyAtRest
  <2>3. UNCHANGED entryVars /\ thread' = thread
    BY <2>1, <2>2 DEF entryVars
  <2>4. Types'
    <3>1. phase.run \in Nat  BY DEF Types, OtherTypes
    <3>2. phase' \in [at : {"config", "loop", "close", "closed"}, run : Nat]
      BY <2>1, <3>1
    <3> QED  BY <2>1, <2>3, <3>2 DEF Types, PcTypes, EntryTypes, OtherTypes, entryVars
  <2>5. Control'
    BY <2>1, <2>3 DEF Control, ThreadInv, PhaseInv, ProcessInv, Procs
  <2>6. OrderInv'
    BY <2>1, <2>3, OrderKept
  <2>7. DrainInv'
    BY <2>1 DEF DrainInv
  <2> QED  BY <2>4, <2>5, <2>6, <2>7
<1> QED  BY <1>1, <1>2, <1>3 DEF KernelStep

-----------------------------------------------------------------------------
(* The theorems *)

LEMMA NextKeeps ==
  ASSUME Admins = {}
  PROVE  IInv /\ [Next]_vars => IInv'
<1> SUFFICES ASSUME IInv, [Next]_vars PROVE IInv'  OBVIOUS
<1>1. ASSUME NEW p \in Procs, LogStep(p) PROVE IInv'
  BY <1>1, SubmitKeeps, LookAtThreadKeeps, WakeupKeeps DEF LogStep
<1>2. ASSUME NEW p \in Procs, AsyncStep(p) PROVE IInv'
  BY <1>2, EnableAsyncKeeps, DisableAsyncKeeps, JoinKeeps DEF AsyncStep
<1>3. ASSUME NEW p \in All, ProcessQueue(p) PROVE IInv'
  BY <1>3, ProcessKeeps, LockKeeps, TakeKeeps, WriteKeeps DEF ProcessQueue
<1>4. ASSUME NEW t \in LogThreads, ThreadStep(t) \/ Spurious(t) PROVE IInv'
  BY <1>4, ThreadStepKeeps
<1>5. CASE KernelStep
  BY <1>5, KernelStepKeeps
<1>6. CASE UNCHANGED vars
  <2>1. OrderInv'
    BY <1>6, OrderKept DEF vars, entryVars, IInv
  <2> QED
    BY <1>6, <2>1 DEF vars, IInv, Types, PcTypes, EntryTypes, OtherTypes, Control, ThreadInv,
                      PhaseInv, ProcessInv, DrainInv, Drains
<1> QED  BY <1>1, <1>2, <1>3, <1>4, <1>5, <1>6 DEF Next, Exit

(* When only the main thread calls set_async(), before the loop and in close(),
   every reachable state satisfies the invariant. *)
THEOREM Invariant ==
  ASSUME Admins = {}
  PROVE  Spec => []IInv
<1>1. Init => IInv  BY InitEstablishes
<1>2. IInv /\ [Next]_vars => IInv'  BY NextKeeps
<1> QED  BY <1>1, <1>2, PTL DEF Spec

(* Logger.cpp's variables keep to their types, m_mutex is kept only inside
   process_queue(), and who is in log_entry() has an entry to write. *)
THEOREM TypeCorrect ==
  ASSUME Admins = {}
  PROVE  Spec => []TypeOK
<1>1. IInv => TypeOK
  <2> SUFFICES ASSUME IInv PROVE TypeOK  OBVIOUS
  <2>1. \A p \in All : hand[p] # 0 <=> pc[p] = "write"
    <3>1. Len(written) \in Nat  BY DEF IInv, Types, EntryTypes
    <3> QED  BY <3>1 DEF IInv, OrderInv
  <2>2. mutex # NoProc => pc[mutex] \in {"take", "write"} /\ mutex \notin separate
    BY DEF IInv, Control, ProcessInv
  <2> QED  BY <2>1, <2>2 DEF TypeOK, IInv, Types, PcTypes, EntryTypes, OtherTypes
<1> QED  BY <1>1, Invariant, PTL

(* Logger.cpp:516: the channels are used by one thread at a time, in either mode
   and across the changes of mode that the main thread makes, in the
   configuration and in close().  Once a console calls set_async(true) they are
   not: Admins = {} is what this rests on. *)
THEOREM OneInLogEntryAlways ==
  ASSUME Admins = {}
  PROVE  Spec => []OneInLogEntry
<1>1. IInv => OneInLogEntry
  BY Alone DEF IInv, OneInLogEntry
<1> QED  BY <1>1, Invariant, PTL

(* set_async(false) and a restart leave no entry behind in the queue. *)
THEOREM SyncLeavesNothingAlways ==
  ASSUME Admins = {}
  PROVE  Spec => []SyncLeavesNothing
<1>1. IInv => SyncLeavesNothing
  BY QueueEmptyAtRest DEF SyncLeavesNothing
<1> QED  BY <1>1, Invariant, PTL

(* The Logger implements OrderedLog: each entry is written once, in the order in
   which the entries were accepted. *)
THEOREM Refinement ==
  ASSUME Admins = {}
  PROVE  Spec => KeepsOrder
<1>1. Init => Abstract!Init
  BY DEF Init, Abstract!Init
<1>2. IInv /\ [Next]_vars => [Abstract!Next]_<<accepted, written>>
  <2> SUFFICES ASSUME IInv, [Next]_vars, ~UNCHANGED <<accepted, written>>
               PROVE  Abstract!Next
    OBVIOUS
  <2>1. ASSUME NEW p \in Procs, LogStep(p) PROVE Abstract!Next
    BY <2>1 DEF LogStep, Submit, LookAtThread, Wakeup, entryVars, Abstract!Next, Abstract!Accept
  <2>2. ASSUME NEW p \in All, ProcessQueue(p) PROVE Abstract!Next
    <3>1. Write(p) /\ UNCHANGED <<accepted, queue>>
      BY <2>2 DEF ProcessQueue, entryVars
    <3>2. pc[p] = "write" /\ hand[p] = Len(written) + 1
      BY <3>1 DEF Write, IInv, OrderInv
    <3>3. Len(written) < accepted
      <4>1. Base = Len(written) + 1  BY <3>2 DEF Base, Writing
      <4>2. Len(written) \in Nat /\ Len(queue) \in Nat  BY DEF IInv, Types, EntryTypes
      <4> QED  BY <4>1, <4>2 DEF IInv, OrderInv
    <3> QED  BY <3>1, <3>2, <3>3 DEF Write, Abstract!Next, Abstract!Emit
  <2>3. ASSUME NEW p \in Procs, AsyncStep(p) PROVE FALSE
    BY <2>3 DEF AsyncStep, EnableAsync, DisableAsync, Join, entryVars
  <2>4. ASSUME NEW t \in LogThreads, ThreadStep(t) \/ Spurious(t) PROVE FALSE
    BY <2>4 DEF ThreadStep, ThreadStart, ThreadWoken, ThreadWaits, Spurious, entryVars
  <2>5. ~KernelStep
    BY DEF KernelStep, EnterLoop, Close, ThreadsStopped, Restart, entryVars
  <2>6. ~UNCHANGED vars
    BY DEF vars
  <2> QED  BY <2>1, <2>2, <2>3, <2>4, <2>5, <2>6 DEF Next, Exit
<1> QED  BY <1>1, <1>2, Invariant, PTL DEF Spec, KeepsOrder, Abstract!Spec
=============================================================================
