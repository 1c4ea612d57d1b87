---------------------------- MODULE JobLifecycle ----------------------------
(***************************************************************************)
(* What the scheduler promises of its jobs, and nothing of how: the state  *)
(* diagram at the head of sconex/Multiplexer.h,                            *)
(*                                                                         *)
(*     (New) --> Wait --> Run --> Purge --> (Delete)                       *)
(*                 ^       |                                               *)
(*                 +-Cycle-+                                               *)
(*                                                                         *)
(* together with the two things every Job::run() in the tree relies on:    *)
(* a job is executed by one worker at a time, and it is not deleted while  *)
(* it is being executed.                                                   *)
(***************************************************************************)
CONSTANTS
  Jobs,     \* every Job object the program ever creates
  Workers,  \* what can execute Job::run(): the main thread and the pool
  NoJob     \* the null Job pointer

VARIABLES
  state,    \* state[j]: where job j is in the diagram
  doing     \* doing[w]: the job whose run() worker w is executing

vars == <<state, doing>>

JobStates == {"new", "Wait", "Run", "Cycle", "Purge", "deleted"}

TypeOK ==
  /\ state \in [Jobs -> JobStates]
  /\ doing \in [Workers -> Jobs \cup {NoJob}]

Moved(S, s) == [j \in Jobs |-> IF j \in S THEN s ELSE state[j]]

-----------------------------------------------------------------------------
Init ==
  /\ state \in [Jobs -> {"new", "Wait"}]
  /\ doing = [w \in Workers |-> NoJob]

Add(j) ==
  /\ state[j] = "new"
  /\ state' = Moved({j}, "Wait")
  /\ UNCHANGED doing

(* A waiting job is handed to some worker that will execute it. *)
Allocate(j) ==
  /\ state[j] = "Wait"
  /\ state' = Moved({j}, "Run")
  /\ UNCHANGED doing

Begin(w, j) ==
  /\ doing[w] = NoJob
  /\ state[j] = "Run"
  /\ \A v \in Workers : doing[v] # j
  /\ doing' = [doing EXCEPT ![w] = j]
  /\ UNCHANGED state

(* The main thread without a pool hands the job to itself. *)
AllocateAndBegin(w, j) ==
  /\ doing[w] = NoJob
  /\ state[j] = "Wait"
  /\ \A v \in Workers : doing[v] # j
  /\ state' = Moved({j}, "Run")
  /\ doing' = [doing EXCEPT ![w] = j]

Finish(w) ==
  /\ doing[w] # NoJob
  /\ \E s \in {"Cycle", "Purge"} : state' = Moved({doing[w]}, s)
  /\ doing' = [doing EXCEPT ![w] = NoJob]

Recycle(S) ==
  /\ \A j \in S : state[j] = "Cycle"
  /\ state' = Moved(S, "Wait")
  /\ UNCHANGED doing

Delete(S) ==
  /\ \A j \in S : state[j] = "Purge"
  /\ state' = Moved(S, "deleted")
  /\ UNCHANGED doing

(* Multiplexer::close(): whatever is left goes, but nothing is running. *)
DeleteAll ==
  /\ doing = [w \in Workers |-> NoJob]
  /\ state' = [j \in Jobs |-> IF state[j] = "new" THEN "new" ELSE "deleted"]
  /\ UNCHANGED doing

Next ==
  \/ \E j \in Jobs : Add(j) \/ Allocate(j)
  \/ \E w \in Workers, j \in Jobs : Begin(w, j) \/ AllocateAndBegin(w, j)
  \/ \E w \in Workers : Finish(w)
  \/ \E S \in SUBSET Jobs : Recycle(S) \/ Delete(S)
  \/ DeleteAll

Spec == Init /\ [][Next]_vars

-----------------------------------------------------------------------------
(* No two workers execute one job, and nobody executes a deleted job. *)
Exclusive ==
  /\ \A v, w \in Workers : v # w /\ doing[v] # NoJob => doing[v] # doing[w]
  /\ \A w \in Workers : doing[w] # NoJob => state[doing[w]] = "Run"
=============================================================================
