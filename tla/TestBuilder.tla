------------------------------- MODULE TestBuilder -------------------------------
(* The test builder (testbuilder/*.cpp).  A build is a list of steps, each one   *)
(* a program that is started through Process; a worker thread goes over the      *)
(* builds once a second, at most m_max_running of them at a time, and what has   *)
(* happened to a build is kept in a file that the next run of the server loads.  *)
(* Scripts submit, abort and remove builds in other threads; the end of a        *)
(* program arrives in a third, through the stream that BuildStep::launch() put   *)
(* on its socket.                                                                *)
(*                                                                               *)
(* m_builds_mutex is held for a whole pass over the builds, and by a script that *)
(* aborts or removes a build; m_process_mutex covers the m_process_stream of one *)
(* step and is held within one step here.  A file is written in place, by one    *)
(* write for its header and one for each step, and the server may die between    *)
(* any two of them.                                                              *)
EXTENDS Integers, FiniteSets, SequencesExt

CONSTANTS
  Builds,         \* the ids of the builds
  NSteps,         \* how many steps each build has: its profile says
  MaxMax,         \* bound of m_max_running
  MaxCrashes,     \* how often the server dies
  MaxWithCrash    \* bound of the builds there are in behaviours in which it dies

ASSUME BuilderAssumption ==
  /\ IsFiniteSet(Builds)
  /\ NSteps \in [Builds -> Nat \ {0}]
  /\ MaxMax \in Nat \ {0} /\ MaxCrashes \in Nat /\ MaxWithCrash \in Nat

VARIABLES
  m_builds,       \* the list of builds, as ids
  m_state,        \* m_state of each build in memory
  steps,          \* of each build in memory: each step's m_state, m_exitcode and
                  \* whether m_process_stream is set
  m_max_running,
  worker,         \* the thread: where it is, its build, step and count of builds
  disk,           \* the state file of each build, <<>> when there is none
  saving,         \* the write that comes next in the save() of each build: 0 when
                  \* there is none, 1 for the header and k + 1 for the k-th step
  script,         \* what a script is in the middle of doing with each build
  exiting,        \* the steps that a thread has found to be there, and is about to
                  \* tell that their program has ended
  child,          \* the program of each step: not started, alive, ended with code 0,
                  \* failed (also to start) or killed, or a stray of an earlier run
  removed,        \* history: the builds that a script has removed,
  torn,           \* ... those whose first save() the death of the server cut,
  moved,          \* ... and whether the limit was set during a pass of the worker,
                  \* since a pass that began with no build running
  crashes

vars == <<m_builds, m_state, steps, m_max_running, worker, disk, saving, script, exiting,
          child, removed, torn, moved, crashes>>

(* A step that is "absent" is one that the file of the build does not have.      *)
Steps(b) == 1..NSteps[b]
States == {"Unstarted", "Running", "Passed", "Failed", "Aborted"}
Ended  == {"Passed", "Failed", "Aborted"}

NewStep == [state |-> "Unstarted", exitcode |-> 1, stream |-> FALSE]
Listed  == {m_builds[i] : i \in DOMAIN m_builds}
Current == m_builds[worker.i]

Running == {b \in Listed : m_state[b] = "Running"}

(* m_builds_mutex is free between two passes.                                    *)
MutexFree ==
  worker.at = "sleep" /\ \A b \in Builds : script[b] \in {"none", "submit"}

---------------------------------------------------------------------------------
(* Build::save().  The file is opened for writing and not cut off, so that what  *)
(* was in it stays there until it is written over, write by write.               *)

NewFile(b) == [state |-> "Unstarted", steps |-> [k \in Steps(b) |-> "absent"]]

StartSave(b) == saving' = [saving EXCEPT ![b] = 1]

WriteHeader(b) ==
  /\ saving[b] = 1
  /\ disk' = [disk EXCEPT ![b].state = m_state[b]]

WriteStep(b) ==
  /\ saving[b] > 1
  /\ disk' = [disk EXCEPT ![b].steps[saving[b] - 1] = steps[b][saving[b] - 1].state]

Exists(b, k) == k <= NSteps[b] /\ steps[b][k].state # "absent"

Write(b) ==
  /\ WriteHeader(b) \/ WriteStep(b)
  /\ saving' = [saving EXCEPT ![b] = IF Exists(b, @) THEN @ + 1 ELSE 0]
  /\ UNCHANGED <<m_builds, m_state, steps, m_max_running, worker, script, exiting, child,
                 removed, torn, moved, crashes>>

---------------------------------------------------------------------------------
(* The worker: TestBuilderModule::run().                                         *)

At(at, i, k, n) == worker' = [at |-> at, i |-> i, k |-> k, nrun |-> n]

(* What was running when the file was written did not end.                       *)
Loaded(state) == IF state = "Running" THEN "Aborted" ELSE state

OnDisk == {b \in Builds : disk[b] # <<>>}
Orders(S) == {s \in [1..Cardinality(S) -> S] : \A i, j \in DOMAIN s : s[i] = s[j] => i = j}

(* The builds are loaded in the order of the directory, whatever that is, each    *)
(* with the steps that its file has.  (m_exitcode is not set, and is not read     *)
(* before the program of the step has ended.)                                     *)
Load ==
  /\ worker.at = "load"
  /\ \E order \in Orders(OnDisk) : m_builds' = order
  /\ m_state' = [b \in Builds |-> IF b \in OnDisk THEN Loaded(disk[b].state) ELSE "Unstarted"]
  /\ steps' = [b \in Builds |-> [k \in Steps(b) |->
                 IF b \in OnDisk THEN [NewStep EXCEPT !.state = Loaded(disk[b].steps[k])]
                 ELSE NewStep]]
  /\ At("sleep", 0, 0, 0)
  /\ UNCHANGED <<m_max_running, disk, saving, script, exiting, child, removed, torn, moved,
                 crashes>>

PassBegin ==
  /\ MutexFree /\ m_builds # <<>>
  /\ At("pass", 1, 0, 0)
  /\ moved' = (moved /\ Running # {})
  /\ UNCHANGED <<m_builds, m_state, steps, m_max_running, disk, saving, script, exiting, child,
                 removed, torn, crashes>>

(* Slip: an unstarted build is started while the limit is reached, not passed.   *)
MayProceedLate(b) ==
  \/ m_state[b] = "Running"
  \/ m_state[b] = "Unstarted" /\ worker.nrun <= m_max_running

MayProceed(b) ==
  \/ m_state[b] = "Running"
  \/ m_state[b] = "Unstarted" /\ worker.nrun < m_max_running

(* Slip: builds that have ended count as well.                                   *)
PassBuildCounted ==
  /\ worker.at = "pass"
  /\ IF worker.i > Len(m_builds) THEN At("sleep", 0, 0, 0)
     ELSE IF MayProceed(Current) THEN At("step", worker.i, 1, worker.nrun + 1)
     ELSE At("pass", worker.i + 1, 0, worker.nrun + 1)
  /\ UNCHANGED <<m_builds, m_state, steps, m_max_running, disk, saving, script, exiting, child,
                 removed, torn, moved, crashes>>

PassBuild ==
  /\ worker.at = "pass"
  /\ IF worker.i > Len(m_builds) THEN At("sleep", 0, 0, 0)
     ELSE IF MayProceed(Current) THEN At("step", worker.i, 1, worker.nrun + 1)
     ELSE At("pass", worker.i + 1, 0, worker.nrun)
  /\ UNCHANGED <<m_builds, m_state, steps, m_max_running, disk, saving, script, exiting, child,
                 removed, torn, moved, crashes>>

(* Build::proceed() saves what it has done and goes to the next step, or leaves. *)
ThenSave(b, next) == At("save", worker.i, next, worker.nrun) /\ StartSave(b)

SaveDone ==
  /\ worker.at = "save" /\ saving[Current] = 0
  /\ IF worker.k = 0 THEN At("pass", worker.i + 1, 0, worker.nrun)
     ELSE At("step", worker.i, worker.k, worker.nrun)
  /\ UNCHANGED <<m_builds, m_state, steps, m_max_running, disk, saving, script, exiting, child,
                 removed, torn, moved, crashes>>

SetStep(b, k, s) == steps' = [steps EXCEPT ![b][k] = s]

(* BuildStep::launch().  The proxy may refuse to start the program, and the log  *)
(* file may not open.  Without the file the Process is deleted, which kills what *)
(* was launched; with it the step gets its stream even if nothing was launched,  *)
(* and has failed all the same.                                                  *)
Launch(b, k) ==
  \E launched, logfile \in BOOLEAN :
    /\ SetStep(b, k, [steps[b][k] EXCEPT !.stream = logfile,
                        !.state = IF launched /\ logfile THEN "Running" ELSE "Failed"])
    /\ child' = [child EXCEPT ![b][k] = IF launched /\ logfile THEN "alive" ELSE "failed"]
    /\ IF launched /\ logfile
       THEN /\ m_state' = [m_state EXCEPT ![b] = "Running"]
            /\ At("step", worker.i, k, worker.nrun)
            /\ UNCHANGED saving
       ELSE /\ m_state' = [m_state EXCEPT ![b] = "Failed"]
            /\ ThenSave(b, 0)

(* Slip: a program that has ended has succeeded.                                 *)
CheckEndOnly(b, k) ==
  LET s == steps[b][k] IN
  /\ \/ /\ s.stream
        /\ ThenSave(b, 0)
        /\ UNCHANGED <<steps, m_state>>
     \/ /\ ~s.stream
        /\ SetStep(b, k, [s EXCEPT !.state = "Passed"])
        /\ ThenSave(b, k + 1)
        /\ UNCHANGED m_state
  /\ UNCHANGED child

(* A step that runs: it is left alone while its stream is there, and judged by   *)
(* the exit code afterwards.                                                     *)
Check(b, k) ==
  LET s == steps[b][k] IN
  /\ \/ /\ s.stream
        /\ ThenSave(b, 0)
        /\ UNCHANGED <<steps, m_state>>
     \/ /\ ~s.stream /\ s.exitcode = 0
        /\ SetStep(b, k, [s EXCEPT !.state = "Passed"])
        /\ ThenSave(b, k + 1)
        /\ UNCHANGED m_state
     \/ /\ ~s.stream /\ s.exitcode # 0
        /\ SetStep(b, k, [s EXCEPT !.state = "Failed"])
        /\ m_state' = [m_state EXCEPT ![b] = "Failed"]
        /\ ThenSave(b, 0)
  /\ UNCHANGED child

(* The body of the loop of Build::proceed().                                     *)
ProceedStep ==
  /\ worker.at = "step"
  /\ LET b == Current
         k == worker.k
     IN \/ /\ ~Exists(b, k)
           /\ m_state' = [m_state EXCEPT ![b] = "Passed"]
           /\ ThenSave(b, 0)
           /\ UNCHANGED <<steps, child>>
        \/ /\ Exists(b, k) /\ steps[b][k].state = "Unstarted"
           /\ Launch(b, k)
        \/ /\ Exists(b, k) /\ steps[b][k].state = "Running"
           /\ Check(b, k)
        \/ /\ Exists(b, k) /\ steps[b][k].state = "Passed"
           /\ At("step", worker.i, k + 1, worker.nrun)
           /\ UNCHANGED <<m_state, steps, saving, child>>
  /\ UNCHANGED <<m_builds, m_max_running, disk, script, exiting, removed, torn, moved, crashes>>

---------------------------------------------------------------------------------
(* The programs.                                                                 *)

(* A program ends with exit code 0, or with another one.  One that dies of a     *)
(* signal which is not the server's counts as code 0: the exit code is the       *)
(* status divided by 256 (Process.cpp).                                          *)
ProgramEnds(b, k) ==
  /\ child[b][k] = "alive"
  /\ \E end \in {"code0", "failed"} : child' = [child EXCEPT ![b][k] = end]
  /\ UNCHANGED <<m_builds, m_state, steps, m_max_running, worker, disk, saving, script,
                 exiting, removed, torn, moved, crashes>>

(* The socket closes, get_exitcode() says that the program has ended, and the    *)
(* event handler of BuildProcessStream finds, with no lock, that m_step is set.  *)
Closing(b, k) ==
  /\ steps[b][k].stream /\ child[b][k] \in {"code0", "failed"}
  /\ <<b, k>> \notin exiting
  /\ exiting' = exiting \cup {<<b, k>>}
  /\ UNCHANGED <<m_builds, m_state, steps, m_max_running, worker, disk, saving, script, child,
                 removed, torn, moved, crashes>>

(* Then it calls the step, which may have been aborted by now.  One that has     *)
(* been deleted is not in memory any more: the call damages what is there now.   *)
process_exited(b, k) ==
  /\ <<b, k>> \in exiting
  /\ exiting' = exiting \ {<<b, k>>}
  /\ IF b \in Listed
     THEN SetStep(b, k, [steps[b][k] EXCEPT !.stream = FALSE,
                       !.exitcode = IF child[b][k] = "code0" THEN 0 ELSE 1])
     ELSE UNCHANGED steps
  /\ UNCHANGED <<m_builds, m_state, m_max_running, worker, disk, saving, script, child,
                 removed, torn, moved, crashes>>

---------------------------------------------------------------------------------
(* Scripts.                                                                      *)

(* submit_build(): create_build() makes a build with a file and begins to save   *)
(* it, without the lock.                                                         *)
Create(b) ==
  /\ worker.at # "load" /\ disk[b] = <<>>
  /\ crashes = 0 \/ Cardinality(OnDisk) < MaxWithCrash
  /\ disk' = [disk EXCEPT ![b] = NewFile(b)]
  /\ m_state' = [m_state EXCEPT ![b] = "Unstarted"]
  /\ steps' = [steps EXCEPT ![b] = [k \in Steps(b) |-> NewStep]]
  /\ script' = [script EXCEPT ![b] = "submit"]
  /\ StartSave(b)
  /\ UNCHANGED <<m_builds, m_max_running, worker, exiting, child, removed, torn, moved, crashes>>

Returns(b) == script' = [script EXCEPT ![b] = "none"]

(* ... and its end: the build is put into the list.                              *)
submit_build(b) ==
  /\ script[b] = "submit" /\ saving[b] = 0 /\ MutexFree
  /\ m_builds' = Append(m_builds, b)
  /\ Returns(b)
  /\ UNCHANGED <<m_state, steps, m_max_running, worker, disk, saving, exiting, child, removed,
                 torn, moved, crashes>>

(* cancel() of every process stream of a build: the programs are killed.         *)
Cancelled(b) ==
  [child EXCEPT ![b] = [k \in Steps(b) |->
     IF steps[b][k].stream /\ @[k] = "alive" THEN "failed" ELSE @[k]]]

(* Slip: abort() only changes the state.                                         *)
AbortQuietly(b) ==
  /\ m_state' = [m_state EXCEPT ![b] = "Aborted"]
  /\ steps' = [steps EXCEPT ![b] = [k \in Steps(b) |->
                 IF @[k].state = "Running"
                 THEN [@[k] EXCEPT !.state = "Aborted", !.stream = FALSE] ELSE @[k]]]
  /\ StartSave(b)
  /\ UNCHANGED child

(* Build::abort() of a build that runs, with its save.                           *)
Abort(b) ==
  /\ m_state' = [m_state EXCEPT ![b] = "Aborted"]
  /\ steps' = [steps EXCEPT ![b] = [k \in Steps(b) |->
                 IF @[k].state = "Running"
                 THEN [@[k] EXCEPT !.state = "Aborted", !.stream = FALSE] ELSE @[k]]]
  /\ StartSave(b)
  /\ child' = Cancelled(b)

abort_build(b) ==
  /\ MutexFree /\ b \in Listed /\ m_state[b] = "Running"
  /\ Abort(b)
  /\ script' = [script EXCEPT ![b] = "abort"]
  /\ UNCHANGED <<m_builds, m_max_running, worker, disk, exiting, removed, torn, moved, crashes>>

Aborted(b) ==
  /\ script[b] = "abort" /\ saving[b] = 0
  /\ Returns(b)
  /\ UNCHANGED <<m_builds, m_state, steps, m_max_running, worker, disk, saving, exiting, child,
                 removed, torn, moved, crashes>>

(* remove_build(): Build::remove() aborts the build and launches the script that *)
(* removes the directory.  Nobody sets the user of that process, it stays 0, and *)
(* the proxy does not launch programs for a user below MIN_LAUNCH_USER: the      *)
(* directory and the state file stay.                                            *)
remove_build(b) ==
  /\ MutexFree /\ b \in Listed
  /\ IF m_state[b] = "Running" THEN Abort(b) ELSE UNCHANGED <<m_state, steps, saving, child>>
  /\ script' = [script EXCEPT ![b] = "remove"]
  /\ UNCHANGED <<m_builds, m_max_running, worker, disk, exiting, removed, torn, moved, crashes>>

(* ... and its end: the build and its steps are deleted, which cancels their     *)
(* streams.                                                                      *)
Delete(b) ==
  /\ script[b] = "remove" /\ saving[b] = 0
  /\ \E i \in DOMAIN m_builds : m_builds[i] = b /\ m_builds' = RemoveAt(m_builds, i)
  /\ steps' = [steps EXCEPT ![b] = [k \in Steps(b) |-> [@[k] EXCEPT !.stream = FALSE]]]
  /\ removed' = removed \cup {b}
  /\ Returns(b)
  /\ UNCHANGED <<m_state, m_max_running, worker, disk, saving, exiting, child, torn, moved,
                 crashes>>

(* set_max_running() takes no lock.                                              *)
SetMaxRunning ==
  /\ \E max \in 1..MaxMax : m_max_running' = max
  /\ moved' = (moved \/ worker.at \in {"pass", "step", "save"})
  /\ UNCHANGED <<m_builds, m_state, steps, worker, disk, saving, script, exiting, child,
                 removed, torn, crashes>>

(* The server dies and is started again; its configuration starts the worker,    *)
(* which loads the builds.  Programs that run go on by themselves.               *)
Crash ==
  /\ crashes < MaxCrashes /\ Cardinality(OnDisk) <= MaxWithCrash
  /\ crashes' = crashes + 1
  /\ m_builds' = <<>>
  /\ m_state' = [b \in Builds |-> "Unstarted"]
  /\ steps' = [b \in Builds |-> [k \in Steps(b) |-> NewStep]]
  /\ worker' = [at |-> "load", i |-> 0, k |-> 0, nrun |-> 0]
  /\ saving' = [b \in Builds |-> 0]
  /\ script' = [b \in Builds |-> "none"]
  /\ exiting' = {}
  /\ child' = [b \in Builds |-> [k \in Steps(b) |->
                 IF child[b][k] = "alive" THEN "stray" ELSE child[b][k]]]
  /\ torn' = torn \cup {b \in Builds : script[b] = "submit" /\ saving[b] # 0}
  /\ moved' = FALSE
  /\ UNCHANGED <<m_max_running, disk, removed>>

---------------------------------------------------------------------------------
Init ==
  /\ m_builds = <<>>
  /\ m_state = [b \in Builds |-> "Unstarted"]
  /\ steps = [b \in Builds |-> [k \in Steps(b) |-> NewStep]]
  /\ m_max_running = 1
  /\ worker = [at |-> "load", i |-> 0, k |-> 0, nrun |-> 0]
  /\ disk = [b \in Builds |-> <<>>]
  /\ saving = [b \in Builds |-> 0]
  /\ script = [b \in Builds |-> "none"]
  /\ exiting = {}
  /\ child = [b \in Builds |-> [k \in Steps(b) |-> "none"]]
  /\ removed = {} /\ torn = {} /\ moved = FALSE
  /\ crashes = 0

Worker == Load \/ PassBegin \/ PassBuild \/ ProceedStep \/ SaveDone

(* What a script that has begun goes on to do with a build.                       *)
Script(b) == submit_build(b) \/ Aborted(b) \/ Delete(b)

Next ==
  \/ Worker
  \/ \E b \in Builds : \/ Write(b) \/ Script(b)
                       \/ Create(b) \/ abort_build(b) \/ remove_build(b)
  \/ \E b \in Builds : \E k \in Steps(b) :
       ProgramEnds(b, k) \/ Closing(b, k) \/ process_exited(b, k)
  \/ SetMaxRunning
  \/ Crash

(* The worker and the scripts go on, the one waiting for the lock that the others *)
(* hold for a time, programs end, and the scheduler delivers that.                *)
Fairness ==
  /\ WF_vars(Worker)
  /\ \A b \in Builds : WF_vars(Write(b)) /\ WF_vars(Aborted(b)) /\ WF_vars(Delete(b))
                      /\ SF_vars(submit_build(b))
  /\ \A b \in Builds : \A k \in Steps(b) :
       WF_vars(ProgramEnds(b, k)) /\ WF_vars(Closing(b, k)) /\ WF_vars(process_exited(b, k))

Spec == Init /\ [][Next]_vars /\ Fairness

---------------------------------------------------------------------------------
TypeOK ==
  /\ Listed \subseteq Builds /\ removed \subseteq Builds /\ torn \subseteq Builds
  /\ m_state \in [Builds -> States]
  /\ \A b \in Builds :
       steps[b] \in [Steps(b) -> [state : States \cup {"absent"}, exitcode : {0, 1}, stream : BOOLEAN]]
  /\ m_max_running \in 1..MaxMax
  /\ worker.at \in {"load", "sleep", "pass", "step", "save"}
  /\ \A b \in Builds : saving[b] \in 0..(NSteps[b] + 1)
  /\ script \in [Builds -> {"none", "submit", "abort", "remove"}]
  /\ \A e \in exiting : e[1] \in Builds /\ e[2] \in Steps(e[1])
  /\ \A b \in Builds :
       child[b] \in [Steps(b) -> {"none", "alive", "code0", "failed", "stray"}]
  /\ moved \in BOOLEAN
  /\ crashes \in 0..MaxCrashes

(* A build is only started while fewer builds than m_max_running run ("the       *)
(* maximum number of builds to run at once", testbuilder.conf), although the     *)
(* worker counts only those before it in the list, and although builds are       *)
(* submitted, aborted and removed and the limit is set meanwhile.  It does not   *)
(* hold once the limit was set during a pass: a build may then run behind one    *)
(* that waits, where the count does not see it.                                  *)
NeverMoreThanMax ==
  [][~moved /\ Running' \ Running # {} => Cardinality(Running') <= m_max_running]_vars

(* At no time do more builds run than the largest limit that was ever set.  The   *)
(* code does not have this property.                                             *)
NeverMoreThanLargest == Cardinality(Running) <= MaxMax

(* A program that has ended with what the server takes for exit code 0.          *)
Succeeded(b, k) == child[b][k] = "code0"

(* A build that has passed, in memory or in its file, over any number of deaths  *)
(* of the server at any of its writes, has run each of its programs to an end    *)
(* that counts as exit code 0, one after the other: no program is started before *)
(* those of the earlier steps succeeded.  The exception is a build whose very    *)
(* first save was cut: it has no more steps than were written.                   *)
PassedMeansSucceeded ==
  /\ \A b \in Listed \ torn : m_state[b] = "Passed" => \A k \in Steps(b) : Succeeded(b, k)
  /\ \A b \in OnDisk \ torn : disk[b].state = "Passed" => \A k \in Steps(b) : Succeeded(b, k)
  /\ \A b \in Builds : \A k \in Steps(b) :
       child[b][k] # "none" => \A j \in 1..(k - 1) : Succeeded(b, j)

(* A build that has passed has run a program for each of its steps.  The code    *)
(* does not have this property: the file of a build that was being created when  *)
(* the server died is loaded as a build with fewer steps, or none.               *)
PassedHasRunAll ==
  \A b \in Listed : m_state[b] = "Passed" => \A k \in Steps(b) : child[b][k] # "none"

(* No program of this run of the server is left to itself: it belongs to a step  *)
(* that runs, of a build that runs and is listed, and the step will be told.     *)
NoStrays ==
  \A b \in Builds : \A k \in Steps(b) : child[b][k] = "alive" =>
    /\ b \in Running
    /\ steps[b][k].state = "Running" /\ steps[b][k].stream

(* No build stays unstarted or running for ever: scripts submit finitely many    *)
(* (Builds), and then there comes a time from which on all in the list have      *)
(* ended, however the limit is changed and whatever is aborted meanwhile.        *)
BuildsEnd == <>[](\A b \in Listed : m_state[b] \in Ended)

(* No thread is about to call a step that has been deleted.  The code does not   *)
(* have this property: the handler tests m_step without a lock.                  *)
NoCallOnDeleted == \A e \in exiting : e[1] \in Listed

(* A build that has been removed does not come back.  The code does not have     *)
(* this property: a removal that its script refuses leaves the build's file.     *)
RemovedIsGone == removed \cap Listed = {}
=================================================================================
