------------------------------ MODULE WebProofs ------------------------------
(* What is reached by http: the test builder, which a browser controls, and the  *)
(* http server itself.                                                           *)
(*                                                                               *)
(* The builds, for any number of them, with any number of steps each, over any   *)
(* number of deaths of the server, at any write of a state file: a build that    *)
(* has passed has run each of its programs to an end that counts as a good one,  *)
(* no program is left to itself, and no build is started beyond the limit.       *)
(*                                                                               *)
(* The streams of one http connection, for any requests, however they arrive and *)
(* however the writes are cut: the client can take the responses apart and they  *)
(* answer its requests in turn, the body that is read is the body of the request *)
(* it belongs to, and no message is started before the response to the one       *)
(* before it is complete.                                                        *)
EXTENDS TestBuilder, HttpConnection, FiniteSetTheorems, SequenceTheorems,
        WellFoundedInduction, NaturalsInduction, TLAPS

-----------------------------------------------------------------------------
(* The test builder. *)
StepStates == States \cup {"absent"}
StepType == [state : StepStates, exitcode : {0, 1}, stream : BOOLEAN]
FileType(b) == [state : States, steps : [Steps(b) -> StepStates]]
ChildType == {"none", "alive", "code0", "failed", "stray"}
ScriptType == {"none", "submit", "abort", "remove"}

TypeInv ==
  /\ m_builds \in Seq(Builds)
  /\ m_state \in [Builds -> States]
  /\ steps = [b \in Builds |-> steps[b]]
  /\ \A b \in Builds : steps[b] \in [Steps(b) -> StepType]
  /\ m_max_running \in Nat
  /\ worker \in [at : {"load", "sleep", "pass", "step", "save"}, i : Nat, k : Nat, nrun : Nat]
  /\ worker.at \in {"step", "save"} => worker.i \in DOMAIN m_builds
  /\ worker.at = "pass" => worker.i > 0
  /\ worker.at = "step" => worker.k > 0
  /\ disk = [b \in Builds |-> disk[b]]
  /\ \A b \in OnDisk : disk[b] \in FileType(b)
  /\ saving = [b \in Builds |-> saving[b]]
  /\ \A b \in Builds : saving[b] \in 0..(NSteps[b] + 1)
  /\ script \in [Builds -> ScriptType]
  /\ child = [b \in Builds |-> child[b]]
  /\ \A b \in Builds : child[b] \in [Steps(b) -> ChildType]

LEMMA InitType == Init => TypeInv
<1>1. \A b \in Builds : 0 \in 0..(NSteps[b] + 1)
  BY BuilderAssumption
<1> QED BY <1>1, BuilderAssumption
        DEF Init, TypeInv, OnDisk, NewStep, StepType, StepStates, ChildType, ScriptType, States

(* A file that is there and is written over, its header or one of its steps.     *)
LEMMA HeaderWritten ==
  ASSUME TypeInv, NEW b \in OnDisk, NEW st \in States, disk' = [disk EXCEPT ![b].state = st]
  PROVE  /\ disk' = [c \in Builds |-> disk'[c]]
         /\ disk'[b].state = st /\ disk'[b].steps = disk[b].steps
         /\ disk'[b] \in FileType(b) /\ disk'[b] # <<>>
         /\ \A c \in Builds \ {b} : disk'[c] = disk[c]
<1>1. b \in Builds /\ disk = [c \in Builds |-> disk[c]] /\ disk[b] \in FileType(b)
  BY DEF TypeInv, OnDisk
<1>2. PICK ss \in [Steps(b) -> StepStates], old \in States : disk[b] = [state |-> old, steps |-> ss]
  BY <1>1 DEF FileType
<1>3. disk'[b] = [state |-> st, steps |-> ss]
  BY <1>1, <1>2
<1>4. "state" \in DOMAIN disk'[b] /\ "state" \notin DOMAIN <<>>
  BY <1>3
<1>5. disk' = [c \in Builds |-> disk'[c]] /\ \A c \in Builds \ {b} : disk'[c] = disk[c]
  BY <1>1
<1> QED BY <1>2, <1>3, <1>4, <1>5 DEF FileType

LEMMA StepWritten ==
  ASSUME TypeInv, NEW b \in OnDisk, NEW k \in Steps(b), NEW st \in StepStates,
         disk' = [disk EXCEPT ![b].steps[k] = st]
  PROVE  /\ disk' = [c \in Builds |-> disk'[c]]
         /\ disk'[b].state = disk[b].state
         /\ disk'[b].steps[k] = st
         /\ \A j \in Steps(b) \ {k} : disk'[b].steps[j] = disk[b].steps[j]
         /\ disk'[b] \in FileType(b) /\ disk'[b] # <<>>
         /\ \A c \in Builds \ {b} : disk'[c] = disk[c]
<1>1. b \in Builds /\ disk = [c \in Builds |-> disk[c]] /\ disk[b] \in FileType(b)
  BY DEF TypeInv, OnDisk
<1>2. PICK ss \in [Steps(b) -> StepStates], old \in States : disk[b] = [state |-> old, steps |-> ss]
  BY <1>1 DEF FileType
<1>3. disk'[b] = [state |-> old, steps |-> [ss EXCEPT ![k] = st]]
  BY <1>1, <1>2
<1>4. "state" \in DOMAIN disk'[b] /\ "state" \notin DOMAIN <<>>
  BY <1>3
<1>5. disk' = [c \in Builds |-> disk'[c]] /\ \A c \in Builds \ {b} : disk'[c] = disk[c]
  BY <1>1
<1>6. [ss EXCEPT ![k] = st] \in [Steps(b) -> StepStates]
  BY <1>2
<1>7. /\ disk'[b].state = old /\ disk'[b].steps[k] = st
      /\ \A j \in Steps(b) \ {k} : disk'[b].steps[j] = ss[j]
  BY <1>2, <1>3
<1>8. disk[b].state = old /\ disk[b].steps = ss
  BY <1>2
<1> QED BY <1>3, <1>4, <1>5, <1>6, <1>7, <1>8 DEF FileType

LEMMA StartSaveType ==
  ASSUME TypeInv, NEW b \in Builds, StartSave(b)
  PROVE  /\ saving' = [c \in Builds |-> saving'[c]]
         /\ \A c \in Builds : saving'[c] \in 0..(NSteps[c] + 1)
         /\ saving'[b] = 1
         /\ \A c \in Builds \ {b} : saving'[c] = saving[c]
<1>1. 1 \in 0..(NSteps[b] + 1)
  BY BuilderAssumption
<1> QED BY <1>1 DEF TypeInv, StartSave

LEMMA SetStepType ==
  ASSUME TypeInv, NEW b \in Builds, NEW k \in Steps(b), NEW s \in StepType, SetStep(b, k, s)
  PROVE  /\ steps' = [c \in Builds |-> steps'[c]]
         /\ \A c \in Builds : steps'[c] \in [Steps(c) -> StepType]
         /\ steps'[b][k] = s
         /\ \A j \in Steps(b) \ {k} : steps'[b][j] = steps[b][j]
         /\ \A c \in Builds \ {b} : steps'[c] = steps[c]
  BY DEF TypeInv, SetStep

LEMMA SetChildType ==
  ASSUME TypeInv, NEW b \in Builds, NEW k \in Steps(b), NEW s \in ChildType,
         child' = [child EXCEPT ![b][k] = s]
  PROVE  /\ child' = [c \in Builds |-> child'[c]]
         /\ \A c \in Builds : child'[c] \in [Steps(c) -> ChildType]
         /\ child'[b][k] = s
         /\ \A j \in Steps(b) \ {k} : child'[b][j] = child[b][j]
         /\ \A c \in Builds \ {b} : child'[c] = child[c]
  BY DEF TypeInv

LEMMA CurrentType ==
  ASSUME TypeInv, worker.at \in {"step", "save"} PROVE Current \in Builds /\ Current \in Listed
  BY DEF TypeInv, Current, Listed

(* The sequence without one of its elements.                                     *)
LEMMA Removal ==
  ASSUME TypeInv, NEW i \in DOMAIN m_builds, m_builds' = RemoveAt(m_builds, i)
  PROVE  /\ m_builds' \in Seq(Builds)
         /\ Len(m_builds') = Len(m_builds) - 1
         /\ \A j \in DOMAIN m_builds' :
              m_builds'[j] = IF j < i THEN m_builds[j] ELSE m_builds[j + 1]
         /\ \A j \in DOMAIN m_builds : j # i => m_builds[j] \in Listed'
<1>1. m_builds \in Seq(Builds) /\ Len(m_builds) \in Nat /\ i \in 1..Len(m_builds)
  BY DEF TypeInv
<1> DEFINE n == Len(m_builds)
           low == SubSeq(m_builds, 1, i - 1)
           high == SubSeq(m_builds, i + 1, n)
<1>5. \A j \in 1..n : m_builds[j] \in Builds
  BY <1>1, ElementOfSeq
<1>6. /\ low \in Seq(Builds) /\ Len(low) = i - 1
      /\ \A j \in 1..(i - 1) : low[j] = m_builds[j]
  <2>1. \A j \in 1..(i - 1) : m_builds[j] \in Builds
    BY <1>1, <1>5
  <2>2. 1 \in Int /\ i - 1 \in Int
    BY <1>1
  <2>3. /\ low \in Seq(Builds)
        /\ Len(low) = IF 1 <= i - 1 THEN (i - 1) - 1 + 1 ELSE 0
        /\ \A j \in 1..((i - 1) - 1 + 1) : low[j] = m_builds[1 + j - 1]
    BY <2>1, <2>2, SubSeqProperties
  <2> HIDE DEF low
  <2> QED BY <2>3, <1>1
<1>7. /\ high \in Seq(Builds) /\ Len(high) = n - i
      /\ \A j \in 1..(n - i) : high[j] = m_builds[i + j]
  <2>1. \A j \in (i + 1)..n : m_builds[j] \in Builds
    BY <1>1, <1>5
  <2>2. i + 1 \in Int /\ n \in Int
    BY <1>1
  <2>3. /\ high \in Seq(Builds)
        /\ Len(high) = IF i + 1 <= n THEN n - (i + 1) + 1 ELSE 0
        /\ \A j \in 1..(n - (i + 1) + 1) : high[j] = m_builds[(i + 1) + j - 1]
    BY <2>1, <2>2, SubSeqProperties
  <2> HIDE DEF high
  <2> QED BY <2>3, <1>1
<1>8. /\ m_builds' \in Seq(Builds)
      /\ Len(m_builds') = Len(low) + Len(high)
      /\ \A j \in 1..(Len(low) + Len(high)) :
           m_builds'[j] = IF j <= Len(low) THEN low[j] ELSE high[j - Len(low)]
  <2>1. m_builds' = low \o high
    BY DEF RemoveAt
  <2> HIDE DEF low, high
  <2> QED BY <2>1, <1>6, <1>7, ConcatProperties
<1>2. /\ m_builds' \in Seq(Builds)
      /\ Len(m_builds') = Len(m_builds) - 1
  <2> HIDE DEF low, high
  <2> QED BY <1>1, <1>6, <1>7, <1>8
<1>3. \A j \in 1..(Len(m_builds) - 1) :
        m_builds'[j] = IF j < i THEN m_builds[j] ELSE m_builds[j + 1]
  <2> HIDE DEF low, high
  <2> TAKE j \in 1..(Len(m_builds) - 1)
  <2>1. Len(low) + Len(high) = Len(m_builds) - 1
    BY <1>1, <1>6, <1>7
  <2>2. m_builds'[j] = IF j <= Len(low) THEN low[j] ELSE high[j - Len(low)]
    BY <1>8, <2>1
  <2>3. CASE j < i
    BY <2>2, <2>3, <1>1, <1>6
  <2>4. CASE ~(j < i)
    <3>1. j - Len(low) \in 1..(n - i) /\ i + (j - Len(low)) = j + 1
      BY <2>4, <1>1, <1>6
    <3>2. m_builds'[j] = high[j - Len(low)]
      BY <2>2, <2>4, <1>1, <1>6
    <3>3. high[j - Len(low)] = m_builds[i + (j - Len(low))]
      BY <3>1, <1>7
    <3> QED BY <3>1, <3>2, <3>3, <2>4
  <2> QED BY <2>3, <2>4
<1> HIDE DEF low, high
<1>4. ASSUME NEW j \in 1..Len(m_builds), j # i PROVE m_builds[j] \in Listed'
  <2>1. CASE j < i
    BY <2>1, <1>1, <1>2, <1>3, <1>4 DEF Listed
  <2>2. CASE j > i
    <3>1. j - 1 \in 1..Len(m_builds') /\ m_builds'[j - 1] = m_builds[j]
      BY <2>2, <1>1, <1>2, <1>3, <1>4
    <3> QED BY <3>1, <1>2 DEF Listed
  <2> QED BY <2>1, <2>2, <1>4, <1>1
<1>9. DOMAIN m_builds = 1..n /\ DOMAIN m_builds' = 1..Len(m_builds')
  BY <1>1, <1>2
<1> QED BY <1>1, <1>2, <1>3, <1>4, <1>9

---------------------------------------------------------------------------------
(* The steps before the k-th one have passed, in memory and in the state file.   *)
Before(b, k) == {j \in Steps(b) : j < k}
PassedTo(b, k) == \A j \in Before(b, k) : steps[b][j].state = "Passed"
FilePassedTo(b, k) == \A j \in Before(b, k) : disk[b].steps[j] = "Passed"
NotBegun == {"Unstarted", "absent"}

(* A step in memory: it is not begun before the others passed, it passes with    *)
(* its program, and a program that lives belongs to a step that runs.            *)
StepInv(b, k) ==
  /\ steps[b][k].state \notin NotBegun => PassedTo(b, k)
  /\ steps[b][k].state = "Passed" => child[b][k] = "code0"
  /\ steps[b][k].state = "Running" => m_state[b] = "Running"
  /\ steps[b][k].state = "Running" /\ ~steps[b][k].stream /\ steps[b][k].exitcode = 0
       => child[b][k] = "code0"
  /\ child[b][k] = "alive" =>
       b \in Listed /\ steps[b][k].state = "Running" /\ steps[b][k].stream
  /\ steps[b][k].stream => steps[b][k].state # "Unstarted"
  /\ <<b, k>> \in exiting => child[b][k] \in {"code0", "failed"} /\ steps[b][k].state # "Unstarted"
  /\ steps[b][k].state = "absent" => b \in torn

MemoryInv(b) ==
  /\ \A k \in Steps(b) : StepInv(b, k)
  /\ m_state[b] = "Passed" /\ b \notin torn => \A k \in Steps(b) : steps[b][k].state = "Passed"

(* The state file: the same of what it says, and it never lags behind what has   *)
(* been started.  Steps are only missing while the first save goes on, or for    *)
(* ever when it was cut.                                                         *)
FileInv(b) ==
  /\ \A k \in Steps(b) : disk[b].steps[k] \notin NotBegun => FilePassedTo(b, k)
  /\ \A k \in Steps(b) : disk[b].steps[k] = "Passed" => child[b][k] = "code0"
  /\ \A k \in Steps(b) : child[b][k] # "none" => FilePassedTo(b, k)
  /\ \A k \in Steps(b) : disk[b].steps[k] = "absent" =>
       b \in torn \/ (script[b] = "submit" /\ saving[b] # 0 /\ saving[b] <= k + 1)
  /\ disk[b].state = "Passed" /\ b \notin torn => \A k \in Steps(b) : disk[b].steps[k] = "Passed"

(* The worker has seen a step pass and has not come to write it.                 *)
Lags(b, k) ==
  /\ worker.at = "save" /\ Current = b /\ m_state[b] = "Running"
  /\ saving[b] # 0 /\ saving[b] <= k + 1

(* What file and memory have to do with each other.                              *)
AgreeInv(b) ==
  /\ b \notin OnDisk => /\ b \notin Listed /\ saving[b] = 0 /\ script[b] = "none"
                        /\ \A k \in Steps(b) : child[b][k] = "none"
  /\ worker.at # "load" /\ b \in OnDisk =>
       \A k \in Steps(b) : disk[b].steps[k] = "Passed" => steps[b][k].state = "Passed"
  /\ \A k \in Steps(b) : steps[b][k].state = "Passed" /\ ~Lags(b, k) =>
       b \in OnDisk /\ disk[b].steps[k] = "Passed"

(* What a script is in the middle of.                                            *)
ScriptInv(b) ==
  /\ script[b] = "submit" => b \notin Listed /\ m_state[b] = "Unstarted"
  /\ script[b] \in {"abort", "remove"} => worker.at = "sleep"
  /\ script[b] = "remove" => m_state[b] # "Running"

WorkerInv ==
  /\ worker.at = "load" =>
       /\ m_builds = <<>> /\ exiting = {}
       /\ \A b \in Builds : /\ saving[b] = 0 /\ script[b] = "none"
                            /\ \A k \in Steps(b) : ~steps[b][k].stream
  /\ worker.at \in {"step", "save"} => PassedTo(Current, worker.k)

BuildInv(b) == MemoryInv(b) /\ (b \in OnDisk => FileInv(b)) /\ AgreeInv(b) /\ ScriptInv(b)

IInv == TypeInv /\ WorkerInv /\ \A b \in Builds : BuildInv(b)

LEMMA InitIInv == Init => IInv
<1> SUFFICES ASSUME Init PROVE IInv
  OBVIOUS
<1>1. TypeInv
  BY InitType
<1>2. WorkerInv
  BY DEF Init, WorkerInv, NewStep
<1>3. ASSUME NEW b \in Builds PROVE BuildInv(b)
  BY <1>3 DEF Init, BuildInv, MemoryInv, StepInv, NotBegun, AgreeInv, ScriptInv, OnDisk, NewStep,
              Listed
<1> QED BY <1>1, <1>2, <1>3 DEF IInv

(* A build that a step does not touch keeps its part.                            *)
Same(b) ==
  /\ steps'[b] = steps[b] /\ m_state'[b] = m_state[b] /\ child'[b] = child[b]
  /\ disk'[b] = disk[b] /\ saving'[b] = saving[b] /\ script'[b] = script[b]
  /\ b \in Listed <=> b \in Listed'
  /\ b \in torn => b \in torn'
  /\ \A k \in Steps(b) : <<b, k>> \in exiting' => <<b, k>> \in exiting

LEMMA Untouched ==
  ASSUME IInv, NEW b \in Builds, Same(b),
         worker'.at # "load" => worker.at # "load",
         \A k \in Steps(b) : Lags(b, k) => Lags(b, k)',
         script[b] \in {"abort", "remove"} => worker'.at = "sleep"
  PROVE  BuildInv(b)'
<1>1. b \in OnDisk <=> b \in OnDisk'
  BY DEF OnDisk, Same
<1>2. ASSUME NEW k \in Steps(b) PROVE StepInv(b, k)'
  BY <1>2 DEF Same, IInv, BuildInv, MemoryInv, StepInv, NotBegun, PassedTo, Before, Steps
<1>3. MemoryInv(b)'
  BY <1>2 DEF Same, IInv, BuildInv, MemoryInv, Steps
<1>4. b \in OnDisk' => FileInv(b)'
  BY <1>1 DEF Same, IInv, BuildInv, FileInv, NotBegun, FilePassedTo, Before, Steps
<1>5. AgreeInv(b)'
  BY <1>1 DEF Same, IInv, BuildInv, AgreeInv, Steps
<1>6. ScriptInv(b)'
  BY DEF Same, IInv, BuildInv, ScriptInv
<1> QED BY <1>3, <1>4, <1>5, <1>6 DEF BuildInv

(* The start of the worker, and the death of the server.                         *)
LEMMA LoadKeeps == ASSUME IInv, Load PROVE IInv'
<1>1. /\ TypeInv /\ m_builds = <<>> /\ worker.at = "load" /\ exiting = {}
      /\ \A b \in Builds : saving[b] = 0 /\ script[b] = "none"
      /\ worker'.at = "sleep" /\ UNCHANGED <<disk, saving, script, exiting, child, torn>>
  BY DEF IInv, WorkerInv, Load, At
<1>2. PICK order \in Orders(OnDisk) : m_builds' = order
  BY DEF Load
<1>3. Cardinality(OnDisk) \in Nat /\ OnDisk \subseteq Builds
  BY BuilderAssumption, FS_Subset, FS_CardinalityType DEF OnDisk
<1>4. m_builds' \in Seq(Builds) /\ Listed' \subseteq OnDisk
  <2>1. m_builds' \in [1..Cardinality(OnDisk) -> OnDisk]
    BY <1>2 DEF Orders
  <2> QED BY <2>1, <1>3 DEF Listed
<1>5. \A b \in OnDisk : disk[b] \in FileType(b)
  BY <1>1 DEF TypeInv
<1>6. ASSUME NEW b \in Builds, NEW k \in Steps(b)
      PROVE  /\ steps'[b][k] \in StepType
             /\ ~steps'[b][k].stream
             /\ steps'[b][k].state # "Running"
             /\ steps'[b][k].exitcode = 1
             /\ b \in OnDisk => steps'[b][k].state = Loaded(disk[b].steps[k])
             /\ b \notin OnDisk => steps'[b][k].state = "Unstarted"
  <2>1. steps'[b][k] = IF b \in OnDisk THEN [NewStep EXCEPT !.state = Loaded(disk[b].steps[k])]
                       ELSE NewStep
    BY DEF Load
  <2>2. b \in OnDisk => disk[b].steps[k] \in StepStates
    BY <1>5 DEF FileType
  <2>3. CASE b \in OnDisk
    <3>1. Loaded(disk[b].steps[k]) \in StepStates \ {"Running"}
      BY <2>2, <2>3 DEF Loaded, StepStates, States
    <3>2. steps'[b][k] = [state |-> Loaded(disk[b].steps[k]), exitcode |-> 1, stream |-> FALSE]
      BY <2>1, <2>3 DEF NewStep
    <3> QED BY <3>1, <3>2, <2>3 DEF StepType
  <2>4. CASE b \notin OnDisk
    BY <2>1, <2>4 DEF NewStep, StepType, StepStates, States
  <2> QED BY <2>3, <2>4
<1>7. /\ steps' = [b \in Builds |-> steps'[b]]
      /\ \A b \in Builds : steps'[b] \in [Steps(b) -> StepType]
  <2>1. \A b \in Builds : steps'[b] = [k \in Steps(b) |->
           IF b \in OnDisk THEN [NewStep EXCEPT !.state = Loaded(disk[b].steps[k])]
           ELSE NewStep]
    BY DEF Load
  <2>2. ASSUME NEW b \in Builds PROVE steps'[b] \in [Steps(b) -> StepType]
    BY <2>1, <1>6
  <2>3. steps' = [b \in Builds |-> steps'[b]]
    BY DEF Load
  <2> QED BY <2>2, <2>3
<1>8. ASSUME NEW b \in Builds
      PROVE  m_state'[b] = IF b \in OnDisk THEN Loaded(disk[b].state) ELSE "Unstarted"
  BY DEF Load
<1>9. m_state' \in [Builds -> States]
  <2>1. \A b \in OnDisk : disk[b].state \in States
    BY <1>5 DEF FileType
  <2> QED BY <2>1, <1>8 DEF Load, Loaded, States
<1>10. TypeInv'
  BY <1>1, <1>4, <1>7, <1>9 DEF TypeInv, OnDisk, Load, At, Steps, FileType
<1>11. WorkerInv'
  BY <1>1 DEF WorkerInv
<1>12. ASSUME NEW b \in Builds PROVE BuildInv(b)'
  <2>1. \A k \in Steps(b) : child[b][k] # "alive" /\ <<b, k>> \notin exiting'
    BY <1>1 DEF IInv, BuildInv, MemoryInv, StepInv, Listed
  <2>2. \A k \in Steps(b) : steps'[b][k].state = "Passed" <=>
                            b \in OnDisk /\ disk[b].steps[k] = "Passed"
    BY <1>6 DEF Loaded
  <2>3. b \in OnDisk => FileInv(b)
    BY DEF IInv, BuildInv
  <2>4. MemoryInv(b)'
    <3>1. m_state'[b] = "Passed" => b \in OnDisk /\ disk[b].state = "Passed"
      BY <1>8 DEF Loaded
    <3>2. ASSUME NEW k \in Steps(b), steps'[b][k].state \notin NotBegun PROVE PassedTo(b, k)'
      <4>1. b \in OnDisk /\ disk[b].steps[k] \notin NotBegun
        BY <3>2, <1>6 DEF Loaded, NotBegun
      <4> QED BY <4>1, <2>2, <2>3 DEF FileInv, FilePassedTo, PassedTo, Before, Steps
    <3>3. ASSUME NEW k \in Steps(b), steps'[b][k].state = "absent" PROVE b \in torn'
      <4>1. b \in OnDisk /\ disk[b].steps[k] = "absent"
        BY <3>3, <1>6 DEF Loaded
      <4> QED BY <4>1, <2>3, <1>1 DEF FileInv
    <3>4. \A k \in Steps(b) : steps'[b][k].state = "Passed" => child'[b][k] = "code0"
      BY <1>1, <2>2, <2>3 DEF FileInv
    <3>5. \A k \in Steps(b) : StepInv(b, k)'
      BY <1>1, <1>6, <2>1, <3>2, <3>3, <3>4 DEF StepInv, NotBegun, Steps
    <3>6. m_state'[b] = "Passed" /\ b \notin torn' => \A k \in Steps(b) : steps'[b][k].state = "Passed"
      BY <1>1, <2>2, <2>3, <3>1 DEF FileInv
    <3> QED BY <3>5, <3>6 DEF MemoryInv, Steps
  <2>5. b \in OnDisk' => FileInv(b)'
    BY <1>1, <2>3 DEF FileInv, FilePassedTo, OnDisk, Before, Steps
  <2>6. AgreeInv(b)'
    BY <1>1, <1>4, <2>2 DEF IInv, BuildInv, AgreeInv, OnDisk, Steps
  <2>7. ScriptInv(b)'
    BY <1>1 DEF ScriptInv
  <2> QED BY <2>4, <2>5, <2>6, <2>7 DEF BuildInv
<1> QED BY <1>10, <1>11, <1>12 DEF IInv

LEMMA CrashKeeps == ASSUME IInv, Crash PROVE IInv'
<1>1. \A b \in Builds : \A k \in Steps(b) :
        /\ steps'[b][k] = NewStep
        /\ child'[b][k] = IF child[b][k] = "alive" THEN "stray" ELSE child[b][k]
  BY DEF Crash
<1>2. /\ \A b \in Builds : m_state'[b] = "Unstarted" /\ saving'[b] = 0 /\ script'[b] = "none"
      /\ m_builds' = <<>> /\ worker'.at = "load" /\ disk' = disk /\ exiting' = {}
      /\ \A b \in torn : b \in torn'
      /\ \A b \in Builds : script[b] = "submit" /\ saving[b] # 0 => b \in torn'
  BY DEF Crash
<1>3. TypeInv'
  <2>1. \A b \in Builds : child'[b] = [k \in Steps(b) |->
                 IF child[b][k] = "alive" THEN "stray" ELSE child[b][k]]
    BY DEF Crash
  <2>2. ASSUME NEW b \in Builds PROVE child'[b] \in [Steps(b) -> ChildType]
    <3>1. child[b] \in [Steps(b) -> ChildType]
      BY DEF IInv, TypeInv
    <3>2. \A k \in Steps(b) : child'[b][k] \in ChildType
      BY <3>1, <1>1 DEF ChildType
    <3> QED BY <3>2, <2>1
  <2>3. child' = [b \in Builds |-> child'[b]]
    BY DEF Crash
  <2>4. /\ saving' = [b \in Builds |-> saving'[b]]
        /\ \A b \in Builds : saving'[b] \in 0..(NSteps[b] + 1)
        /\ script' \in [Builds -> ScriptType]
    BY BuilderAssumption DEF Crash, ScriptType
  <2>5. /\ steps' = [b \in Builds |-> steps'[b]]
        /\ \A b \in Builds : steps'[b] \in [Steps(b) -> StepType]
    BY DEF Crash, StepType, NewStep, StepStates, States
  <2> QED BY <2>2, <2>3, <2>4, <2>5 DEF Crash, IInv, TypeInv, States, OnDisk, Steps, FileType
<1>4. WorkerInv'
  BY <1>1, <1>2 DEF WorkerInv, NewStep, Steps
<1>5. ASSUME NEW b \in Builds PROVE BuildInv(b)'
  <2>1. MemoryInv(b)'
    BY <1>1, <1>2 DEF MemoryInv, StepInv, NewStep, NotBegun, Steps
  <2>2. b \in OnDisk' => FileInv(b)'
    BY <1>1, <1>2 DEF IInv, BuildInv, FileInv, FilePassedTo, OnDisk, Before, Steps
  <2>3. AgreeInv(b)'
    BY <1>1, <1>2 DEF IInv, BuildInv, AgreeInv, OnDisk, NewStep, Listed, Steps
  <2>4. ScriptInv(b)'
    BY <1>2 DEF ScriptInv
  <2> QED BY <2>1, <2>2, <2>3, <2>4 DEF BuildInv
<1> QED BY <1>3, <1>4, <1>5 DEF IInv

(* Where only the worker moves, or the limit.                                    *)
LEMMA PassKeeps == ASSUME IInv, PassBegin \/ PassBuild \/ SaveDone \/ SetMaxRunning PROVE IInv'
<1>1. /\ UNCHANGED <<m_builds, m_state, steps, disk, saving, script, exiting, child, torn>>
      /\ worker'.at # "load" \/ UNCHANGED worker
      /\ worker'.at # "save" \/ UNCHANGED worker
      /\ worker.at # "save" \/ UNCHANGED worker \/ saving[Current] = 0
  <2>1. CASE PassBegin
    BY <2>1 DEF PassBegin, MutexFree, At
  <2>2. CASE PassBuild
    BY <2>2 DEF PassBuild, At
  <2>3. CASE SaveDone
    BY <2>3 DEF SaveDone, At
  <2>4. CASE SetMaxRunning
    BY <2>4 DEF SetMaxRunning
  <2> QED BY <2>1, <2>2, <2>3, <2>4
<1>2. TypeInv /\ m_builds \in Seq(Builds)
  BY DEF IInv, TypeInv
<1>3. m_max_running' \in Nat
  BY <1>2, BuilderAssumption DEF TypeInv, PassBegin, PassBuild, SaveDone, SetMaxRunning
<1>4. /\ worker' \in [at : {"load", "sleep", "pass", "step", "save"}, i : Nat, k : Nat, nrun : Nat]
      /\ worker'.at \in {"step", "save"} => worker'.i \in DOMAIN m_builds
      /\ worker'.at = "pass" => worker'.i > 0
      /\ worker'.at = "step" => worker'.k > 0
  <2>1. CASE PassBegin
    BY <2>1 DEF PassBegin, At
  <2>2. CASE SetMaxRunning
    BY <2>2, <1>2 DEF SetMaxRunning, TypeInv
  <2>3. CASE PassBuild
    <3>1. worker.i \in Nat \ {0} /\ worker.nrun \in Nat
      BY <2>3, <1>2 DEF TypeInv, PassBuild
    <3>2. CASE worker.i > Len(m_builds)
      BY <2>3, <3>2 DEF PassBuild, At
    <3>3. CASE ~(worker.i > Len(m_builds)) /\ MayProceed(Current)
      BY <2>3, <3>1, <3>3, <1>2 DEF PassBuild, At
    <3>4. CASE ~(worker.i > Len(m_builds)) /\ ~MayProceed(Current)
      BY <2>3, <3>1, <3>4 DEF PassBuild, At
    <3> QED BY <3>2, <3>3, <3>4
  <2>4. CASE SaveDone
    BY <2>4, <1>2 DEF SaveDone, At, TypeInv
  <2> QED BY <2>1, <2>2, <2>3, <2>4
<1>5. TypeInv'
  BY <1>1, <1>2, <1>3, <1>4 DEF TypeInv, OnDisk, FileType, Steps
<1>6. WorkerInv'
  <2>1. CASE UNCHANGED worker
    BY <1>1, <2>1 DEF IInv, WorkerInv, PassedTo, Before, Steps, Current
  <2>2. CASE worker'.at \notin {"load", "step", "save"}
    BY <2>2 DEF WorkerInv
  <2>3. CASE worker'.k = 1 /\ worker'.at = "step"
    <3>1. PassedTo(Current, worker.k)'
      BY <2>3 DEF PassedTo, Before, Steps
    <3> QED BY <2>3, <3>1 DEF WorkerInv
  <2>4. CASE SaveDone /\ worker'.at = "step"
    <3>1. worker'.i = worker.i /\ worker'.k = worker.k /\ worker.at = "save"
      BY <2>4 DEF SaveDone, At
    <3>2. PassedTo(Current, worker.k)
      BY <3>1 DEF IInv, WorkerInv
    <3>3. Current' = Current
      BY <1>1, <3>1 DEF Current
    <3>4. PassedTo(Current, worker.k)'
      BY <1>1, <3>1, <3>2, <3>3 DEF PassedTo, Before, Steps
    <3> QED BY <2>4, <3>4 DEF WorkerInv
  <2>5. \/ UNCHANGED worker \/ worker'.at \notin {"load", "step", "save"}
        \/ worker'.k = 1 /\ worker'.at = "step"
        \/ SaveDone /\ worker'.at = "step"
    BY DEF PassBegin, PassBuild, SaveDone, SetMaxRunning, At
  <2> QED BY <2>1, <2>2, <2>3, <2>4, <2>5
<1>7. ASSUME NEW b \in Builds PROVE BuildInv(b)'
  <2>1. \A k \in Steps(b) : Lags(b, k) => Lags(b, k)'
    BY <1>1 DEF Lags, Current
  <2>2. worker'.at # "load" => worker.at # "load"
    BY DEF PassBegin, PassBuild, SaveDone, SetMaxRunning, MutexFree
  <2>3. Same(b)
    BY <1>1 DEF Same, Listed
  <2>4. script[b] \in {"abort", "remove"} => worker'.at = "sleep"
    <3>1. script[b] \in {"abort", "remove"} => worker.at = "sleep" /\ ~MutexFree
      BY DEF IInv, BuildInv, ScriptInv, MutexFree
    <3> QED BY <3>1 DEF PassBegin, PassBuild, SaveDone, SetMaxRunning
  <2> QED BY <2>1, <2>2, <2>3, <2>4, Untouched
<1> QED BY <1>5, <1>6, <1>7 DEF IInv

(* One write of a save.                                                          *)
WrittenOver(b) ==
  /\ disk' = [c \in Builds |-> disk'[c]]
  /\ disk'[b] \in FileType(b) /\ disk'[b] # <<>>
  /\ disk'[b].state \in {disk[b].state, m_state[b]}
  /\ \A j \in Steps(b) : disk'[b].steps[j] \in {disk[b].steps[j], steps[b][j].state}
  /\ \A j \in Steps(b) : saving[b] = j + 1 => disk'[b].steps[j] = steps[b][j].state
  /\ \A j \in Steps(b) : disk'[b].steps[j] # disk[b].steps[j] => saving[b] = j + 1
  /\ \A c \in Builds \ {b} : disk'[c] = disk[c]

LEMMA WriteKeeps == ASSUME IInv, NEW b \in Builds, Write(b) PROVE IInv'
<1>1. /\ TypeInv /\ b \in OnDisk /\ saving[b] # 0 /\ BuildInv(b) /\ FileInv(b)
      /\ UNCHANGED <<m_builds, m_state, steps, m_max_running, worker, script, exiting, child, torn>>
  BY DEF IInv, BuildInv, AgreeInv, Write, WriteHeader, WriteStep
<1>2. NSteps[b] \in Nat \ {0} /\ saving[b] \in 1..(NSteps[b] + 1)
  BY <1>1, BuilderAssumption DEF TypeInv
<1>3. /\ saving' = [c \in Builds |-> saving'[c]]
      /\ \A c \in Builds : saving'[c] \in 0..(NSteps[c] + 1)
      /\ saving'[b] = IF Exists(b, saving[b]) THEN saving[b] + 1 ELSE 0
      /\ \A c \in Builds \ {b} : saving'[c] = saving[c]
  <2>1. Exists(b, saving[b]) => saving[b] + 1 \in 0..(NSteps[b] + 1)
    BY <1>2 DEF Exists
  <2>2. (IF Exists(b, saving[b]) THEN saving[b] + 1 ELSE 0) \in 0..(NSteps[b] + 1)
    BY <2>1, <1>2
  <2> QED BY <1>1, <2>2 DEF Write, TypeInv
<1>4. \/ saving[b] = 1 /\ disk' = [disk EXCEPT ![b].state = m_state[b]]
      \/ \E k \in Steps(b) : saving[b] = k + 1 /\ disk' = [disk EXCEPT ![b].steps[k] = steps[b][k].state]
  <2>1. CASE WriteHeader(b)
    BY <2>1 DEF WriteHeader
  <2>2. CASE WriteStep(b)
    <3>1. saving[b] - 1 \in Steps(b) /\ saving[b] = (saving[b] - 1) + 1
      BY <1>2, <2>2 DEF WriteStep, Steps
    <3> QED BY <2>2, <3>1 DEF WriteStep
  <2> QED BY <2>1, <2>2 DEF Write
<1>5. WrittenOver(b)
  <2>1. CASE saving[b] = 1 /\ disk' = [disk EXCEPT ![b].state = m_state[b]]
    <3>1. m_state[b] \in States
      BY <1>1 DEF TypeInv
    <3>2. \A j \in Steps(b) : saving[b] # j + 1
      BY <2>1 DEF Steps
    <3> QED BY <1>1, <2>1, <3>1, <3>2, HeaderWritten DEF WrittenOver
  <2>2. ASSUME NEW k \in Steps(b), saving[b] = k + 1, disk' = [disk EXCEPT ![b].steps[k] = steps[b][k].state]
        PROVE  WrittenOver(b)
    <3>1. steps[b][k].state \in StepStates
      BY <1>1 DEF TypeInv, StepType
    <3>2. \A j \in Steps(b) : saving[b] = j + 1 <=> j = k
      BY <2>2 DEF Steps
    <3> DEFINE st == steps[b][k].state
    <3>3. disk' = [disk EXCEPT ![b].steps[k] = st]
      BY <2>2
    <3> HIDE DEF st
    <3>4. /\ disk' = [c \in Builds |-> disk'[c]]
          /\ disk'[b].state = disk[b].state
          /\ disk'[b].steps[k] = st
          /\ \A j \in Steps(b) \ {k} : disk'[b].steps[j] = disk[b].steps[j]
          /\ disk'[b] \in FileType(b) /\ disk'[b] # <<>>
          /\ \A c \in Builds \ {b} : disk'[c] = disk[c]
      <4>1. st \in StepStates
        BY <3>1 DEF st
      <4> QED BY <1>1, <3>3, <4>1, StepWritten
    <3>5. disk'[b].steps[k] = steps[b][k].state
      BY <3>4 DEF st
    <3> QED BY <3>2, <3>4, <3>5 DEF WrittenOver
  <2> QED BY <1>4, <2>1, <2>2
<1>6. OnDisk' = OnDisk /\ Listed' = Listed
  BY <1>1, <1>5 DEF WrittenOver, OnDisk, Listed
<1>7. TypeInv'
  <2>1. \A c \in OnDisk' : disk'[c] \in FileType(c)
    BY <1>1, <1>5, <1>6 DEF WrittenOver, TypeInv, OnDisk
  <2> QED BY <1>1, <1>3, <1>5, <2>1 DEF WrittenOver, TypeInv, FileType, Steps
<1>8. WorkerInv'
  BY <1>1 DEF IInv, WorkerInv, PassedTo, Before, Steps, Current, AgreeInv, BuildInv
<1>9. BuildInv(b)'
  <2>1. worker.at # "load"
    BY <1>1 DEF IInv, WorkerInv
  <2>2. \A j \in Steps(b) : disk[b].steps[j] = "Passed" => steps[b][j].state = "Passed"
    BY <1>1, <2>1 DEF BuildInv, AgreeInv
  <2>3. \A j \in Steps(b) : disk[b].steps[j] = "Passed" => disk'[b].steps[j] = "Passed"
    BY <1>5, <2>2 DEF WrittenOver
  <2>4. MemoryInv(b)'
    BY <1>1, <1>6 DEF BuildInv, MemoryInv, StepInv, NotBegun, PassedTo, Before, Steps
  <2>5. ASSUME NEW k \in Steps(b), Exists(b, saving[b]) \/ saving[b] > NSteps[b] \/ ~(saving[b] <= k)
        PROVE  saving[b] # 0 /\ saving[b] <= k + 1 =>
                 saving[b] = k + 1 \/ (saving'[b] # 0 /\ saving'[b] <= k + 1)
    BY <2>5, <1>2, <1>3 DEF Steps
  <2>6. ASSUME NEW k \in Steps(b), Lags(b, k), disk'[b].steps[k] # "Passed",
               steps[b][k].state = "Passed"
        PROVE  Lags(b, k)'
    <3>1. saving[b] # k + 1
      BY <1>5, <2>6 DEF WrittenOver
    <3>2. CASE saving[b] \in Steps(b) /\ saving[b] <= k
      <4>1. saving[b] < k \/ saving[b] = k
        BY <3>2 DEF Steps
      <4>2. steps[b][saving[b]].state = "Passed"
        BY <1>1, <2>6, <3>2, <4>1 DEF BuildInv, MemoryInv, StepInv, NotBegun, PassedTo, Before
      <4>3. Exists(b, saving[b])
        BY <1>2, <3>2, <4>2 DEF Exists, Steps
      <4> QED BY <3>1, <4>3, <1>1, <2>5, <2>6 DEF Lags, Current
    <3>3. CASE ~(saving[b] \in Steps(b) /\ saving[b] <= k)
      <4>1. ~(saving[b] <= k)
        BY <1>2, <3>3 DEF Steps
      <4> QED BY <3>1, <4>1, <1>1, <2>5, <2>6 DEF Lags, Current
    <3> QED BY <3>2, <3>3
  <2>7. AgreeInv(b)'
    <3>1. ASSUME NEW k \in Steps(b), steps[b][k].state = "Passed", ~Lags(b, k)'
          PROVE  disk'[b].steps[k] = "Passed"
      <4>1. CASE Lags(b, k)
        BY <3>1, <4>1, <2>6
      <4>2. CASE ~Lags(b, k)
        BY <3>1, <4>2, <1>1, <2>3 DEF BuildInv, AgreeInv
      <4> QED BY <4>1, <4>2
    <3>2. \A k \in Steps(b) : disk'[b].steps[k] = "Passed" => steps[b][k].state = "Passed"
      BY <1>5, <2>2 DEF WrittenOver
    <3> QED BY <1>1, <1>6, <3>1, <3>2 DEF AgreeInv, Steps
  <2>8. FileInv(b)'
    <3>1. ASSUME NEW k \in Steps(b), disk'[b].steps[k] \notin NotBegun PROVE FilePassedTo(b, k)'
      <4>1. CASE disk'[b].steps[k] = disk[b].steps[k]
        BY <3>1, <4>1, <1>1, <2>3 DEF FileInv, FilePassedTo, Before, Steps
      <4>2. CASE disk'[b].steps[k] # disk[b].steps[k]
        <5>1. saving[b] = k + 1 /\ steps[b][k].state \notin NotBegun
          BY <3>1, <4>2, <1>5 DEF WrittenOver
        <5>2. PassedTo(b, k)
          BY <5>1, <1>1 DEF BuildInv, MemoryInv, StepInv
        <5>3. ASSUME NEW j \in Before(b, k) PROVE disk[b].steps[j] = "Passed"
          <6>1. j \in Steps(b) /\ j < k /\ steps[b][j].state = "Passed"
            BY <5>2, <5>3 DEF PassedTo, Before
          <6>2. ~Lags(b, j)
            BY <5>1, <6>1 DEF Lags, Steps
          <6> QED BY <6>1, <6>2, <1>1 DEF BuildInv, AgreeInv
        <5> QED BY <5>3, <2>3 DEF FilePassedTo, Before, Steps
      <4> QED BY <4>1, <4>2
    <3>2. \A k \in Steps(b) : disk'[b].steps[k] = "Passed" => child'[b][k] = "code0"
      BY <1>1, <1>5, <2>2 DEF WrittenOver, BuildInv, MemoryInv, StepInv
    <3>3. \A k \in Steps(b) : child'[b][k] # "none" => FilePassedTo(b, k)'
      BY <1>1, <2>3 DEF FileInv, FilePassedTo, Before, Steps
    <3>4. ASSUME NEW k \in Steps(b), disk'[b].steps[k] = "absent", b \notin torn
          PROVE  script'[b] = "submit" /\ saving'[b] # 0 /\ saving'[b] <= k + 1
      <4>1. \A j \in Steps(b) : steps[b][j].state # "absent"
        BY <3>4, <1>1 DEF BuildInv, MemoryInv, StepInv
      <4>2. saving[b] # k + 1 /\ disk[b].steps[k] = "absent"
        BY <3>4, <4>1, <1>5 DEF WrittenOver
      <4>3. script[b] = "submit" /\ saving[b] <= k + 1
        BY <3>4, <4>2, <1>1 DEF FileInv
      <4>4. Exists(b, saving[b]) \/ saving[b] > NSteps[b]
        BY <4>1, <1>2 DEF Exists, Steps
      <4> QED BY <4>2, <4>3, <4>4, <1>1, <2>5
    <3>5. disk'[b].state = "Passed" /\ b \notin torn => \A k \in Steps(b) : disk'[b].steps[k] = "Passed"
      <4>1. CASE disk[b].state = "Passed"
        BY <4>1, <1>1, <2>3 DEF FileInv
      <4>2. CASE m_state[b] = "Passed" /\ b \notin torn
        <5>1. \A k \in Steps(b) : steps[b][k].state = "Passed" /\ ~Lags(b, k)
          BY <4>2, <1>1 DEF BuildInv, MemoryInv, Lags
        <5> QED BY <5>1, <1>1, <2>3 DEF BuildInv, AgreeInv
      <4> QED BY <4>1, <4>2, <1>5 DEF WrittenOver
    <3> QED BY <3>1, <3>2, <3>3, <3>4, <3>5, <1>1 DEF FileInv, Steps
  <2>9. ScriptInv(b)'
    BY <1>1, <1>6 DEF BuildInv, ScriptInv
  <2> QED BY <2>4, <2>7, <2>8, <2>9 DEF BuildInv
<1>10. ASSUME NEW c \in Builds \ {b} PROVE BuildInv(c)'
  <2>1. Same(c)
    BY <1>1, <1>3, <1>5, <1>6 DEF WrittenOver, Same
  <2>2. \A k \in Steps(c) : Lags(c, k) => Lags(c, k)'
    BY <1>1, <1>3 DEF Lags, Current
  <2>3. script[c] \in {"abort", "remove"} => worker.at = "sleep"
    BY DEF IInv, BuildInv, ScriptInv
  <2> QED BY <1>1, <2>1, <2>2, <2>3, Untouched
<1> QED BY <1>7, <1>8, <1>9, <1>10 DEF IInv

(* In the middle of a pass no script holds the lock, and the other builds keep   *)
(* their parts.                                                                  *)
LEMMA OthersKeep ==
  ASSUME IInv, NEW b \in Builds, worker.at = "step", Current = b, worker'.at \in {"step", "save"},
         \A a \in Builds \ {b} : Same(a)
  PROVE  /\ \A a \in Builds \ {b} : BuildInv(a)'
         /\ b \in Listed /\ script[b] = "none" /\ \A k \in Steps(b) : ~Lags(b, k)
<1>1. ASSUME NEW a \in Builds \ {b} PROVE BuildInv(a)'
  <2>1. script[a] \notin {"abort", "remove"} /\ \A k \in Steps(a) : ~Lags(a, k)
    BY DEF IInv, BuildInv, ScriptInv, Lags
  <2> QED BY <2>1, Untouched
<1>2. b \in Listed
  BY CurrentType DEF IInv
<1>3. script[b] \in ScriptType
  BY DEF IInv, TypeInv
<1>4. script[b] = "none"
  BY <1>2, <1>3 DEF IInv, BuildInv, ScriptInv, ScriptType
<1> QED BY <1>1, <1>2, <1>4 DEF Lags

(* Build::proceed() of a step that has passed already, and behind the last.      *)
LEMMA SkipKeeps ==
  ASSUME IInv, ProceedStep, NEW b \in Builds, b = Current, worker.at = "step",
         worker.k \in Steps(b), steps[b][worker.k].state = "Passed"
  PROVE  IInv'
<1>1. /\ At("step", worker.i, worker.k + 1, worker.nrun)
      /\ UNCHANGED <<m_builds, m_state, steps, m_max_running, disk, saving, script, exiting,
                     child, torn>>
  <2>1. Exists(b, worker.k)
    BY BuilderAssumption DEF Steps, Exists
  <2> QED BY <2>1 DEF ProceedStep
<1>2. TypeInv'
  BY <1>1 DEF IInv, TypeInv, At, OnDisk, FileType, Steps
<1>3. WorkerInv'
  <2>1. PassedTo(b, worker.k) /\ worker.k \in Nat
    BY DEF IInv, WorkerInv, TypeInv
  <2>2. PassedTo(b, worker.k + 1)
    BY <2>1 DEF PassedTo, Before, Steps
  <2> QED BY <1>1, <2>2 DEF WorkerInv, PassedTo, Before, Steps, Current, At
<1>4. ASSUME NEW c \in Builds PROVE BuildInv(c)'
  <2>1. Same(c) /\ worker'.at = "step"
    BY <1>1 DEF Same, Listed, At
  <2>2. script[c] \notin {"abort", "remove"}
    BY DEF IInv, BuildInv, ScriptInv
  <2> QED BY <2>1, <2>2, Untouched DEF Lags
<1> QED BY <1>2, <1>3, <1>4 DEF IInv

LEMMA PassedAllKeeps ==
  ASSUME IInv, ProceedStep, NEW b \in Builds, b = Current, worker.at = "step",
         ~Exists(b, worker.k)
  PROVE  IInv'
<1>1. /\ m_state' = [m_state EXCEPT ![b] = "Passed"]
      /\ At("save", worker.i, 0, worker.nrun) /\ StartSave(b)
      /\ UNCHANGED <<m_builds, steps, m_max_running, disk, script, exiting, child, torn>>
  BY BuilderAssumption DEF ProceedStep, ThenSave, IInv, TypeInv
<1>2. /\ saving' = [c \in Builds |-> saving'[c]]
      /\ \A c \in Builds : saving'[c] \in 0..(NSteps[c] + 1)
      /\ \A c \in Builds \ {b} : saving'[c] = saving[c]
  BY <1>1, StartSaveType DEF IInv
<1>3. TypeInv'
  BY <1>1, <1>2 DEF IInv, TypeInv, At, OnDisk, FileType, States, Steps
<1>4. WorkerInv'
  BY <1>1 DEF WorkerInv, PassedTo, Before, Steps, At
<1>5. worker'.at = "save" /\ Listed' = Listed /\ OnDisk' = OnDisk
      /\ m_state'[b] = "Passed" /\ \A c \in Builds \ {b} : m_state'[c] = m_state[c]
  BY <1>1 DEF At, Listed, OnDisk, IInv, TypeInv
<1>6. /\ \A c \in Builds \ {b} : BuildInv(c)'
      /\ b \in Listed /\ script[b] = "none" /\ \A k \in Steps(b) : ~Lags(b, k)
  BY <1>1, <1>2, <1>5, OthersKeep DEF Same
<1>7. BuildInv(b) /\ PassedTo(b, worker.k) /\ worker.k \in Nat \ {0} /\ NSteps[b] \in Nat \ {0}
  BY BuilderAssumption DEF IInv, WorkerInv, TypeInv
<1>8. \A k \in Steps(b) : steps[b][k].state # "Running"
  <2>1. CASE worker.k > NSteps[b]
    BY <1>7, <2>1 DEF PassedTo, Before, Steps
  <2>2. CASE worker.k \in Steps(b) /\ steps[b][worker.k].state = "absent"
    <3>1. ASSUME NEW k \in Steps(b), steps[b][k].state = "Running" PROVE FALSE
      <4>1. PassedTo(b, k)
        BY <3>1, <1>7 DEF BuildInv, MemoryInv, StepInv, NotBegun
      <4>2. k < worker.k \/ k = worker.k \/ worker.k < k
        BY <1>7 DEF Steps
      <4> QED BY <4>1, <4>2, <3>1, <2>2, <1>7 DEF PassedTo, Before, Steps
    <3> QED BY <3>1
  <2> QED BY <1>7, <2>1, <2>2 DEF Exists, Steps
<1>9. b \notin torn => \A k \in Steps(b) : steps[b][k].state = "Passed"
  <2>1. ASSUME b \notin torn, worker.k \in Steps(b) PROVE FALSE
    <3>1. worker.k <= NSteps[b]
      BY <2>1 DEF Steps
    <3>2. steps[b][worker.k].state = "absent"
      BY <3>1 DEF Exists
    <3>3. StepInv(b, worker.k)
      BY <1>7, <2>1 DEF BuildInv, MemoryInv
    <3> QED BY <2>1, <3>2, <3>3 DEF StepInv
  <2> QED BY <2>1, <1>7 DEF PassedTo, Before, Steps
<1>10. BuildInv(b)'
  <2>1. MemoryInv(b)'
    BY <1>1, <1>5, <1>7, <1>8, <1>9 DEF BuildInv, MemoryInv, StepInv, PassedTo, Before, Steps
  <2>2. b \in OnDisk' => FileInv(b)'
    BY <1>1, <1>5, <1>6, <1>7 DEF BuildInv, FileInv, FilePassedTo, Before, Steps
  <2>3. AgreeInv(b)'
    BY <1>1, <1>5, <1>6, <1>7 DEF BuildInv, AgreeInv, Steps
  <2>4. ScriptInv(b)'
    BY <1>1, <1>6 DEF ScriptInv
  <2> QED BY <2>1, <2>2, <2>3, <2>4 DEF BuildInv
<1> QED BY <1>3, <1>4, <1>6, <1>10 DEF IInv

(* Launch and check, of step k of build b: what they have in common.             *)
Proceeds(b, k) ==
  /\ b \in Builds /\ k \in Steps(b) /\ b = Current /\ k = worker.k /\ worker.at = "step"
  /\ UNCHANGED <<m_builds, m_max_running, disk, script, exiting, removed, torn, moved, crashes>>

LEMMA LaunchKeeps ==
  ASSUME IInv, NEW b, NEW k, Proceeds(b, k), Launch(b, k), steps[b][k].state = "Unstarted"
  PROVE  IInv'
<1>1. /\ TypeInv /\ b \in Builds /\ k \in Steps(b) /\ b \in Listed
      /\ worker.at = "step" /\ worker.k = k /\ Current = b
      /\ steps[b][k] \in StepType
  BY CurrentType DEF IInv, TypeInv, Proceeds
<1>2. PICK s \in StepType, c \in {"alive", "failed"}, m \in {"Running", "Failed"} :
        /\ SetStep(b, k, s)
        /\ child' = [child EXCEPT ![b][k] = c]
        /\ m_state' = [m_state EXCEPT ![b] = m]
        /\ s.state = m
        /\ c = "alive" <=> m = "Running"
        /\ c = "alive" => s.stream
        /\ \/ At("step", worker.i, k, worker.nrun) /\ m = "Running" /\ saving' = saving
           \/ ThenSave(b, 0) /\ m = "Failed"
  <2>1. PICK launched \in BOOLEAN, logfile \in BOOLEAN :
          /\ SetStep(b, k, [steps[b][k] EXCEPT !.stream = logfile,
                              !.state = IF launched /\ logfile THEN "Running" ELSE "Failed"])
          /\ child' = [child EXCEPT ![b][k] = IF launched /\ logfile THEN "alive" ELSE "failed"]
          /\ IF launched /\ logfile
             THEN /\ m_state' = [m_state EXCEPT ![b] = "Running"]
                  /\ At("step", worker.i, k, worker.nrun)
                  /\ UNCHANGED saving
             ELSE /\ m_state' = [m_state EXCEPT ![b] = "Failed"]
                  /\ ThenSave(b, 0)
    BY DEF Launch
  <2>2. ASSUME NEW f \in BOOLEAN, NEW st \in {"Running", "Failed"}
        PROVE  /\ [steps[b][k] EXCEPT !.stream = f, !.state = st] \in StepType
               /\ [steps[b][k] EXCEPT !.stream = f, !.state = st].state = st
               /\ [steps[b][k] EXCEPT !.stream = f, !.state = st].stream = f
    BY <1>1 DEF StepType, StepStates, States
  <2>3. CASE launched /\ logfile
    <3>1. SetStep(b, k, [steps[b][k] EXCEPT !.stream = TRUE, !.state = "Running"])
      BY <2>1, <2>3
    <3> QED BY <2>1, <2>2, <2>3, <3>1
  <2>4. CASE ~(launched /\ logfile)
    <3>1. SetStep(b, k, [steps[b][k] EXCEPT !.stream = logfile, !.state = "Failed"])
      BY <2>1, <2>4
    <3> QED BY <2>1, <2>2, <2>4, <3>1
  <2> QED BY <2>3, <2>4
<1>3. /\ worker' \in [at : {"step", "save"}, i : {worker.i}, k : {0, k}, nrun : {worker.nrun}]
      /\ worker'.at = "step" => worker'.k = k
      /\ worker'.at = "save" => worker'.k = 0 /\ m = "Failed"
  BY <1>1, <1>2 DEF At, ThenSave
<1>4. /\ steps' = [a \in Builds |-> steps'[a]]
      /\ \A a \in Builds : steps'[a] \in [Steps(a) -> StepType]
      /\ steps'[b][k] = s
      /\ \A j \in Steps(b) \ {k} : steps'[b][j] = steps[b][j]
      /\ \A a \in Builds \ {b} : steps'[a] = steps[a]
  BY <1>1, <1>2, SetStepType
<1>5. /\ child' = [a \in Builds |-> child'[a]]
      /\ \A a \in Builds : child'[a] \in [Steps(a) -> ChildType]
      /\ child'[b][k] = c
      /\ \A j \in Steps(b) \ {k} : child'[b][j] = child[b][j]
      /\ \A a \in Builds \ {b} : child'[a] = child[a]
  <2>1. c \in ChildType
    BY DEF ChildType
  <2>2. child' = [child EXCEPT ![b][k] = c]
    BY <1>2
  <2> QED BY <2>1, <2>2, <1>1, SetChildType
<1>6. /\ m_state' \in [Builds -> States] /\ m_state'[b] = m
      /\ \A a \in Builds \ {b} : m_state'[a] = m_state[a]
  BY <1>1, <1>2 DEF TypeInv, States
<1>7. /\ m_builds' = m_builds /\ m_max_running' = m_max_running /\ disk' = disk
      /\ Listed' = Listed /\ OnDisk' = OnDisk /\ UNCHANGED <<script, exiting, torn>>
  BY DEF Proceeds, Listed, OnDisk
<1>8. /\ saving' = [a \in Builds |-> saving'[a]]
      /\ \A a \in Builds : saving'[a] \in 0..(NSteps[a] + 1)
      /\ \A a \in Builds \ {b} : saving'[a] = saving[a]
  BY <1>1, <1>2, StartSaveType DEF ThenSave, TypeInv
<1>9. TypeInv'
  <2>1. k \in Nat \ {0} /\ worker.i \in DOMAIN m_builds /\ worker.i \in Nat /\ worker.nrun \in Nat
    BY <1>1 DEF TypeInv, Steps
  <2>2. /\ worker' \in [at : {"load", "sleep", "pass", "step", "save"}, i : Nat, k : Nat, nrun : Nat]
        /\ worker'.at # "pass" /\ worker'.i \in DOMAIN m_builds'
        /\ worker'.at = "step" => worker'.k > 0
    BY <2>1, <1>3, <1>7
  <2>3. \A a \in OnDisk' : disk'[a] \in FileType(a)
    BY <1>1, <1>7 DEF TypeInv
  <2> QED BY <1>1, <2>2, <2>3, <1>4, <1>5, <1>6, <1>7, <1>8 DEF TypeInv, FileType, Steps
<1>10. PassedTo(b, k)
  BY <1>1 DEF IInv, WorkerInv
<1>11. WorkerInv'
  <2>1. PassedTo(b, k)' /\ PassedTo(b, 0)'
    <3>1. \A j \in Before(b, k) : j \in Steps(b) \ {k}
      BY <1>1 DEF Before, Steps
    <3>2. Before(b, 0) = {}
      BY DEF Before, Steps
    <3> QED BY <1>4, <1>10, <3>1, <3>2 DEF PassedTo, Before, Steps
  <2>2. Current' = b
    BY <1>1, <1>3, <1>7 DEF Current
  <2> QED BY <1>3, <2>1, <2>2 DEF WorkerInv
<1>12. /\ \A a \in Builds \ {b} : BuildInv(a)'
       /\ b \in Listed /\ script[b] = "none" /\ \A j \in Steps(b) : ~Lags(b, j)
  <2>1. \A a \in Builds \ {b} : Same(a)
    BY <1>4, <1>5, <1>6, <1>7, <1>8 DEF Same
  <2>2. worker'.at \in {"step", "save"}
    BY <1>3
  <2> QED BY <1>1, <2>1, <2>2, OthersKeep
<1>13. BuildInv(b)'
  <2>1. MemoryInv(b) /\ (b \in OnDisk => FileInv(b)) /\ AgreeInv(b)
    BY <1>1 DEF IInv, BuildInv
  <2>2. b \in OnDisk /\ FileInv(b)
    BY <1>1, <2>1 DEF AgreeInv
  <2>3. \A j \in Steps(b) : k < j => steps[b][j].state \in NotBegun
    BY <1>1, <2>1 DEF MemoryInv, StepInv, PassedTo, Before
  <2>4. \A j \in Steps(b) : j # k => steps[b][j].state # "Running"
    BY <1>1, <1>10, <2>3, BuilderAssumption DEF PassedTo, Before, Steps, NotBegun
  <2>5. ASSUME NEW j \in Steps(b) PROVE StepInv(b, j)'
    <3>1. StepInv(b, j)
      BY <2>1 DEF MemoryInv
    <3>2. steps'[b][j].state \notin NotBegun => PassedTo(b, j)'
      <4>1. CASE j = k
        BY <4>1, <1>4, <1>10 DEF PassedTo, Before, Steps
      <4>2. CASE j # k
        BY <4>2, <3>1, <1>1, <1>4, <2>3, BuilderAssumption DEF StepInv, PassedTo, Before, Steps
      <4> QED BY <4>1, <4>2
    <3>3. CASE j = k
      <4>1. <<b, k>> \notin exiting
        BY <3>1, <3>3 DEF StepInv
      <4> QED BY <3>2, <3>3, <4>1, <1>1, <1>2, <1>4, <1>5, <1>6, <1>7 DEF StepInv
    <3>4. CASE j # k
      BY <3>1, <3>2, <3>4, <2>4, <1>4, <1>5, <1>7 DEF StepInv
    <3> QED BY <3>3, <3>4
  <2>6. MemoryInv(b)'
    BY <2>5, <1>6 DEF MemoryInv, Steps
  <2>7. disk[b].steps[k] # "Passed"
    BY <1>1, <2>1, <2>2 DEF AgreeInv
  <2>8. FilePassedTo(b, k)
    BY <1>10, <1>12, <2>1, <2>2 DEF AgreeInv, PassedTo, FilePassedTo, Before
  <2>9. FileInv(b)'
    <3>1. \A j \in Steps(b) : disk[b].steps[j] = "absent" => b \in torn
      BY <1>12, <2>2 DEF FileInv
    <3> QED BY <1>5, <1>7, <2>2, <2>7, <2>8, <3>1 DEF FileInv, FilePassedTo, Before, Steps
  <2>10. \A j \in Steps(b) : steps'[b][j].state = "Passed" <=> steps[b][j].state = "Passed"
    BY <1>1, <1>2, <1>4
  <2>11. AgreeInv(b)'
    BY <1>1, <1>7, <1>12, <2>1, <2>2, <2>10 DEF AgreeInv, Steps
  <2>12. ScriptInv(b)'
    BY <1>7, <1>12 DEF ScriptInv
  <2> QED BY <2>6, <2>9, <2>11, <2>12 DEF BuildInv
<1> QED BY <1>9, <1>11, <1>12, <1>13 DEF IInv

LEMMA CheckKeeps ==
  ASSUME IInv, NEW b, NEW k, Proceeds(b, k), Check(b, k), steps[b][k].state = "Running"
  PROVE  IInv'
<1>1. /\ TypeInv /\ b \in Builds /\ k \in Steps(b) /\ b \in Listed
      /\ worker.at = "step" /\ worker.k = k /\ Current = b
      /\ steps[b][k] \in StepType /\ child' = child /\ m_state[b] = "Running"
  <2>1. /\ TypeInv /\ b \in Builds /\ k \in Steps(b) /\ b \in Listed
        /\ worker.at = "step" /\ worker.k = k /\ Current = b
    BY CurrentType DEF IInv, Proceeds
  <2>2. steps[b][k] \in StepType
    BY <2>1 DEF TypeInv
  <2>3. StepInv(b, k)
    BY <2>1 DEF IInv, BuildInv, MemoryInv
  <2>4. child' = child
    BY DEF Check
  <2> QED BY <2>1, <2>2, <2>3, <2>4 DEF StepInv
<1>2. PICK s \in StepType, next \in {0, k + 1} :
        /\ SetStep(b, k, s)
        /\ ThenSave(b, next)
        /\ \/ s = steps[b][k] /\ m_state' = m_state /\ next = 0
           \/ s.state = "Passed" /\ child[b][k] = "code0" /\ m_state' = m_state
              /\ s.stream = steps[b][k].stream
           \/ /\ s.state = "Failed" /\ ~steps[b][k].stream /\ next = 0
              /\ m_state' = [m_state EXCEPT ![b] = "Failed"]
  <2>1. /\ [steps[b][k] EXCEPT !.state = "Passed"] \in StepType
        /\ [steps[b][k] EXCEPT !.state = "Failed"] \in StepType
        /\ [steps[b][k] EXCEPT !.state = "Passed"].state = "Passed"
        /\ [steps[b][k] EXCEPT !.state = "Passed"].stream = steps[b][k].stream
        /\ [steps[b][k] EXCEPT !.state = "Failed"].state = "Failed"
    BY <1>1 DEF StepType, StepStates, States
  <2>2. UNCHANGED steps => SetStep(b, k, steps[b][k])
    BY <1>1 DEF SetStep, TypeInv
  <2>3. ~steps[b][k].stream /\ steps[b][k].exitcode = 0 => child[b][k] = "code0"
    BY <1>1 DEF IInv, BuildInv, MemoryInv, StepInv
  <2> QED BY <1>1, <2>1, <2>2, <2>3 DEF Check
<1>3. worker' = [at |-> "save", i |-> worker.i, k |-> next, nrun |-> worker.nrun]
  BY <1>2 DEF ThenSave, At
<1>4. /\ steps' = [a \in Builds |-> steps'[a]]
      /\ \A a \in Builds : steps'[a] \in [Steps(a) -> StepType]
      /\ steps'[b][k] = s
      /\ \A j \in Steps(b) \ {k} : steps'[b][j] = steps[b][j]
      /\ \A a \in Builds \ {b} : steps'[a] = steps[a]
  BY <1>1, <1>2, SetStepType
<1>5. /\ m_state' \in [Builds -> States]
      /\ s.state \in {"Running", "Passed"} => m_state' = m_state
      /\ m_state'[b] \in {m_state[b], "Failed"}
      /\ \A a \in Builds \ {b} : m_state'[a] = m_state[a]
  <2>1. m_state \in [Builds -> States] /\ "Failed" \in States
    BY <1>1 DEF TypeInv, States
  <2> QED BY <1>1, <1>2, <2>1
<1>6. /\ m_builds' = m_builds /\ m_max_running' = m_max_running /\ disk' = disk
      /\ Listed' = Listed /\ OnDisk' = OnDisk /\ Current' = b
      /\ UNCHANGED <<script, exiting, torn>>
  BY <1>1, <1>3 DEF Proceeds, Listed, OnDisk, Current
<1>7. /\ saving' = [a \in Builds |-> saving'[a]]
      /\ \A a \in Builds : saving'[a] \in 0..(NSteps[a] + 1)
      /\ saving'[b] = 1
      /\ \A a \in Builds \ {b} : saving'[a] = saving[a]
  BY <1>1, <1>2, StartSaveType DEF ThenSave
<1>8. TypeInv'
  <2>1. k \in Nat \ {0} /\ worker.i \in DOMAIN m_builds /\ worker.i \in Nat /\ worker.nrun \in Nat
    BY <1>1 DEF TypeInv, Steps
  <2>2. /\ worker' \in [at : {"load", "sleep", "pass", "step", "save"}, i : Nat, k : Nat, nrun : Nat]
        /\ worker'.at = "save" /\ worker'.i \in DOMAIN m_builds'
    BY <2>1, <1>3, <1>6
  <2>3. \A a \in OnDisk' : disk'[a] \in FileType(a)
    BY <1>1, <1>6 DEF TypeInv
  <2> QED BY <1>1, <2>2, <2>3, <1>4, <1>5, <1>6, <1>7 DEF TypeInv, FileType, Steps
<1>9. PassedTo(b, k)
  BY <1>1 DEF IInv, WorkerInv
<1>10. ASSUME NEW j \in Steps(b), k < j PROVE steps[b][j].state \in NotBegun
  <2>1. StepInv(b, j) /\ k \in Before(b, j)
    BY <1>1, <1>10 DEF IInv, BuildInv, MemoryInv, Before
  <2> QED BY <2>1 DEF StepInv, PassedTo
<1>11. \A j \in Steps(b) : j < k => steps[b][j].state = "Passed"
  BY <1>9 DEF PassedTo, Before
<1>12. PassedTo(b, next)'
  <2>1. CASE next = 0
    BY <2>1 DEF PassedTo, Before, Steps
  <2>2. CASE next = k + 1 /\ s.state = "Passed"
    <3>1. ASSUME NEW j \in Steps(b), j < k + 1 PROVE steps'[b][j].state = "Passed"
      <4>1. CASE j = k
        BY <4>1, <2>2, <1>4
      <4>2. j # k => j < k
        BY <3>1, <1>1 DEF Steps
      <4> QED BY <4>1, <4>2, <1>4, <1>11
    <3> QED BY <2>2, <3>1 DEF PassedTo, Before, Steps
  <2> QED BY <1>2, <2>1, <2>2
<1>13. WorkerInv'
  BY <1>3, <1>6, <1>12 DEF WorkerInv
<1>14. /\ \A a \in Builds \ {b} : BuildInv(a)'
       /\ b \in Listed /\ script[b] = "none" /\ \A j \in Steps(b) : ~Lags(b, j)
  <2>1. \A a \in Builds \ {b} : Same(a)
    BY <1>1, <1>4, <1>5, <1>6, <1>7 DEF Same
  <2>2. worker'.at \in {"step", "save"}
    BY <1>3
  <2> QED BY <1>1, <2>1, <2>2, OthersKeep
<1>15. BuildInv(b)'
  <2>1. MemoryInv(b) /\ (b \in OnDisk => FileInv(b)) /\ AgreeInv(b)
    BY <1>1 DEF IInv, BuildInv
  <2>2. ASSUME NEW j \in Steps(b) PROVE StepInv(b, j)'
    <3>1. StepInv(b, j) /\ StepInv(b, k)
      BY <1>1, <2>1 DEF MemoryInv
    <3>2. CASE k < j
      <4>1. steps'[b][j] = steps[b][j] /\ steps[b][j].state \in NotBegun
        BY <3>2, <1>1, <1>4, <1>10 DEF Steps
      <4> QED BY <3>1, <4>1, <1>1, <1>6 DEF StepInv, NotBegun
    <3>3. CASE j = k
      <4>1. \A i \in Before(b, k) : steps'[b][i].state = "Passed"
        BY <1>1, <1>4, <1>9 DEF PassedTo, Before, Steps
      <4>2. PassedTo(b, k)'
        BY <4>1 DEF PassedTo, Before, Steps
      <4> QED BY <3>1, <3>3, <4>2, <1>1, <1>2, <1>4, <1>5, <1>6 DEF StepInv
    <3>4. CASE j < k
      <4>1. \A i \in Before(b, j) : steps'[b][i].state = "Passed"
        BY <3>4, <1>1, <1>4, <1>11 DEF Before, Steps
      <4>2. PassedTo(b, j)'
        BY <4>1 DEF PassedTo, Before, Steps
      <4>3. steps'[b][j].state = "Passed" /\ steps'[b][j] = steps[b][j]
        BY <3>4, <1>1, <1>4, <1>11 DEF Steps
      <4> QED BY <3>1, <4>2, <4>3, <1>1, <1>6 DEF StepInv
    <3> QED BY <3>2, <3>3, <3>4, <1>1 DEF Steps
  <2>3. MemoryInv(b)'
    BY <1>1, <2>2, <1>5 DEF MemoryInv, Steps
  <2>4. b \in OnDisk' => FileInv(b)'
    <3>1. b \in OnDisk => \A j \in Steps(b) : disk[b].steps[j] = "absent" => b \in torn
      BY <1>14, <2>1 DEF FileInv
    <3> QED BY <1>1, <1>6, <2>1, <3>1 DEF FileInv, FilePassedTo, Before, Steps
  <2>5. s.state = "Passed" => Lags(b, k)'
    BY <1>1, <1>3, <1>5, <1>6, <1>7 DEF Lags, Steps
  <2>6. \A j \in Steps(b) : steps[b][j].state = "Passed" => steps'[b][j].state = "Passed"
    BY <1>1, <1>4
  <2>7. AgreeInv(b)'
    <3>1. ASSUME NEW j \in Steps(b), steps'[b][j].state = "Passed", ~Lags(b, j)'
          PROVE  b \in OnDisk /\ disk[b].steps[j] = "Passed"
      <4>1. j # k /\ steps[b][j].state = "Passed"
        BY <3>1, <1>4, <2>5
      <4> QED BY <4>1, <1>14, <2>1 DEF AgreeInv
    <3> QED BY <1>1, <1>6, <2>1, <2>6, <3>1 DEF AgreeInv, Steps
  <2>8. ScriptInv(b)'
    BY <1>6, <1>14 DEF ScriptInv
  <2> QED BY <2>3, <2>4, <2>7, <2>8 DEF BuildInv
<1> QED BY <1>8, <1>13, <1>14, <1>15 DEF IInv

LEMMA ProceedKeeps == ASSUME IInv, ProceedStep PROVE IInv'
<1>1. PICK b \in Builds : b = Current /\ worker.at = "step"
  BY CurrentType DEF ProceedStep, IInv
<1>2. worker.k \in Nat \ {0} /\ NSteps[b] \in Nat
  BY <1>1, BuilderAssumption DEF IInv, TypeInv
<1>3. CASE ~Exists(b, worker.k)
  BY <1>1, <1>3, PassedAllKeeps
<1>4. CASE Exists(b, worker.k)
  <2>1. worker.k \in Steps(b)
    BY <1>2, <1>4 DEF Steps, Exists
  <2>2. Proceeds(b, worker.k)
    BY <1>1, <2>1 DEF Proceeds, ProceedStep
  <2>3. \/ steps[b][worker.k].state = "Unstarted" /\ Launch(b, worker.k)
        \/ steps[b][worker.k].state = "Running" /\ Check(b, worker.k)
        \/ steps[b][worker.k].state = "Passed"
    BY <1>1, <1>2, <1>4 DEF ProceedStep
  <2> QED BY <1>1, <2>1, <2>2, <2>3, LaunchKeeps, CheckKeeps, SkipKeeps
<1> QED BY <1>3, <1>4

(* The programs, and what is told of them.                                       *)
LEMMA EndKeeps ==
  ASSUME IInv, NEW b \in Builds, NEW k \in Steps(b), ProgramEnds(b, k) PROVE IInv'
<1>1. PICK end \in {"code0", "failed"} : child' = [child EXCEPT ![b][k] = end]
  BY DEF ProgramEnds
<1>2. /\ child[b][k] = "alive"
      /\ UNCHANGED <<m_builds, m_state, steps, m_max_running, worker, disk, saving, script,
                     exiting, torn>>
  BY DEF ProgramEnds
<1>3. /\ child' = [a \in Builds |-> child'[a]]
      /\ \A a \in Builds : child'[a] \in [Steps(a) -> ChildType]
      /\ child'[b][k] = end
      /\ \A j \in Steps(b) \ {k} : child'[b][j] = child[b][j]
      /\ \A a \in Builds \ {b} : child'[a] = child[a]
  <2>1. end \in ChildType
    BY DEF ChildType
  <2> QED BY <1>1, <2>1, SetChildType DEF IInv
<1>4. TypeInv'
  BY <1>2, <1>3 DEF IInv, TypeInv, OnDisk, FileType, Steps
<1>5. WorkerInv'
  BY <1>2 DEF IInv, WorkerInv, PassedTo, Before, Steps, Current
<1>6. Listed' = Listed /\ OnDisk' = OnDisk
  BY <1>2 DEF Listed, OnDisk
<1>7. \A a \in Builds : /\ \A j \in Steps(a) : Lags(a, j)' <=> Lags(a, j)
                        /\ script[a] \in {"abort", "remove"} => worker'.at = "sleep"
  BY <1>2 DEF Lags, Current, IInv, BuildInv, ScriptInv
<1>8. BuildInv(b)'
  <2>1. BuildInv(b) /\ steps[b][k].state = "Running" /\ steps[b][k].stream /\ b \in OnDisk
    BY <1>2 DEF IInv, BuildInv, MemoryInv, StepInv, AgreeInv
  <2>2. MemoryInv(b)'
    BY <1>2, <1>3, <1>6, <2>1 DEF BuildInv, MemoryInv, StepInv, PassedTo, Before, Steps
  <2>3. \A j \in Steps(b) : /\ child'[b][j] # "none" => child[b][j] # "none"
                            /\ child[b][j] = "code0" => child'[b][j] = "code0"
    BY <1>2, <1>3
  <2>4. FileInv(b)'
    BY <1>2, <2>1, <2>3 DEF BuildInv, FileInv, FilePassedTo, Before, Steps
  <2>5. AgreeInv(b)'
    BY <1>2, <1>6, <1>7, <2>1 DEF BuildInv, AgreeInv, Steps
  <2>6. ScriptInv(b)'
    BY <1>2, <1>6, <2>1 DEF BuildInv, ScriptInv
  <2> QED BY <2>2, <2>4, <2>5, <2>6 DEF BuildInv
<1>9. ASSUME NEW a \in Builds \ {b} PROVE BuildInv(a)'
  BY <1>2, <1>3, <1>6, <1>7, Untouched DEF Same
<1> QED BY <1>4, <1>5, <1>8, <1>9 DEF IInv

LEMMA ClosingKeeps ==
  ASSUME IInv, NEW b \in Builds, NEW k \in Steps(b), Closing(b, k) PROVE IInv'
<1>1. /\ exiting' = exiting \cup {<<b, k>>} /\ steps[b][k].stream
      /\ child[b][k] \in {"code0", "failed"}
      /\ UNCHANGED <<m_builds, m_state, steps, m_max_running, worker, disk, saving, script,
                     child, torn>>
  BY DEF Closing
<1>2. BuildInv(b) /\ b \in OnDisk /\ worker.at # "load"
  BY <1>1 DEF IInv, BuildInv, AgreeInv, WorkerInv
<1>3. TypeInv'
  BY <1>1 DEF IInv, TypeInv, OnDisk, FileType, Steps
<1>4. WorkerInv'
  BY <1>1, <1>2 DEF IInv, WorkerInv, PassedTo, Before, Steps, Current
<1>5. Listed' = Listed /\ OnDisk' = OnDisk
  BY <1>1 DEF Listed, OnDisk
<1>6. \A a \in Builds : /\ \A j \in Steps(a) : Lags(a, j)' <=> Lags(a, j)
                        /\ script[a] \in {"abort", "remove"} => worker'.at = "sleep"
  BY <1>1 DEF Lags, Current, IInv, BuildInv, ScriptInv
<1>7. BuildInv(b)'
  <2>1. ASSUME NEW j \in Steps(b) PROVE StepInv(b, j)'
    <3>1. StepInv(b, j)
      BY <1>2 DEF BuildInv, MemoryInv
    <3>2. PassedTo(b, j)' <=> PassedTo(b, j)
      BY <1>1 DEF PassedTo, Before, Steps
    <3>3. <<b, j>> \in exiting' => <<b, j>> \in exiting \/ j = k
      BY <1>1
    <3> QED BY <1>1, <1>5, <3>1, <3>2, <3>3 DEF StepInv
  <2>2. MemoryInv(b)'
    BY <1>1, <1>2, <2>1 DEF BuildInv, MemoryInv, Steps
  <2>3. FileInv(b)'
    BY <1>1, <1>2 DEF BuildInv, FileInv, FilePassedTo, Before, Steps
  <2>4. AgreeInv(b)'
    BY <1>1, <1>2, <1>5, <1>6 DEF BuildInv, AgreeInv, Steps
  <2>5. ScriptInv(b)'
    BY <1>1, <1>2, <1>5 DEF BuildInv, ScriptInv
  <2> QED BY <2>2, <2>3, <2>4, <2>5 DEF BuildInv
<1>8. ASSUME NEW a \in Builds \ {b} PROVE BuildInv(a)'
  <2>1. \A j \in Steps(a) : <<a, j>> \in exiting' => <<a, j>> \in exiting
    BY <1>1
  <2> QED BY <1>1, <1>5, <1>6, <2>1, Untouched DEF Same
<1> QED BY <1>3, <1>4, <1>7, <1>8 DEF IInv

(* A step that has been deleted is not touched in the model; one in the list     *)
(* learns the exit code.                                                         *)
LEMMA ExitedKeeps ==
  ASSUME IInv, NEW b \in Builds, NEW k \in Steps(b), process_exited(b, k) PROVE IInv'
<1>1. /\ TypeInv /\ steps[b][k] \in StepType /\ child[b][k] \in {"code0", "failed"}
      /\ <<b, k>> \in exiting /\ exiting' = exiting \ {<<b, k>>}
      /\ UNCHANGED <<m_builds, m_state, m_max_running, worker, disk, saving, script, child, torn>>
      /\ worker.at # "load" /\ steps[b][k].state # "Unstarted"
  <2>1. TypeInv /\ <<b, k>> \in exiting /\ StepInv(b, k) /\ WorkerInv
    BY DEF process_exited, IInv, BuildInv, MemoryInv
  <2> QED BY <2>1 DEF process_exited, TypeInv, StepInv, WorkerInv
<1>2. PICK s \in StepType :
        /\ SetStep(b, k, s)
        /\ s.state = steps[b][k].state
        /\ s = steps[b][k] \/ (s.exitcode = 0 => child[b][k] = "code0")
        /\ s.stream => steps[b][k].stream
  <2>1. CASE b \in Listed
    <3> DEFINE s == [steps[b][k] EXCEPT !.stream = FALSE,
                      !.exitcode = IF child[b][k] = "code0" THEN 0 ELSE 1]
               code == IF child[b][k] = "code0" THEN 0 ELSE 1
    <3>1. code \in {0, 1} /\ (code = 0 => child[b][k] = "code0")
      OBVIOUS
    <3>2. s = [state |-> steps[b][k].state, exitcode |-> code, stream |-> FALSE]
      <4>1. PICK st \in StepStates, e \in {0, 1}, f \in BOOLEAN :
              steps[b][k] = [state |-> st, exitcode |-> e, stream |-> f]
        BY <1>1 DEF StepType
      <4>2. s = [[state |-> st, exitcode |-> e, stream |-> f] EXCEPT !.stream = FALSE, !.exitcode = code]
        BY <4>1
      <4> HIDE DEF s, code
      <4> QED BY <4>1, <4>2
    <3>3. steps[b][k].state \in StepStates
      BY <1>1 DEF StepType
    <3>4. SetStep(b, k, s)
      BY <2>1 DEF process_exited
    <3>5. s \in StepType /\ s.state = steps[b][k].state /\ ~s.stream /\ s.exitcode = code
      <4> HIDE DEF code, s
      <4> QED BY <3>1, <3>2, <3>3 DEF StepType
    <3> HIDE DEF code, s
    <3> QED BY <3>1, <3>4, <3>5
  <2>2. CASE b \notin Listed
    <3>1. steps' = steps
      BY <2>2 DEF process_exited
    <3>2. SetStep(b, k, steps[b][k])
      BY <1>1, <3>1 DEF SetStep, TypeInv
    <3> QED BY <1>1, <3>2
  <2> QED BY <2>1, <2>2
<1>3. /\ steps' = [a \in Builds |-> steps'[a]]
      /\ \A a \in Builds : steps'[a] \in [Steps(a) -> StepType]
      /\ steps'[b][k] = s
      /\ \A j \in Steps(b) \ {k} : steps'[b][j] = steps[b][j]
      /\ \A a \in Builds \ {b} : steps'[a] = steps[a]
  BY <1>1, <1>2, SetStepType
<1>4. \A a \in Builds : \A j \in Steps(a) : steps'[a][j].state = steps[a][j].state
  BY <1>2, <1>3
<1>5. TypeInv'
  BY <1>1, <1>3 DEF TypeInv, OnDisk, FileType, Steps
<1>6. WorkerInv'
  <2>1. Current' = Current /\ (worker.at \in {"step", "save"} => Current \in Builds)
    BY <1>1, CurrentType DEF Current
  <2> QED BY <1>1, <1>4, <2>1 DEF IInv, WorkerInv, PassedTo, Before, Steps
<1>7. Listed' = Listed /\ OnDisk' = OnDisk
  BY <1>1 DEF Listed, OnDisk
<1>8. \A a \in Builds : /\ \A j \in Steps(a) : Lags(a, j)' <=> Lags(a, j)
                        /\ script[a] \in {"abort", "remove"} => worker'.at = "sleep"
  BY <1>1 DEF Lags, Current, IInv, BuildInv, ScriptInv
<1>9. BuildInv(b)'
  <2>1. BuildInv(b)
    BY DEF IInv
  <2>2. ASSUME NEW j \in Steps(b) PROVE StepInv(b, j)'
    <3>1. StepInv(b, j) /\ (PassedTo(b, j) => PassedTo(b, j)')
      BY <1>4, <2>1 DEF BuildInv, MemoryInv, PassedTo, Before, Steps
    <3>2. <<b, j>> \in exiting' => <<b, j>> \in exiting
      BY <1>1
    <3>3. CASE j # k
      BY <3>1, <3>2, <3>3, <1>1, <1>3, <1>7 DEF StepInv
    <3>4. CASE j = k
      BY <3>1, <3>2, <3>4, <1>1, <1>2, <1>3, <1>7 DEF StepInv
    <3> QED BY <3>3, <3>4
  <2>3. MemoryInv(b)'
    BY <1>1, <1>4, <2>1, <2>2 DEF BuildInv, MemoryInv, Steps
  <2>4. b \in OnDisk' => FileInv(b)'
    BY <1>1, <1>7, <2>1 DEF BuildInv, FileInv, FilePassedTo, Before, Steps
  <2>5. AgreeInv(b)'
    BY <1>1, <1>4, <1>7, <1>8, <2>1 DEF BuildInv, AgreeInv, Steps
  <2>6. ScriptInv(b)'
    BY <1>1, <1>7, <2>1 DEF BuildInv, ScriptInv
  <2> QED BY <2>3, <2>4, <2>5, <2>6 DEF BuildInv
<1>10. ASSUME NEW a \in Builds \ {b} PROVE BuildInv(a)'
  BY <1>1, <1>3, <1>7, <1>8, Untouched DEF Same
<1> QED BY <1>5, <1>6, <1>9, <1>10 DEF IInv

(* Scripts: a build that comes, and is put into the list.                        *)
LEMMA CreateKeeps == ASSUME IInv, NEW b \in Builds, Create(b) PROVE IInv'
<1> DEFINE new == [k \in Steps(b) |-> NewStep]
<1>1. /\ TypeInv /\ worker.at # "load" /\ b \notin OnDisk
      /\ disk' = [disk EXCEPT ![b] = NewFile(b)]
      /\ m_state' = [m_state EXCEPT ![b] = "Unstarted"]
      /\ steps' = [steps EXCEPT ![b] = new]
      /\ script' = [script EXCEPT ![b] = "submit"]
      /\ UNCHANGED <<m_builds, m_max_running, worker, exiting, child, torn>>
  BY DEF Create, OnDisk, IInv
<1>2. "Unstarted" \in States /\ new \in [Steps(b) -> StepType]
  BY DEF States, StepType, StepStates, NewStep
<1>3. /\ NewFile(b) \in FileType(b) /\ NewFile(b) # <<>> /\ NewFile(b).state = "Unstarted"
      /\ \A k \in Steps(b) : NewFile(b).steps[k] = "absent"
  <2>1. "state" \in DOMAIN NewFile(b) /\ "state" \notin DOMAIN <<>>
    BY DEF NewFile
  <2>2. NewFile(b) # <<>>
    BY <2>1
  <2> QED BY <2>2 DEF NewFile, FileType, States, StepStates
<1>4. /\ disk' = [c \in Builds |-> disk'[c]] /\ disk'[b] = NewFile(b)
      /\ \A c \in Builds \ {b} : disk'[c] = disk[c]
      /\ m_state' \in [Builds -> States] /\ m_state'[b] = "Unstarted"
      /\ \A c \in Builds \ {b} : m_state'[c] = m_state[c]
      /\ steps' = [c \in Builds |-> steps'[c]] /\ steps'[b] = new
      /\ \A c \in Builds \ {b} : steps'[c] = steps[c]
      /\ script' \in [Builds -> ScriptType] /\ script'[b] = "submit"
      /\ \A c \in Builds \ {b} : script'[c] = script[c]
  <2> HIDE DEF new
  <2>1. "submit" \in ScriptType
    BY DEF ScriptType
  <2> QED BY <1>1, <1>2, <2>1 DEF TypeInv
<1>5. /\ saving' = [c \in Builds |-> saving'[c]]
      /\ \A c \in Builds : saving'[c] \in 0..(NSteps[c] + 1)
      /\ saving'[b] = 1
      /\ \A c \in Builds \ {b} : saving'[c] = saving[c]
  BY <1>1, StartSaveType DEF Create
<1>6. Listed' = Listed /\ b \notin Listed /\ OnDisk' = OnDisk \cup {b}
  <2>1. Listed' = Listed /\ b \notin Listed
    BY <1>1 DEF Listed, IInv, BuildInv, AgreeInv
  <2>2. OnDisk' = OnDisk \cup {b}
    BY <1>3, <1>4 DEF OnDisk
  <2> QED BY <2>1, <2>2
<1>7. TypeInv'
  <2>1. \A c \in OnDisk' : disk'[c] \in FileType(c)
    BY <1>1, <1>3, <1>4, <1>6 DEF TypeInv
  <2>2. \A c \in Builds : steps'[c] \in [Steps(c) -> StepType]
    BY <1>1, <1>2, <1>4 DEF TypeInv
  <2> HIDE DEF new
  <2> QED BY <1>1, <1>4, <1>5, <2>1, <2>2 DEF TypeInv, FileType, Steps
<1>8. WorkerInv'
  <2>1. ASSUME worker.at \in {"step", "save"} PROVE PassedTo(Current, worker.k)'
    <3>1. Current \in Builds \ {b} /\ Current' = Current
      BY <1>1, <1>6, <2>1, CurrentType DEF Current
    <3>2. PassedTo(Current, worker.k) /\ steps'[Current] = steps[Current]
      BY <1>4, <2>1, <3>1 DEF IInv, WorkerInv
    <3> QED BY <1>1, <3>1, <3>2 DEF PassedTo, Before, Steps
  <2> QED BY <1>1, <2>1 DEF WorkerInv
<1>9. BuildInv(b)'
  <2>1. \A k \in Steps(b) : child[b][k] = "none" /\ steps'[b][k] = NewStep
    BY <1>1, <1>4 DEF IInv, BuildInv, AgreeInv
  <2>2. \A k \in Steps(b) : <<b, k>> \notin exiting
    BY <2>1 DEF IInv, BuildInv, MemoryInv, StepInv
  <2>3. MemoryInv(b)'
    BY <1>1, <1>4, <2>1, <2>2 DEF MemoryInv, StepInv, NewStep, NotBegun, Steps
  <2>4. FileInv(b)'
    <3>1. \A k \in Steps(b) : saving'[b] # 0 /\ saving'[b] <= k + 1
      BY <1>5 DEF Steps
    <3> QED BY <1>1, <1>3, <1>4, <2>1, <3>1 DEF FileInv, NotBegun, Steps
  <2>5. AgreeInv(b)'
    BY <1>3, <1>4, <1>6, <2>1 DEF AgreeInv, NewStep, Steps
  <2>6. ScriptInv(b)'
    BY <1>4, <1>6 DEF ScriptInv
  <2> QED BY <2>3, <2>4, <2>5, <2>6 DEF BuildInv
<1>10. ASSUME NEW c \in Builds \ {b} PROVE BuildInv(c)'
  <2>1. Same(c)
    BY <1>1, <1>4, <1>5, <1>6 DEF Same
  <2>2. \A k \in Steps(c) : Lags(c, k) => Lags(c, k)'
    BY <1>1, <1>4, <1>5 DEF Lags, Current
  <2>3. script[c] \in {"abort", "remove"} => worker'.at = "sleep"
    BY <1>1 DEF IInv, BuildInv, ScriptInv
  <2> QED BY <1>1, <2>1, <2>2, <2>3, Untouched
<1> QED BY <1>7, <1>8, <1>9, <1>10 DEF IInv

LEMMA SubmitKeeps == ASSUME IInv, NEW b \in Builds, submit_build(b) PROVE IInv'
<1>1. /\ TypeInv /\ worker.at = "sleep" /\ script[b] = "submit" /\ saving[b] = 0 /\ BuildInv(b)
      /\ m_builds' = Append(m_builds, b) /\ b \in OnDisk
      /\ script' = [script EXCEPT ![b] = "none"]
      /\ UNCHANGED <<m_state, steps, m_max_running, worker, disk, saving, exiting, child, torn>>
  BY DEF submit_build, MutexFree, Returns, IInv, BuildInv, AgreeInv
<1>2. m_builds' \in Seq(Builds) /\ Listed' = Listed \cup {b}
  <2>1. m_builds' \in Seq(Builds)
    BY <1>1 DEF TypeInv
  <2>2. /\ DOMAIN m_builds' = 1..(Len(m_builds) + 1) /\ Len(m_builds) \in Nat
        /\ m_builds'[Len(m_builds) + 1] = b
        /\ \A i \in 1..Len(m_builds) : m_builds'[i] = m_builds[i]
        /\ DOMAIN m_builds = 1..Len(m_builds)
    BY <1>1 DEF TypeInv
  <2> QED BY <2>1, <2>2 DEF Listed
<1>3. /\ script' \in [Builds -> ScriptType] /\ script'[b] = "none"
      /\ \A c \in Builds \ {b} : script'[c] = script[c]
      /\ OnDisk' = OnDisk
  BY <1>1 DEF TypeInv, ScriptType, OnDisk
<1>4. TypeInv'
  BY <1>1, <1>2, <1>3 DEF TypeInv, OnDisk, FileType, Steps
<1>5. WorkerInv'
  BY <1>1 DEF WorkerInv
<1>6. BuildInv(b)'
  <2>1. MemoryInv(b)'
    BY <1>1, <1>2 DEF BuildInv, MemoryInv, StepInv, PassedTo, Before, Steps
  <2>2. FileInv(b)'
    BY <1>1, <1>3 DEF BuildInv, FileInv, FilePassedTo, Before, Steps
  <2>3. AgreeInv(b)'
    BY <1>1, <1>3 DEF BuildInv, AgreeInv, Lags, Steps
  <2>4. ScriptInv(b)'
    BY <1>3 DEF ScriptInv
  <2> QED BY <2>1, <2>2, <2>3, <2>4 DEF BuildInv
<1>7. ASSUME NEW c \in Builds \ {b} PROVE BuildInv(c)'
  <2>1. Same(c)
    BY <1>1, <1>2, <1>3 DEF Same
  <2> QED BY <1>1, <2>1, Untouched DEF Lags
<1> QED BY <1>4, <1>5, <1>6, <1>7 DEF IInv

(* A build that is aborted, by a script that does that alone or removes it then. *)
LEMMA AbortKeeps ==
  ASSUME IInv, NEW b \in Listed, MutexFree, Abort(b), NEW s \in {"abort", "remove"},
         script' = [script EXCEPT ![b] = s],
         UNCHANGED <<m_builds, m_max_running, worker, disk, exiting, torn>>
  PROVE  IInv'
<1>1. /\ TypeInv /\ b \in Builds /\ b \in OnDisk /\ BuildInv(b) /\ FileInv(b) /\ worker.at = "sleep"
      /\ script[b] = "none" /\ Listed' = Listed /\ OnDisk' = OnDisk
  <2>1. b \in Builds
    BY DEF Listed, IInv, TypeInv
  <2>2. script[b] = "none"
    BY <2>1 DEF IInv, BuildInv, ScriptInv, MutexFree
  <2>3. Listed' = Listed /\ OnDisk' = OnDisk
    BY DEF Listed, OnDisk
  <2> QED BY <2>1, <2>2, <2>3 DEF IInv, BuildInv, AgreeInv, MutexFree
<1>2. ASSUME NEW k \in Steps(b)
      PROVE  /\ steps'[b][k] = IF steps[b][k].state = "Running"
                               THEN [steps[b][k] EXCEPT !.state = "Aborted", !.stream = FALSE]
                               ELSE steps[b][k]
             /\ child'[b][k] = IF steps[b][k].stream /\ child[b][k] = "alive"
                               THEN "failed" ELSE child[b][k]
  BY <1>1 DEF Abort, Cancelled, TypeInv
<1>3. ASSUME NEW k \in Steps(b)
      PROVE  /\ steps'[b][k] \in StepType
             /\ steps'[b][k].state # "Running"
             /\ steps'[b][k].state \in NotBegun <=> steps[b][k].state \in NotBegun
             /\ steps'[b][k].state = "Unstarted" <=> steps[b][k].state = "Unstarted"
             /\ steps'[b][k].state = "absent" <=> steps[b][k].state = "absent"
             /\ steps'[b][k].state = "Passed" <=> steps[b][k].state = "Passed"
             /\ steps'[b][k].stream => steps[b][k].stream
             /\ child'[b][k] \in ChildType \ {"alive"}
             /\ child'[b][k] # "none" <=> child[b][k] # "none"
             /\ child[b][k] \in {"code0", "failed"} => child'[b][k] = child[b][k]
  <2>1. /\ steps[b][k] \in StepType /\ child[b][k] \in ChildType
        /\ child[b][k] = "alive" => steps[b][k].stream
    BY <1>1, <1>3 DEF TypeInv, BuildInv, MemoryInv, StepInv
  <2>2. child'[b][k] = IF child[b][k] = "alive" THEN "failed" ELSE child[b][k]
    BY <1>2, <1>3, <2>1
  <2>3. /\ [steps[b][k] EXCEPT !.state = "Aborted", !.stream = FALSE] \in StepType
        /\ [steps[b][k] EXCEPT !.state = "Aborted", !.stream = FALSE].state = "Aborted"
        /\ [steps[b][k] EXCEPT !.state = "Aborted", !.stream = FALSE].stream = FALSE
    BY <2>1 DEF StepType, StepStates, States
  <2>4. CASE steps[b][k].state = "Running"
    BY <1>2, <1>3, <2>1, <2>2, <2>3, <2>4 DEF ChildType, NotBegun
  <2>5. CASE steps[b][k].state # "Running"
    BY <1>2, <1>3, <2>1, <2>2, <2>5 DEF ChildType
  <2> QED BY <2>4, <2>5
<1>4. /\ steps' = [c \in Builds |-> steps'[c]] /\ child' = [c \in Builds |-> child'[c]]
      /\ \A c \in Builds \ {b} : steps'[c] = steps[c] /\ child'[c] = child[c]
      /\ m_state' \in [Builds -> States] /\ m_state'[b] = "Aborted"
      /\ \A c \in Builds \ {b} : m_state'[c] = m_state[c]
  BY <1>1 DEF Abort, Cancelled, TypeInv, States
<1>5. /\ steps'[b] \in [Steps(b) -> StepType]
      /\ child'[b] \in [Steps(b) -> ChildType]
  <2>1. steps'[b] = [k \in Steps(b) |-> IF steps[b][k].state = "Running"
                               THEN [steps[b][k] EXCEPT !.state = "Aborted", !.stream = FALSE]
                               ELSE steps[b][k]]
    BY <1>1 DEF Abort, TypeInv
  <2>2. child'[b] = [k \in Steps(b) |-> IF steps[b][k].stream /\ child[b][k] = "alive"
                               THEN "failed" ELSE child[b][k]]
    BY <1>1 DEF Abort, Cancelled, TypeInv
  <2>3. steps'[b] = [k \in Steps(b) |-> steps'[b][k]] /\ child'[b] = [k \in Steps(b) |-> child'[b][k]]
    BY <2>1, <2>2
  <2> QED BY <2>3, <1>3
<1>6. /\ saving' = [c \in Builds |-> saving'[c]]
      /\ \A c \in Builds : saving'[c] \in 0..(NSteps[c] + 1)
      /\ \A c \in Builds \ {b} : saving'[c] = saving[c]
  BY <1>1, StartSaveType DEF Abort
<1>7. /\ script' \in [Builds -> ScriptType] /\ script'[b] \in {"abort", "remove"}
      /\ \A c \in Builds \ {b} : script'[c] = script[c]
  BY <1>1 DEF TypeInv, ScriptType
<1>8. TypeInv'
  <2>1. \A c \in OnDisk' : disk'[c] \in FileType(c)
    BY <1>1 DEF TypeInv
  <2>2. \A c \in Builds : steps'[c] \in [Steps(c) -> StepType] /\ child'[c] \in [Steps(c) -> ChildType]
    BY <1>1, <1>4, <1>5 DEF TypeInv
  <2> QED BY <1>1, <1>4, <1>6, <1>7, <2>1, <2>2 DEF TypeInv, FileType, Steps
<1>9. WorkerInv'
  BY <1>1 DEF WorkerInv
<1>10. BuildInv(b)'
  <2>1. ASSUME NEW k \in Steps(b) PROVE StepInv(b, k)'
    <3>1. StepInv(b, k)
      BY <1>1 DEF BuildInv, MemoryInv
    <3>2. PassedTo(b, k) => PassedTo(b, k)'
      BY <1>3 DEF PassedTo, Before, Steps
    <3>3. <<b, k>> \in exiting' <=> <<b, k>> \in exiting
      OBVIOUS
    <3> QED BY <1>1, <1>3, <3>1, <3>2, <3>3 DEF StepInv
  <2>2. MemoryInv(b)'
    BY <1>4, <2>1 DEF MemoryInv, Steps
  <2>3. FileInv(b)'
    BY <1>1, <1>3 DEF FileInv, FilePassedTo, Before, Steps
  <2>4. AgreeInv(b)'
    BY <1>1, <1>3 DEF BuildInv, AgreeInv, Lags, Steps
  <2>5. ScriptInv(b)'
    BY <1>1, <1>4, <1>7 DEF ScriptInv
  <2> QED BY <2>2, <2>3, <2>4, <2>5 DEF BuildInv
<1>11. ASSUME NEW c \in Builds \ {b} PROVE BuildInv(c)'
  <2>1. Same(c)
    BY <1>1, <1>4, <1>6, <1>7 DEF Same
  <2> QED BY <1>1, <2>1, Untouched DEF Lags
<1> QED BY <1>8, <1>9, <1>10, <1>11 DEF IInv

(* What scripts do that changes nothing but where they are.                      *)
LEMMA ScriptKeeps ==
  ASSUME IInv, NEW b \in Builds, NEW s \in {"none", "remove"}, worker.at = "sleep",
         s = "remove" => m_state[b] # "Running", script[b] # "submit",
         script' = [script EXCEPT ![b] = s],
         UNCHANGED <<m_builds, m_state, steps, m_max_running, worker, disk, saving, exiting,
                     child, torn>>, b \in OnDisk
  PROVE  IInv'
<1>1. TypeInv /\ BuildInv(b)
  BY DEF IInv
<1>2. /\ script' \in [Builds -> ScriptType] /\ script'[b] = s
      /\ \A c \in Builds \ {b} : script'[c] = script[c]
      /\ OnDisk' = OnDisk /\ Listed' = Listed
  BY <1>1 DEF TypeInv, ScriptType, OnDisk, Listed
<1>3. TypeInv'
  BY <1>1, <1>2 DEF TypeInv, FileType, Steps
<1>4. WorkerInv'
  BY DEF WorkerInv
<1>5. BuildInv(b)'
  <2>1. MemoryInv(b)'
    BY <1>1, <1>2 DEF BuildInv, MemoryInv, StepInv, PassedTo, Before, Steps
  <2>2. FileInv(b)'
    BY <1>1, <1>2 DEF BuildInv, FileInv, FilePassedTo, Before, Steps
  <2>3. AgreeInv(b)'
    BY <1>1, <1>2 DEF BuildInv, AgreeInv, Lags, Steps
  <2>4. ScriptInv(b)'
    BY <1>1, <1>2 DEF ScriptInv
  <2> QED BY <2>1, <2>2, <2>3, <2>4 DEF BuildInv
<1>6. ASSUME NEW c \in Builds \ {b} PROVE BuildInv(c)'
  <2>1. Same(c)
    BY <1>2 DEF Same
  <2> QED BY <2>1, Untouched DEF Lags
<1> QED BY <1>3, <1>4, <1>5, <1>6 DEF IInv

LEMMA AbortBuildKeeps ==
  ASSUME IInv, NEW b \in Builds, abort_build(b) \/ Aborted(b) \/ remove_build(b) PROVE IInv'
<1>1. CASE abort_build(b)
  BY <1>1, AbortKeeps DEF abort_build
<1>2. CASE Aborted(b)
  BY <1>2, ScriptKeeps DEF Aborted, Returns, IInv, BuildInv, AgreeInv, ScriptInv
<1>3. CASE remove_build(b) /\ m_state[b] = "Running"
  BY <1>3, AbortKeeps DEF remove_build
<1>4. CASE remove_build(b) /\ m_state[b] # "Running"
  <2>1. b \in Listed /\ worker.at = "sleep" /\ b \in OnDisk /\ script[b] # "submit"
    BY <1>4 DEF remove_build, MutexFree, IInv, BuildInv, AgreeInv, ScriptInv
  <2> QED BY <1>4, <2>1, ScriptKeeps DEF remove_build
<1> QED BY <1>1, <1>2, <1>3, <1>4

LEMMA DeleteKeeps == ASSUME IInv, NEW b \in Builds, Delete(b) PROVE IInv'
<1>1. PICK i \in DOMAIN m_builds : m_builds[i] = b /\ m_builds' = RemoveAt(m_builds, i)
  BY DEF Delete
<1>2. /\ m_builds' \in Seq(Builds) /\ Listed' \subseteq Listed
      /\ \A c \in Listed : c # b => c \in Listed'
  <2>1. /\ m_builds' \in Seq(Builds)
        /\ Len(m_builds') = Len(m_builds) - 1
        /\ \A j \in DOMAIN m_builds' :
             m_builds'[j] = IF j < i THEN m_builds[j] ELSE m_builds[j + 1]
        /\ \A j \in DOMAIN m_builds : j # i => m_builds[j] \in Listed'
    BY <1>1, Removal DEF IInv
  <2>2. m_builds \in Seq(Builds)
    BY DEF IInv, TypeInv
  <2>3. ASSUME NEW j \in DOMAIN m_builds' PROVE m_builds'[j] \in Listed
    <3>1. j \in DOMAIN m_builds /\ j + 1 \in DOMAIN m_builds
      BY <2>1, <2>2
    <3> QED BY <2>1, <3>1 DEF Listed
  <2> QED BY <1>1, <2>1, <2>3 DEF Listed
<1>3. /\ TypeInv /\ BuildInv(b) /\ b \in Listed /\ b \in OnDisk /\ worker.at = "sleep"
      /\ m_state[b] # "Running" /\ script[b] = "remove"
      /\ script' = [script EXCEPT ![b] = "none"]
      /\ UNCHANGED <<m_state, m_max_running, worker, disk, saving, exiting, child, torn>>
  BY <1>1 DEF Delete, Returns, IInv, BuildInv, AgreeInv, ScriptInv, Listed
<1>4. /\ steps' = [c \in Builds |-> steps'[c]]
      /\ steps'[b] = [k \in Steps(b) |-> [steps[b][k] EXCEPT !.stream = FALSE]]
      /\ \A c \in Builds \ {b} : steps'[c] = steps[c]
  BY <1>3 DEF Delete, TypeInv
<1>5. ASSUME NEW k \in Steps(b)
      PROVE  /\ steps'[b][k] \in StepType /\ ~steps'[b][k].stream
             /\ steps'[b][k].state = steps[b][k].state
             /\ steps[b][k].state # "Running" /\ child[b][k] # "alive"
  <2>1. steps[b][k] \in StepType /\ StepInv(b, k)
    BY <1>3, <1>5 DEF TypeInv, BuildInv, MemoryInv
  <2>2. steps'[b][k] = [steps[b][k] EXCEPT !.stream = FALSE]
    BY <1>4, <1>5
  <2> QED BY <1>3, <2>1, <2>2 DEF StepType, StepInv
<1>6. steps'[b] \in [Steps(b) -> StepType]
  <2>1. steps'[b] = [k \in Steps(b) |-> steps'[b][k]]
    BY <1>4
  <2> QED BY <1>5, <2>1
<1>7. /\ script' \in [Builds -> ScriptType] /\ script'[b] = "none"
      /\ \A c \in Builds \ {b} : script'[c] = script[c]
      /\ OnDisk' = OnDisk
  BY <1>3 DEF TypeInv, ScriptType, OnDisk
<1>8. TypeInv'
  <2>1. \A c \in Builds : steps'[c] \in [Steps(c) -> StepType]
    BY <1>3, <1>4, <1>6 DEF TypeInv
  <2> QED BY <1>2, <1>3, <1>4, <1>7, <2>1 DEF TypeInv, FileType, Steps
<1>9. WorkerInv'
  BY <1>3 DEF WorkerInv
<1>10. BuildInv(b)'
  <2>1. ASSUME NEW k \in Steps(b) PROVE StepInv(b, k)'
    <3>1. StepInv(b, k)
      BY <1>3 DEF BuildInv, MemoryInv
    <3>2. PassedTo(b, k) => PassedTo(b, k)'
      BY <1>5 DEF PassedTo, Before, Steps
    <3>3. <<b, k>> \in exiting' <=> <<b, k>> \in exiting
      BY <1>3
    <3> QED BY <1>3, <1>5, <3>1, <3>2, <3>3 DEF StepInv
  <2>2. MemoryInv(b)'
    BY <1>3, <1>5, <2>1 DEF BuildInv, MemoryInv, Steps
  <2>3. FileInv(b)'
    BY <1>3, <1>7 DEF BuildInv, FileInv, FilePassedTo, Before, Steps
  <2>4. AgreeInv(b)'
    BY <1>3, <1>5, <1>7 DEF BuildInv, AgreeInv, Lags, Steps
  <2>5. ScriptInv(b)'
    BY <1>7 DEF ScriptInv
  <2> QED BY <2>2, <2>3, <2>4, <2>5 DEF BuildInv
<1>11. ASSUME NEW c \in Builds \ {b} PROVE BuildInv(c)'
  <2>1. Same(c)
    BY <1>2, <1>3, <1>4, <1>7 DEF Same
  <2> QED BY <1>3, <2>1, Untouched DEF Lags
<1> QED BY <1>8, <1>9, <1>10, <1>11 DEF IInv

LEMMA NextIInv == IInv /\ [Next]_vars => IInv'
<1> SUFFICES ASSUME IInv, [Next]_vars PROVE IInv'
  OBVIOUS
<1>1. CASE Worker
  BY <1>1, LoadKeeps, PassKeeps, ProceedKeeps DEF Worker
<1>2. ASSUME NEW b \in Builds,
             Write(b) \/ Script(b) \/ Create(b) \/ abort_build(b) \/ remove_build(b)
      PROVE  IInv'
  BY <1>2, WriteKeeps, CreateKeeps, SubmitKeeps, AbortBuildKeeps, DeleteKeeps DEF Script
<1>3. ASSUME NEW b \in Builds, NEW k \in Steps(b),
             ProgramEnds(b, k) \/ Closing(b, k) \/ process_exited(b, k)
      PROVE  IInv'
  BY <1>3, EndKeeps, ClosingKeeps, ExitedKeeps
<1>4. CASE SetMaxRunning
  BY <1>4, PassKeeps
<1>5. CASE Crash
  BY <1>5, CrashKeeps
<1>6. CASE UNCHANGED vars
  <2>1. UNCHANGED <<m_builds, m_state, steps, m_max_running, worker, disk, saving, script,
                    exiting, child, torn>>
    BY <1>6 DEF vars
  <2>2. TypeInv'
    BY <2>1 DEF IInv, TypeInv, OnDisk, FileType, Steps
  <2>3. WorkerInv'
    BY <2>1 DEF IInv, WorkerInv, PassedTo, Before, Current, Steps
  <2>4. ASSUME NEW b \in Builds PROVE BuildInv(b)'
    <3>1. Same(b) /\ (\A k \in Steps(b) : Lags(b, k) => Lags(b, k)')
      BY <2>1 DEF Same, Lags, Current, Listed
    <3>2. script[b] \in {"abort", "remove"} => worker'.at = "sleep"
      BY <2>1 DEF IInv, BuildInv, ScriptInv
    <3> QED BY <2>1, <3>1, <3>2, Untouched
  <2> QED BY <2>2, <2>3, <2>4 DEF IInv
<1> QED BY <1>1, <1>2, <1>3, <1>4, <1>5, <1>6 DEF Next

(* What memory, the file and the programs say of each build, in every state, with *)
(* any number of builds and of deaths of the server.                             *)
THEOREM Inductive == Spec => []IInv
  BY InitIInv, NextIInv, PTL DEF Spec

(* No program of this run of the server is left to itself: while it lives, its   *)
(* build is in the list and runs, and its step will be told.                     *)
THEOREM NoProgramLeft == Spec => []NoStrays
<1>1. IInv => NoStrays
  BY DEF IInv, BuildInv, MemoryInv, StepInv, NoStrays, Running
<1> QED BY <1>1, Inductive, PTL

(* A build that has passed, in memory or in its file, has run all of its         *)
(* programs to an end that counts as exit code 0, in their order, at whichever   *)
(* write the server died meanwhile, unless the first save of all was cut.        *)
THEOREM PassedHasSucceeded == Spec => []PassedMeansSucceeded
<1>1. ASSUME IInv PROVE PassedMeansSucceeded
  <2>1. \A b \in Listed \ torn : m_state[b] = "Passed" => \A k \in Steps(b) : Succeeded(b, k)
    <3>1. Listed \subseteq Builds
      BY <1>1 DEF IInv, TypeInv, Listed
    <3> QED BY <1>1, <3>1 DEF IInv, BuildInv, MemoryInv, StepInv, Succeeded
  <2>2. \A b \in OnDisk \ torn : disk[b].state = "Passed" => \A k \in Steps(b) : Succeeded(b, k)
    BY <1>1 DEF IInv, BuildInv, FileInv, OnDisk, Succeeded
  <2>3. ASSUME NEW b \in Builds, NEW k \in Steps(b), child[b][k] # "none", NEW j \in 1..(k - 1)
        PROVE  Succeeded(b, j)
    <3>1. FileInv(b)
      BY <1>1, <2>3 DEF IInv, BuildInv, AgreeInv
    <3>2. j \in Before(b, k)
      BY BuilderAssumption DEF Before, Steps
    <3> QED BY <2>3, <3>1, <3>2 DEF FileInv, FilePassedTo, Before, Succeeded
  <2> QED BY <2>1, <2>2, <2>3 DEF PassedMeansSucceeded
<1> QED BY <1>1, Inductive, PTL

---------------------------------------------------------------------------------
(* The limit.  The worker counts the builds before the one it is at, so it       *)
(* matters that no build behind an unstarted one runs: builds are started in the *)
(* order of the list, and those that wait were passed with the limit reached.    *)
(* That does not survive a limit that is set during a pass, until a pass begins  *)
(* with no build running.                                                        *)
StateAt(i) == m_state[m_builds[i]]
RunningBefore(n) == {b \in Builds : \E i \in DOMAIN m_builds :
                       i < n /\ m_builds[i] = b /\ m_state[b] = "Running"}
WaitsBefore(n) == \E i \in DOMAIN m_builds : i < n /\ StateAt(i) = "Unstarted"

Distinct == \A i, j \in DOMAIN m_builds : m_builds[i] = m_builds[j] => i = j
InOrder  == \A i, j \in DOMAIN m_builds :
              i < j /\ StateAt(i) = "Unstarted" => StateAt(j) # "Running"

(* n builds have been counted before the i-th.                                   *)
Counts(i, n) ==
  Cardinality(RunningBefore(i)) <= n /\ (WaitsBefore(i) => n >= m_max_running)

Counted ==
  /\ worker.at = "pass" => Counts(worker.i, worker.nrun)
  /\ worker.at \in {"step", "save"} => worker.nrun > 0 /\ Counts(worker.i, worker.nrun - 1)
  /\ worker.at = "step" =>
       \/ m_state[Current] = "Unstarted" /\ worker.nrun <= m_max_running
       \/ m_state[Current] = "Running"
  /\ worker.at = "save" =>
       m_state[Current] # "Unstarted" /\ (worker.k > 0 => m_state[Current] = "Running")

LimitInv == IInv /\ Distinct /\ (~moved => InOrder /\ Counted)

LEMMA RunningFinite ==
  ASSUME NEW n
  PROVE  /\ IsFiniteSet(RunningBefore(n)) /\ Cardinality(RunningBefore(n)) \in Nat
         /\ \A S \in SUBSET RunningBefore(n) :
              IsFiniteSet(S) /\ Cardinality(S) <= Cardinality(RunningBefore(n))
<1>1. RunningBefore(n) \in SUBSET Builds
  BY DEF RunningBefore
<1>2. IsFiniteSet(RunningBefore(n))
  BY <1>1, BuilderAssumption, FS_Subset
<1> QED BY <1>2, FS_CardinalityType, FS_Subset

(* While no build starts or comes, the order and the counts stay.                *)
LEMMA NoneStarts ==
  ASSUME IInv, TypeInv', m_builds' = m_builds,
         \A b \in Listed : m_state'[b] = m_state[b] \/ m_state'[b] \notin {"Unstarted", "Running"}
  PROVE  /\ Distinct => Distinct'
         /\ InOrder => InOrder'
         /\ Running' \subseteq Running
         /\ m_max_running' = m_max_running =>
              \A i, n \in Nat : Counts(i, n) => Counts(i, n)'
<1>1. \A i \in DOMAIN m_builds : m_builds[i] \in Builds /\ m_builds[i] \in Listed
  BY DEF IInv, TypeInv, Listed
<1>2. \A i \in DOMAIN m_builds :
        StateAt(i)' = StateAt(i) \/ StateAt(i)' \notin {"Unstarted", "Running"}
  BY <1>1 DEF StateAt
<1>3. Distinct => Distinct'
  BY DEF Distinct
<1>4. InOrder => InOrder'
  BY <1>2 DEF InOrder
<1>5. Running' \subseteq Running
  BY <1>1 DEF Running, Listed
<1>6. ASSUME NEW i \in Nat, NEW n \in Nat, Counts(i, n), m_max_running' = m_max_running
      PROVE  Counts(i, n)'
  <2>1. RunningBefore(i)' \in SUBSET RunningBefore(i)
    BY <1>1 DEF RunningBefore
  <2>2. WaitsBefore(i)' => WaitsBefore(i)
    BY <1>2 DEF WaitsBefore
  <2>3. Cardinality(RunningBefore(i)') <= Cardinality(RunningBefore(i))
    BY <2>1, RunningFinite
  <2>4. Cardinality(RunningBefore(i)) \in Nat /\ Cardinality(RunningBefore(i)') \in Nat
    BY <2>1, RunningFinite, FS_CardinalityType
  <2> QED BY <1>6, <2>2, <2>3, <2>4 DEF Counts
<1> QED BY <1>3, <1>4, <1>5, <1>6

(* A pass begins and goes on.                                                    *)
LEMMA PassLimit ==
  ASSUME LimitInv, PassBegin \/ PassBuild \/ SaveDone PROVE LimitInv' /\ Running' \subseteq Running
<1>1. IInv' /\ TypeInv /\ TypeInv'
  BY PassKeeps DEF LimitInv, IInv
<1>2. UNCHANGED <<m_builds, m_state, m_max_running>>
  BY DEF PassBegin, PassBuild, SaveDone
<1>3. /\ Distinct' /\ (InOrder => InOrder') /\ Running' \subseteq Running
      /\ \A i, n \in Nat : Counts(i, n) => Counts(i, n)'
  BY <1>1, <1>2, NoneStarts DEF LimitInv
<1>4. worker.i \in Nat /\ worker.nrun \in Nat /\ worker.k \in Nat
  BY <1>1 DEF TypeInv
<1>5. ASSUME ~moved' PROVE InOrder' /\ Counted'
  <2>0. InOrder' /\ (~PassBegin => Counted)
    <3>1. CASE PassBegin /\ Running = {}
      <4>1. \A i \in DOMAIN m_builds : StateAt(i) # "Running"
        BY <3>1 DEF Running, Listed, StateAt
      <4>2. InOrder
        BY <4>1 DEF InOrder
      <4> QED BY <3>1, <4>2, <1>3
    <3>2. CASE PassBegin /\ Running # {}
      <4>1. ~moved
        BY <1>5, <3>2 DEF PassBegin
      <4> QED BY <3>2, <4>1, <1>3 DEF LimitInv
    <3>3. CASE ~PassBegin
      <4>1. ~moved
        BY <1>5, <3>3 DEF PassBuild, SaveDone
      <4> QED BY <4>1, <1>3 DEF LimitInv
    <3> QED BY <3>1, <3>2, <3>3
  <2>1. CASE PassBegin
    <3>1. RunningBefore(1) = {} /\ ~WaitsBefore(1) /\ Cardinality({}) = 0
      BY <1>1, FS_EmptySet DEF RunningBefore, WaitsBefore, TypeInv
    <3>2. Counts(1, 0)
      BY <3>1 DEF Counts
    <3> QED BY <2>0, <2>1, <3>2, <1>3 DEF PassBegin, At, Counted
  <2>2. CASE PassBuild
    <3>0. Counted /\ worker.at = "pass"
      BY <2>0, <2>2 DEF PassBuild, PassBegin, MutexFree
    <3>1. Counts(worker.i, worker.nrun)
      BY <3>0 DEF Counted
    <3>2. CASE worker.i > Len(m_builds)
      BY <2>0, <2>2, <3>2 DEF PassBuild, At, Counted
    <3>3. CASE worker.i <= Len(m_builds) /\ MayProceed(Current)
      <4>1. worker' = [at |-> "step", i |-> worker.i, k |-> 1, nrun |-> worker.nrun + 1]
        BY <2>2, <3>3, <1>1, <1>4 DEF PassBuild, At, TypeInv
      <4>2. /\ m_state[Current] \in {"Unstarted", "Running"} /\ Current' = Current
            /\ m_state[Current] = "Unstarted" => worker.nrun < m_max_running
        BY <3>3, <4>1, <1>2 DEF MayProceed, Current
      <4>3. worker.nrun + 1 > 0 /\ (worker.nrun + 1) - 1 = worker.nrun /\ m_max_running \in Nat
        BY <1>1, <1>4 DEF TypeInv
      <4> QED BY <2>0, <1>2, <1>3, <1>4, <3>1, <4>1, <4>2, <4>3 DEF Counted
    <3>4. CASE worker.i <= Len(m_builds) /\ ~MayProceed(Current)
      <4>1. worker' = [at |-> "pass", i |-> worker.i + 1, k |-> 0, nrun |-> worker.nrun]
        BY <2>2, <3>4, <1>1, <1>4 DEF PassBuild, At, TypeInv
      <4>2. /\ StateAt(worker.i) # "Running"
            /\ StateAt(worker.i) = "Unstarted" => worker.nrun >= m_max_running
        BY <3>4, <1>1, <1>4 DEF MayProceed, StateAt, Current, TypeInv
      <4>3. \A j \in DOMAIN m_builds : j < worker.i + 1 => j < worker.i \/ j = worker.i
        BY <1>1, <1>4 DEF TypeInv
      <4>4. RunningBefore(worker.i + 1) \in SUBSET RunningBefore(worker.i)
        BY <4>2, <4>3 DEF RunningBefore, StateAt
      <4>5. Cardinality(RunningBefore(worker.i + 1)) <= Cardinality(RunningBefore(worker.i))
            /\ Cardinality(RunningBefore(worker.i + 1)) \in Nat
            /\ Cardinality(RunningBefore(worker.i)) \in Nat
        BY <4>4, RunningFinite
      <4>6. WaitsBefore(worker.i + 1) => worker.nrun >= m_max_running
        BY <3>1, <4>2, <4>3 DEF WaitsBefore, Counts
      <4>7. Counts(worker.i + 1, worker.nrun)
        BY <3>1, <4>5, <4>6, <1>4 DEF Counts
      <4> QED BY <2>0, <1>3, <1>4, <4>1, <4>7 DEF Counted
    <3> QED BY <1>1, <1>4, <3>2, <3>3, <3>4 DEF TypeInv
  <2>3. CASE SaveDone
    <3>0. Counted /\ worker.at = "save"
      BY <2>0, <2>3 DEF SaveDone, PassBegin, MutexFree
    <3>1. /\ worker.nrun > 0 /\ Counts(worker.i, worker.nrun - 1)
          /\ m_state[Current] # "Unstarted"
          /\ worker.k > 0 => m_state[Current] = "Running"
      BY <3>0 DEF Counted
    <3>2. CASE worker.k = 0
      <4>1. worker' = [at |-> "pass", i |-> worker.i + 1, k |-> 0, nrun |-> worker.nrun]
        BY <2>3, <3>2 DEF SaveDone, At
      <4>2. Current = m_builds[worker.i] /\ Current \in Builds
        BY <2>3, <1>1, CurrentType DEF Current, SaveDone
      <4>3. \A j \in DOMAIN m_builds : j < worker.i + 1 => j < worker.i \/ j = worker.i
        BY <1>1, <1>4 DEF TypeInv
      <4>4. RunningBefore(worker.i + 1) \in SUBSET (RunningBefore(worker.i) \cup {Current})
        BY <4>2, <4>3 DEF RunningBefore
      <4>5. /\ IsFiniteSet(RunningBefore(worker.i) \cup {Current})
            /\ Cardinality(RunningBefore(worker.i) \cup {Current}) <= worker.nrun
        BY <3>1, <1>4, RunningFinite, FS_AddElement DEF Counts
      <4>6. Cardinality(RunningBefore(worker.i + 1)) <= worker.nrun
        <5>1. Cardinality(RunningBefore(worker.i + 1)) <= Cardinality(RunningBefore(worker.i) \cup {Current})
          BY <4>4, <4>5, FS_Subset
        <5>2. Cardinality(RunningBefore(worker.i + 1)) \in Nat
              /\ Cardinality(RunningBefore(worker.i) \cup {Current}) \in Nat
          BY <4>5, RunningFinite, FS_CardinalityType
        <5> QED BY <1>4, <4>5, <5>1, <5>2
      <4>7. WaitsBefore(worker.i + 1) => WaitsBefore(worker.i)
        BY <3>1, <4>2, <4>3 DEF WaitsBefore, StateAt
      <4>8. m_max_running \in Nat
        BY <1>1 DEF TypeInv
      <4>9. Counts(worker.i + 1, worker.nrun)
        BY <1>4, <3>1, <4>6, <4>7, <4>8 DEF Counts
      <4> QED BY <2>0, <1>3, <1>4, <4>1, <4>9 DEF Counted
    <3>3. CASE worker.k > 0
      <4>1. worker' = [at |-> "step", i |-> worker.i, k |-> worker.k, nrun |-> worker.nrun]
        BY <2>3, <3>3, <1>4 DEF SaveDone, At
      <4>2. Current' = Current /\ m_state' = m_state
        BY <1>2, <4>1 DEF Current
      <4>3. Counts(worker.i, worker.nrun - 1)'
        <5>1. worker.nrun - 1 \in Nat /\ worker'.i = worker.i /\ worker'.nrun = worker.nrun
          BY <1>4, <3>1, <4>1
        <5> QED BY <1>3, <1>4, <3>1, <5>1
      <4> QED BY <2>0, <3>1, <3>3, <4>1, <4>2, <1>3, <1>4 DEF Counted
    <3> QED BY <1>4, <3>2, <3>3
  <2> QED BY <2>1, <2>2, <2>3
<1> QED BY <1>1, <1>3, <1>5 DEF LimitInv

(* The worker starts a build, or finishes one.                                   *)
LEMMA ProceedLimit ==
  ASSUME LimitInv, ProceedStep
  PROVE  LimitInv' /\ (~moved /\ Running' \ Running # {} => Cardinality(Running') <= m_max_running)
<1>1. IInv /\ IInv' /\ TypeInv /\ TypeInv' /\ moved' = moved /\ Distinct /\ Distinct'
  BY ProceedKeeps DEF LimitInv, IInv, ProceedStep, Distinct
<1> SUFFICES ASSUME ~moved
             PROVE  /\ InOrder' /\ Counted'
                    /\ Running' \ Running # {} => Cardinality(Running') <= m_max_running
  BY <1>1 DEF LimitInv
<1>2. PICK b \in Builds : b = Current /\ worker.at = "step" /\ b \in Listed
  BY <1>1, CurrentType DEF ProceedStep
<1>3. /\ worker.i \in DOMAIN m_builds /\ m_builds[worker.i] = b /\ StateAt(worker.i) = m_state[b]
      /\ worker.i \in Nat /\ worker.nrun \in Nat /\ worker.k \in Nat \ {0} /\ m_max_running \in Nat
  BY <1>1, <1>2 DEF TypeInv, Current, StateAt
<1>4. /\ m_builds' = m_builds /\ m_max_running' = m_max_running
      /\ worker'.i = worker.i /\ worker'.nrun = worker.nrun /\ worker'.at \in {"step", "save"}
      /\ worker'.at = "step" \/ worker'.k > 0 => m_state'[b] = "Running" \/ UNCHANGED m_state
      /\ worker'.at = "save" => m_state'[b] # "Unstarted" /\ (worker'.k > 0 => m_state'[b] = "Running")
      /\ m_state'[b] \in {m_state[b], "Passed", "Failed"} \/ m_state'[b] = "Running"
      /\ \A c \in Builds \ {b} : m_state'[c] = m_state[c]
  <2>1. m_builds' = m_builds /\ m_max_running' = m_max_running
    BY DEF ProceedStep
  <2>2. NSteps[b] \in Nat /\ m_state \in [Builds -> States]
    BY <1>1, BuilderAssumption DEF TypeInv
  <2>3. CASE ~Exists(b, worker.k)
    BY <1>2, <1>3, <2>1, <2>2, <2>3 DEF ProceedStep, ThenSave, At
  <2>4. CASE Exists(b, worker.k)
    <3>1. worker.k \in Steps(b)
      BY <1>3, <2>2, <2>4 DEF Steps, Exists
    <3>2. CASE steps[b][worker.k].state = "Unstarted"
      <4>1. Launch(b, worker.k)
        BY <1>2, <1>3, <2>2, <2>4, <3>2 DEF ProceedStep
      <4> QED BY <1>2, <1>3, <2>1, <2>2, <4>1 DEF Launch, ThenSave, At
    <3>3. CASE steps[b][worker.k].state = "Running"
      <4>1. Check(b, worker.k)
        BY <1>2, <2>4, <3>3 DEF ProceedStep
      <4>2. m_state[b] = "Running"
        <5>1. StepInv(b, worker.k)
          BY <1>1, <3>1 DEF IInv, BuildInv, MemoryInv
        <5> QED BY <3>3, <5>1 DEF StepInv
      <4> QED BY <1>2, <1>3, <2>1, <2>2, <4>1, <4>2 DEF Check, ThenSave, At
    <3>4. CASE steps[b][worker.k].state = "Passed"
      BY <1>2, <1>3, <2>1, <2>2, <2>4, <3>4 DEF ProceedStep, At
    <3> QED BY <1>2, <1>3, <2>2, <2>4, <3>2, <3>3, <3>4 DEF ProceedStep
  <2> QED BY <1>3, <2>2, <2>3, <2>4
<1>5. worker.nrun > 0 /\ worker.nrun - 1 \in Nat /\ Counts(worker.i, worker.nrun - 1)
      /\ \/ m_state[b] = "Unstarted" /\ worker.nrun <= m_max_running
         \/ m_state[b] = "Running"
  BY <1>2, <1>3 DEF LimitInv, Counted
<1>6. CASE m_state[b] = "Unstarted" /\ m_state'[b] = "Running"
  <2>1. ~WaitsBefore(worker.i)
    BY <1>3, <1>5, <1>6 DEF Counts
  <2>2. Distinct
    BY <1>1
  <2>3. ASSUME NEW j \in DOMAIN m_builds, j # worker.i
        PROVE  StateAt(j)' = StateAt(j)
    <3>1. m_builds[j] \in Builds \ {b}
      BY <1>1, <1>3, <2>2, <2>3 DEF TypeInv, Distinct
    <3> QED BY <1>4, <3>1 DEF StateAt
  <2>4. StateAt(worker.i)' = "Running"
    BY <1>3, <1>4, <1>6 DEF StateAt
  <2>5. InOrder'
    <3> SUFFICES ASSUME NEW i \in DOMAIN m_builds, NEW j \in DOMAIN m_builds,
                        i < j, StateAt(i)' = "Unstarted", StateAt(j)' = "Running"
                 PROVE  FALSE
      BY <1>4 DEF InOrder
    <3>1. i # worker.i /\ StateAt(i) = "Unstarted"
      <4>1. i # worker.i
        BY <1>4, <2>4
      <4> QED BY <4>1, <2>3
    <3>2. CASE j = worker.i
      BY <2>1, <3>1, <3>2 DEF WaitsBefore
    <3>3. CASE j # worker.i
      BY <2>3, <3>1, <3>3 DEF LimitInv, InOrder
    <3> QED BY <3>2, <3>3
  <2>7. ASSUME NEW j \in DOMAIN m_builds, StateAt(j)' = "Running" PROVE j < worker.i \/ j = worker.i
    <3>1. CASE j > worker.i
      <4>1. InOrder
        BY DEF LimitInv
      <4>2. StateAt(worker.i) = "Unstarted" /\ StateAt(j) = "Running"
        BY <1>3, <1>6, <2>3, <2>7, <3>1
      <4> QED BY <1>3, <2>7, <3>1, <4>1, <4>2 DEF InOrder
    <3>2. j \in Nat
      <4>1. m_builds \in Seq(Builds)
        BY <1>1 DEF TypeInv
      <4> QED BY <2>7, <4>1
    <3> QED BY <1>3, <3>1, <3>2
  <2>8. Running' \in SUBSET (RunningBefore(worker.i) \cup {b})
    <3>1. ASSUME NEW c \in Running' PROVE c \in RunningBefore(worker.i) \cup {b}
      <4>1. PICK j \in DOMAIN m_builds : m_builds[j] = c /\ StateAt(j)' = "Running"
        BY <1>4 DEF Running, Listed, StateAt
      <4>2. CASE j = worker.i
        BY <1>3, <4>1, <4>2
      <4>3. CASE j # worker.i
        <5>1. j < worker.i /\ StateAt(j) = "Running"
          BY <2>3, <2>7, <4>1, <4>3
        <5>2. c \in Builds
          BY <1>1, <4>1 DEF TypeInv
        <5> QED BY <4>1, <5>1, <5>2 DEF RunningBefore, StateAt
      <4> QED BY <4>2, <4>3
    <3> QED BY <3>1
  <2>9. /\ IsFiniteSet(RunningBefore(worker.i) \cup {b})
        /\ Cardinality(RunningBefore(worker.i) \cup {b}) <= worker.nrun
    BY <1>3, <1>5, RunningFinite, FS_AddElement DEF Counts
  <2>10. Cardinality(Running') <= m_max_running
    <3>1. /\ IsFiniteSet(Running')
          /\ Cardinality(Running') <= Cardinality(RunningBefore(worker.i) \cup {b})
      BY <2>8, <2>9, FS_Subset
    <3>2. Cardinality(Running') \in Nat /\ Cardinality(RunningBefore(worker.i) \cup {b}) \in Nat
      BY <2>9, <3>1, FS_CardinalityType
    <3> QED BY <1>3, <1>5, <1>6, <2>9, <3>1, <3>2
  <2>11. RunningBefore(worker.i)' = RunningBefore(worker.i) /\ ~WaitsBefore(worker.i)'
    <3>1. \A j \in DOMAIN m_builds : j < worker.i => StateAt(j)' = StateAt(j)
      BY <1>3, <2>3
    <3>2. \A c \in Builds : \A j \in DOMAIN m_builds :
            j < worker.i /\ m_builds[j] = c => (m_state'[c] = "Running" <=> m_state[c] = "Running")
      BY <1>4, <3>1 DEF StateAt
    <3> QED BY <1>4, <2>1, <3>1, <3>2 DEF RunningBefore, WaitsBefore
  <2>12. Counted'
    <3>1. Counts(worker.i, worker.nrun - 1)'
      BY <1>4, <1>5, <2>11 DEF Counts
    <3>2. Current' = b
      BY <1>2, <1>4 DEF Current
    <3> QED BY <1>4, <1>5, <1>6, <3>1, <3>2 DEF Counted
  <2> QED BY <2>5, <2>10, <2>12
<1>7. CASE ~(m_state[b] = "Unstarted" /\ m_state'[b] = "Running")
  <2>1. \A c \in Builds : m_state'[c] = m_state[c] \/ m_state'[c] \notin {"Unstarted", "Running"}
    BY <1>4, <1>5, <1>7
  <2>2. /\ InOrder' /\ Running' \subseteq Running
        /\ \A i, n \in Nat : Counts(i, n) => Counts(i, n)'
    <3>1. \A c \in Listed : c \in Builds
      BY <1>1 DEF TypeInv, Listed
    <3> QED BY <1>1, <1>4, <2>1, <3>1, NoneStarts DEF LimitInv
  <2>3. Counts(worker.i, worker.nrun - 1)'
    BY <1>3, <1>4, <1>5, <2>2
  <2>4. Current' = b
    BY <1>2, <1>4 DEF Current
  <2>5. Counted'
    BY <1>4, <1>5, <2>3, <2>4 DEF Counted
  <2> QED BY <2>2, <2>5
<1> QED BY <1>6, <1>7

(* The list grows at its end and shrinks between two passes; a build that is not *)
(* in it does not matter.                                                        *)
LEMMA CreateLimit ==
  ASSUME LimitInv, NEW b \in Builds, Create(b) PROVE LimitInv' /\ Running' \subseteq Running
<1>1. /\ IInv /\ IInv' /\ TypeInv /\ TypeInv' /\ b \notin Listed
      /\ UNCHANGED <<m_builds, m_max_running, worker, moved>>
      /\ m_state' = [m_state EXCEPT ![b] = "Unstarted"]
  BY CreateKeeps DEF LimitInv, IInv, BuildInv, AgreeInv, Create, OnDisk
<1>2. \A c \in Listed : m_state'[c] = m_state[c]
  BY <1>1 DEF TypeInv
<1>3. /\ Distinct' /\ (InOrder => InOrder') /\ Running' \subseteq Running
      /\ \A i, n \in Nat : Counts(i, n) => Counts(i, n)'
  BY <1>1, <1>2, NoneStarts DEF LimitInv
<1>4. Counted => Counted'
  <2>1. worker.i \in Nat /\ worker.nrun \in Nat /\ (worker.nrun > 0 => worker.nrun - 1 \in Nat)
    BY <1>1 DEF TypeInv
  <2>2. Current' = Current /\ (worker.at \in {"step", "save"} => m_state'[Current] = m_state[Current])
    BY <1>1, <1>2, CurrentType DEF Current
  <2> QED BY <1>1, <1>3, <2>1, <2>2 DEF Counted
<1> QED BY <1>1, <1>3, <1>4 DEF LimitInv

LEMMA SubmitLimit ==
  ASSUME LimitInv, NEW b \in Builds, submit_build(b) PROVE LimitInv' /\ Running' \subseteq Running
<1>1. IInv' /\ TypeInv /\ TypeInv' /\ b \notin Listed /\ m_state[b] = "Unstarted"
  BY SubmitKeeps DEF LimitInv, IInv, BuildInv, ScriptInv, submit_build
<1>2. worker'.at = "sleep" /\ m_builds' = Append(m_builds, b) /\ moved' = moved
      /\ m_state' = m_state
  BY <1>1 DEF submit_build, MutexFree
<1>3. PICK n \in Nat :
        /\ DOMAIN m_builds = 1..n /\ DOMAIN m_builds' = 1..(n + 1)
        /\ m_builds'[n + 1] = b
        /\ \A i \in 1..n : m_builds'[i] = m_builds[i] /\ m_builds[i] \in Builds \ {b}
  <2>1. /\ Len(m_builds) \in Nat /\ DOMAIN m_builds = 1..Len(m_builds)
        /\ DOMAIN m_builds' = 1..(Len(m_builds) + 1)
        /\ m_builds'[Len(m_builds) + 1] = b
        /\ \A i \in 1..Len(m_builds) : m_builds'[i] = m_builds[i] /\ m_builds[i] \in Builds \ {b}
    <3>1. m_builds \in Seq(Builds)
      BY <1>1 DEF TypeInv
    <3>2. \A i \in 1..Len(m_builds) : m_builds[i] \in Listed /\ m_builds[i] \in Builds
      BY <3>1 DEF Listed
    <3> QED BY <1>1, <1>2, <3>1, <3>2
  <2> QED BY <2>1
<1>4. /\ StateAt(n + 1)' = "Unstarted"
      /\ \A i \in 1..n : StateAt(i)' = StateAt(i)
  BY <1>1, <1>2, <1>3 DEF StateAt
<1>5. \A i \in DOMAIN m_builds' : i = n + 1 \/ (i \in 1..n /\ i < n + 1)
  <2>1. \A i \in 1..(n + 1) : i = n + 1 \/ (i \in 1..n /\ i < n + 1)
    OBVIOUS
  <2> QED BY <1>3, <2>1
<1>6. Distinct'
  <2> SUFFICES ASSUME NEW i \in DOMAIN m_builds', NEW j \in DOMAIN m_builds',
                      m_builds'[i] = m_builds'[j]
               PROVE  i = j
    BY DEF Distinct
  <2>1. CASE i \in 1..n /\ j \in 1..n
    BY <1>3, <2>1 DEF LimitInv, Distinct
  <2>2. CASE i = n + 1 \/ j = n + 1
    BY <1>3, <1>5, <2>2
  <2> QED BY <1>5, <2>1, <2>2
<1>7. ASSUME InOrder PROVE InOrder'
  <2> SUFFICES ASSUME NEW i \in DOMAIN m_builds', NEW j \in DOMAIN m_builds',
                      i < j, StateAt(i)' = "Unstarted", StateAt(j)' = "Running"
               PROVE  FALSE
    BY DEF InOrder
  <2>1. j \in 1..n /\ i \in 1..n
    BY <1>3, <1>4, <1>5
  <2> QED BY <1>3, <1>4, <1>7, <2>1 DEF InOrder
<1>8. Running' \subseteq Running
  BY <1>1, <1>2, <1>3, <1>5 DEF Running, Listed
<1>9. Counted'
  BY <1>2 DEF Counted
<1> QED BY <1>1, <1>2, <1>6, <1>7, <1>8, <1>9 DEF LimitInv

LEMMA AbortLimit ==
  ASSUME LimitInv, NEW b \in Builds, abort_build(b) \/ Aborted(b) \/ remove_build(b)
  PROVE  LimitInv' /\ Running' \subseteq Running
<1>1. /\ IInv /\ IInv' /\ TypeInv /\ TypeInv' /\ m_builds' = m_builds /\ moved' = moved
      /\ m_state' = m_state \/ Abort(b)
  BY AbortBuildKeeps DEF LimitInv, IInv, abort_build, Aborted, remove_build
<1>2. worker'.at = "sleep"
  BY DEF LimitInv, IInv, BuildInv, ScriptInv, abort_build, Aborted, remove_build, MutexFree
<1>3. \A c \in Listed : m_state'[c] = m_state[c] \/ m_state'[c] \notin {"Unstarted", "Running"}
  <2>1. \A c \in Listed : c \in Builds
    BY <1>1 DEF TypeInv, Listed
  <2> QED BY <1>1, <2>1 DEF Abort, TypeInv
<1>4. Counted'
  BY <1>2 DEF Counted
<1> QED BY <1>1, <1>3, <1>4, NoneStarts DEF LimitInv

LEMMA DeleteLimit ==
  ASSUME LimitInv, NEW b \in Builds, Delete(b) PROVE LimitInv' /\ Running' \subseteq Running
<1>1. IInv' /\ TypeInv /\ TypeInv' /\ worker'.at = "sleep" /\ moved' = moved
  BY DeleteKeeps DEF LimitInv, IInv, BuildInv, ScriptInv, Delete
<1>2. m_state' = m_state
  BY DEF Delete
<1>3. PICK i \in DOMAIN m_builds : m_builds' = RemoveAt(m_builds, i)
  BY DEF Delete
<1>4. /\ Len(m_builds') = Len(m_builds) - 1 /\ m_builds \in Seq(Builds) /\ m_builds' \in Seq(Builds)
      /\ \A j \in DOMAIN m_builds' :
           m_builds'[j] = IF j < i THEN m_builds[j] ELSE m_builds[j + 1]
  BY <1>1, <1>3, Removal DEF TypeInv
<1>5. i \in Nat /\ \A j \in DOMAIN m_builds' : j \in Nat /\ j \in DOMAIN m_builds /\ j + 1 \in DOMAIN m_builds
  BY <1>4
<1>6. \A j \in DOMAIN m_builds' : \E l \in DOMAIN m_builds :
        /\ l = (IF j < i THEN j ELSE j + 1)
        /\ m_builds'[j] = m_builds[l] /\ m_builds[l] \in Builds
        /\ StateAt(j)' = StateAt(l)
  BY <1>2, <1>4, <1>5 DEF StateAt
<1>7. Distinct'
  <2> SUFFICES ASSUME NEW j \in DOMAIN m_builds', NEW k \in DOMAIN m_builds',
                      m_builds'[j] = m_builds'[k]
               PROVE  j = k
    BY DEF Distinct
  <2>1. (IF j < i THEN j ELSE j + 1) = (IF k < i THEN k ELSE k + 1)
    BY <1>6 DEF LimitInv, Distinct
  <2> QED BY <2>1, <1>5
<1>8. ASSUME InOrder PROVE InOrder'
  <2> SUFFICES ASSUME NEW j \in DOMAIN m_builds', NEW k \in DOMAIN m_builds',
                      j < k, StateAt(j)' = "Unstarted", StateAt(k)' = "Running"
               PROVE  FALSE
    BY DEF InOrder
  <2>1. PICK l \in DOMAIN m_builds : l = (IF j < i THEN j ELSE j + 1) /\ StateAt(l) = "Unstarted"
    BY <1>6
  <2>2. PICK m \in DOMAIN m_builds : m = (IF k < i THEN k ELSE k + 1) /\ StateAt(m) = "Running"
    BY <1>6
  <2>3. l < m
    BY <2>1, <2>2, <1>5
  <2> QED BY <1>8, <2>1, <2>2, <2>3 DEF InOrder
<1>9. Running' \subseteq Running
  BY <1>2, <1>6 DEF Running, Listed
<1>10. Counted'
  BY <1>1 DEF Counted
<1> QED BY <1>1, <1>7, <1>8, <1>9, <1>10 DEF LimitInv

LEMMA InitLimit == Init => LimitInv
  BY InitIInv DEF LimitInv, Init, Distinct, InOrder, Counted

LEMMA NextLimit ==
  ASSUME LimitInv, [Next]_vars
  PROVE  /\ LimitInv'
         /\ ~moved /\ Running' \ Running # {} => Cardinality(Running') <= m_max_running
<1>1. IInv /\ IInv' /\ TypeInv /\ TypeInv'
  BY NextIInv DEF LimitInv, IInv
<1>2. CASE Load
  <2>1. m_builds' \in Orders(OnDisk) /\ worker'.at = "sleep"
    BY <1>2 DEF Load, At
  <2>2. \A b \in Builds : m_state'[b] # "Running"
    BY <1>2 DEF Load, Loaded
  <2>3. \A i \in DOMAIN m_builds' : m_builds'[i] \in Builds
    BY <1>1 DEF TypeInv
  <2>4. Distinct' /\ InOrder' /\ Running' = {}
    BY <2>1, <2>2, <2>3 DEF Orders, Distinct, InOrder, StateAt, Running, Listed
  <2>5. Counted'
    BY <2>1 DEF Counted
  <2> QED BY <1>1, <2>4, <2>5 DEF LimitInv
<1>3. CASE PassBegin \/ PassBuild \/ SaveDone
  BY <1>3, PassLimit
<1>4. CASE ProceedStep
  BY <1>4, ProceedLimit
<1>5. ASSUME NEW b \in Builds, Script(b) \/ Create(b) \/ abort_build(b) \/ remove_build(b)
      PROVE  LimitInv' /\ Running' \subseteq Running
  BY <1>5, CreateLimit, SubmitLimit, AbortLimit, DeleteLimit DEF Script
<1>6. CASE SetMaxRunning
  <2>1. UNCHANGED <<m_builds, m_state, worker>>
    BY <1>6 DEF SetMaxRunning
  <2>2. Distinct' /\ (InOrder => InOrder') /\ Running' \subseteq Running
    BY <1>1, <2>1, NoneStarts DEF LimitInv
  <2>3. ~moved' => ~moved /\ worker'.at \in {"load", "sleep"}
    <3>1. worker.at \in {"load", "sleep", "pass", "step", "save"} /\ worker' = worker
      BY <1>1, <2>1 DEF TypeInv
    <3>2. ~moved' => ~moved /\ worker.at \notin {"pass", "step", "save"}
      BY <1>6 DEF SetMaxRunning
    <3> QED BY <3>1, <3>2
  <2>4. ~moved' => Counted'
    BY <2>3 DEF Counted
  <2> QED BY <1>1, <2>2, <2>3, <2>4 DEF LimitInv
<1>7. CASE Crash
  <2>1. m_builds' = <<>> /\ worker'.at = "load"
    BY <1>7 DEF Crash
  <2>2. Distinct' /\ InOrder' /\ Running' = {} /\ Counted'
    BY <2>1 DEF Distinct, InOrder, Running, Listed, Counted
  <2> QED BY <1>1, <2>2 DEF LimitInv
<1>8. CASE UNCHANGED <<m_builds, m_state, worker, m_max_running, moved>>
  <2>1. /\ Distinct' /\ (InOrder => InOrder') /\ Running' \subseteq Running
        /\ \A i, n \in Nat : Counts(i, n) => Counts(i, n)'
    BY <1>1, <1>8, NoneStarts DEF LimitInv
  <2>2. Counted => Counted'
    <3>1. worker.i \in Nat /\ worker.nrun \in Nat /\ (worker.nrun > 0 => worker.nrun - 1 \in Nat)
      BY <1>1 DEF TypeInv
    <3> QED BY <1>8, <2>1, <3>1 DEF Counted, Current
  <2> QED BY <1>1, <1>8, <2>1, <2>2 DEF LimitInv
<1>9. \A b \in Builds : Write(b) => UNCHANGED <<m_builds, m_state, worker, m_max_running, moved>>
  BY DEF Write
<1>10. \A b \in Builds : \A k \in Steps(b) :
         ProgramEnds(b, k) \/ Closing(b, k) \/ process_exited(b, k) =>
           UNCHANGED <<m_builds, m_state, worker, m_max_running, moved>>
  BY DEF ProgramEnds, Closing, process_exited
<1>11. CASE \E b \in Builds : Script(b) \/ Create(b) \/ abort_build(b) \/ remove_build(b)
  BY <1>5, <1>11
<1>12. CASE \E b \in Builds : Write(b)
  BY <1>8, <1>9, <1>12
<1>13. CASE \E b \in Builds : \E k \in Steps(b) :
              ProgramEnds(b, k) \/ Closing(b, k) \/ process_exited(b, k)
  BY <1>8, <1>10, <1>13
<1>14. CASE UNCHANGED vars
  BY <1>8, <1>14 DEF vars
<1> QED BY <1>2, <1>3, <1>4, <1>6, <1>7, <1>11, <1>12, <1>13, <1>14 DEF Next, Worker

(* No build is started beyond the limit: the count of the builds before it in    *)
(* the list is enough, as none behind it can run, unless the limit was set       *)
(* during a pass and builds have run ever since.                                 *)
THEOREM LimitIsKept == Spec => NeverMoreThanMax
<1>1. LimitInv /\ [Next]_vars =>
        /\ LimitInv'
        /\ [~moved /\ Running' \ Running # {} => Cardinality(Running') <= m_max_running]_vars
  BY NextLimit
<1> QED BY <1>1, InitLimit, PTL DEF Spec, NeverMoreThanMax

-----------------------------------------------------------------------------
(* The http connection. *)

(* The requests that the code answers by the rules of the protocol.  It does not
   answer the others so, and each condition is needed: a second empty line ends the
   request of which the first was taken for the line (ConnectionStream); a HEAD is
   answered with a body, unless its status has none; an empty file is announced with
   the length 0 and never written, and the simple response that its message then
   closes with is a body of more than that. *)
Good(k) == /\ k.lead <= 1
           /\ k.method = "HEAD" => k.target = "bodiless"
           /\ k.target = "file" /\ k.method = "GET" => k.len > 0

KindsAreGood == \A k \in Kinds : Good(k)

(* What process_request() makes of lines that it could not parse. *)
BadKinds == [method : {"GET"}, target : {"page", "refused", "unknown"}, lead : {0},
             body : {0}, keep : {FALSE}, len : {0}]

Units == {u \in Nat \X Nat : u[1] \in Requests}

(* The types. *)
MessageType ==
  [req : Requests \cup {BadRequest}, kind : Kinds \cup BadKinds, read : Nat,
   readable : Int, alien : BOOLEAN, hdr : {"none", "buffered", "sent"},
   chunked : BOOLEAN, remaining : Int, written : Nat]

Answers == Seq(Int)

ClientType ==
  [mode : {"idle", "first", "next", "chunk", "length", "close", "broken"},
   req : Int, left : Nat, done : Answers]

(* The streams on the chain, and the chains there are: above the connection the last
   message, and above that what answers it. *)
Held == Range(streams)

Chains ==
  {<<>>, <<Connection>>, <<Connection, Message>>, <<Connection, Message, Response>>,
   <<Connection, Message, Response, Reader>>, <<Connection, Message, Transfer>>}

(* Where dispatch() is, the state of the connection and the chain agree: there is a
   message above the connection until it has closed, and while none is there and the
   lines of the next are read, nothing is closing. *)
ChainOK ==
  /\ state \in {"Connected", "Closing"}
  /\ streams \in Chains
  /\ opened \subseteq Held
  /\ fresh \subseteq {Connection} \cup Messages \cup Responses \cup Readers \cup Transfers
  /\ pc \in {"opening", "readable", "writeable", "next", "closing"} => at \in Held
  /\ pc = "closing" => at = D!Upper(streams) /\ state = "Closing"
  /\ pc \notin {"readable", "writeable", "next"} => flags = {}
  /\ pc = "readable" /\ at = Connection => flags = {}
  /\ flags \subseteq {"close", "remove"}
  /\ "remove" \in flags => streams = <<Connection>>
  /\ seq = "Body" => handled > 0
  /\ seq # "Body" => streams \in {<<>>, <<Connection>>}
  /\ seq # "Body" /\ streams # <<>> /\ pc \in {"idle", "pass", "opening", "readable", "endloop"}
       => state = "Connected"
  /\ seq = "Body" /\ streams = <<Connection>> => pc = "closing"
  /\ Message \in Held /\ Message \notin opened
       => /\ streams = <<Connection, Message>> /\ state = "Connected"
          /\ flags = {}
  /\ Response \in Held /\ Response \notin opened
       => streams = <<Connection, Message, Response>>

Types ==
  /\ asked \in [Requests -> Kinds]
  /\ unsent \in Nat \X Nat /\ wire \in Seq(Units) /\ linebuf \in Seq(Units)
  /\ eof \in BOOLEAN /\ persist \in BOOLEAN /\ lost \in BOOLEAN
  /\ seq \in {"Request", "Headers", "Body"}
  /\ request \in Requests \cup {NoRequest, BadRequest}
  /\ handled \in 0..MaxRequests /\ slow \in 0..MaxSlow /\ left \in Int
  /\ resp \in {"Start", "ReadSingle", "ReadEnd", "Write", "WriteWait", "End"}
  /\ client \in ClientType
  /\ handled = 0 => msg = [req |-> NoRequest, hdr |-> "none"]
  /\ handled > 0 => msg \in MessageType

(* How the header frames the body, and what m_write_remaining counts then. *)
Chunked(m) == HasBody(m) /\ ContentLength(m) < 0 /\ m.kind.keep

Framed(m) ==
  /\ m.chunked <=> m.hdr # "none" /\ Chunked(m)
  /\ IF m.chunked THEN m.remaining \in -1..1 ELSE m.remaining = 0 - m.written

(* The message goes with the stream that answers it: what its transfer has left to
   write and what has been written make up the file. *)
MsgOK ==
  handled > 0 =>
    /\ Framed(msg)
    /\ msg.read <= msg.kind.body
    /\ msg.hdr # "none" => persist = msg.kind.keep
    /\ Message \in Held /\ Message \notin opened
         => msg.hdr = "none" /\ msg.readable = -1 /\ msg.read = 0 /\ msg.written = 0
    /\ Message \in opened => msg.readable = msg.kind.body
    /\ Response \in Held => msg.kind.target = "page"
    /\ Transfer \in Held => /\ msg.kind.target = "file" /\ msg.kind.method = "GET"
                            /\ left = -1 \/ left + msg.written = msg.kind.len

(* The input: what has been received and what would be are the units that the client
   sends, without a gap, and the first of them is the one that the state of
   http:connection, and of the message that reads its body, stands for. *)
Text == linebuf \o wire

Follows(q) ==
  /\ \A n \in 1..Len(q) - 1 : q[n + 1] = Follower(q[n])
  /\ q # <<>> => unsent = Follower(q[Len(q)])

NextIn == IF Text = <<>> THEN unsent ELSE Text[1]

Aligned ==
  CASE seq = "Request" ->
         \/ request = NoRequest /\ NextIn = <<handled + 1, 1>>
         \/ /\ request = BadRequest /\ NextIn = <<handled + 1, 2>>
            /\ handled + 1 \in Requests /\ asked[handled + 1].lead = 1
    [] seq = "Headers" ->
         /\ handled + 1 \in Requests /\ request = handled + 1
         /\ NextIn = <<handled + 1, asked[handled + 1].lead + 2>>
    [] seq = "Body" ->
         /\ handled \in Requests /\ request = NoRequest
         /\ msg.req = handled /\ msg.kind = asked[handled] /\ ~msg.alien
         /\ NextIn = IF msg.read = msg.kind.body THEN <<handled + 1, 1>>
                     ELSE <<handled, asked[handled].lead + 3 + msg.read>>

InputOK == Clean => /\ Follows(Text) /\ Aligned
                    /\ handled > 0 => msg.req = handled /\ ~msg.alien

(* The output: while a message is on the chain, the client is as far in its response
   as the message has written; when it has gone, the response is complete, or is
   one that ends with the connection. *)
Done(n) == [i \in 1..n |-> i]

Idle(c, n) == c.mode = "idle" /\ c.done = Done(n)
Within(c, mode, m) == c.mode = mode /\ c.done = Done(m.req - 1) /\ c.req = m.req

Tracks(m, c) ==
  /\ m.hdr # "sent" => /\ Idle(c, m.req - 1) /\ m.written = 0
                       /\ m.remaining = IF m.chunked THEN -1 ELSE 0
  /\ m.hdr = "sent" =>
       CASE Framing(m).frame = "none" -> Idle(c, m.req)
         [] Framing(m).frame = "length" ->
              /\ m.written <= m.kind.len
              /\ IF m.written = m.kind.len THEN Idle(c, m.req)
                 ELSE Within(c, "length", m) /\ c.left = m.kind.len - m.written
         [] Framing(m).frame = "chunked" ->
              CASE m.remaining = -1 -> Within(c, "first", m)
                [] m.remaining = 0  -> Within(c, "next", m)
                [] OTHER -> Within(c, "chunk", m) /\ c.left = 1
         [] OTHER -> Within(c, "close", m)

Complete(m, c) ==
  IF m.kind.keep THEN Idle(c, m.req) ELSE Idle(c, m.req) \/ Within(c, "close", m)

OutputOK ==
  Clean =>
    /\ seq # "Body" => Idle(client, handled) /\ (handled > 0 => msg.kind.keep)
    /\ seq = "Body" /\ Message \in Held => Tracks(msg, client)
    /\ seq = "Body" /\ Message \notin Held
         => /\ Complete(msg, client) /\ persist = msg.kind.keep
            /\ msg.read = msg.kind.body

(* The inductive invariant. *)
HttpInv == Types /\ ChainOK /\ MsgOK /\ InputOK /\ OutputOK

-----------------------------------------------------------------------------
(* What writing does. *)

OutType ==
  [persist : BOOLEAN, msg : MessageType, client : ClientType, slow : 0..MaxSlow,
   lost : BOOLEAN]

Sound(o) ==
  /\ o \in OutType /\ Framed(o.msg)
  /\ o.msg.hdr # "none" => o.persist = o.msg.kind.keep

Tracked(o) == ~o.lost => Tracks(o.msg, o.client)

LEMMA KindTypes ==
  ASSUME NEW k \in Kinds \cup BadKinds
  PROVE  /\ k.lead \in Nat /\ k.body \in Nat /\ k.len \in Nat /\ k.keep \in BOOLEAN
         /\ k.method \in {"GET", "HEAD", "POST"}
         /\ k.target \in {"page", "file", "refused", "bodiless", "unknown"}
         /\ KindsAreGood => Good(k)
<1>1. CASE k \in Kinds
  BY <1>1, HttpAssumption DEF KindsAreGood
<1>2. CASE k \in BadKinds
  <2>1. /\ k.method = "GET" /\ k.target \in {"page", "refused", "unknown"}
        /\ k.lead = 0 /\ k.body = 0 /\ k.keep = FALSE /\ k.len = 0
    BY <1>2 DEF BadKinds
  <2>2. k.keep \in BOOLEAN
    BY <2>1, Zenon
  <2>3. k.lead \in Nat /\ k.body \in Nat /\ k.len \in Nat /\ k.lead <= 1
    BY <2>1
  <2>. QED
    BY <2>1, <2>2, <2>3 DEF Good
<1>. QED
  BY <1>1, <1>2

LEMMA SendsSome ==
  ASSUME NEW o \in OutType, NEW n \in Nat, NEW b \in BOOLEAN, NEW w \in Sends(o, n, b)
  PROVE  /\ w[1] \in 0..n /\ w[2] \in OutType
         /\ w[2].persist = o.persist /\ w[2].msg = o.msg
         /\ w[2].client = o.client /\ w[2].lost = o.lost
         /\ b => w[1] = n
<1>1. CASE w = <<n, o>>
  BY <1>1
<1>2. CASE w # <<n, o>>
  <2>1. PICK k \in 0..(n - 1) : w = <<k, [o EXCEPT !.slow = @ + 1]>>
    BY <1>2 DEF Sends
  <2>2. o.slow # MaxSlow /\ ~b
    BY <1>2 DEF Sends
  <2>3. o.slow + 1 \in 0..MaxSlow
    BY <2>2, HttpAssumption DEF OutType
  <2>. QED
    BY <2>1, <2>2, <2>3 DEF OutType
<1>. QED
  BY <1>1, <1>2

LEMMA DoneNext ==
  ASSUME NEW n \in Nat \ {0}
  PROVE  Append(Done(n - 1), n) = Done(n) /\ Done(n) \in Seq(Int) /\ Len(Done(n)) = n
  BY DEF Done

(* What of a message a write leaves alone. *)
Kin(m, n) ==
  /\ n.req = m.req /\ n.kind = m.kind /\ n.read = m.read /\ n.readable = m.readable
  /\ n.alien = m.alien
  /\ m.hdr = "sent" => n.hdr = "sent"
  /\ m.hdr # "none" => n.hdr # "none"

(* A write of n units keeps to the framing of m. *)
Takes(m, n) ==
  /\ n > 0 => Framing(m).frame # "none"
  /\ Framing(m).frame = "length" => m.written + n <= m.kind.len
  /\ Chunked(m) => n = 1

LEMMA MessageTypes ==
  ASSUME NEW m \in MessageType
  PROVE  /\ m.kind \in Kinds \cup BadKinds /\ m.req \in Nat /\ m.written \in Nat
         /\ m.remaining \in Int /\ m.chunked \in BOOLEAN /\ m.hdr \in {"none", "buffered", "sent"}
         /\ ContentLength(m) \in Int /\ Chunked(m) \in BOOLEAN /\ HasBody(m) \in BOOLEAN
         /\ ContentLength(m) >= 0 => ContentLength(m) = m.kind.len
         /\ Framing(m).req = m.req /\ Framing(m).length = ContentLength(m)
         /\ Framing(m).frame = "length" => ContentLength(m) = m.kind.len /\ ~Chunked(m)
         /\ Framing(m).frame = "none" => ~Chunked(m) \/ m.kind.method = "HEAD"
         /\ Framing(m).frame \in {"none", "length", "chunked", "close"}
<1>1. m.kind \in Kinds \cup BadKinds /\ m.req \in Nat /\ m.written \in Nat
      /\ m.remaining \in Int /\ m.chunked \in BOOLEAN /\ m.hdr \in {"none", "buffered", "sent"}
  BY HttpAssumption DEF MessageType, Requests, BadRequest
<1>2. m.kind.len \in Nat
  BY <1>1, KindTypes
<1>. QED
  BY <1>1, <1>2 DEF ContentLength, Chunked, HasBody, Framing

LEMMA BuildSound ==
  ASSUME NEW o, Sound(o), o.msg.hdr = "none"
  PROVE  LET p == BuildHeader(o)
         IN /\ Sound(p) /\ p.msg.hdr = "buffered" /\ Kin(o.msg, p.msg)
            /\ p.msg.written = o.msg.written /\ p.lost = o.lost
            /\ Tracked(o) => Tracked(p)
<1>. DEFINE p == BuildHeader(o)
            ch == Chunked(o.msg)
<1>1. o \in OutType /\ o.msg \in MessageType
  BY DEF Sound, OutType
<1>2. p = [o EXCEPT !.persist = o.msg.kind.keep, !.msg.hdr = "buffered", !.msg.chunked = ch,
                    !.msg.remaining = IF ch THEN -1 ELSE @]
  BY DEF BuildHeader, Chunked
<1>3. o.msg.kind.keep \in BOOLEAN /\ ch \in BOOLEAN
  BY <1>1, KindTypes, MessageTypes
<1>. HIDE DEF ch
<1>4. /\ p.persist = o.msg.kind.keep /\ p.lost = o.lost /\ p.client = o.client
      /\ p.msg = [o.msg EXCEPT !.hdr = "buffered", !.chunked = ch,
                               !.remaining = IF ch THEN -1 ELSE @]
  BY <1>1, <1>2 DEF OutType
<1>5. p.msg \in MessageType
  <2>1. (IF ch THEN -1 ELSE o.msg.remaining) \in Int
    BY <1>1, MessageTypes
  <2>. QED
    BY <1>1, <1>3, <1>4, <2>1 DEF MessageType
<1>6. p \in OutType
  BY <1>1, <1>2, <1>3, <1>4, <1>5 DEF OutType
<1>7. /\ p.msg.hdr = "buffered" /\ p.msg.chunked = ch
      /\ p.msg.remaining = (IF ch THEN -1 ELSE o.msg.remaining)
      /\ p.msg.written = o.msg.written /\ Kin(o.msg, p.msg)
  BY <1>1, <1>4 DEF MessageType, Kin
<1>8. Chunked(p.msg) = ch
  BY <1>7 DEF ch, Chunked, HasBody, ContentLength, Kin
<1>9. Framed(p.msg)
  <2>1. ~o.msg.chunked /\ o.msg.remaining = 0 - o.msg.written
    BY <1>1, MessageTypes DEF Framed, Sound
  <2>2. p.msg.chunked <=> p.msg.hdr # "none" /\ Chunked(p.msg)
    BY <1>3, <1>7, <1>8
  <2>. QED
    BY <1>3, <1>7, <2>1, <2>2 DEF Framed
<1>10. ASSUME Tracked(o) PROVE Tracked(p)
  BY <1>10, <1>1, <1>3, <1>4, <1>7, MessageTypes DEF Tracked, Tracks, Kin, Idle, Sound, Framed
<1>. QED
  BY <1>4, <1>6, <1>7, <1>9, <1>10 DEF Sound

LEMMA HeadTaken ==
  ASSUME NEW c \in ClientType, NEW m \in MessageType
  PROVE  /\ TakeHead(c, Framing(m)) \in ClientType
         /\ m.req # 0 /\ Idle(c, m.req - 1) /\ m.written = 0 /\ m.hdr = "sent"
            /\ Framed(m) /\ m.remaining = (IF m.chunked THEN -1 ELSE 0)
              => Tracks(m, TakeHead(c, Framing(m)))
<1>. DEFINE h == Framing(m)
            d == [c EXCEPT !.req = h.req]
<1>1. /\ h.req = m.req /\ h.length \in Int /\ m.req \in Nat
      /\ h.frame \in {"none", "length", "chunked", "close"}
      /\ h.frame = "length" => h.length = m.kind.len
  BY MessageTypes DEF Framing
<1>2. m.kind.len \in Nat
  BY MessageTypes, KindTypes
<1>. HIDE DEF h
<1>3. d \in ClientType /\ d.req = m.req /\ d.done = c.done /\ d.mode = c.mode /\ d.left = c.left
  BY <1>1 DEF ClientType
<1>4. Append(c.done, m.req) \in Answers
  BY <1>1 DEF ClientType, Answers
<1>. HIDE DEF d
<1>. DEFINE e == TakeHead(c, h)
<1>5. CASE c.mode # "idle"
  <2>1. e = Broken(c)
    BY <1>5 DEF TakeHead
  <2>. QED
    BY <1>5, <2>1 DEF Broken, ClientType, Idle, h
<1>6. CASE c.mode = "idle" /\ (h.frame = "none" \/ (h.frame = "length" /\ h.length = 0))
  <2>1. e = Whole(d)
    BY <1>6 DEF TakeHead, d
  <2>2. e \in ClientType /\ e.mode = "idle" /\ e.done = Append(c.done, m.req)
    <3>1. e = [d EXCEPT !.mode = "idle", !.done = Append(c.done, m.req), !.left = 0]
      BY <1>3, <2>1 DEF Whole
    <3>. DEFINE done == Append(c.done, m.req)
    <3>2. done \in Answers /\ e = [d EXCEPT !.mode = "idle", !.done = done, !.left = 0]
      BY <1>4, <3>1
    <3>. HIDE DEF done, e
    <3>3. e \in ClientType /\ e.mode = "idle" /\ e.done = done
      BY <1>3, <3>2 DEF ClientType
    <3>. QED
      BY <3>3 DEF done
  <2>3. ASSUME m.req # 0, Idle(c, m.req - 1)
        PROVE  Idle(e, m.req)
    BY <1>1, <2>2, <2>3, DoneNext DEF Idle
  <2>. QED
    BY <1>1, <1>2, <1>6, <2>2, <2>3 DEF Tracks, h
<1>7. CASE c.mode = "idle" /\ h.frame = "length" /\ h.length # 0
  <2>1. e = [d EXCEPT !.mode = "length", !.left = h.length]
    BY <1>7 DEF TakeHead, d
  <2>2. /\ e \in ClientType /\ e.mode = "length" /\ e.done = c.done /\ e.req = m.req
        /\ e.left = m.kind.len
    BY <1>1, <1>2, <1>3, <1>7, <2>1 DEF ClientType
  <2>. QED
    BY <1>1, <1>2, <1>7, <2>2 DEF Tracks, h, Idle, Within
<1>8. CASE c.mode = "idle" /\ h.frame = "chunked"
  <2>1. e = [d EXCEPT !.mode = "first"]
    BY <1>8 DEF TakeHead, d
  <2>2. e \in ClientType /\ e.mode = "first" /\ e.done = c.done /\ e.req = m.req
    BY <1>3, <2>1 DEF ClientType
  <2>3. m.chunked
    BY <1>8 DEF h, Framing
  <2>. QED
    BY <1>8, <2>2, <2>3 DEF Tracks, h, Idle, Within
<1>9. CASE c.mode = "idle" /\ h.frame = "close"
  <2>1. e = [d EXCEPT !.mode = "close"]
    BY <1>9 DEF TakeHead, d
  <2>2. e \in ClientType /\ e.mode = "close" /\ e.done = c.done /\ e.req = m.req
    BY <1>3, <2>1 DEF ClientType
  <2>. QED
    BY <1>9, <2>2 DEF Tracks, h, Idle, Within
<1>10. \/ c.mode # "idle"
       \/ c.mode = "idle" /\ (h.frame = "none" \/ (h.frame = "length" /\ h.length = 0))
       \/ c.mode = "idle" /\ h.frame = "length" /\ h.length # 0
       \/ c.mode = "idle" /\ h.frame = "chunked"
       \/ c.mode = "idle" /\ h.frame = "close"
  BY <1>1, Zenon
<1>. QED
  BY <1>5, <1>6, <1>7, <1>8, <1>9, <1>10, Zenon

LEMMA HeaderSound ==
  ASSUME NEW o, Sound(o), o.msg.hdr = "buffered", NEW b \in BOOLEAN,
         NEW p \in WritesHeader(o, b)
  PROVE  /\ Sound(p) /\ Kin(o.msg, p.msg) /\ p.lost = o.lost
         /\ p.msg.written = o.msg.written /\ p.msg.hdr \in {"buffered", "sent"}
         /\ p.msg.remaining = o.msg.remaining /\ p.msg.chunked = o.msg.chunked
         /\ b => p.msg.hdr = "sent"
         /\ Tracked(o) /\ o.msg.req # 0 => Tracked(p)
<1>1. /\ o \in OutType /\ o.msg \in MessageType /\ o.client \in ClientType
      /\ Framed(o.msg)
  BY DEF Sound, OutType
<1>2. PICK w \in Sends(o, 1, b) :
        p = IF w[1] = 1
            THEN [w[2] EXCEPT !.msg.hdr = "sent", !.client = TakeHead(@, Framing(o.msg))]
            ELSE w[2]
  BY DEF WritesHeader
<1>3. /\ w[2] \in OutType /\ w[2].persist = o.persist /\ w[2].msg = o.msg
      /\ w[2].client = o.client /\ w[2].lost = o.lost /\ (b => w[1] = 1)
  BY <1>1, SendsSome
<1>4. CASE w[1] # 1
  <2>1. p = w[2]
    BY <1>2, <1>4
  <2>. QED
    BY <1>1, <1>3, <1>4, <2>1 DEF Sound, Tracked, Kin
<1>5. CASE w[1] = 1
  <2>. DEFINE m == [o.msg EXCEPT !.hdr = "sent"]
              c == TakeHead(o.client, Framing(o.msg))
  <2>1. m \in MessageType /\ m.hdr = "sent" /\ Kin(o.msg, m) /\ m.written = o.msg.written
        /\ m.chunked = o.msg.chunked /\ m.remaining = o.msg.remaining
    BY <1>1 DEF MessageType, Kin
  <2>2. Chunked(m) = Chunked(o.msg) /\ Framing(m) = Framing(o.msg)
    BY <2>1 DEF Chunked, Framing, HasBody, ContentLength, Kin
  <2>3. Framed(m)
    BY <1>1, <2>1, <2>2 DEF Framed
  <2>4. c \in ClientType
    BY <1>1, HeadTaken
  <2>. HIDE DEF m, c
  <2>5. p = [w[2] EXCEPT !.msg = m, !.client = c]
    BY <1>2, <1>3, <1>5 DEF m, c, OutType
  <2>6. /\ p \in OutType /\ p.msg = m /\ p.client = c /\ p.persist = o.persist
        /\ p.lost = o.lost
    BY <1>3, <2>1, <2>4, <2>5 DEF OutType
  <2>7. ASSUME Tracked(o), o.msg.req # 0 PROVE Tracked(p)
    <3>1. ASSUME ~o.lost PROVE Tracks(m, c)
      <4>1. Tracks(o.msg, o.client)
        BY <2>7, <3>1 DEF Tracked
      <4>2. /\ Idle(o.client, m.req - 1) /\ m.written = 0 /\ m.req # 0
            /\ m.remaining = IF m.chunked THEN -1 ELSE 0
        BY <2>1, <2>7, <4>1 DEF Tracks, Kin
      <4>3. Tracks(m, TakeHead(o.client, Framing(m)))
        BY <1>1, <2>1, <2>3, <4>2, HeadTaken
      <4>. QED
        BY <2>2, <4>3 DEF c
    <3>. QED
      BY <2>6, <3>1 DEF Tracked
  <2>8. Sound(p)
    BY <2>1, <2>3, <2>6 DEF Sound, Kin
  <2>. QED
    BY <2>1, <2>6, <2>7, <2>8
<1>. QED
  BY <1>4, <1>5

(* A chunk has a unit in it before its data is written. *)
LEMMA ChunkHeadSound ==
  ASSUME NEW o, Sound(o), o.msg.hdr = "sent", NEW n \in Nat, Chunked(o.msg) => n = 1,
         NEW b \in BOOLEAN, NEW p \in WritesChunkHead(o, n, b)
  PROVE  /\ Sound(p) /\ Kin(o.msg, p.msg) /\ p.msg.written = o.msg.written
         /\ o.lost => p.lost
         /\ b => p.lost = o.lost
         /\ p.msg.chunked => p.msg.remaining = 1
         /\ Tracked(o) /\ Takes(o.msg, n) => Tracked(p)
<1>1. /\ o \in OutType /\ o.msg \in MessageType /\ o.client \in ClientType
      /\ Framed(o.msg) /\ o.msg.remaining \in Int /\ o.msg.chunked \in BOOLEAN
      /\ o.msg.chunked = Chunked(o.msg)
  BY MessageTypes DEF Sound, OutType, Framed
<1>2. CASE ~o.msg.chunked \/ o.msg.remaining > 0
  <2>1. p = o
    BY <1>2 DEF WritesChunkHead
  <2>. QED
    BY <1>1, <1>2, <2>1 DEF Kin, Framed
<1>3. CASE o.msg.chunked /\ ~(o.msg.remaining > 0)
  <2>. DEFINE parsed == TakeChunk(o.client, o.msg.remaining < 0, n)
  <2>1. PICK q \in WritesString(o, parsed, b) : p = [q EXCEPT !.msg.remaining = n]
    BY <1>3 DEF WritesChunkHead
  <2>2. PICK w \in Sends(o, 1, b) :
          q = IF w[1] = 1 THEN [w[2] EXCEPT !.client = parsed] ELSE [w[2] EXCEPT !.lost = TRUE]
    BY <2>1 DEF WritesString
  <2>3. /\ w[2] \in OutType /\ w[2].persist = o.persist /\ w[2].msg = o.msg
        /\ w[2].client = o.client /\ w[2].lost = o.lost /\ (b => w[1] = 1)
    BY <1>1, SendsSome
  <2>4. n = 1
    BY <1>1, <1>3
  <2>5. parsed \in ClientType
    BY <1>1, <2>4 DEF TakeChunk, Broken, ClientType
  <2>. DEFINE m == [o.msg EXCEPT !.remaining = 1]
  <2>6. /\ m \in MessageType /\ m.remaining = 1 /\ Kin(o.msg, m)
        /\ m.written = o.msg.written /\ m.chunked = o.msg.chunked /\ m.hdr = "sent"
    BY <1>1 DEF MessageType, Kin
  <2>7. Chunked(m) = Chunked(o.msg) /\ Framing(m) = Framing(o.msg)
    BY <2>6 DEF Chunked, Framing, HasBody, ContentLength, Kin
  <2>8. Framed(m)
    BY <1>1, <1>3, <2>6, <2>7 DEF Framed
  <2>9. Sound(o)
    OBVIOUS
  <2>. HIDE DEF parsed, m
  <2>10. CASE w[1] = 1
    <3>1. p = [w[2] EXCEPT !.client = parsed, !.msg = m]
      BY <2>1, <2>2, <2>3, <2>4, <2>5, <2>10 DEF m, OutType
    <3>2. /\ p \in OutType /\ p.msg = m /\ p.client = parsed /\ p.persist = o.persist
          /\ p.lost = o.lost
      BY <2>3, <2>5, <2>6, <3>1 DEF OutType
    <3>3. ASSUME Tracked(o), Takes(o.msg, n) PROVE Tracked(p)
      <4>1. ASSUME ~o.lost PROVE Tracks(m, parsed)
        <5>1. Tracks(o.msg, o.client) /\ o.msg.remaining \in {-1, 0}
          BY <1>1, <1>3, <3>3, <4>1 DEF Tracked, Framed
        <5>2. Framing(o.msg).frame \in {"none", "chunked"}
          BY <1>1, <1>3, MessageTypes DEF Framing, Chunked
        <5>3. CASE Framing(o.msg).frame = "none"
          <6>1. FALSE
            BY <2>4, <3>3, <5>3 DEF Takes
          <6>. QED
            BY <6>1
        <5>4. CASE Framing(o.msg).frame = "chunked"
          <6>1. Within(o.client, IF o.msg.remaining < 0 THEN "first" ELSE "next", o.msg)
            BY <5>1, <5>4 DEF Tracks
          <6>2. parsed = [o.client EXCEPT !.mode = "chunk", !.left = 1]
            BY <2>4, <5>1, <6>1 DEF parsed, TakeChunk, Within
          <6>3. Within(parsed, "chunk", m) /\ parsed.left = 1
            BY <1>1, <2>6, <6>1, <6>2 DEF Within, ClientType, Kin
          <6>. QED
            BY <2>6, <2>7, <5>4, <6>3 DEF Tracks
        <5>. QED
          BY <5>2, <5>3, <5>4
      <4>. QED
        BY <3>2, <4>1 DEF Tracked
    <3>4. Sound(p)
      BY <2>6, <2>8, <2>9, <3>2 DEF Sound, Kin
    <3>. QED
      BY <2>6, <3>2, <3>3, <3>4
  <2>11. CASE w[1] # 1
    <3>1. p = [w[2] EXCEPT !.lost = TRUE, !.msg = m]
      BY <2>1, <2>2, <2>3, <2>4, <2>11 DEF m, OutType
    <3>2. p \in OutType /\ p.msg = m /\ p.persist = o.persist /\ p.lost = TRUE
      BY <2>3, <2>6, <3>1 DEF OutType
    <3>3. Sound(p)
      BY <2>6, <2>8, <2>9, <3>2 DEF Sound, Kin
    <3>. QED
      BY <2>3, <2>6, <2>11, <3>2, <3>3 DEF Tracked
  <2>. QED
    BY <2>10, <2>11
<1>. QED
  BY <1>1, <1>2, <1>3

LEMMA DataTaken ==
  ASSUME NEW c \in ClientType, NEW k \in Nat
  PROVE  /\ TakeData(c, k) \in ClientType
         /\ k = 0 \/ c.mode = "close" => TakeData(c, k) = c
         /\ k # 0 /\ c.mode \in {"chunk", "length"} /\ k < c.left
              => /\ TakeData(c, k).mode = c.mode /\ TakeData(c, k).left = c.left - k
                 /\ TakeData(c, k).done = c.done /\ TakeData(c, k).req = c.req
         /\ k # 0 /\ c.mode = "length" /\ k = c.left
              => TakeData(c, k).mode = "idle" /\ TakeData(c, k).done = Append(c.done, c.req)
         /\ k # 0 /\ c.mode = "chunk" /\ k = c.left
              => /\ TakeData(c, k).mode = "next"
                 /\ TakeData(c, k).done = c.done /\ TakeData(c, k).req = c.req
<1>1. c.left \in Nat /\ c.req \in Int /\ c.done \in Answers
  BY DEF ClientType
<1>. DEFINE e == TakeData(c, k)
<1>2. CASE k = 0 \/ c.mode = "close"
  BY <1>2 DEF TakeData
<1>3. CASE ~(k = 0 \/ c.mode = "close") /\ (c.mode \notin {"chunk", "length"} \/ k > c.left)
  <2>1. e = Broken(c)
    BY <1>3 DEF TakeData
  <2>2. e \in ClientType
    BY <2>1 DEF Broken, ClientType
  <2>. QED
    BY <1>1, <1>3, <2>2
<1>4. CASE ~(k = 0 \/ c.mode = "close") /\ c.mode \in {"chunk", "length"} /\ k < c.left
  <2>1. e = [c EXCEPT !.left = @ - k]
    BY <1>1, <1>4 DEF TakeData
  <2>2. c.left - k \in Nat
    BY <1>1, <1>4
  <2>. QED
    BY <1>1, <1>4, <2>1, <2>2 DEF ClientType
<1>5. CASE ~(k = 0 \/ c.mode = "close") /\ c.mode = "length" /\ k = c.left
  <2>. DEFINE done == Append(c.done, c.req)
  <2>1. done \in Answers /\ e = [c EXCEPT !.mode = "idle", !.done = done, !.left = 0]
    BY <1>1, <1>5 DEF TakeData, Whole, Answers
  <2>. HIDE DEF done, e
  <2>2. e \in ClientType /\ e.mode = "idle" /\ e.done = done
    BY <2>1 DEF ClientType
  <2>. QED
    BY <1>1, <1>5, <2>2 DEF done, e
<1>6. CASE ~(k = 0 \/ c.mode = "close") /\ c.mode = "chunk" /\ k = c.left
  <2>1. e = [c EXCEPT !.mode = "next", !.left = 0]
    BY <1>1, <1>6 DEF TakeData
  <2>. HIDE DEF e
  <2>2. e \in ClientType /\ e.mode = "next" /\ e.done = c.done /\ e.req = c.req
    BY <2>1 DEF ClientType
  <2>. QED
    BY <1>1, <1>6, <2>2 DEF e
<1>. QED
  BY <1>1, <1>2, <1>3, <1>4, <1>5, <1>6

LEMMA BodySound ==
  ASSUME NEW o, Sound(o), o.msg.hdr = "sent", NEW n \in Nat, Chunked(o.msg) => n = 1,
         o.msg.chunked => o.msg.remaining = 1, NEW b \in BOOLEAN,
         NEW w \in WritesBody(o, n, b)
  PROVE  /\ w[1] \in 0..n /\ Sound(w[2]) /\ Kin(o.msg, w[2].msg) /\ w[2].lost = o.lost
         /\ w[2].msg.written = o.msg.written + w[1]
         /\ Tracked(o) /\ Takes(o.msg, n) /\ o.msg.req # 0 => Tracked(w[2])
<1>1. /\ o \in OutType /\ o.msg \in MessageType /\ o.client \in ClientType
      /\ Framed(o.msg) /\ o.msg.remaining \in Int /\ o.msg.chunked \in BOOLEAN
      /\ o.msg.chunked = Chunked(o.msg) /\ o.msg.written \in Nat /\ o.msg.req \in Nat
  BY MessageTypes DEF Sound, OutType, Framed
<1>2. PICK v \in Sends(o, n, b) :
        w = <<v[1], [v[2] EXCEPT !.client        = TakeData(@, v[1]),
                                 !.msg.written   = @ + v[1],
                                 !.msg.remaining = @ - v[1]]>>
  BY DEF WritesBody
<1>3. /\ v[2] \in OutType /\ v[2].persist = o.persist /\ v[2].msg = o.msg
      /\ v[2].client = o.client /\ v[2].lost = o.lost /\ v[1] \in 0..n
  BY <1>1, SendsSome
<1>. DEFINE k == v[1]
            m == [o.msg EXCEPT !.written = @ + k, !.remaining = @ - k]
            c == TakeData(o.client, k)
<1>4. k \in Nat /\ k \in 0..n
  BY <1>3
<1>. HIDE DEF k
<1>5. c \in ClientType
  BY <1>1, <1>4, DataTaken
<1>6. /\ m \in MessageType /\ m.remaining = o.msg.remaining - k /\ Kin(o.msg, m)
      /\ m.written = o.msg.written + k /\ m.chunked = o.msg.chunked /\ m.hdr = "sent"
  <2>1. o.msg.remaining - k \in Int /\ o.msg.written + k \in Nat
    BY <1>1, <1>4
  <2>. QED
    BY <1>1, <2>1 DEF MessageType, Kin
<1>7. Chunked(m) = Chunked(o.msg) /\ Framing(m) = Framing(o.msg)
  BY <1>6 DEF Chunked, Framing, HasBody, ContentLength, Kin
<1>8. Framed(m)
  BY <1>1, <1>4, <1>6, <1>7 DEF Framed
<1>. HIDE DEF m, c
<1>9. w[1] = k /\ w[2] = [v[2] EXCEPT !.client = c, !.msg = m]
  BY <1>2, <1>3 DEF c, m, k, OutType
<1>10. /\ w[2] \in OutType /\ w[2].msg = m /\ w[2].client = c
       /\ w[2].persist = o.persist /\ w[2].lost = o.lost
  BY <1>3, <1>5, <1>6, <1>9 DEF OutType
<1>11. ASSUME Tracked(o), Takes(o.msg, n), o.msg.req # 0, ~o.lost
       PROVE  Tracks(m, c)
  <2>. DEFINE f == Framing(o.msg).frame
  <2>1. Tracks(o.msg, o.client) /\ f \in {"none", "length", "chunked", "close"}
    BY <1>1, <1>11, MessageTypes DEF Tracked
  <2>2. CASE f = "none"
    <3>1. k = 0 /\ c = o.client
      BY <1>1, <1>4, <1>11, <2>2, DataTaken DEF Takes, c
    <3>. QED
      BY <1>6, <1>7, <2>1, <2>2, <3>1 DEF Tracks, Kin
  <2>3. CASE f = "length"
    <3>1. m.kind.len \in Nat /\ o.msg.written + k <= m.kind.len
      BY <1>1, <1>4, <1>6, <1>11, <2>3, KindTypes, MessageTypes DEF Takes, Kin
    <3>2. CASE k = 0
      <4>1. c = o.client /\ m.written = o.msg.written
        BY <1>1, <1>6, <3>2, DataTaken DEF c
      <4>. QED
        BY <1>6, <1>7, <2>1, <2>3, <4>1 DEF Tracks, Kin, Within
    <3>3. CASE k # 0
      <4>1. Within(o.client, "length", o.msg) /\ o.client.left = m.kind.len - o.msg.written
        BY <1>1, <1>4, <1>6, <2>1, <2>3, <3>1, <3>3 DEF Tracks, Kin
      <4>2. CASE k < o.client.left
        <5>1. /\ c.mode = "length" /\ c.left = o.client.left - k /\ c.done = o.client.done
              /\ c.req = o.client.req
          BY <1>1, <1>4, <3>3, <4>1, <4>2, DataTaken DEF c, Within
        <5>. QED
          BY <1>1, <1>4, <1>6, <1>7, <2>3, <3>1, <4>1, <4>2, <5>1 DEF Tracks, Kin, Within
      <4>3. CASE k = o.client.left
        <5>1. c.mode = "idle" /\ c.done = Append(o.client.done, o.client.req)
          BY <1>1, <1>4, <3>3, <4>1, <4>3, DataTaken DEF c, Within
        <5>2. Idle(c, m.req)
          BY <1>1, <1>6, <1>11, <4>1, <5>1, DoneNext DEF Idle, Within, Kin
        <5>. QED
          BY <1>1, <1>4, <1>6, <1>7, <2>3, <3>1, <4>1, <4>3, <5>2 DEF Tracks
      <4>. QED
        BY <1>1, <1>4, <3>1, <4>1, <4>2, <4>3
    <3>. QED
      BY <3>2, <3>3
  <2>4. CASE f = "chunked"
    <3>1. o.msg.chunked
      BY <2>4 DEF Framing
    <3>2. o.msg.remaining = 1 /\ n = 1 /\ Within(o.client, "chunk", o.msg) /\ o.client.left = 1
      BY <1>1, <2>1, <2>4, <3>1 DEF Tracks
    <3>3. CASE k = 0
      <4>1. c = o.client
        BY <1>1, <3>3, DataTaken DEF c
      <4>. QED
        BY <1>6, <1>7, <2>4, <3>2, <3>3, <4>1 DEF Tracks, Kin, Within
    <3>4. CASE k = 1
      <4>1. c.mode = "next" /\ c.done = o.client.done /\ c.req = o.client.req
        BY <1>1, <3>2, <3>4, DataTaken DEF c, Within
      <4>. QED
        BY <1>6, <1>7, <2>4, <3>2, <3>4, <4>1 DEF Tracks, Kin, Within
    <3>. QED
      BY <1>4, <3>2, <3>3, <3>4
  <2>5. CASE f = "close"
    <3>1. c = o.client
      BY <1>1, <1>4, <2>1, <2>5, DataTaken DEF Tracks, c, Within
    <3>. QED
      BY <1>6, <1>7, <2>1, <2>5, <3>1 DEF Tracks, Kin, Within
  <2>. QED
    BY <2>1, <2>2, <2>3, <2>4, <2>5
<1>12. Sound(w[2])
  BY <1>6, <1>8, <1>10 DEF Sound, Kin
<1>. QED
  BY <1>4, <1>6, <1>9, <1>10, <1>11, <1>12 DEF Tracked

LEMMA TakesKin ==
  ASSUME NEW m \in MessageType, NEW n, Kin(m, n), n.written = m.written, NEW k
  PROVE  Chunked(n) = Chunked(m) /\ (Takes(m, k) => Takes(n, k))
<1>1. Chunked(n) = Chunked(m) /\ HasBody(n) = HasBody(m) /\ ContentLength(n) = ContentLength(m)
  BY DEF Kin, Chunked, HasBody, ContentLength
<1>2. /\ (Framing(n).frame = "none") = (Framing(m).frame = "none")
      /\ (Framing(n).frame = "length") = (Framing(m).frame = "length")
  BY <1>1 DEF Framing, Kin
<1>. QED
  BY <1>1, <1>2 DEF Takes, Kin

LEMMA WritesSound ==
  ASSUME NEW o, Sound(o), NEW n \in Nat, Chunked(o.msg) => n = 1, NEW b \in BOOLEAN,
         NEW w \in Writes(o, n, b)
  PROVE  /\ w[1] \in 0..n /\ Sound(w[2]) /\ Kin(o.msg, w[2].msg) /\ w[2].msg.hdr # "none"
         /\ o.lost => w[2].lost
         /\ w[2].msg.written = o.msg.written + w[1]
         /\ Tracked(o) /\ Takes(o.msg, n) /\ o.msg.req # 0 => Tracked(w[2])
<1>. DEFINE heads == IF o.msg.hdr = "sent" THEN {o}
                     ELSE WritesHeader(IF o.msg.hdr = "none" THEN BuildHeader(o) ELSE o, b)
<1>1. PICK h \in heads :
        w \in IF h.msg.hdr # "sent" THEN {<<0, h>>}
              ELSE UNION {WritesBody(p, n, b) : p \in WritesChunkHead(h, n, b)}
  BY DEF Writes
<1>2. /\ o.msg \in MessageType /\ o.msg.hdr \in {"none", "buffered", "sent"}
      /\ o.msg.written \in Nat
  BY MessageTypes DEF Sound, OutType
<1>3. /\ Sound(h) /\ Kin(o.msg, h.msg) /\ h.lost = o.lost /\ h.msg.hdr # "none"
      /\ h.msg.written = o.msg.written
      /\ Tracked(o) /\ o.msg.req # 0 => Tracked(h)
  <2>1. CASE o.msg.hdr = "sent"
    BY <1>1, <2>1 DEF Kin
  <2>2. CASE o.msg.hdr = "buffered"
    BY <1>1, <2>2, HeaderSound
  <2>3. CASE o.msg.hdr = "none"
    <3>. DEFINE p == BuildHeader(o)
    <3>1. /\ Sound(p) /\ p.msg.hdr = "buffered" /\ Kin(o.msg, p.msg)
          /\ p.msg.written = o.msg.written /\ p.lost = o.lost
          /\ (Tracked(o) => Tracked(p))
      BY <2>3, BuildSound
    <3>2. h \in WritesHeader(p, b)
      BY <1>1, <2>3
    <3>. HIDE DEF p
    <3>. QED
      BY <3>1, <3>2, HeaderSound DEF Kin
  <2>. QED
    BY <1>2, <2>1, <2>2, <2>3
<1>. HIDE DEF heads
<1>4. /\ Chunked(h.msg) = Chunked(o.msg)
      /\ Takes(o.msg, n) => Takes(h.msg, n)
  BY <1>2, <1>3, TakesKin
<1>5. CASE h.msg.hdr # "sent"
  BY <1>1, <1>2, <1>3, <1>5
<1>6. CASE h.msg.hdr = "sent"
  <2>1. PICK p \in WritesChunkHead(h, n, b) : w \in WritesBody(p, n, b)
    BY <1>1, <1>6
  <2>2. /\ Sound(p) /\ Kin(h.msg, p.msg) /\ p.msg.written = h.msg.written
        /\ (h.lost => p.lost) /\ (p.msg.chunked => p.msg.remaining = 1)
        /\ (Tracked(h) /\ Takes(h.msg, n) => Tracked(p))
    BY <1>3, <1>4, <1>6, ChunkHeadSound
  <2>3. /\ Chunked(p.msg) = Chunked(h.msg) /\ p.msg.hdr = "sent"
        /\ Takes(h.msg, n) => Takes(p.msg, n)
    <3>1. h.msg \in MessageType
      BY <1>3 DEF Sound, OutType
    <3>. QED
      BY <1>6, <2>2, <3>1, TakesKin DEF Kin
  <2>4. /\ w[1] \in 0..n /\ Sound(w[2]) /\ Kin(p.msg, w[2].msg) /\ w[2].lost = p.lost
        /\ w[2].msg.written = p.msg.written + w[1]
        /\ (Tracked(p) /\ Takes(p.msg, n) /\ p.msg.req # 0 => Tracked(w[2]))
    BY <1>4, <2>1, <2>2, <2>3, BodySound
  <2>. QED
    BY <1>3, <1>4, <2>2, <2>3, <2>4 DEF Kin
<1>. QED
  BY <1>5, <1>6

(* Every number but the least has one below it. *)
LEMMA Least ==
  ASSUME NEW T, T \subseteq Nat, T # {}
  PROVE  \E i \in T : \A j \in T : i <= j
<1>. DEFINE R == {ss \in Nat \X Nat : ss[1] < ss[2]}
<1>1. IsWellFoundedOn(R, Nat)
  BY NatLessThanWellFounded DEF OpToRel
<1>2. \E i \in T : \A j \in T : ~(<<j, i>> \in R)
  <2>. HIDE DEF R
  <2>. QED
    BY <1>1, WFMin
<1>3. PICK i \in T : \A j \in T : ~(<<j, i>> \in R)
  BY <1>2
<1>4. ASSUME NEW j \in T PROVE i <= j
  <2>1. i \in Nat /\ j \in Nat /\ <<j, i>> \notin R
    BY <1>3
  <2>2. ~(j < i)
    BY <2>1
  <2>. QED
    BY <2>1, <2>2
<1>. QED
  BY <1>4

LEMMA SimpleSound ==
  ASSUME NEW o, Sound(o), o.msg.hdr = "none", NEW p \in SimpleResponse(o)
  PROVE  /\ Sound(p) /\ Kin(o.msg, p.msg) /\ p.msg.hdr # "none"
         /\ o.lost => p.lost
         /\ KindsAreGood /\ Tracked(o) /\ o.msg.req # 0 => Tracked(p)
<1>. DEFINE n == IF HasBody(o.msg) THEN 1 ELSE 0
<1>1. PICK w \in Writes(o, n, FALSE) : p = [w[2] EXCEPT !.lost = @ \/ w[1] < n]
  BY DEF SimpleResponse
<1>2. o.msg \in MessageType /\ o.lost \in BOOLEAN
  BY DEF Sound, OutType
<1>3. n \in Nat /\ (Chunked(o.msg) => n = 1)
  BY DEF Chunked
<1>4. ASSUME KindsAreGood, Tracked(o), ~o.lost
      PROVE  Takes(o.msg, n)
  <2>1. Good(o.msg.kind) /\ o.msg.kind.len \in Nat
    BY <1>2, <1>4, KindTypes, MessageTypes
  <2>2. o.msg.written = 0
    BY <1>4 DEF Tracked, Tracks
  <2>3. n > 0 => Framing(o.msg).frame # "none"
    BY <2>1 DEF Good, Framing, HasBody
  <2>4. ASSUME Framing(o.msg).frame = "length"
        PROVE  0 + n <= o.msg.kind.len
    <3>1. ContentLength(o.msg) = o.msg.kind.len /\ ContentLength(o.msg) # -1
      BY <1>2, <2>1, <2>4, MessageTypes
    <3>2. o.msg.kind.target = "file" /\ o.msg.kind.method # "POST"
      BY <3>1 DEF ContentLength
    <3>3. o.msg.kind.method = "GET"
      BY <1>2, <2>1, <3>2, KindTypes, MessageTypes DEF Good
    <3>. QED
      BY <2>1, <3>2, <3>3 DEF Good
  <2>. QED
    BY <1>3, <2>2, <2>3, <2>4 DEF Takes
<1>. HIDE DEF n
<1>5. /\ w[1] \in 0..n /\ Sound(w[2]) /\ Kin(o.msg, w[2].msg) /\ w[2].msg.hdr # "none"
      /\ (o.lost => w[2].lost)
      /\ (Tracked(o) /\ Takes(o.msg, n) /\ o.msg.req # 0 => Tracked(w[2]))
  BY <1>3, WritesSound
<1>6. /\ p \in OutType /\ p.persist = w[2].persist /\ p.msg = w[2].msg
      /\ p.client = w[2].client /\ p.lost = (w[2].lost \/ w[1] < n)
  <2>. DEFINE v == w[2]
              t == v.lost \/ w[1] < n
  <2>1. v \in OutType /\ t \in BOOLEAN /\ p = [v EXCEPT !.lost = t]
    BY <1>1, <1>5 DEF Sound, OutType
  <2>. HIDE DEF v, t
  <2>2. p \in OutType /\ p.persist = v.persist /\ p.msg = v.msg /\ p.client = v.client /\ p.lost = t
    BY <2>1 DEF OutType
  <2>. QED
    BY <2>2 DEF v, t
<1>7. Sound(p)
  BY <1>5, <1>6 DEF Sound
<1>8. (o.lost => p.lost) /\ (~p.lost => ~w[2].lost /\ ~o.lost)
  BY <1>5, <1>6
<1>. QED
  BY <1>4, <1>5, <1>6, <1>7, <1>8 DEF Tracked

-----------------------------------------------------------------------------
(* A page, piece by piece. *)
NextPiece(S) == UNION {{w[2] : w \in Writes(o, 1, TRUE)} : o \in S}

Pieces(n, f) == f = [j \in 0..n |-> IF j = 0 THEN {Out} ELSE NextPiece(f[j - 1])]

LEMMA PiecesExist ==
  ASSUME NEW n \in Nat
  PROVE  \E f : Pieces(n, f)
<1>. DEFINE T == {k \in Nat : ~ \E f : Pieces(k, f)}
<1>. SUFFICES ASSUME T # {} PROVE FALSE
  OBVIOUS
<1>1. PICK m \in T : \A k \in T : m <= k
  <2>1. T \subseteq Nat
    OBVIOUS
  <2>. HIDE DEF T
  <2>. QED
    BY <2>1, Least
<1>2. CASE m = 0
  <2>. DEFINE g == [j \in 0..0 |-> {Out}]
  <2>1. g = [j \in 0..0 |-> IF j = 0 THEN {Out} ELSE NextPiece(g[j - 1])]
    OBVIOUS
  <2>2. Pieces(0, g)
    BY <2>1 DEF Pieces
  <2>. QED
    BY <1>2, <2>2
<1>3. CASE m # 0
  <2>1. m - 1 \in Nat /\ m - 1 \notin T
    BY <1>1, <1>3
  <2>2. PICK f : Pieces(m - 1, f)
    BY <2>1
  <2>. DEFINE g == [j \in 0..m |-> IF j = m THEN NextPiece(f[m - 1]) ELSE f[j]]
  <2>3. f = [j \in 0..m - 1 |-> IF j = 0 THEN {Out} ELSE NextPiece(f[j - 1])]
    BY <2>2 DEF Pieces
  <2>4. ASSUME NEW j \in 0..m
        PROVE  g[j] = IF j = 0 THEN {Out} ELSE NextPiece(g[j - 1])
    <3>1. CASE j = m
      BY <1>3, <2>1, <3>1
    <3>2. CASE j # m
      <4>1. j \in 0..m - 1 /\ (j # 0 => j - 1 \in 0..m - 1 /\ j - 1 # m)
        BY <2>1, <3>2
      <4>2. g[j] = f[j] /\ (j # 0 => g[j - 1] = f[j - 1])
        BY <2>1, <3>2, <4>1
      <4>3. f[j] = IF j = 0 THEN {Out} ELSE NextPiece(f[j - 1])
        BY <2>3, <4>1
      <4>. QED
        BY <4>2, <4>3
    <3>. QED
      BY <3>1, <3>2
  <2>5. DOMAIN g = 0..m /\ g = [j \in 0..m |-> g[j]]
    OBVIOUS
  <2>. HIDE DEF g
  <2>6. g = [j \in 0..m |-> IF j = 0 THEN {Out} ELSE NextPiece(g[j - 1])]
    BY <2>4, <2>5
  <2>7. Pieces(m, g)
    BY <2>6 DEF Pieces
  <2>. QED
    BY <2>7
<1>. QED
  BY <1>2, <1>3

LEMMA PageIs ==
  ASSUME NEW n \in Nat
  PROVE  \E f : Pieces(n, f) /\ Page(n) = f[n]
<1>. DEFINE after == CHOOSE f : f = [j \in 0..n |-> IF j = 0 THEN {Out} ELSE NextPiece(f[j - 1])]
<1>1. Pieces(n, after)
  BY PiecesExist DEF Pieces
<1>2. Page(n) = after[n]
  BY Zenon DEF Page, NextPiece
<1>. QED
  BY <1>1, <1>2

(* Wherever a response stands, a page that is written goes on from there. *)
LEMMA PageSound ==
  ASSUME NEW n \in Nat, Sound(Out), msg.kind.target = "page", NEW p \in Page(n)
  PROVE  /\ Sound(p) /\ Kin(msg, p.msg)
         /\ lost => p.lost
         /\ KindsAreGood /\ Tracked(Out) /\ msg.req # 0 => Tracked(p)
<1>. DEFINE Kept(o) == /\ Sound(o) /\ Kin(msg, o.msg)
                       /\ lost => o.lost
                       /\ KindsAreGood /\ Tracked(Out) /\ msg.req # 0 => Tracked(o)
<1>1. PICK f : Pieces(n, f) /\ Page(n) = f[n]
  BY PageIs
<1>2. Out.msg = msg /\ Out.lost = lost /\ msg \in MessageType
  BY DEF Out, Sound, OutType
<1>3. Kept(Out)
  BY <1>2 DEF Kin
<1>4. ASSUME NEW o, Kept(o), NEW w \in Writes(o, 1, TRUE)
      PROVE  Kept(w[2])
  <2>1. o.msg \in MessageType /\ o.msg.kind = msg.kind /\ o.msg.req = msg.req
    BY <1>4 DEF Sound, OutType, Kin
  <2>2. KindsAreGood => Takes(o.msg, 1)
    <3>1. HasBody(o.msg) /\ ContentLength(o.msg) = -1
      BY <2>1 DEF HasBody, ContentLength
    <3>2. KindsAreGood => o.msg.kind.method # "HEAD"
      BY <2>1, KindTypes, MessageTypes DEF Good
    <3>. QED
      BY <3>1, <3>2 DEF Takes, Framing
  <2>3. /\ Sound(w[2]) /\ Kin(o.msg, w[2].msg) /\ (o.lost => w[2].lost)
        /\ (Tracked(o) /\ Takes(o.msg, 1) /\ o.msg.req # 0 => Tracked(w[2]))
    BY <1>4, WritesSound
  <2>. QED
    BY <1>4, <2>1, <2>2, <2>3 DEF Kin
<1>. DEFINE T == {j \in 0..n : ~ \A o \in f[j] : Kept(o)}
<1>. HIDE DEF Kept
<1>5. T = {}
  <2>. SUFFICES ASSUME T # {} PROVE FALSE
    OBVIOUS
  <2>1. PICK j \in T : \A k \in T : j <= k
    <3>1. T \subseteq Nat
      OBVIOUS
    <3>. HIDE DEF T
    <3>. QED
      BY <3>1, Least
  <2>2. j \in 0..n /\ f[j] = IF j = 0 THEN {Out} ELSE NextPiece(f[j - 1])
    BY <1>1 DEF Pieces
  <2>3. CASE j = 0
    BY <1>3, <2>2, <2>3
  <2>4. CASE j # 0
    <3>1. j - 1 \in 0..n /\ j - 1 \notin T
      BY <2>1, <2>2, <2>4
    <3>2. \A o \in f[j - 1] : Kept(o)
      BY <3>1
    <3>3. ASSUME NEW o \in f[j] PROVE Kept(o)
      <4>0. o \in NextPiece(f[j - 1])
        BY <2>2, <2>4
      <4>1. PICK q \in f[j - 1] : o \in {w[2] : w \in Writes(q, 1, TRUE)}
        BY <4>0, Zenon DEF NextPiece
      <4>. QED
        BY <1>4, <3>2, <4>1
    <3>. QED
      BY <3>3
  <2>. QED
    BY <2>3, <2>4
<1>6. Kept(p)
  BY <1>1, <1>5
<1>. QED
  BY <1>6 DEF Kept

LEMMA EndTaken ==
  ASSUME NEW o, Sound(o), o.msg.hdr = "sent", o.msg.chunked, NEW b \in BOOLEAN,
         NEW p \in WritesString(o, TakeEnd(o.client), b)
  PROVE  /\ p \in OutType /\ p.msg = o.msg /\ p.persist = o.persist
         /\ o.lost => p.lost
         /\ Tracked(o) /\ KindsAreGood /\ o.msg.req # 0 /\ o.msg.remaining = 0 /\ ~p.lost
              => Idle(p.client, o.msg.req)
<1>. DEFINE c == TakeEnd(o.client)
<1>1. /\ o \in OutType /\ o.msg \in MessageType /\ o.client \in ClientType
      /\ o.client.req \in Int /\ o.client.done \in Answers /\ o.msg.chunked = Chunked(o.msg)
      /\ o.msg.req \in Nat
  BY MessageTypes DEF Sound, OutType, Framed, ClientType
<1>2. PICK w \in Sends(o, 1, b) :
        p = IF w[1] = 1 THEN [w[2] EXCEPT !.client = c] ELSE [w[2] EXCEPT !.lost = TRUE]
  BY DEF WritesString
<1>3. /\ w[2] \in OutType /\ w[2].persist = o.persist /\ w[2].msg = o.msg
      /\ w[2].client = o.client /\ w[2].lost = o.lost
  BY <1>1, SendsSome
<1>4. /\ c \in ClientType
      /\ o.client.mode = "next" => c.mode = "idle" /\ c.done = Append(o.client.done, o.client.req)
  <2>. DEFINE done == Append(o.client.done, o.client.req)
  <2>1. done \in Answers
    BY <1>1 DEF Answers
  <2>2. c = IF o.client.mode = "next" THEN [o.client EXCEPT !.mode = "idle", !.done = done, !.left = 0]
            ELSE [o.client EXCEPT !.mode = "broken"]
    BY DEF TakeEnd, Whole, Broken
  <2>. HIDE DEF done, c
  <2>3. /\ c \in ClientType
        /\ o.client.mode = "next" => c.mode = "idle" /\ c.done = done
    BY <1>1, <2>1, <2>2 DEF ClientType
  <2>. QED
    BY <2>3 DEF done
<1>. HIDE DEF c
<1>5. /\ p \in OutType /\ p.msg = o.msg /\ p.persist = o.persist /\ (o.lost => p.lost)
      /\ ~p.lost => p.client = c /\ ~o.lost
  BY <1>2, <1>3, <1>4 DEF OutType
<1>6. ASSUME Tracked(o), KindsAreGood, o.msg.req # 0, o.msg.remaining = 0, ~p.lost
      PROVE  Idle(p.client, o.msg.req)
  <2>1. Tracks(o.msg, o.client)
    BY <1>5, <1>6 DEF Tracked
  <2>2. Framing(o.msg).frame = "chunked"
    <3>1. o.msg.kind.method # "HEAD"
      BY <1>1, <1>6, KindTypes, MessageTypes DEF Good, Chunked, HasBody
    <3>. QED
      BY <1>1, <3>1, MessageTypes DEF Framing, Chunked
  <2>3. Within(o.client, "next", o.msg)
    BY <1>6, <2>1, <2>2 DEF Tracks
  <2>. QED
    BY <1>1, <1>4, <1>5, <1>6, <2>3, DoneNext DEF Idle, Within
<1>. QED
  BY <1>5, <1>6

-----------------------------------------------------------------------------
(* The chains. *)
(* What is left of a tuple without its last element. *)
LEMMA FrontIs ==
  ASSUME NEW a, NEW b, NEW c, NEW d
  PROVE  /\ SubSeq(<<a, b>>, 1, 1) = <<a>>
         /\ SubSeq(<<a, b, c>>, 1, 2) = <<a, b>>
         /\ SubSeq(<<a, b, c, d>>, 1, 3) = <<a, b, c>>
<1>1. SubSeq(<<a, b>>, 1, 1) = <<a>>
  <2>. DEFINE q == <<a, b>>
              S == {a, b, c, d}
              p == SubSeq(q, 1, 1)
  <2>1. q \in Seq(S) /\ \A i \in 1..1 : q[i] \in S
    OBVIOUS
  <2>2. p \in Seq(S) /\ Len(p) = 1 /\ \A i \in 1..1 : p[i] = q[i]
    BY <2>1, SubSeqProperties
  <2>. DEFINE r == <<a>>
  <2>3. r \in Seq(S) /\ Len(r) = 1 /\ \A i \in 1..1 : r[i] = q[i]
    OBVIOUS
  <2>. HIDE DEF p, q, S, r
  <2>4. p = r
    BY <2>2, <2>3, SeqEqual
  <2>. QED
    BY <2>4 DEF p, q, r
<1>2. SubSeq(<<a, b, c>>, 1, 2) = <<a, b>>
  <2>. DEFINE q == <<a, b, c>>
              S == {a, b, c, d}
              p == SubSeq(q, 1, 2)
  <2>1. q \in Seq(S) /\ \A i \in 1..2 : q[i] \in S
    OBVIOUS
  <2>2. p \in Seq(S) /\ Len(p) = 2 /\ \A i \in 1..2 : p[i] = q[i]
    BY <2>1, SubSeqProperties
  <2>. DEFINE r == <<a, b>>
  <2>3. r \in Seq(S) /\ Len(r) = 2 /\ \A i \in 1..2 : r[i] = q[i]
    OBVIOUS
  <2>. HIDE DEF p, q, S, r
  <2>4. p = r
    BY <2>2, <2>3, SeqEqual
  <2>. QED
    BY <2>4 DEF p, q, r
<1>3. SubSeq(<<a, b, c, d>>, 1, 3) = <<a, b, c>>
  <2>. DEFINE q == <<a, b, c, d>>
              S == {a, b, c, d}
              p == SubSeq(q, 1, 3)
  <2>1. q \in Seq(S) /\ \A i \in 1..3 : q[i] \in S
    OBVIOUS
  <2>2. p \in Seq(S) /\ Len(p) = 3 /\ \A i \in 1..3 : p[i] = q[i]
    BY <2>1, SubSeqProperties
  <2>. DEFINE r == <<a, b, c>>
  <2>3. r \in Seq(S) /\ Len(r) = 3 /\ \A i \in 1..3 : r[i] = q[i]
    OBVIOUS
  <2>. HIDE DEF p, q, S, r
  <2>4. p = r
    BY <2>2, <2>3, SeqEqual
  <2>. QED
    BY <2>4 DEF p, q, r
<1>. QED
  BY <1>1, <1>2, <1>3

LEMMA Pops ==
  ASSUME NEW a, NEW b, NEW c, NEW d, a # b, a # c, a # d, b # c, b # d, c # d
  PROVE  /\ D!RemoveAt(<<a>>, D!Place(<<a>>, a)) = <<>>
         /\ D!RemoveAt(<<a, b>>, D!Place(<<a, b>>, b)) = <<a>>
         /\ D!RemoveAt(<<a, b, c>>, D!Place(<<a, b, c>>, c)) = <<a, b>>
         /\ D!RemoveAt(<<a, b, c, d>>, D!Place(<<a, b, c, d>>, d)) = <<a, b, c>>
         /\ D!Before(<<a, b>>, b) = a /\ D!Before(<<a, b, c>>, c) = b
         /\ D!Before(<<a, b, c, d>>, d) = c
<1>1. /\ D!Place(<<a>>, a) = 1 /\ D!Place(<<a, b>>, b) = 2
      /\ D!Place(<<a, b, c>>, c) = 3 /\ D!Place(<<a, b, c, d>>, d) = 4
  <2>1. D!Place(<<a>>, a) = 1
    BY DEF D!Place
  <2>2. D!Place(<<a, b>>, b) = 2
    BY DEF D!Place
  <2>3. D!Place(<<a, b, c>>, c) = 3
    BY DEF D!Place
  <2>4. D!Place(<<a, b, c, d>>, d) = 4
    BY DEF D!Place
  <2>. QED
    BY <2>1, <2>2, <2>3, <2>4
<1>2. D!RemoveAt(<<a>>, 1) = <<>>
  BY DEF D!RemoveAt
<1>3. D!RemoveAt(<<a, b>>, 2) = <<a>>
  <2>. DEFINE q == <<a, b>>
  <2>0. SubSeq(q, 1, 1) = <<a>>
    BY FrontIs
  <2>1. SubSeq(q, 1, 1) = <<a>> /\ SubSeq(q, 3, 2) = <<>>
    <3>. HIDE DEF q
    <3>. QED
      BY <2>0, SubSeqEmpty
  <2>2. D!RemoveAt(q, 2) = SubSeq(q, 1, 1) \o SubSeq(q, 3, 2)
    BY DEF D!RemoveAt
  <2>. QED
    BY <2>1, <2>2
<1>4. D!RemoveAt(<<a, b, c>>, 3) = <<a, b>>
  <2>. DEFINE q == <<a, b, c>>
  <2>0. SubSeq(q, 1, 2) = <<a, b>>
    BY FrontIs
  <2>1. SubSeq(q, 1, 2) = <<a, b>> /\ SubSeq(q, 4, 3) = <<>>
    <3>. HIDE DEF q
    <3>. QED
      BY <2>0, SubSeqEmpty
  <2>2. D!RemoveAt(q, 3) = SubSeq(q, 1, 2) \o SubSeq(q, 4, 3)
    BY DEF D!RemoveAt
  <2>. QED
    BY <2>1, <2>2
<1>5. D!RemoveAt(<<a, b, c, d>>, 4) = <<a, b, c>>
  <2>. DEFINE q == <<a, b, c, d>>
  <2>0. SubSeq(q, 1, 3) = <<a, b, c>>
    BY FrontIs
  <2>1. SubSeq(q, 1, 3) = <<a, b, c>> /\ SubSeq(q, 5, 4) = <<>>
    <3>. HIDE DEF q
    <3>. QED
      BY <2>0, SubSeqEmpty
  <2>2. D!RemoveAt(q, 4) = SubSeq(q, 1, 3) \o SubSeq(q, 5, 4)
    BY DEF D!RemoveAt
  <2>. QED
    BY <2>1, <2>2
<1>6. /\ D!Before(<<a, b>>, b) = a /\ D!Before(<<a, b, c>>, c) = b
      /\ D!Before(<<a, b, c, d>>, d) = c
  BY <1>1 DEF D!Before, D!First
<1>. QED
  BY <1>1, <1>2, <1>3, <1>4, <1>5, <1>6

LEMMA Afters ==
  ASSUME NEW S, NEW q \in Seq(S), NEW x \in Range(q)
  PROVE  /\ D!After(q, x) \in Range(q) \cup {NoStream}
         /\ Len(q) = 1 => D!After(q, x) = NoStream
<1>1. PICK i \in 1..Len(q) : q[i] = x
  BY DEF Range
<1>2. D!Place(q, x) \in 1..Len(q) /\ q[D!Place(q, x)] = x
  BY <1>1 DEF D!Place
<1>3. CASE D!Place(q, x) = Len(q)
  <2>1. q # <<>> /\ q[Len(q)] = x
    BY <1>2, <1>3
  <2>2. x = D!Upper(q)
    BY <2>1 DEF D!Upper, D!Last
  <2>. QED
    BY <2>2 DEF D!After
<1>4. CASE D!Place(q, x) # Len(q)
  <2>0. Len(q) \in Nat
    OBVIOUS
  <2>1. D!Place(q, x) + 1 \in 1..Len(q) /\ Len(q) # 1
    <3>. DEFINE n == Len(q)
                p == D!Place(q, x)
    <3>1. n \in Nat /\ p \in 1..n /\ p # n
      BY <1>2, <1>4, <2>0
    <3>. HIDE DEF n, p
    <3>2. p + 1 \in 1..n /\ n # 1
      BY <3>1
    <3>. QED
      BY <3>2 DEF n, p
  <2>2. q[D!Place(q, x) + 1] \in Range(q)
    BY <2>1 DEF Range
  <2>. QED
    BY <2>1, <2>2 DEF D!After
<1>. QED
  BY <1>3, <1>4

LEMMA Streams ==
  /\ Connection # Message /\ Connection # Response /\ Connection # Reader
  /\ Connection # Transfer /\ Message # Response /\ Message # Reader /\ Message # Transfer
  /\ Response # Reader /\ Response # Transfer /\ Reader # Transfer
  BY DEF Connection, Message, Response, Reader, Transfer

(* The chain is taken down from the top. *)
LEMMA ChainPops ==
  /\ D!RemoveAt(<<Connection>>, D!Place(<<Connection>>, Connection)) = <<>>
  /\ LET q == <<Connection, Message>>
     IN D!RemoveAt(q, D!Place(q, Message)) = <<Connection>> /\ D!Before(q, Message) = Connection
  /\ LET q == <<Connection, Message, Response>>
     IN /\ D!RemoveAt(q, D!Place(q, Response)) = <<Connection, Message>>
        /\ D!Before(q, Response) = Message
  /\ LET q == <<Connection, Message, Transfer>>
     IN /\ D!RemoveAt(q, D!Place(q, Transfer)) = <<Connection, Message>>
        /\ D!Before(q, Transfer) = Message
  /\ LET q == <<Connection, Message, Response, Reader>>
     IN /\ D!RemoveAt(q, D!Place(q, Reader)) = <<Connection, Message, Response>>
        /\ D!Before(q, Reader) = Response
<1>. DEFINE a == Connection
            b == Message
            c == Response
            d == Reader
            e == Transfer
<1>1. a # b /\ a # c /\ a # d /\ b # c /\ b # d /\ c # d /\ a # e /\ b # e /\ c # e /\ d # e
  BY Streams
<1>. HIDE DEF a, b, c, d, e
<1>2. /\ D!RemoveAt(<<a>>, D!Place(<<a>>, a)) = <<>>
      /\ D!RemoveAt(<<a, b>>, D!Place(<<a, b>>, b)) = <<a>>
      /\ D!RemoveAt(<<a, b, c>>, D!Place(<<a, b, c>>, c)) = <<a, b>>
      /\ D!RemoveAt(<<a, b, c, d>>, D!Place(<<a, b, c, d>>, d)) = <<a, b, c>>
      /\ D!Before(<<a, b>>, b) = a /\ D!Before(<<a, b, c>>, c) = b
      /\ D!Before(<<a, b, c, d>>, d) = c
  BY <1>1, Pops
<1>3. /\ D!RemoveAt(<<a>>, D!Place(<<a>>, a)) = <<>>
      /\ D!RemoveAt(<<a, b>>, D!Place(<<a, b>>, b)) = <<a>>
      /\ D!RemoveAt(<<a, b, e>>, D!Place(<<a, b, e>>, e)) = <<a, b>>
      /\ D!RemoveAt(<<a, b, e, d>>, D!Place(<<a, b, e, d>>, d)) = <<a, b, e>>
      /\ D!Before(<<a, b>>, b) = a /\ D!Before(<<a, b, e>>, e) = b
      /\ D!Before(<<a, b, e, d>>, d) = e
  BY <1>1, Pops
<1>. QED
  BY <1>2, <1>3 DEF a, b, c, d, e

LEMMA Shapes ==
  ASSUME NEW q \in Chains
  PROVE  \/ q = <<>> /\ Range(q) = {} /\ D!Upper(q) = NoStream
         \/ q = <<Connection>> /\ Range(q) = {Connection} /\ D!Upper(q) = Connection
         \/ /\ q = <<Connection, Message>> /\ Range(q) = {Connection, Message}
            /\ D!Upper(q) = Message
         \/ /\ q = <<Connection, Message, Response>>
            /\ Range(q) = {Connection, Message, Response} /\ D!Upper(q) = Response
         \/ /\ q = <<Connection, Message, Response, Reader>>
            /\ Range(q) = {Connection, Message, Response, Reader} /\ D!Upper(q) = Reader
         \/ /\ q = <<Connection, Message, Transfer>>
            /\ Range(q) = {Connection, Message, Transfer} /\ D!Upper(q) = Transfer
<1>1. D!Upper(<<>>) = NoStream
  BY DEF D!Upper
<1>2. Range(<<Connection>>) = {Connection}
  BY DEF Range
<1>3. Range(<<Connection, Message>>) = {Connection, Message}
  BY DEF Range
<1>4. Range(<<Connection, Message, Response>>) = {Connection, Message, Response}
  BY DEF Range
<1>5. Range(<<Connection, Message, Transfer>>) = {Connection, Message, Transfer}
  BY DEF Range
<1>6. Range(<<Connection, Message, Response, Reader>>) = {Connection, Message, Response, Reader}
  BY DEF Range
<1>7. Range(<<>>) = {}
  BY DEF Range
<1>8. D!Upper(<<Connection>>) = Connection
  BY DEF D!Upper, D!Last
<1>9. D!Upper(<<Connection, Message>>) = Message
  BY DEF D!Upper, D!Last
<1>10. D!Upper(<<Connection, Message, Response>>) = Response
  BY DEF D!Upper, D!Last
<1>11. D!Upper(<<Connection, Message, Transfer>>) = Transfer
  BY DEF D!Upper, D!Last
<1>12. D!Upper(<<Connection, Message, Response, Reader>>) = Reader
  BY DEF D!Upper, D!Last
<1>. QED
  BY <1>1, <1>2, <1>3, <1>4, <1>5, <1>6, <1>7, <1>8, <1>9, <1>10, <1>11, <1>12, Zenon DEF Chains

LEMMA Names ==
  ASSUME handled' = handled
  PROVE  /\ Message' = Message /\ Response' = Response /\ Reader' = Reader
         /\ Transfer' = Transfer /\ Chains' = Chains
  BY DEF Message, Response, Reader, Transfer, Chains

(* A step that leaves the chain and the input alone. *)
Still == UNCHANGED <<streams, fresh, opened, seq, handled>>

LEMMA StillChain ==
  ASSUME ChainOK, Still
  PROVE  /\ Held' = Held /\ Message' = Message /\ Response' = Response /\ Reader' = Reader
         /\ Transfer' = Transfer /\ Chains' = Chains /\ Connection' = Connection
         /\ Held = Range(streams)
  BY Names DEF Still, Held, Connection, ChainOK

(* The steps of dispatch() that deliver nothing. *)
LEMMA QuietStill ==
  ASSUME ChainOK, UNCHANGED <<seq, handled>>,
         \/ UNCHANGED desVars \/ D!Dispatch \/ D!DispatchGone \/ D!EnabledFromOutside
         \/ D!Pass \/ D!OpeningSkip \/ D!ReadableSkip \/ D!WriteableSkip
         \/ D!EndPass \/ D!EndLoop
  PROVE  ChainOK' /\ UNCHANGED <<state, streams, opened>>
<1>1. UNCHANGED <<state, streams, fresh, opened>>
  BY DEF desVars, D!Dispatch, D!DispatchGone, D!EnabledFromOutside, D!Pass, D!OpeningSkip,
         D!ReadableSkip, D!WriteableSkip, D!Skip, D!EndPass, D!EndLoop, D!localVars
<1>2. Still
  BY <1>1 DEF Still
<1>3. /\ Held' = Held /\ Message' = Message /\ Response' = Response
      /\ Chains' = Chains /\ Connection' = Connection
  BY <1>2, StillChain
<1>4. streams \in Chains /\ Held = Range(streams)
  BY DEF ChainOK, Held
<1>5. streams # <<>> => D!Upper(streams) \in Held /\ D!First(streams) \in Held
  <2>1. streams # <<>> => D!Upper(streams) \in Held
    BY <1>4, Shapes
  <2>2. ASSUME streams # <<>> PROVE D!First(streams) = Connection
    BY <1>4, <2>2 DEF Chains, D!First
  <2>. QED
    BY <1>4, <2>1, <2>2, Shapes
<1>6. CASE UNCHANGED desVars
  BY <1>1, <1>3, <1>6 DEF ChainOK, desVars
<1>7. CASE D!Dispatch
  BY <1>1, <1>3, <1>7 DEF ChainOK, D!Dispatch
<1>8. CASE D!DispatchGone
  BY <1>1, <1>3, <1>8 DEF ChainOK, D!DispatchGone
<1>9. CASE D!EnabledFromOutside
  BY <1>1, <1>3, <1>9 DEF ChainOK, D!EnabledFromOutside, D!localVars
<1>10. CASE D!Pass
  BY <1>1, <1>3, <1>5, <1>10 DEF ChainOK, D!Pass
<1>11. CASE D!OpeningSkip
  BY <1>1, <1>3, <1>11 DEF ChainOK, D!OpeningSkip
<1>12. CASE D!ReadableSkip
  BY <1>1, <1>3, <1>12 DEF ChainOK, D!ReadableSkip, D!Skip
<1>13. CASE D!WriteableSkip
  BY <1>1, <1>3, <1>13 DEF ChainOK, D!WriteableSkip, D!Skip
<1>14. CASE D!EndPass
  BY <1>1, <1>3, <1>5, <1>14 DEF ChainOK, D!EndPass
<1>15. CASE D!EndLoop
  BY <1>1, <1>3, <1>15 DEF ChainOK, D!EndLoop
<1>. QED
  BY <1>1, <1>6, <1>7, <1>8, <1>9, <1>10, <1>11, <1>12, <1>13, <1>14, <1>15

(* What a step may do to the chain without touching the message. *)
SameAbove ==
  /\ UNCHANGED handled
  /\ Message \in Held' <=> Message \in Held
  /\ Message \in opened' <=> Message \in opened
  /\ Response \in Held' => Response \in Held
  /\ Transfer \in Held' => Transfer \in Held

LEMMA AdvanceChain ==
  ASSUME ChainOK, D!Advance, UNCHANGED ownVars
  PROVE  ChainOK' /\ SameAbove
<1>1. /\ UNCHANGED <<seq, handled, fresh>> /\ pc = "next" /\ state' = D!ClosingIfAsked
      /\ flags' = {} /\ "error" \notin flags
  BY DEF D!Advance, ownVars, inputVars, outputVars, ChainOK
<1>2. /\ Message' = Message /\ Response' = Response /\ Transfer' = Transfer
      /\ Chains' = Chains /\ Connection' = Connection
  BY <1>1, Names DEF Connection
<1>3. streams \in Chains /\ Held = Range(streams) /\ at \in Held /\ Held' = Range(streams')
  BY <1>1 DEF ChainOK, Held
<1>4. state' \in {"Connected", "Closing"} /\ ("close" \notin flags => state' = state)
  BY <1>1 DEF ChainOK, D!ClosingIfAsked
<1>5. streams \in Seq(Held)
  BY <1>3 DEF Chains, Held, Range
<1>6. CASE "remove" \in flags
  <2>1. streams = <<Connection>> /\ at = Connection /\ Held = {Connection}
    BY <1>3, <1>6, Shapes DEF ChainOK
  <2>2. streams' = D!RemoveAt(streams, D!Place(streams, at)) /\ opened' = opened \ {at}
        /\ at' = D!After(streams, at)
    BY <1>1, <1>6 DEF D!Advance, D!Removed
  <2>3. streams' = <<>> /\ at' = NoStream /\ Held' = {}
    <3>1. D!RemoveAt(<<Connection>>, D!Place(<<Connection>>, Connection)) = <<>>
      BY ChainPops
    <3>2. D!After(streams, at) = NoStream
      BY <1>3, <1>5, <2>1, Afters
    <3>. QED
      BY <1>3, <2>1, <2>2, <3>1, <3>2 DEF Range
  <2>4. pc' = "endpass"
    BY <1>1, <2>3 DEF D!Advance
  <2>. QED
    BY <1>1, <1>2, <1>3, <1>4, <2>1, <2>2, <2>3, <2>4, Streams DEF ChainOK, SameAbove, Chains
<1>7. CASE "remove" \notin flags
  <2>1. UNCHANGED <<streams, opened>> /\ at' = D!After(streams, at)
        /\ pc' \in {"endpass", "opening"} /\ (at' = NoStream => pc' = "endpass")
    BY <1>1, <1>7 DEF D!Advance
  <2>2. D!After(streams, at) \in Held \cup {NoStream}
        /\ (streams = <<Connection>> => D!After(streams, at) = NoStream)
    <3>1. streams = <<Connection>> => Len(streams) = 1
      OBVIOUS
    <3>. QED
      BY <1>3, <1>5, <3>1, Afters
  <2>3. Held' = Held
    BY <1>3, <2>1
  <2>. QED
    BY <1>1, <1>2, <1>3, <1>4, <2>1, <2>2, <2>3, Shapes, Streams DEF ChainOK, SameAbove
<1>. QED
  BY <1>6, <1>7

(* The answers of a stream that leaves the chain alone. *)
LEMMA AnsweredChain ==
  ASSUME ChainOK, UNCHANGED <<streams, fresh, seq, handled>>,
         NEW c \in {"Ok", "Wait", "Close"},
         \/ D!OpeningAnswered(c) /\ c # "Wait"
         \/ D!ReadableAnswered(c) \/ D!WriteableAnswered(c),
         \/ UNCHANGED state
         \/ state' = "Closing" /\ at \notin {Connection, Message},
         c = "Close" => at # Connection /\ (pc = "opening" \/ at # Message)
  PROVE  /\ ChainOK' /\ Held' = Held /\ at \in Held
         /\ opened' = IF pc = "opening" THEN opened \cup {at} ELSE opened
<1>1. /\ Held' = Held /\ Message' = Message /\ Response' = Response
      /\ Chains' = Chains /\ Connection' = Connection
  BY Names DEF Held, Connection
<1>2. streams \in Chains /\ Held = Range(streams) /\ at \in Held
  BY DEF ChainOK, Held, D!OpeningAnswered, D!ReadableAnswered, D!WriteableAnswered
<1>3. CASE D!OpeningAnswered(c) /\ c # "Wait"
  <2>1. /\ pc = "opening" /\ pc' = "readable" /\ at \notin opened /\ UNCHANGED at
        /\ opened' = opened \cup {at} /\ flags' \subseteq {"close"}
        /\ c # "Close" => flags' = {}
    <3>1. flags = {} /\ D!Answer(c) = IF c = "Close" THEN {"close"} ELSE {}
      BY <1>3 DEF D!OpeningAnswered, D!Answer, ChainOK
    <3>. QED
      BY <1>3, <3>1 DEF D!OpeningAnswered
  <2>. QED
    BY <1>1, <1>2, <2>1, Shapes, Streams DEF ChainOK
<1>4. CASE D!ReadableAnswered(c) \/ D!WriteableAnswered(c)
  <2>1. /\ pc \in {"readable", "writeable"} /\ pc' \in {"writeable", "next"}
        /\ UNCHANGED <<at, opened>> /\ flags' = flags \cup (IF c = "Close" THEN {"close"} ELSE {})
    BY <1>4 DEF D!ReadableAnswered, D!WriteableAnswered, D!Answered, D!Answer
  <2>2. at \notin {Connection, Message} => seq = "Body" /\ streams # <<Connection, Message>>
                                           /\ streams # <<Connection>>
    BY <1>2, Shapes DEF ChainOK
  <2>. QED
    BY <1>1, <1>2, <2>1, <2>2, Shapes, Streams DEF ChainOK
<1>. QED
  BY <1>3, <1>4

LEMMA AddsOne ==
  ASSUME NEW s, AddStream(s), D!Handler(at)
  PROVE  s \in fresh /\ streams' = Append(streams, s) /\ fresh' \subseteq fresh
<1>1. s \in fresh
  <2>1. SUFFICES ASSUME s \notin fresh PROVE FALSE
    OBVIOUS
  <2>2. fresh' = fresh /\ streams' = Append(streams, s)
    BY <2>1 DEF AddStream
  <2>3. streams' = streams \/ \E n \in fresh : fresh' = fresh \ {n}
    BY DEF D!Handler
  <2>4. ~ \E n \in fresh : fresh' = fresh \ {n}
    BY <2>2
  <2>. QED
    BY <2>2, <2>3, <2>4
<1>. QED
  BY <1>1 DEF AddStream

LEMMA AppendIs ==
  ASSUME NEW S, NEW q \in Seq(S), NEW x \in S, NEW r \in Seq(S), Len(r) = Len(q) + 1,
         \A i \in 1..Len(q) : r[i] = q[i], r[Len(q) + 1] = x
  PROVE  Append(q, x) = r
<1>. DEFINE p == Append(q, x)
<1>1. /\ p \in Seq(S) /\ Len(p) = Len(q) + 1 /\ p[Len(q) + 1] = x
      /\ \A i \in 1..Len(q) : p[i] = q[i]
  BY AppendProperties
<1>2. Len(q) \in Nat
  OBVIOUS
<1>. HIDE DEF p
<1>3. \A i \in 1..Len(p) : p[i] = r[i]
  BY <1>1, <1>2
<1>4. p = r
  BY <1>1, <1>3, SeqEqual
<1>. QED
  BY <1>4 DEF p

LEMMA Appends ==
  ASSUME NEW a, NEW b, NEW c, NEW x
  PROVE  /\ Append(<<a>>, x) = <<a, x>> /\ Append(<<a, b>>, x) = <<a, b, x>>
         /\ Append(<<a, b, c>>, x) = <<a, b, c, x>>
<1>. DEFINE S == {a, b, c, x}
            q1 == <<a>>
            q2 == <<a, b>>
            q3 == <<a, b, c>>
            q4 == <<a, b, c, x>>
            r1 == <<a, x>>
            r2 == <<a, b, x>>
<1>1. /\ q1 \in Seq(S) /\ Len(q1) = 1 /\ r1 \in Seq(S) /\ Len(r1) = 2
      /\ r1[1] = q1[1] /\ r1[2] = x
  OBVIOUS
<1>2. /\ q2 \in Seq(S) /\ Len(q2) = 2 /\ r2 \in Seq(S) /\ Len(r2) = 3
      /\ r2[1] = q2[1] /\ r2[2] = q2[2] /\ r2[3] = x
  OBVIOUS
<1>3. /\ q3 \in Seq(S) /\ Len(q3) = 3 /\ q4 \in Seq(S) /\ Len(q4) = 4
      /\ q4[1] = q3[1] /\ q4[2] = q3[2] /\ q4[3] = q3[3] /\ q4[4] = x
  OBVIOUS
<1>4. x \in S
  OBVIOUS
<1>. HIDE DEF S, q1, q2, q3, q4, r1, r2
<1>5. Append(q1, x) = r1
  <2>1. /\ Len(r1) = Len(q1) + 1 /\ r1[Len(q1) + 1] = x
        /\ \A i \in 1..Len(q1) : r1[i] = q1[i]
    BY <1>1
  <2>. QED
    BY <1>1, <1>4, <2>1, AppendIs
<1>6. Append(q2, x) = r2
  <2>1. /\ Len(r2) = Len(q2) + 1 /\ r2[Len(q2) + 1] = x
        /\ \A i \in 1..Len(q2) : r2[i] = q2[i]
    BY <1>2
  <2>. QED
    BY <1>2, <1>4, <2>1, AppendIs
<1>7. Append(q3, x) = q4
  <2>1. /\ Len(q4) = Len(q3) + 1 /\ q4[Len(q3) + 1] = x
        /\ \A i \in 1..Len(q3) : q4[i] = q3[i]
    BY <1>3
  <2>. QED
    BY <1>3, <1>4, <2>1, AppendIs
<1>. QED
  BY <1>5, <1>6, <1>7 DEF q1, q2, q3, q4, r1, r2

(* A stream that opens puts the one above it on the chain. *)
LEMMA OpenedChain ==
  ASSUME ChainOK, UNCHANGED <<state, seq, handled>>, D!OpeningAnswered("Ok"),
         \/ at = Message /\ (AddStream(Response) \/ AddStream(Transfer))
         \/ at = Response /\ AddStream(Reader)
  PROVE  /\ ChainOK' /\ opened' = opened \cup {at} /\ at \notin opened
         /\ at = Message => streams = <<Connection, Message>>
         /\ Message \in Held /\ Message \in Held' /\ (Response \in Held' => at # Message \/ AddStream(Response))
         /\ (Transfer \in Held' => at = Message /\ AddStream(Transfer))
<1>1. /\ Message' = Message /\ Response' = Response /\ Chains' = Chains
      /\ Connection' = Connection /\ Held = Range(streams) /\ Held' = Range(streams')
  BY Names DEF Held, Connection
<1>2. /\ streams \in Chains /\ at \in Held /\ pc = "opening" /\ pc' = "readable"
      /\ at \notin opened /\ UNCHANGED at /\ opened' = opened \cup {at}
      /\ flags' = {}
  BY DEF ChainOK, D!OpeningAnswered, D!Answer
<1>3. fresh' \subseteq fresh
  BY DEF AddStream
<1>4. CASE at = Message
  <2>1. streams = <<Connection, Message>> /\ state = "Connected"
    BY <1>1, <1>2, <1>4 DEF ChainOK
  <2>2. CASE AddStream(Response)
    <3>1. streams' = <<Connection, Message, Response>>
      BY <2>1, <2>2, Appends DEF AddStream
    <3>2. Held' = {Connection, Message, Response} /\ streams' \in Chains
      BY <1>1, <3>1, Shapes DEF Chains
    <3>. QED
      BY <1>1, <1>2, <1>3, <1>4, <2>1, <2>2, <3>1, <3>2, Shapes, Streams DEF ChainOK
  <2>3. CASE AddStream(Transfer)
    <3>1. streams' = <<Connection, Message, Transfer>>
      BY <2>1, <2>3, Appends DEF AddStream
    <3>2. Held' = {Connection, Message, Transfer} /\ streams' \in Chains
      BY <1>1, <3>1, Shapes DEF Chains
    <3>. QED
      BY <1>1, <1>2, <1>3, <1>4, <2>1, <2>3, <3>1, <3>2, Shapes, Streams DEF ChainOK
  <2>. QED
    BY <1>4, <2>2, <2>3, Streams
<1>5. CASE at = Response /\ AddStream(Reader)
  <2>1. streams = <<Connection, Message, Response>>
    BY <1>1, <1>2, <1>5 DEF ChainOK
  <2>2. streams' = <<Connection, Message, Response, Reader>>
    <3>1. Append(<<Connection, Message, Response>>, Reader)
            = <<Connection, Message, Response, Reader>>
      <4>. DEFINE a == Connection
                  b == Message
                  c == Response
                  x == Reader
      <4>. HIDE DEF a, b, c, x
      <4>1. /\ Append(<<a>>, x) = <<a, x>> /\ Append(<<a, b>>, x) = <<a, b, x>>
            /\ Append(<<a, b, c>>, x) = <<a, b, c, x>>
        BY Appends
      <4>. QED
        BY <4>1 DEF a, b, c, x
    <3>. QED
      BY <1>5, <2>1, <3>1 DEF AddStream
  <2>3. Held' = {Connection, Message, Response, Reader} /\ streams' \in Chains
    BY <1>1, <2>2, Shapes DEF Chains
  <2>. QED
    BY <1>1, <1>2, <1>3, <1>5, <2>1, <2>2, <2>3, Shapes, Streams DEF ChainOK
<1>. QED
  BY <1>4, <1>5

(* A closing that waits, or is cancelled. *)
LEMMA ClosingChain ==
  ASSUME ChainOK, UNCHANGED <<streams, fresh, handled>>,
         (D!ClosingWait /\ UNCHANGED state /\ at = Message) \/ D!ClosingCancelled,
         IF at = Connection THEN seq' # "Body" ELSE seq' = seq
  PROVE  ChainOK' /\ Held' = Held /\ opened' = opened /\ at \in Held
<1>1. /\ Held' = Held /\ Message' = Message /\ Response' = Response
      /\ Chains' = Chains /\ Connection' = Connection
  BY Names DEF Held, Connection
<1>2. /\ pc = "closing" /\ pc' = "endloop" /\ UNCHANGED <<opened, at, flags>>
      /\ state' \in {"Closing", "Connected"}
      /\ at = D!Upper(streams) /\ state = "Closing" /\ streams \in Chains /\ flags = {}
      /\ at \in Held /\ Held = Range(streams)
  BY DEF D!ClosingWait, D!ClosingCancelled, ChainOK, Held
<1>3. CASE at = Connection
  <2>1. streams = <<Connection>> /\ Held = {Connection} /\ seq' # "Body"
        /\ state' = "Connected"
    BY <1>2, <1>3, Shapes, Streams DEF D!ClosingCancelled
  <2>. QED
    BY <1>1, <1>2, <2>1, Streams DEF ChainOK
<1>4. CASE at # Connection
  <2>1. streams # <<>> /\ streams # <<Connection>>
    BY <1>2, <1>4, Shapes, Streams
  <2>2. seq = "Body" /\ seq' = seq
    BY <1>4, <2>1 DEF ChainOK
  <2>. QED
    BY <1>1, <1>2, <2>1, <2>2 DEF ChainOK
<1>. QED
  BY <1>3, <1>4

(* The uppermost stream goes. *)
LEMMA PopChain ==
  ASSUME ChainOK, UNCHANGED handled, D!ClosingOk, UNCHANGED state,
         seq' = seq \/ (at = Connection /\ seq' # "Body")
  PROVE  /\ ChainOK' /\ at \in Held /\ Held' = Held \ {at} /\ opened' = opened \ {at}
         /\ at = Message => streams = <<Connection, Message>> /\ seq = "Body"
         /\ at = Connection => streams = <<Connection>>
<1>1. /\ Message' = Message /\ Response' = Response /\ Chains' = Chains
      /\ Connection' = Connection /\ Held = Range(streams) /\ Held' = Range(streams')
  BY Names DEF Held, Connection
<1>2. /\ pc = "closing" /\ streams \in Chains /\ at = D!Upper(streams) /\ at \in Held
      /\ state' = "Closing" /\ flags = {} /\ UNCHANGED <<fresh, flags>>
      /\ streams' = D!RemoveAt(streams, D!Place(streams, at)) /\ opened' = opened \ {at}
      /\ at' = D!Before(streams, at) /\ pc' = IF streams' = <<>> THEN "endloop" ELSE "closing"
  BY <1>1 DEF D!ClosingOk, D!Removed, ChainOK
<1>3. CASE streams = <<Connection>>
  <2>1. streams' = <<>> /\ at = Connection /\ Held = {Connection} /\ Held' = {}
    BY <1>1, <1>2, <1>3, ChainPops, Shapes DEF Range
  <2>. QED
    BY <1>1, <1>2, <1>3, <2>1, Streams DEF ChainOK, Chains
<1>4. CASE streams = <<Connection, Message>>
  <2>1. at = Message /\ Held = {Connection, Message} /\ seq = "Body"
    BY <1>1, <1>2, <1>4, Shapes, Streams DEF ChainOK
  <2>2. streams' = <<Connection>> /\ at' = Connection
    BY <1>2, <1>4, <2>1, ChainPops
  <2>3. /\ Held' = {Connection} /\ streams' \in Chains
        /\ D!Upper(streams') = Connection /\ pc' = "closing"
    BY <1>1, <1>2, <2>2, Shapes DEF D!Upper, D!Last, Chains
  <2>. QED
    BY <1>1, <1>2, <1>4, <2>1, <2>2, <2>3, Streams DEF ChainOK
<1>5. CASE \/ streams = <<Connection, Message, Response>>
           \/ streams = <<Connection, Message, Transfer>>
  <2>1. /\ Held = {Connection, Message, at} /\ at \in {Response, Transfer} /\ seq = "Body"
        /\ streams # <<Connection, Message>>
    BY <1>1, <1>2, <1>5, Shapes, Streams DEF ChainOK
  <2>2. streams' = <<Connection, Message>> /\ at' = Message
    BY <1>2, <1>5, <2>1, ChainPops, Shapes, Streams
  <2>3. /\ Held' = {Connection, Message} /\ streams' \in Chains
        /\ D!Upper(streams') = Message /\ streams' # <<Connection>>
    BY <1>1, <2>2, Shapes, Streams DEF Chains
  <2>4. pc' = "closing"
    BY <1>2, <2>2
  <2>. QED
    BY <1>1, <1>2, <1>5, <2>1, <2>2, <2>3, <2>4, Streams DEF ChainOK
<1>6. CASE streams = <<Connection, Message, Response, Reader>>
  <2>1. /\ Held = {Connection, Message, Response, Reader} /\ at = Reader /\ seq = "Body"
        /\ streams # <<Connection, Message>> /\ streams # <<Connection, Message, Response>>
    BY <1>1, <1>2, <1>6, Shapes, Streams DEF ChainOK
  <2>2. streams' = <<Connection, Message, Response>> /\ at' = Response
    BY <1>2, <1>6, <2>1, ChainPops, Shapes, Streams
  <2>3. /\ Held' = {Connection, Message, Response} /\ streams' \in Chains
        /\ D!Upper(streams') = Response /\ streams' # <<Connection>>
    BY <1>1, <2>2, Shapes, Streams DEF Chains
  <2>4. pc' = "closing"
    BY <1>2, <2>2
  <2>. QED
    BY <1>1, <1>2, <1>6, <2>1, <2>2, <2>3, <2>4, Streams DEF ChainOK
<1>. QED
  BY <1>1, <1>2, <1>3, <1>4, <1>5, <1>6, Shapes

-----------------------------------------------------------------------------
(* Steps that leave the message or the input alone. *)
Stages == {"Start", "ReadSingle", "ReadEnd", "Write", "WriteWait", "End"}

LEMMA SameInput ==
  ASSUME HttpInv, UNCHANGED <<asked, unsent, wire, linebuf, seq, request, handled>>,
         handled > 0 => /\ msg'.req = msg.req /\ msg'.kind = msg.kind
                        /\ msg'.alien = msg.alien /\ msg'.read = msg.read,
         Clean' => Clean
  PROVE  InputOK'
<1>1. Text' = Text /\ NextIn' = NextIn
  BY DEF Text, NextIn
<1>2. Follows(Text)' = Follows(Text)
  BY DEF Follows, Follower, Text
<1>3. handled \in 0..MaxRequests
  BY DEF HttpInv, Types
<1>4. handled \in Requests => handled > 0 /\ msg'.req = msg.req /\ msg'.kind = msg.kind
                              /\ msg'.alien = msg.alien /\ msg'.read = msg.read
  BY <1>3 DEF Requests
<1>5. ASSUME Aligned PROVE Aligned'
  BY <1>1, <1>4, <1>5 DEF Aligned, Requests
<1>. QED
  BY <1>2, <1>5 DEF HttpInv, InputOK

LEMMA OwnRest ==
  ASSUME HttpInv, SameAbove,
         UNCHANGED <<seq, persist, handled, msg, left, client, lost, failed>>
  PROVE  MsgOK' /\ OutputOK'
<1>1. /\ Message' = Message /\ Response' = Response /\ Transfer' = Transfer
  BY Names
<1>2. Framed(msg)' = Framed(msg)
  BY DEF Framed, Chunked, HasBody, ContentLength
<1>3. Message \in opened => Message \in Held
  BY DEF HttpInv, ChainOK
<1>4. MsgOK'
  BY <1>1, <1>2, <1>3 DEF HttpInv, MsgOK, SameAbove
<1>5. Clean' = Clean
  BY DEF Clean
<1>6. OutputOK'
  <2>1. Tracks(msg, client)' = Tracks(msg, client)
    BY DEF Tracks, Idle, Within, Framing, HasBody, ContentLength
  <2>2. Idle(client, handled)' = Idle(client, handled)
    BY DEF Idle
  <2>3. Complete(msg, client)' = Complete(msg, client)
    BY DEF Complete, Idle, Within
  <2>. QED
    BY <1>1, <1>5, <2>1, <2>2, <2>3 DEF HttpInv, OutputOK, SameAbove
<1>. QED
  BY <1>4, <1>6

LEMMA OwnSame ==
  ASSUME HttpInv, SameAbove, resp' \in Stages,
         UNCHANGED <<asked, inputVars, persist, handled, msg, left, client, slow, lost, failed>>
  PROVE  Types' /\ MsgOK' /\ InputOK' /\ OutputOK'
<1>1. UNCHANGED <<asked, unsent, wire, eof, linebuf, seq, request, persist, handled, msg,
                  left, client, slow, lost, failed>>
  BY DEF inputVars
<1>2. Types'
  BY <1>1 DEF HttpInv, Types, Stages
<1>3. MsgOK' /\ OutputOK'
  BY <1>1, OwnRest
<1>4. InputOK'
  <2>1. Clean' = Clean
    BY <1>1 DEF Clean
  <2>. QED
    BY <1>1, <2>1, SameInput
<1>. QED
  BY <1>2, <1>3, <1>4

LEMMA OwnWhole ==
  ASSUME HttpInv, SameAbove, UNCHANGED ownVars
  PROVE  Types' /\ MsgOK' /\ InputOK' /\ OutputOK'
<1>1. resp \in Stages /\ resp' = resp
  BY DEF HttpInv, Types, Stages, ownVars, outputVars
<1>2. UNCHANGED <<asked, inputVars, persist, handled, msg, left, client, slow, lost, failed>>
  BY DEF ownVars, outputVars
<1>. QED
  BY <1>1, <1>2, OwnSame

-----------------------------------------------------------------------------
(* The handlers that write. *)
LEMMA OutHolds ==
  ASSUME HttpInv, handled > 0
  PROVE  /\ Sound(Out) /\ Out.msg = msg /\ Out.client = client /\ Out.lost = lost
         /\ msg \in MessageType
         /\ Clean /\ seq = "Body" /\ Message \in Held
              => Tracked(Out) /\ msg.req = handled /\ msg.req # 0
<1>1. /\ persist \in BOOLEAN /\ msg \in MessageType /\ client \in ClientType
      /\ slow \in 0..MaxSlow /\ lost \in BOOLEAN /\ Framed(msg)
      /\ msg.hdr # "none" => persist = msg.kind.keep
  BY DEF HttpInv, Types, MsgOK
<1>2. Sound(Out)
  BY <1>1 DEF Sound, Out, OutType
<1>3. Clean /\ seq = "Body" /\ Message \in Held => Tracks(msg, client) /\ msg.req = handled
  BY DEF HttpInv, OutputOK, InputOK
<1>. QED
  BY <1>1, <1>2, <1>3 DEF Out, Tracked

(* A handler that writes for the message, which stays. *)
LEMMA Wrote ==
  ASSUME HttpInv, handled > 0, seq = "Body", Message \in Held, NEW o, Sound(o), Outcome(o),
         UNCHANGED <<asked, inputVars, handled>>, resp' \in Stages, left' \in Int,
         o.msg.req = msg.req, o.msg.kind = msg.kind, o.msg.alien = msg.alien,
         o.msg.read = msg.read, lost => o.lost, failed \subseteq failed'
  PROVE  /\ Types' /\ InputOK'
         /\ Framed(msg') /\ (msg'.hdr # "none" => persist' = msg'.kind.keep)
         /\ msg' = o.msg /\ msg' \in MessageType /\ msg'.read <= msg'.kind.body
         /\ Clean' => Clean /\ ~o.lost
         /\ Message \in Held' /\ (Clean' => Tracked(o)) => OutputOK'
<1>1. UNCHANGED <<unsent, wire, eof, linebuf, seq, request>>
  BY DEF inputVars
<1>2. /\ persist' = o.persist /\ msg' = o.msg /\ client' = o.client /\ slow' = o.slow
      /\ lost' = o.lost
  BY DEF Outcome
<1>3. /\ persist' \in BOOLEAN /\ msg' \in MessageType /\ client' \in ClientType
      /\ slow' \in 0..MaxSlow /\ lost' \in BOOLEAN /\ Framed(msg')
      /\ (msg'.hdr # "none" => persist' = msg'.kind.keep)
  BY <1>2 DEF Sound, OutType
<1>4. Types'
  BY <1>1, <1>3 DEF HttpInv, Types, Stages
<1>5. Clean' => Clean /\ ~o.lost
  BY <1>2, <1>3 DEF Clean, HttpInv, Types
<1>6. InputOK'
  BY <1>1, <1>2, <1>5, SameInput
<1>7. msg'.read <= msg'.kind.body
  BY <1>2 DEF HttpInv, MsgOK
<1>8. ASSUME Message \in Held', Clean' => Tracked(o) PROVE OutputOK'
  <2>1. Clean' => Tracks(msg', client')
    BY <1>2, <1>5, <1>8 DEF Tracked
  <2>2. seq' = "Body" /\ Message' = Message
    BY <1>1, Names
  <2>. QED
    BY <1>8, <2>1, <2>2 DEF OutputOK
<1>. QED
  BY <1>2, <1>3, <1>4, <1>5, <1>6, <1>7, <1>8

LEMMA MessageWriteableKeeps ==
  ASSUME HttpInv, MessageWriteable
  PROVE  HttpInv'
<1>1. /\ at = Message /\ UNCHANGED <<asked, inputVars, handled, resp, left, failed>>
      /\ UNCHANGED <<state, streams, fresh>> /\ D!WriteableAnswered("Ok") /\ pc = "writeable"
  BY DEF MessageWriteable, Gets, AddNone
<1>2. seq' = seq
  BY <1>1 DEF inputVars
<1>3. ChainOK' /\ Held' = Held /\ Message \in Held /\ opened' = opened
  <2>1. ChainOK' /\ Held' = Held /\ at \in Held
        /\ opened' = IF pc = "opening" THEN opened \cup {at} ELSE opened
    BY <1>1, <1>2, AnsweredChain DEF HttpInv
  <2>. QED
    BY <1>1, <2>1
<1>4. seq = "Body" /\ handled > 0
  BY <1>3, Shapes, Streams DEF HttpInv, ChainOK, Held
<1>5. PICK o \in IF msg.hdr = "buffered" THEN WritesHeader(Out, FALSE) ELSE {Out} : Outcome(o)
  BY DEF MessageWriteable, OutcomeWith
<1>6. /\ Sound(Out) /\ Out.msg = msg /\ Out.lost = lost
      /\ Clean => Tracked(Out) /\ msg.req # 0
  BY <1>3, <1>4, OutHolds
<1>7. /\ Sound(o) /\ Kin(msg, o.msg) /\ o.lost = lost /\ o.msg.written = msg.written
      /\ Tracked(Out) /\ msg.req # 0 => Tracked(o)
      /\ msg.hdr # "buffered" => o.msg = msg
  <2>1. CASE msg.hdr = "buffered"
    BY <1>5, <1>6, <2>1, HeaderSound
  <2>2. CASE msg.hdr # "buffered"
    BY <1>5, <1>6, <2>2 DEF Kin
  <2>. QED
    BY <2>1, <2>2
<1>8. resp' \in Stages /\ left' \in Int
  BY <1>1 DEF HttpInv, Types, Stages
<1>9. /\ Types' /\ InputOK' /\ Framed(msg') /\ (msg'.hdr # "none" => persist' = msg'.kind.keep)
      /\ msg' = o.msg /\ msg'.read <= msg'.kind.body /\ (Clean' => Clean /\ ~o.lost)
      /\ Message \in Held' /\ (Clean' => Tracked(o)) => OutputOK'
  BY <1>1, <1>3, <1>4, <1>5, <1>7, <1>8, Wrote DEF Kin
<1>10. OutputOK'
  BY <1>3, <1>6, <1>7, <1>9
<1>11. MsgOK'
  <2>1. Message' = Message /\ Response' = Response /\ Transfer' = Transfer
    BY <1>1, Names
  <2>2. MsgOK
    BY DEF HttpInv
  <2>. QED
    BY <1>1, <1>3, <1>4, <1>7, <1>9, <2>1, <2>2 DEF MsgOK, Kin
<1>. QED
  BY <1>3, <1>9, <1>10, <1>11 DEF HttpInv

LEMMA MessageClosingEmptyKeeps ==
  ASSUME KindsAreGood, HttpInv, MessageClosingEmpty
  PROVE  HttpInv'
<1>1. /\ at = Message /\ UNCHANGED <<asked, inputVars, handled, resp, left, failed>>
      /\ UNCHANGED <<state, streams, fresh>> /\ D!ClosingWait /\ pc = "closing"
      /\ msg.hdr = "none"
  BY DEF MessageClosingEmpty, Gets, AddNone
<1>2. seq' = seq /\ at # Connection
  BY <1>1, Streams DEF inputVars
<1>3. ChainOK' /\ Held' = Held /\ Message \in Held /\ opened' = opened
  BY <1>1, <1>2, ClosingChain DEF HttpInv
<1>4. seq = "Body" /\ handled > 0 /\ Message \in opened /\ Response \notin Held
      /\ Transfer \notin Held
  BY <1>1, <1>3, Shapes, Streams DEF HttpInv, ChainOK, Held
<1>5. PICK o \in SimpleResponse(Out) : Outcome(o)
  BY DEF MessageClosingEmpty, OutcomeWith
<1>6. /\ Sound(Out) /\ Out.msg = msg /\ Out.lost = lost
      /\ Clean => Tracked(Out) /\ msg.req # 0
  BY <1>3, <1>4, OutHolds
<1>7. /\ Sound(o) /\ Kin(msg, o.msg) /\ (lost => o.lost) /\ o.msg.hdr # "none"
      /\ Tracked(Out) /\ msg.req # 0 => Tracked(o)
  BY <1>1, <1>5, <1>6, SimpleSound
<1>8. resp' \in Stages /\ left' \in Int
  BY <1>1 DEF HttpInv, Types, Stages
<1>9. /\ Types' /\ InputOK' /\ Framed(msg') /\ (msg'.hdr # "none" => persist' = msg'.kind.keep)
      /\ msg' = o.msg /\ msg'.read <= msg'.kind.body /\ (Clean' => Clean /\ ~o.lost)
      /\ Message \in Held' /\ (Clean' => Tracked(o)) => OutputOK'
  BY <1>1, <1>3, <1>4, <1>5, <1>7, <1>8, Wrote DEF Kin
<1>10. OutputOK'
  BY <1>3, <1>6, <1>7, <1>9
<1>11. MsgOK'
  <2>1. Message' = Message /\ Response' = Response /\ Transfer' = Transfer
    BY <1>1, Names
  <2>2. MsgOK
    BY DEF HttpInv
  <2>. QED
    BY <1>1, <1>3, <1>4, <1>7, <1>9, <2>1, <2>2 DEF MsgOK, Kin
<1>. QED
  BY <1>3, <1>9, <1>10, <1>11 DEF HttpInv

(* A message whose response is whole when it closes. *)
LEMMA CompleteWhen ==
  ASSUME NEW m \in MessageType, NEW c, Framed(m), Tracks(m, c), m.hdr = "sent", ~m.chunked,
         ContentLength(m) \in {-1, m.written}
  PROVE  Complete(m, c)
<1>1. /\ m.kind.len \in Nat /\ m.kind.keep \in BOOLEAN /\ ~Chunked(m)
      /\ ContentLength(m) \in Int
      /\ Framing(m).frame \in {"none", "length", "chunked", "close"}
      /\ Framing(m).frame = "length" => ContentLength(m) = m.kind.len
  BY MessageTypes, KindTypes DEF Framed
<1>2. CASE Framing(m).frame = "none"
  BY <1>2 DEF Tracks, Complete
<1>3. CASE Framing(m).frame = "length"
  <2>1. m.written = m.kind.len
    BY <1>1, <1>3
  <2>. QED
    BY <1>3, <2>1 DEF Tracks, Complete
<1>4. CASE Framing(m).frame = "chunked"
  BY <1>4 DEF Framing
<1>5. CASE Framing(m).frame = "close"
  <2>1. ~m.kind.keep
    BY <1>1, <1>5 DEF Framing, Chunked
  <2>. QED
    BY <1>5, <2>1 DEF Tracks, Complete
<1>. QED
  BY <1>1, <1>2, <1>3, <1>4, <1>5

LEMMA UnmetNone ==
  ASSUME NEW m, Unmet(m) = {}
  PROVE  /\ m.readable = m.read /\ (~m.chunked \/ m.remaining = 0)
         /\ ContentLength(m) \in {-1, m.written}
<1>1. m.readable = m.read
  BY Zenon DEF Unmet
<1>2. ~m.chunked \/ m.remaining = 0
  BY Zenon DEF Unmet
<1>3. ContentLength(m) \in {-1, m.written}
  BY Zenon DEF Unmet
<1>. QED
  BY <1>1, <1>2, <1>3

LEMMA MessageClosed ==
  ASSUME HttpInv, at = Message, D!ClosingOk, NEW o, Sound(o), Outcome(o), Kin(msg, o.msg),
         lost => o.lost, failed' = failed \cup Unmet(msg'), msg.hdr # "none",
         UNCHANGED <<asked, inputVars, handled, resp, left, state>>,
         Clean' => Complete(o.msg, o.client)
  PROVE  HttpInv'
<1>1. seq' = seq
  BY DEF inputVars
<1>2. /\ ChainOK' /\ Message \in Held /\ Held' = Held \ {Message}
      /\ opened' = opened \ {Message} /\ streams = <<Connection, Message>> /\ seq = "Body"
  BY <1>1, PopChain DEF HttpInv
<1>3. handled > 0 /\ Message \in opened /\ Held = {Connection, Message}
  BY <1>2, Shapes, Streams DEF HttpInv, ChainOK, MsgOK, Held
<1>4. resp' \in Stages /\ left' \in Int
  BY DEF HttpInv, Types, Stages
<1>5. /\ Types' /\ InputOK' /\ Framed(msg') /\ (msg'.hdr # "none" => persist' = msg'.kind.keep)
      /\ msg' = o.msg /\ msg'.read <= msg'.kind.body /\ (Clean' => Clean /\ ~o.lost)
  BY <1>2, <1>3, <1>4, Wrote DEF Kin
<1>6. Message' = Message /\ Response' = Response /\ Transfer' = Transfer
  BY Names
<1>7. MsgOK'
  BY <1>2, <1>3, <1>5, <1>6, Streams DEF MsgOK
<1>8. OutputOK'
  <2>1. ASSUME Clean' PROVE Complete(msg', client') /\ persist' = msg'.kind.keep
                            /\ msg'.read = msg'.kind.body
    <3>1. client' = o.client /\ msg' = o.msg /\ msg'.hdr # "none"
      BY DEF Outcome, Kin
    <3>2. Unmet(msg') = {}
      BY <2>1 DEF Clean
    <3>3. msg'.readable = msg'.read
      BY <3>2, UnmetNone
    <3>4. msg'.readable = msg'.kind.body
      BY <1>3, <3>1 DEF HttpInv, MsgOK, Kin
    <3>. QED
      BY <1>5, <2>1, <3>1, <3>3, <3>4
  <2>. QED
    BY <1>1, <1>2, <1>6, <2>1 DEF OutputOK
<1>. QED
  BY <1>2, <1>5, <1>7, <1>8 DEF HttpInv

LEMMA MessageClosingKeeps ==
  ASSUME KindsAreGood, HttpInv, MessageClosing
  PROVE  HttpInv'
<1>1. /\ at = Message /\ UNCHANGED <<asked, inputVars, handled, resp, left, state>>
      /\ D!ClosingOk /\ pc = "closing" /\ msg.hdr = "sent" /\ failed' = failed \cup Unmet(msg)
  BY DEF MessageClosing, Gets
<1>2. Message \in Held /\ seq = "Body"
  <2>1. seq' = seq
    BY <1>1 DEF inputVars
  <2>. QED
    BY <1>1, <2>1, PopChain DEF HttpInv
<1>3. handled > 0
  BY <1>2 DEF HttpInv, ChainOK
<1>4. /\ Sound(Out) /\ Out.msg = msg /\ Out.client = client /\ Out.lost = lost
      /\ msg \in MessageType /\ msg.chunked \in BOOLEAN
      /\ Clean => Tracked(Out) /\ msg.req # 0
  BY <1>2, <1>3, OutHolds, MessageTypes
<1>5. PICK o \in IF msg.chunked THEN WritesString(Out, TakeEnd(client), FALSE) ELSE {Out} :
        Outcome(o)
  BY DEF MessageClosing
<1>6. /\ Sound(o) /\ o.msg = msg /\ (lost => o.lost)
      /\ msg.chunked /\ Tracked(Out) /\ msg.req # 0 /\ msg.remaining = 0 /\ ~o.lost
           => Idle(o.client, msg.req)
  <2>1. CASE msg.chunked
    <3>1. /\ o \in OutType /\ o.msg = msg /\ o.persist = Out.persist /\ (lost => o.lost)
          /\ Tracked(Out) /\ msg.req # 0 /\ msg.remaining = 0 /\ ~o.lost
               => Idle(o.client, msg.req)
      BY <1>1, <1>4, <1>5, <2>1, EndTaken
    <3>2. Sound(o)
      BY <1>4, <3>1 DEF Sound
    <3>. QED
      BY <3>1, <3>2
  <2>2. CASE ~msg.chunked
    BY <1>4, <1>5, <2>2
  <2>. QED
    BY <2>1, <2>2
<1>7. msg' = msg /\ lost' = o.lost
  BY <1>5, <1>6 DEF Outcome
<1>8. ASSUME Clean' PROVE Complete(o.msg, o.client)
  <2>1. Unmet(msg) = {} /\ ~o.lost /\ Clean
    <3>1. Unmet(msg) = {} /\ ~o.lost /\ failed = {}
      BY <1>1, <1>7, <1>8 DEF Clean
    <3>. QED
      BY <1>6, <3>1 DEF Clean
  <2>2. (~msg.chunked \/ msg.remaining = 0) /\ ContentLength(msg) \in {-1, msg.written}
    BY <2>1, UnmetNone
  <2>3. CASE msg.chunked
    <3>1. Idle(o.client, msg.req)
      BY <1>4, <1>6, <2>1, <2>2, <2>3
    <3>. QED
      BY <1>6, <3>1 DEF Complete
  <2>4. CASE ~msg.chunked
    <3>1. Tracks(msg, client) /\ o = Out /\ Framed(msg)
      BY <1>4, <1>5, <2>1, <2>4 DEF Tracked, Sound, Clean
    <3>2. Complete(msg, client)
      BY <1>1, <1>4, <2>2, <2>4, <3>1, CompleteWhen
    <3>. QED
      BY <1>4, <3>1, <3>2
  <2>. QED
    BY <2>3, <2>4
<1>. QED
  BY <1>1, <1>4, <1>5, <1>6, <1>7, <1>8, MessageClosed DEF Kin

LEMMA MessageClosingLateKeeps ==
  ASSUME KindsAreGood, HttpInv, MessageClosingLate
  PROVE  HttpInv'
<1>1. /\ at = Message /\ UNCHANGED <<asked, inputVars, handled, resp, left, state>>
      /\ pc = "closing" /\ msg.hdr = "buffered"
  BY DEF MessageClosingLate, Gets
<1>2. PICK o \in WritesHeader(Out, FALSE) :
         \/ /\ \/ o.msg.hdr = "sent" /\ Outcome(o)
               \/ o.msg.hdr # "sent" /\ Outcome([o EXCEPT !.lost = TRUE])
            /\ failed' = failed \cup Unmet(o.msg)
            /\ D!ClosingOk
         \/ /\ o.msg.hdr # "sent" /\ OutcomeWith(o, interest)
            /\ AddNone /\ UNCHANGED <<buffered, failed>> /\ D!ClosingWait
  BY DEF MessageClosingLate
<1>3. at \in Held /\ Held = Range(streams) /\ streams \in Chains /\ at = D!Upper(streams)
  BY <1>1 DEF HttpInv, ChainOK, Held
<1>4. streams = <<Connection, Message>> /\ Held = {Connection, Message}
  BY <1>1, <1>3, Shapes, Streams
<1>5. seq = "Body" /\ handled > 0 /\ Message \in Held /\ seq' = seq /\ Message \in opened
  BY <1>1, <1>4, Shapes, Streams DEF HttpInv, ChainOK, inputVars, MsgOK
<1>6. /\ Sound(Out) /\ Out.msg = msg /\ Out.client = client /\ Out.lost = lost
      /\ Clean => Tracked(Out) /\ msg.req # 0
  BY <1>5, OutHolds
<1>7. /\ Sound(o) /\ Kin(msg, o.msg) /\ o.lost = lost /\ o.msg.written = msg.written
      /\ o.msg.remaining = msg.remaining /\ o.msg.chunked = msg.chunked
      /\ Tracked(Out) /\ msg.req # 0 => Tracked(o)
  BY <1>1, <1>2, <1>6, HeaderSound
<1>8. o.msg \in MessageType /\ Framed(o.msg) /\ o.msg.chunked \in BOOLEAN
  BY <1>7, MessageTypes DEF Sound, OutType
<1>9. CASE o.msg.hdr = "sent"
  <2>1. Outcome(o) /\ failed' = failed \cup Unmet(o.msg) /\ D!ClosingOk
    BY <1>2, <1>9
  <2>2. msg' = o.msg /\ lost' = o.lost
    BY <2>1 DEF Outcome
  <2>3. ASSUME Clean' PROVE Complete(o.msg, o.client)
    <3>1. Unmet(o.msg) = {} /\ ~o.lost /\ Clean
      BY <1>7, <2>1, <2>2, <2>3 DEF Clean
    <3>2. (~o.msg.chunked \/ o.msg.remaining = 0) /\ ContentLength(o.msg) \in {-1, o.msg.written}
      BY <3>1, UnmetNone
    <3>3. Tracks(o.msg, o.client)
      BY <1>6, <1>7, <3>1 DEF Tracked
    <3>4. ~o.msg.chunked
      <4>1. Tracks(msg, client)
        BY <1>6, <3>1 DEF Tracked, Clean
      <4>2. msg.remaining = IF msg.chunked THEN -1 ELSE 0
        BY <1>1, <4>1 DEF Tracks
      <4>. QED
        BY <1>7, <1>8, <3>2, <4>2
    <3>. QED
      BY <1>8, <1>9, <3>2, <3>3, <3>4, CompleteWhen
  <2>. QED
    BY <1>1, <1>7, <2>1, <2>2, <2>3, MessageClosed
<1>10. CASE /\ o.msg.hdr # "sent" /\ Outcome([o EXCEPT !.lost = TRUE])
            /\ failed' = failed \cup Unmet(o.msg) /\ D!ClosingOk
  <2>. DEFINE p == [o EXCEPT !.lost = TRUE]
  <2>1. Outcome(p) /\ failed' = failed \cup Unmet(o.msg)
    BY <1>10
  <2>2. /\ p \in OutType /\ p.msg = o.msg /\ p.lost = TRUE /\ p.persist = o.persist
    BY <1>7 DEF Sound, OutType
  <2>3. Sound(p)
    BY <1>7, <2>2 DEF Sound
  <2>. HIDE DEF p
  <2>4. msg' = o.msg /\ lost' = TRUE /\ ~Clean'
    BY <2>1, <2>2 DEF Outcome, Clean
  <2>. QED
    BY <1>1, <1>7, <1>10, <2>1, <2>2, <2>3, <2>4, MessageClosed
<1>11. CASE /\ o.msg.hdr # "sent" /\ OutcomeWith(o, interest)
            /\ AddNone /\ UNCHANGED <<buffered, failed>> /\ D!ClosingWait
  <2>1. Outcome(o) /\ AddNone /\ UNCHANGED failed /\ D!ClosingWait
    BY <1>11 DEF OutcomeWith
  <2>2. ChainOK' /\ Held' = Held /\ opened' = opened
    BY <1>1, <1>5, <2>1, ClosingChain, Streams DEF HttpInv, AddNone
  <2>3. resp' \in Stages /\ left' \in Int
    BY <1>1 DEF HttpInv, Types, Stages
  <2>4. /\ Types' /\ InputOK' /\ Framed(msg')
        /\ (msg'.hdr # "none" => persist' = msg'.kind.keep)
        /\ msg' = o.msg /\ msg'.read <= msg'.kind.body /\ (Clean' => Clean /\ ~o.lost)
        /\ Message \in Held' /\ (Clean' => Tracked(o)) => OutputOK'
    BY <1>1, <1>5, <1>7, <2>1, <2>3, Wrote DEF Kin
  <2>5. OutputOK'
    BY <1>5, <1>6, <1>7, <2>2, <2>4
  <2>6. Message' = Message /\ Response' = Response /\ Transfer' = Transfer
    BY <1>1, Names
  <2>7. MsgOK'
    BY <1>1, <1>4, <1>5, <1>7, <2>2, <2>4, <2>6, Streams DEF HttpInv, MsgOK, Kin
  <2>. QED
    BY <2>2, <2>4, <2>5, <2>7 DEF HttpInv
<1>. QED
  BY <1>2, <1>9, <1>10, <1>11

LEMMA ResponseWriteableKeeps ==
  ASSUME KindsAreGood, HttpInv, ResponseWriteable
  PROVE  HttpInv'
<1>1. /\ at = Response /\ UNCHANGED <<asked, inputVars, handled, left, failed>>
      /\ UNCHANGED <<state, streams, fresh>> /\ D!WriteableAnswered("Close")
      /\ pc = "writeable" /\ resp' \in Stages
  BY DEF ResponseWriteable, Gets, AddNone, Stages
<1>2. seq' = seq /\ at # Connection /\ at # Message
  BY <1>1, Streams DEF inputVars
<1>3. ChainOK' /\ Held' = Held /\ Response \in Held /\ opened' = opened
  <2>1. ChainOK' /\ Held' = Held /\ at \in Held
        /\ opened' = IF pc = "opening" THEN opened \cup {at} ELSE opened
    BY <1>1, <1>2, AnsweredChain DEF HttpInv
  <2>. QED
    BY <1>1, <2>1
<1>4. /\ seq = "Body" /\ handled > 0 /\ Message \in Held /\ Message \in opened
      /\ Transfer \notin Held
  BY <1>3, Shapes, Streams DEF HttpInv, ChainOK, Held
<1>5. msg.kind.target = "page"
  BY <1>3, <1>4 DEF HttpInv, MsgOK
<1>6. /\ Sound(Out) /\ Out.msg = msg /\ Out.lost = lost
      /\ Clean => Tracked(Out) /\ msg.req # 0
  BY <1>4, OutHolds
<1>7. PICK o : /\ Outcome(o)
               /\ \/ slow < MaxSlow /\ o = [Out EXCEPT !.slow = @ + 1]
                  \/ \E pieces \in 0..MaxPieces : o \in Page(pieces)
  BY DEF ResponseWriteable, OutcomeWith
<1>8. /\ Sound(o) /\ Kin(msg, o.msg) /\ (lost => o.lost)
      /\ Tracked(Out) /\ msg.req # 0 => Tracked(o)
  <2>1. CASE slow < MaxSlow /\ o = [Out EXCEPT !.slow = @ + 1]
    <3>1. slow + 1 \in 0..MaxSlow
      BY <2>1, HttpAssumption DEF HttpInv, Types
    <3>2. /\ o \in OutType /\ o.msg = msg /\ o.lost = lost /\ o.persist = Out.persist
          /\ o.client = Out.client
      BY <1>6, <2>1, <3>1 DEF Sound, OutType, Out
    <3>. QED
      BY <1>6, <3>2 DEF Sound, Tracked, Kin
  <2>2. CASE \E pieces \in 0..MaxPieces : o \in Page(pieces)
    <3>1. PICK pieces \in 0..MaxPieces : o \in Page(pieces)
      BY <2>2
    <3>2. pieces \in Nat
      OBVIOUS
    <3>. QED
      BY <1>5, <1>6, <3>1, <3>2, PageSound
  <2>. QED
    BY <1>7, <2>1, <2>2
<1>9. left' \in Int
  BY <1>1 DEF HttpInv, Types
<1>10. /\ Types' /\ InputOK' /\ Framed(msg') /\ (msg'.hdr # "none" => persist' = msg'.kind.keep)
       /\ msg' = o.msg /\ msg'.read <= msg'.kind.body /\ (Clean' => Clean /\ ~o.lost)
       /\ Message \in Held' /\ (Clean' => Tracked(o)) => OutputOK'
  BY <1>1, <1>4, <1>7, <1>8, <1>9, Wrote DEF Kin
<1>11. OutputOK'
  BY <1>3, <1>4, <1>6, <1>8, <1>10
<1>12. MsgOK'
  <2>1. Message' = Message /\ Response' = Response /\ Transfer' = Transfer
    BY <1>1, Names
  <2>2. MsgOK
    BY DEF HttpInv
  <2>. QED
    BY <1>1, <1>3, <1>4, <1>8, <1>10, <2>1, <2>2 DEF MsgOK, Kin
<1>. QED
  BY <1>3, <1>10, <1>11, <1>12 DEF HttpInv

LEMMA TransferWriteableKeeps ==
  ASSUME KindsAreGood, HttpInv, TransferWriteable
  PROVE  HttpInv'
<1>1. /\ at = Transfer /\ UNCHANGED <<asked, inputVars, handled, resp, failed>>
      /\ UNCHANGED <<state, streams, fresh>> /\ pc = "writeable"
  BY DEF TransferWriteable, Gets, AddNone
<1>2. seq' = seq /\ at # Connection /\ at # Message
  BY <1>1, Streams DEF inputVars
<1>3. ChainOK' /\ Held' = Held /\ Transfer \in Held /\ opened' = opened
  <2>1. PICK c \in {"Ok", "Wait", "Close"} : D!WriteableAnswered(c)
    BY DEF TransferWriteable
  <2>2. ChainOK' /\ Held' = Held /\ at \in Held
        /\ opened' = IF pc = "opening" THEN opened \cup {at} ELSE opened
    BY <1>1, <1>2, <2>1, AnsweredChain DEF HttpInv
  <2>. QED
    BY <1>1, <2>2
<1>4. /\ seq = "Body" /\ handled > 0 /\ Message \in Held /\ Message \in opened
      /\ Response \notin Held
  BY <1>3, Shapes, Streams DEF HttpInv, ChainOK, Held
<1>5. /\ msg.kind.target = "file" /\ msg.kind.method = "GET"
      /\ left = -1 \/ left + msg.written = msg.kind.len
  BY <1>3, <1>4 DEF HttpInv, MsgOK
<1>6. /\ Sound(Out) /\ Out.msg = msg /\ Out.lost = lost /\ msg \in MessageType
      /\ msg.written \in Nat /\ msg.kind.len \in Nat /\ left \in Int
      /\ Clean => Tracked(Out) /\ msg.req # 0
  BY <1>4, OutHolds, MessageTypes, KindTypes DEF HttpInv, Types
<1>7. PICK o : /\ Outcome(o)
               /\ \/ left = 0 /\ left' = -1 /\ o = Out
                  \/ /\ left # 0
                     /\ \E n \in 1..left : \E w \in Writes(Out, n, FALSE) :
                          left' = left - w[1] /\ o = w[2]
  BY DEF TransferWriteable, OutcomeWith
<1>8. /\ Sound(o) /\ Kin(msg, o.msg) /\ (lost => o.lost)
      /\ (Tracked(Out) /\ msg.req # 0 => Tracked(o))
      /\ left' \in Int /\ (left' = -1 \/ left' + o.msg.written = o.msg.kind.len)
  <2>1. CASE left = 0 /\ left' = -1 /\ o = Out
    BY <1>6, <2>1 DEF Kin
  <2>2. CASE \E n \in 1..left : \E w \in Writes(Out, n, FALSE) : left' = left - w[1] /\ o = w[2]
    <3>0. PICK n \in 1..left : \E w \in Writes(Out, n, FALSE) : left' = left - w[1] /\ o = w[2]
      BY <2>2
    <3>1. PICK w \in Writes(Out, n, FALSE) : left' = left - w[1] /\ o = w[2]
      BY <3>0
    <3>2. n \in Nat /\ n > 0 /\ n <= left /\ left + msg.written = msg.kind.len
      BY <1>5, <1>6, <3>1
    <3>3. ContentLength(msg) = msg.kind.len /\ HasBody(msg) /\ ~Chunked(msg)
      BY <1>5, <1>6 DEF ContentLength, HasBody, Chunked
    <3>4. Framing(msg).frame = "length"
      BY <1>5, <1>6, <3>3 DEF Framing
    <3>5. Takes(msg, n)
      BY <1>6, <3>2, <3>3, <3>4 DEF Takes
    <3>6. /\ w[1] \in 0..n /\ Sound(w[2]) /\ Kin(msg, w[2].msg)
          /\ (lost => w[2].lost) /\ w[2].msg.written = msg.written + w[1]
          /\ (Tracked(Out) /\ Takes(msg, n) /\ msg.req # 0 => Tracked(w[2]))
      BY <1>6, <3>1, <3>2, <3>3, WritesSound
    <3>. QED
      BY <1>6, <3>1, <3>2, <3>5, <3>6 DEF Kin
  <2>. QED
    BY <1>7, <2>1, <2>2
<1>9. resp' \in Stages
  BY <1>1 DEF HttpInv, Types, Stages
<1>10. /\ Types' /\ InputOK' /\ Framed(msg') /\ (msg'.hdr # "none" => persist' = msg'.kind.keep)
       /\ msg' = o.msg /\ msg'.read <= msg'.kind.body /\ (Clean' => Clean /\ ~o.lost)
       /\ Message \in Held' /\ (Clean' => Tracked(o)) => OutputOK'
  BY <1>1, <1>4, <1>7, <1>8, <1>9, Wrote DEF Kin
<1>11. OutputOK'
  BY <1>3, <1>4, <1>6, <1>8, <1>10
<1>12. MsgOK'
  <2>1. Message' = Message /\ Response' = Response /\ Transfer' = Transfer
    BY <1>1, Names
  <2>2. MsgOK
    BY DEF HttpInv
  <2>. QED
    BY <1>1, <1>3, <1>4, <1>5, <1>8, <1>10, <2>1, <2>2 DEF MsgOK, Kin
<1>. QED
  BY <1>3, <1>10, <1>11, <1>12 DEF HttpInv

LEMMA MessageOpeningKeeps ==
  ASSUME KindsAreGood, HttpInv, MessageOpening
  PROVE  HttpInv'
<1>. DEFINE opening == [Out EXCEPT !.msg.readable = msg.kind.body]
            served  == \/ msg.kind.target = "page"
                       \/ msg.kind.target = "file" /\ msg.kind.method = "GET"
<1>1. /\ at = Message /\ UNCHANGED <<asked, inputVars, handled, failed, state>>
      /\ pc = "opening" /\ at \notin opened
  BY DEF MessageOpening, Gets
<1>2. seq' = seq /\ at # Connection /\ Message \in Held
  BY <1>1, Streams DEF inputVars, HttpInv, ChainOK
<1>3. /\ seq = "Body" /\ handled > 0 /\ Response \notin Held /\ Transfer \notin Held
  <2>1. streams = <<Connection, Message>> /\ Held = {Connection, Message}
    BY <1>1, <1>2, Shapes, Streams DEF HttpInv, ChainOK, Held
  <2>. QED
    BY <2>1, Shapes, Streams DEF HttpInv, ChainOK, Held
<1>4. /\ Sound(Out) /\ Out.msg = msg /\ Out.lost = lost /\ msg \in MessageType
      /\ Out.client = client
      /\ Clean => Tracked(Out) /\ msg.req # 0
  BY <1>2, <1>3, OutHolds
<1>5. msg.hdr = "none" /\ msg.readable = -1 /\ msg.read = 0 /\ msg.written = 0
  BY <1>1, <1>2, <1>3 DEF HttpInv, MsgOK
<1>6. msg.kind.body \in Nat /\ msg.kind.len \in Nat
  BY <1>4, MessageTypes, KindTypes
<1>7. /\ Sound(opening) /\ opening.lost = lost /\ opening.msg.hdr = "none"
      /\ opening.msg = [msg EXCEPT !.readable = msg.kind.body]
      /\ Tracked(Out) => Tracked(opening)
  <2>. DEFINE m == [msg EXCEPT !.readable = msg.kind.body]
  <2>1. m \in MessageType
    BY <1>4, <1>6 DEF MessageType
  <2>2. opening = [Out EXCEPT !.msg = m]
    BY <1>4 DEF Sound, OutType
  <2>3. /\ m.hdr = msg.hdr /\ m.chunked = msg.chunked /\ m.written = msg.written
        /\ m.remaining = msg.remaining /\ m.kind = msg.kind /\ m.req = msg.req
    BY <1>4 DEF MessageType
  <2>. HIDE DEF m, opening
  <2>4. /\ opening \in OutType /\ opening.msg = m /\ opening.lost = lost
        /\ opening.client = Out.client /\ opening.persist = Out.persist
    BY <1>4, <2>1, <2>2 DEF Sound, OutType
  <2>5. Framed(m)
    BY <1>4, <2>3 DEF Sound, Framed, Chunked, HasBody, ContentLength
  <2>6. ASSUME Tracks(msg, client) PROVE Tracks(m, client)
    BY <1>5, <2>3, <2>6 DEF Tracks
  <2>7. Tracked(Out) => Tracked(opening)
    BY <1>4, <2>4, <2>6 DEF Tracked
  <2>8. Sound(opening)
    BY <1>5, <2>3, <2>4, <2>5 DEF Sound
  <2>. QED
    BY <1>5, <2>3, <2>4, <2>7, <2>8 DEF m
<1>8. opening.msg.req = msg.req /\ opening.msg.kind = msg.kind /\ opening.msg.read = msg.read
      /\ opening.msg.alien = msg.alien /\ opening.msg.readable = msg.kind.body
      /\ opening.msg.written = 0
  BY <1>4, <1>5, <1>6, <1>7 DEF MessageType
<1>9. PICK o \in SimpleResponse(opening) \cup {opening} :
         /\ Outcome(o)
         /\ \/ /\ served /\ o = opening
               /\ IF msg.kind.target = "page"
                  THEN AddStream(Response) /\ resp' = "Start" /\ left' = left
                  ELSE AddStream(Transfer) /\ left' = msg.kind.len /\ resp' = resp
               /\ D!OpeningAnswered("Ok")
            \/ /\ ~served /\ AddNone /\ UNCHANGED <<resp, left>> /\ D!OpeningAnswered("Close")
  BY DEF MessageOpening, OutcomeWith
<1>. HIDE DEF opening, served
<1>10. /\ Sound(o) /\ (lost => o.lost) /\ (o = opening \/ Kin(opening.msg, o.msg))
       /\ (Tracked(Out) /\ msg.req # 0 => Tracked(o))
  <2>1. CASE o = opening
    BY <1>7, <2>1
  <2>2. CASE o \in SimpleResponse(opening)
    BY <1>7, <1>8, <2>2, SimpleSound
  <2>. QED
    BY <1>9, <2>1, <2>2
<1>11. /\ o.msg.req = msg.req /\ o.msg.kind = msg.kind /\ o.msg.read = msg.read
       /\ o.msg.alien = msg.alien /\ o.msg.readable = msg.kind.body
  BY <1>8, <1>10 DEF Kin
<1>12. resp' \in Stages /\ left' \in Int
  BY <1>6, <1>9 DEF HttpInv, Types, Stages
<1>13. /\ Types' /\ InputOK' /\ Framed(msg') /\ (msg'.hdr # "none" => persist' = msg'.kind.keep)
       /\ msg' = o.msg /\ msg'.read <= msg'.kind.body /\ (Clean' => Clean /\ ~o.lost)
       /\ Message \in Held' /\ (Clean' => Tracked(o)) => OutputOK'
  BY <1>1, <1>2, <1>3, <1>9, <1>10, <1>11, <1>12, Wrote
<1>14. /\ ChainOK' /\ opened' = opened \cup {Message} /\ Message \in Held'
       /\ Response \in Held' => msg.kind.target = "page"
       /\ Transfer \in Held' => /\ msg.kind.target = "file" /\ msg.kind.method = "GET"
                                /\ left' = msg.kind.len /\ o = opening
  <2>1. CASE ~served
    <3>1. AddNone /\ D!OpeningAnswered("Close")
      BY <1>9, <2>1
    <3>2. ChainOK' /\ Held' = Held /\ opened' = IF pc = "opening" THEN opened \cup {at} ELSE opened
      BY <1>1, <1>2, <3>1, AnsweredChain DEF HttpInv, AddNone
    <3>. QED
      BY <1>1, <1>2, <1>3, <3>2
  <2>2. CASE served
    <3>1. /\ IF msg.kind.target = "page" THEN AddStream(Response)
             ELSE AddStream(Transfer) /\ left' = msg.kind.len
          /\ D!OpeningAnswered("Ok") /\ o = opening
      BY <1>9, <2>2
    <3>2. /\ ChainOK' /\ opened' = opened \cup {at} /\ Message \in Held'
          /\ (Response \in Held' => at # Message \/ AddStream(Response))
          /\ (Transfer \in Held' => at = Message /\ AddStream(Transfer))
      BY <1>1, <1>2, <3>1, OpenedChain DEF HttpInv
    <3>3. ~(AddStream(Response) /\ AddStream(Transfer))
      <4>1. streams = <<Connection, Message>>
        BY <1>1, <1>2 DEF HttpInv, ChainOK
      <4>2. Append(streams, Response) # Append(streams, Transfer)
        BY <4>1, Streams
      <4>. QED
        BY <4>2 DEF AddStream
    <3>4. msg.kind.target # "page" => msg.kind.target = "file" /\ msg.kind.method = "GET"
      BY <2>2 DEF served
    <3>. QED
      BY <1>1, <3>1, <3>2, <3>3, <3>4
  <2>. QED
    BY <2>1, <2>2
<1>15. OutputOK'
  BY <1>4, <1>10, <1>13, <1>14
<1>16. MsgOK'
  <2>1. Message' = Message /\ Response' = Response /\ Transfer' = Transfer
    BY <1>1, Names
  <2>. QED
    BY <1>6, <1>8, <1>11, <1>13, <1>14, <2>1 DEF MsgOK
<1>. QED
  BY <1>13, <1>14, <1>15, <1>16 DEF HttpInv

-----------------------------------------------------------------------------
(* The handlers that neither write nor read. *)
LEMMA OpenedOnly ==
  ASSUME HttpInv, D!OpeningAnswered("Ok"), AddNone, UNCHANGED <<state, ownVars>>, at # Message
  PROVE  HttpInv'
<1>1. UNCHANGED <<streams, fresh, seq, handled>>
  BY DEF AddNone, ownVars, inputVars, outputVars
<1>2. pc = "opening"
  BY DEF D!OpeningAnswered
<1>3. ChainOK' /\ Held' = Held /\ opened' = IF pc = "opening" THEN opened \cup {at} ELSE opened
  BY <1>1, AnsweredChain DEF HttpInv
<1>4. SameAbove
  BY <1>1, <1>2, <1>3 DEF SameAbove
<1>. QED
  BY <1>3, <1>4, OwnWhole DEF HttpInv

LEMMA ResponseOpeningKeeps ==
  ASSUME HttpInv, ResponseOpening
  PROVE  HttpInv'
<1>1. /\ at = Response /\ resp' \in Stages /\ D!OpeningAnswered("Ok") /\ pc = "opening"
      /\ UNCHANGED <<asked, inputVars, persist, handled, msg, left, client, slow, lost, failed>>
      /\ UNCHANGED state /\ (AddNone \/ AddStream(Reader))
  BY DEF ResponseOpening, Gets, Stages
<1>2. seq' = seq /\ at # Message /\ at # Connection
  BY <1>1, Streams DEF inputVars
<1>3. ChainOK' /\ SameAbove
  <2>1. CASE AddNone
    <3>1. ChainOK' /\ Held' = Held
          /\ opened' = IF pc = "opening" THEN opened \cup {at} ELSE opened
      BY <1>1, <1>2, <2>1, AnsweredChain DEF HttpInv, AddNone
    <3>. QED
      BY <1>1, <1>2, <3>1 DEF SameAbove
  <2>2. CASE AddStream(Reader)
    <3>1. /\ ChainOK' /\ opened' = opened \cup {at} /\ Message \in Held /\ Message \in Held'
          /\ (Transfer \in Held' => at = Message)
      BY <1>1, <1>2, <2>2, OpenedChain DEF HttpInv
    <3>2. Response \in Held
      BY <1>1 DEF HttpInv, ChainOK
    <3>. QED
      BY <1>1, <1>2, <3>1, <3>2 DEF SameAbove
  <2>. QED
    BY <1>1, <2>1, <2>2
<1>. QED
  BY <1>1, <1>3, OwnSame DEF HttpInv

LEMMA ResponseClosingKeeps ==
  ASSUME HttpInv, ResponseClosing
  PROVE  HttpInv'
<1>1. /\ at = Response /\ resp' \in Stages
      /\ UNCHANGED <<asked, inputVars, persist, handled, msg, left, client, slow, lost, failed>>
      /\ (UNCHANGED state /\ D!ClosingOk) \/ (AddNone /\ D!ClosingCancelled)
  BY DEF ResponseClosing, Gets, Stages, HttpInv, Types
<1>2. seq' = seq /\ at # Message /\ at # Connection
  BY <1>1, Streams DEF inputVars
<1>3. ChainOK' /\ SameAbove
  <2>1. CASE UNCHANGED state /\ D!ClosingOk
    <3>1. ChainOK' /\ Held' = Held \ {at} /\ opened' = opened \ {at}
      BY <1>1, <1>2, <2>1, PopChain DEF HttpInv
    <3>. QED
      BY <1>1, <1>2, <3>1 DEF SameAbove
  <2>2. CASE AddNone /\ D!ClosingCancelled
    <3>1. ChainOK' /\ Held' = Held /\ opened' = opened
      BY <1>1, <1>2, <2>2, ClosingChain DEF HttpInv, AddNone
    <3>. QED
      BY <1>1, <3>1 DEF SameAbove
  <2>. QED
    BY <1>1, <2>1, <2>2
<1>. QED
  BY <1>1, <1>3, OwnSame DEF HttpInv

LEMMA AboveClosingKeeps ==
  ASSUME HttpInv, AboveClosing
  PROVE  HttpInv'
<1>1. at \in {Reader, Transfer} /\ UNCHANGED <<state, ownVars>> /\ D!ClosingOk
  BY DEF AboveClosing, Gets
<1>2. seq' = seq /\ handled' = handled /\ at # Message
  BY <1>1, Streams DEF ownVars, inputVars, outputVars
<1>3. ChainOK' /\ Held' = Held \ {at} /\ opened' = opened \ {at}
  BY <1>1, <1>2, PopChain DEF HttpInv
<1>4. SameAbove
  BY <1>2, <1>3 DEF SameAbove
<1>. QED
  BY <1>1, <1>3, <1>4, OwnWhole DEF HttpInv

LEMMA OpeningKeeps ==
  ASSUME HttpInv, ConnectionOpening \/ AboveOpening
  PROVE  HttpInv'
<1>1. /\ at \in {Connection, Reader, Transfer} /\ D!OpeningAnswered("Ok") /\ AddNone
      /\ UNCHANGED <<state, ownVars>>
  BY DEF ConnectionOpening, AboveOpening, Gets
<1>2. at # Message
  BY <1>1, Streams
<1>. QED
  BY <1>1, <1>2, OpenedOnly

(* The steps of dispatch() itself, and of the job of the file. *)
LEMMA QuietKeeps ==
  ASSUME HttpInv, Dispatch \/ DispatchGone \/ SourceReady \/ Quiet
  PROVE  HttpInv'
<1>1. UNCHANGED ownVars
  BY DEF Dispatch, DispatchGone, SourceReady, Quiet
<1>2. UNCHANGED <<seq, handled>>
  BY <1>1 DEF ownVars, inputVars, outputVars
<1>3. ChainOK' /\ SameAbove
  <2>1. CASE D!Advance
    BY <1>1, <2>1, AdvanceChain DEF HttpInv
  <2>2. CASE \/ D!Dispatch \/ D!DispatchGone \/ D!EnabledFromOutside
             \/ D!Pass \/ D!OpeningSkip \/ D!ReadableSkip \/ D!WriteableSkip
             \/ D!EndPass \/ D!EndLoop
    <3>1. ChainOK' /\ UNCHANGED <<state, streams, opened>>
      BY <1>2, <2>2, QuietStill DEF HttpInv
    <3>2. Held' = Held
      BY <3>1 DEF Held
    <3>. QED
      BY <1>2, <3>1, <3>2 DEF SameAbove
  <2>. QED
    BY <2>1, <2>2 DEF Dispatch, DispatchGone, SourceReady, Quiet
<1>. QED
  BY <1>1, <1>3, OwnWhole DEF HttpInv

LEMMA StutterKeeps ==
  ASSUME HttpInv, UNCHANGED httpVars
  PROVE  HttpInv'
<1>1. UNCHANGED ownVars /\ UNCHANGED desVars
  BY DEF httpVars
<1>2. UNCHANGED <<seq, handled>>
  BY <1>1 DEF ownVars, inputVars, outputVars
<1>3. ChainOK' /\ UNCHANGED <<state, streams, opened>>
  BY <1>1, <1>2, QuietStill DEF HttpInv
<1>4. SameAbove
  BY <1>2, <1>3 DEF SameAbove, Held
<1>. QED
  BY <1>1, <1>3, <1>4, OwnWhole DEF HttpInv

-----------------------------------------------------------------------------
(* The input as a sequence of units. *)
LEMMA LeastIs ==
  ASSUME NEW T, T \subseteq Nat, T # {}
  PROVE  Min(T) \in T /\ \A j \in T : Min(T) <= j
<1>1. \E i \in T : \A j \in T : i <= j
  BY Least
<1>. QED
  BY <1>1 DEF Min

LEMMA GreatestIs ==
  ASSUME NEW n \in Nat, NEW T, T \subseteq 0..n, T # {}
  PROVE  Max(T) \in T /\ \A j \in T : Max(T) >= j
<1>. DEFINE R == {k \in 0..n : n - k \in T}
<1>1. R \subseteq Nat /\ R # {}
  <2>1. PICK j \in T : TRUE
    OBVIOUS
  <2>2. n - j \in 0..n /\ n - (n - j) = j
    BY <2>1
  <2>. QED
    BY <2>1, <2>2
<1>. HIDE DEF R
<1>2. PICK k \in R : \A j \in R : k <= j
  BY <1>1, Least
<1>3. n - k \in T /\ k \in 0..n
  BY <1>2 DEF R
<1>4. ASSUME NEW j \in T PROVE n - k >= j
  <2>1. n - j \in 0..n /\ n - (n - j) = j
    BY <1>4
  <2>2. n - j \in R
    BY <2>1 DEF R
  <2>. QED
    BY <1>2, <1>3, <2>1, <2>2
<1>5. \E i \in T : \A j \in T : i >= j
  BY <1>3, <1>4
<1>. QED
  BY <1>5 DEF Max

LEMMA TextParts ==
  ASSUME Types
  PROVE  /\ Text \in Seq(Units) /\ Len(Text) = Len(linebuf) + Len(wire)
         /\ Len(linebuf) \in Nat /\ Len(wire) \in Nat
         /\ \A i \in 1..Len(linebuf) : Text[i] = linebuf[i]
         /\ \A i \in 1..Len(wire) : Text[Len(linebuf) + i] = wire[i]
<1>1. linebuf \in Seq(Units) /\ wire \in Seq(Units)
  BY DEF Types
<1>. HIDE DEF Units
<1>2. /\ linebuf \o wire \in Seq(Units)
      /\ Len(linebuf \o wire) = Len(linebuf) + Len(wire)
      /\ \A i \in 1..Len(linebuf) : (linebuf \o wire)[i] = linebuf[i]
      /\ \A i \in Len(linebuf) + 1..Len(linebuf) + Len(wire) :
           (linebuf \o wire)[i] = wire[i - Len(linebuf)]
  BY <1>1, ConcatProperties
<1>3. Len(linebuf) \in Nat /\ Len(wire) \in Nat
  BY <1>1
<1>4. ASSUME NEW i \in 1..Len(wire) PROVE Text[Len(linebuf) + i] = wire[i]
  <2>1. /\ Len(linebuf) + i \in Len(linebuf) + 1..Len(linebuf) + Len(wire)
        /\ Len(linebuf) + i - Len(linebuf) = i
    BY <1>3
  <2>. QED
    BY <1>2, <2>1 DEF Text
<1>. QED
  BY <1>2, <1>3, <1>4 DEF Text

(* The first k units of text are taken: of what is in the buffer, or of that with
   what has been received. *)
Taken(text, k) ==
  /\ (text = linebuf /\ wire' = wire) \/ (text = Text /\ wire' = <<>>)
  /\ k \in 0..Len(text) /\ linebuf' = SubSeq(text, k + 1, Len(text))

LEMMA TakenText ==
  ASSUME Types, NEW text, NEW k, Taken(text, k)
  PROVE  /\ linebuf' \in Seq(Units) /\ wire' \in Seq(Units) /\ k \in 0..Len(Text)
         /\ text \in Seq(Units) /\ Len(text) <= Len(Text) /\ k \in Nat
         /\ \A j \in 1..Len(text) : text[j] = Text[j]
         /\ Text' \in Seq(Units) /\ Len(Text') = Len(Text) - k
         /\ \A j \in 1..Len(Text) - k : Text'[j] = Text[k + j]
<1>1. /\ linebuf \in Seq(Units) /\ wire \in Seq(Units) /\ Text \in Seq(Units)
      /\ Len(Text) = Len(linebuf) + Len(wire) /\ Len(linebuf) \in Nat /\ Len(wire) \in Nat
      /\ \A j \in 1..Len(linebuf) : Text[j] = linebuf[j]
      /\ \A j \in 1..Len(wire) : Text[Len(linebuf) + j] = wire[j]
  BY TextParts DEF Types
<1>. HIDE DEF Units
<1>2. text \in Seq(Units) /\ Len(text) \in Nat /\ k \in 0..Len(text)
      /\ linebuf' = SubSeq(text, k + 1, Len(text))
  BY <1>1 DEF Taken
<1>3. /\ linebuf' \in Seq(Units) /\ Len(linebuf') = Len(text) - k
      /\ \A j \in 1..Len(text) - k : linebuf'[j] = text[k + j]
  <2>1. \A i \in k + 1..Len(text) : text[i] \in Units
    <3>1. \A i \in k + 1..Len(text) : i \in 1..Len(text)
      BY <1>2
    <3>2. \A i \in 1..Len(text) : text[i] \in Units
      BY <1>2
    <3>. QED
      BY <3>1, <3>2
  <2>2. /\ SubSeq(text, k + 1, Len(text)) \in Seq(Units)
        /\ Len(SubSeq(text, k + 1, Len(text)))
             = IF k + 1 <= Len(text) THEN Len(text) - (k + 1) + 1 ELSE 0
        /\ \A i \in 1..Len(text) - (k + 1) + 1 :
             SubSeq(text, k + 1, Len(text))[i] = text[k + 1 + i - 1]
    <3>1. k + 1 \in Int /\ Len(text) \in Int
      BY <1>2
    <3>. QED
      BY <2>1, <3>1, SubSeqProperties
  <2>3. Len(linebuf') = Len(text) - k
    BY <1>2, <2>2
  <2>4. ASSUME NEW j \in 1..Len(text) - k PROVE linebuf'[j] = text[k + j]
    <3>1. j \in 1..Len(text) - (k + 1) + 1 /\ k + 1 + j - 1 = k + j
      BY <1>2
    <3>. QED
      BY <1>2, <2>2, <3>1
  <2>. QED
    BY <1>2, <2>2, <2>3, <2>4
<1>4. CASE text = Text /\ wire' = <<>>
  <2>1. Text' = linebuf'
    BY <1>3, <1>4, ConcatEmptySeq DEF Text
  <2>2. wire' \in Seq(Units)
    BY <1>4
  <2>3. Len(text) = Len(Text) /\ \A j \in 1..Len(text) : text[j] = Text[j]
    BY <1>4
  <2>4. \A j \in 1..Len(Text) - k : Text'[j] = Text[k + j]
    BY <1>3, <1>4, <2>1
  <2>5. Len(Text') = Len(Text) - k /\ Text' \in Seq(Units)
    BY <1>3, <2>1, <2>3
  <2>. QED
    BY <1>2, <1>3, <2>2, <2>3, <2>4, <2>5
<1>5. CASE text = linebuf /\ wire' = wire
  <2>. DEFINE p == linebuf'
              m == Len(linebuf) - k
  <2>1. Text' = p \o wire
    BY <1>5 DEF Text
  <2>2. /\ p \in Seq(Units) /\ Len(p) = m /\ m \in Nat
        /\ \A j \in 1..m : p[j] = linebuf[k + j]
    BY <1>2, <1>3, <1>5
  <2>. HIDE DEF p
  <2>3. /\ p \o wire \in Seq(Units) /\ Len(p \o wire) = Len(p) + Len(wire)
        /\ \A i \in 1..Len(p) + Len(wire) :
             (p \o wire)[i] = IF i <= Len(p) THEN p[i] ELSE wire[i - Len(p)]
    BY <1>1, <2>2, ConcatProperties
  <2>4. ASSUME NEW j \in 1..Len(Text) - k PROVE Text'[j] = Text[k + j]
    <3>1. j \in 1..Len(p) + Len(wire)
      BY <1>1, <1>2, <2>2
    <3>2. CASE j <= m
      <4>1. j \in 1..m /\ k + j \in 1..Len(linebuf)
        BY <1>1, <1>2, <2>2, <3>2
      <4>. QED
        BY <1>1, <2>1, <2>2, <2>3, <3>1, <4>1
    <3>3. CASE j > m
      <4>1. j - m \in 1..Len(wire) /\ Len(linebuf) + (j - m) = k + j
        BY <1>1, <1>2, <2>2, <3>3
      <4>2. Text'[j] = wire[j - m]
        BY <1>1, <2>1, <2>2, <2>3, <3>1, <3>3
      <4>3. Text[Len(linebuf) + (j - m)] = wire[j - m]
        BY <1>1, <4>1
      <4>. QED
        BY <4>1, <4>2, <4>3
    <3>. QED
      BY <1>1, <1>2, <2>2, <3>2, <3>3
  <2>5. Len(Text') = Len(Text) - k /\ Text' \in Seq(Units)
    BY <1>1, <1>2, <2>1, <2>2, <2>3
  <2>6. p \in Seq(Units) /\ wire' \in Seq(Units) /\ Len(text) <= Len(Text)
        /\ k \in 0..Len(Text)
    BY <1>1, <1>2, <1>5, <2>2
  <2>. QED
    BY <1>1, <1>2, <1>5, <2>4, <2>5, <2>6 DEF p
<1>. QED
  BY <1>4, <1>5 DEF Taken

LEMMA TakenFollows ==
  ASSUME Types, NEW text, NEW k, Taken(text, k), Follows(Text), UNCHANGED <<asked, unsent>>
  PROVE  /\ Follows(Text)'
         /\ NextIn' = IF k = 0 THEN NextIn ELSE Follower(text[k])
<1>. DEFINE p == Text'
            q == Text
<1>1. /\ p \in Seq(Units) /\ q \in Seq(Units) /\ k \in 0..Len(q) /\ Len(p) = Len(q) - k
      /\ Len(q) \in Nat /\ Len(p) \in Nat
      /\ \A j \in 1..Len(q) - k : p[j] = q[k + j]
  <2>1. /\ p \in Seq(Units) /\ q \in Seq(Units) /\ k \in 0..Len(q) /\ Len(p) = Len(q) - k
        /\ \A j \in 1..Len(q) - k : p[j] = q[k + j]
    BY TakenText, TextParts
  <2>. HIDE DEF p, q, Units
  <2>. QED
    BY <2>1
<1>2. k # 0 => text[k] = q[k]
  BY TakenText DEF Taken
<1>3. /\ \A n \in 1..Len(q) - 1 : q[n + 1] = Follower(q[n])
      /\ q # <<>> => unsent = Follower(q[Len(q)])
  BY DEF Follows
<1>4. \A u : Follower(u)' = Follower(u)
  BY DEF Follower
<1>5. NextIn' = (IF p = <<>> THEN unsent ELSE p[1]) /\ NextIn = IF q = <<>> THEN unsent ELSE q[1]
  BY DEF NextIn
<1>6. Follows(Text)' = /\ \A n \in 1..Len(p) - 1 : p[n + 1] = Follower(p[n])
                       /\ p # <<>> => unsent = Follower(p[Len(p)])
  BY <1>4 DEF Follows, Follower
<1>. HIDE DEF p, q, Units
<1>7. (p = <<>> <=> Len(p) = 0) /\ (q = <<>> <=> Len(q) = 0)
  BY <1>1
<1>8. ASSUME NEW n \in 1..Len(p) - 1 PROVE p[n + 1] = Follower(p[n])
  <2>1. /\ k + n \in 1..Len(q) - 1 /\ n \in 1..Len(q) - k /\ n + 1 \in 1..Len(q) - k
        /\ k + (n + 1) = (k + n) + 1
    BY <1>1
  <2>. QED
    BY <1>1, <1>3, <2>1
<1>9. ASSUME p # <<>> PROVE unsent = Follower(p[Len(p)])
  <2>1. Len(p) \in 1..Len(q) - k /\ k + Len(p) = Len(q) /\ q # <<>>
    BY <1>1, <1>7, <1>9
  <2>. QED
    BY <1>1, <1>3, <2>1
<1>10. CASE k = 0
  <2>1. p # <<>> => p[1] = q[1]
    <3>1. p # <<>> => 1 \in 1..Len(q) - k /\ k + 1 = 1
      BY <1>1, <1>7, <1>10
    <3>. QED
      BY <1>1, <3>1
  <2>2. (p = <<>>) <=> (q = <<>>)
    BY <1>1, <1>7, <1>10
  <2>. QED
    BY <1>5, <1>6, <1>8, <1>9, <1>10, <2>1, <2>2
<1>11. CASE k # 0
  <2>1. CASE p = <<>>
    <3>1. k = Len(q) /\ q # <<>>
      BY <1>1, <1>7, <1>11, <2>1
    <3>. QED
      BY <1>2, <1>3, <1>5, <1>6, <1>8, <1>9, <1>11, <2>1, <3>1
  <2>2. CASE p # <<>>
    <3>1. 1 \in 1..Len(q) - k /\ k \in 1..Len(q) - 1
      BY <1>1, <1>7, <1>11, <2>2
    <3>2. p[1] = q[k + 1] /\ q[k + 1] = Follower(q[k])
      BY <1>1, <1>3, <3>1
    <3>. QED
      BY <1>2, <1>5, <1>6, <1>8, <1>9, <1>11, <2>2, <3>2
  <2>. QED
    BY <2>1, <2>2
<1>. QED
  BY <1>10, <1>11

(* The units of one request come one after the other. *)
LEMMA Run ==
  ASSUME NEW q \in Seq(Units), NEW r \in Nat, NEW i \in Nat \ {0}, asked \in [Requests -> Kinds],
         \A n \in 1..Len(q) - 1 : q[n + 1] = Follower(q[n]), q # <<>> => q[1] = <<r, i>>,
         NEW j \in 1..Len(q), i + j - 1 <= asked[r].lead + 2 + asked[r].body
  PROVE  q[j] = <<r, i + j - 1>> /\ r \in Requests
<1>. DEFINE B == asked[r].lead + 2 + asked[r].body
            T == {m \in 1..Len(q) : i + m - 1 <= B /\ q[m] # <<r, i + m - 1>>}
<1>1. Len(q) \in Nat /\ Len(q) >= 1 /\ q # <<>> /\ 1 \in 1..Len(q)
  OBVIOUS
<1>2. r \in Requests
  <2>1. q[1] \in Units /\ q[1] = <<r, i>>
    BY <1>1
  <2>2. q[1][1] \in Requests
    BY <2>1 DEF Units
  <2>. QED
    BY <2>1, <2>2
<1>3. B \in Nat
  BY <1>2, HttpAssumption
<1>. HIDE DEF B
<1>4. T = {}
  <2>. SUFFICES ASSUME T # {} PROVE FALSE
    OBVIOUS
  <2>1. T \subseteq Nat
    OBVIOUS
  <2>2. PICK m \in T : \A n \in T : m <= n
    <3>. HIDE DEF T
    <3>. QED
      BY <2>1, Least
  <2>3. m \in 1..Len(q) /\ i + m - 1 <= B /\ q[m] # <<r, i + m - 1>>
    BY <2>2
  <2>4. m # 1
    BY <1>1, <2>3
  <2>5. /\ m - 1 \in 1..Len(q) - 1 /\ m - 1 \in 1..Len(q) /\ m - 1 \notin T
        /\ i + (m - 1) - 1 <= B /\ (m - 1) + 1 = m
    <3>1. m - 1 \notin T
      <4>. HIDE DEF T
      <4>. QED
        BY <2>2, <2>3
    <3>. HIDE DEF T
    <3>. QED
      BY <1>1, <1>3, <2>3, <2>4, <3>1
  <2>6. q[m - 1] = <<r, i + (m - 1) - 1>>
    BY <2>5
  <2>7. q[m] = Follower(q[m - 1])
    BY <2>5
  <2>8. Follower(<<r, i + (m - 1) - 1>>) = <<r, i + m - 1>>
    <3>1. i + (m - 1) - 1 < B /\ i + (m - 1) - 1 + 1 = i + m - 1
      BY <1>3, <2>3
    <3>. QED
      BY <3>1 DEF Follower, B
  <2>. QED
    BY <2>3, <2>6, <2>7, <2>8
<1>5. j \notin T
  BY <1>4
<1>. QED
  BY <1>2, <1>5 DEF B

-----------------------------------------------------------------------------
(* What the client does. *)
LEMMA ClientEndsKeeps ==
  ASSUME HttpInv, ClientEnds
  PROVE  HttpInv'
<1>1. /\ eof' = TRUE /\ UNCHANGED <<asked, unsent, wire, linebuf, seq, request, outputVars, desVars>>
  BY DEF ClientEnds
<1>2. UNCHANGED <<persist, handled, msg, resp, left, client, slow, lost, failed>>
  BY <1>1 DEF outputVars
<1>3. ChainOK' /\ UNCHANGED <<state, streams, opened>>
  BY <1>1, <1>2, QuietStill DEF HttpInv
<1>4. SameAbove
  BY <1>2, <1>3 DEF SameAbove, Held
<1>5. MsgOK' /\ OutputOK'
  BY <1>1, <1>2, <1>4, OwnRest
<1>6. Types'
  BY <1>1, <1>2 DEF HttpInv, Types
<1>7. InputOK'
  <2>1. Clean' => Clean
    BY <1>2 DEF Clean
  <2>. QED
    BY <1>1, <1>2, <2>1, SameInput
<1>. QED
  BY <1>3, <1>5, <1>6, <1>7 DEF HttpInv

LEMMA FollowerType ==
  ASSUME Types, NEW u \in Units
  PROVE  Follower(u) \in Nat \X Nat
<1>1. u[1] \in Nat /\ u[2] \in Nat
  BY DEF Units
<1>. QED
  BY <1>1 DEF Follower

LEMMA ArriveKeeps ==
  ASSUME HttpInv, Arrive
  PROVE  HttpInv'
<1>1. /\ unsent[1] \in Requests /\ wire' = Append(wire, unsent) /\ unsent' = Follower(unsent)
      /\ UNCHANGED <<asked, eof, linebuf, seq, request, outputVars, desVars>>
  BY DEF Arrive
<1>2. UNCHANGED <<persist, handled, msg, resp, left, client, slow, lost, failed>>
  BY <1>1 DEF outputVars
<1>3. ChainOK' /\ UNCHANGED <<state, streams, opened>>
  BY <1>1, <1>2, QuietStill DEF HttpInv
<1>4. SameAbove
  BY <1>2, <1>3 DEF SameAbove, Held
<1>5. MsgOK' /\ OutputOK'
  BY <1>1, <1>2, <1>4, OwnRest
<1>6. unsent \in Units
  BY <1>1 DEF HttpInv, Types, Units
<1>7. Types'
  <2>1. unsent' \in Nat \X Nat
    BY <1>1, <1>6, FollowerType DEF HttpInv
  <2>2. wire' \in Seq(Units)
    <3>. HIDE DEF Units
    <3>. QED
      BY <1>1, <1>6 DEF HttpInv, Types
  <2>. QED
    BY <1>1, <1>2, <2>1, <2>2 DEF HttpInv, Types
<1>8. /\ Text \in Seq(Units) /\ linebuf \in Seq(Units) /\ wire \in Seq(Units)
  BY TextParts DEF HttpInv, Types
<1>9. Text' = Append(Text, unsent)
  <2>. HIDE DEF Units
  <2>. DEFINE p == linebuf
              q == wire
              u == unsent
  <2>1. p \in Seq(Units) /\ q \in Seq(Units) /\ u \in Units
    BY <1>6, <1>8
  <2>. HIDE DEF p, q, u
  <2>2. p \o Append(q, u) = Append(p \o q, u)
    BY <2>1
  <2>. QED
    BY <1>1, <2>2 DEF Text, p, q, u
<1>10. ASSUME Follows(Text) PROVE Follows(Text)' /\ NextIn' = NextIn
  <2>. DEFINE p == Text'
              q == Text
              u == unsent
  <2>1. /\ p = Append(q, u) /\ q \in Seq(Units) /\ u \in Units
    BY <1>6, <1>8, <1>9
  <2>2. /\ \A n \in 1..Len(q) - 1 : q[n + 1] = Follower(q[n])
        /\ q # <<>> => u = Follower(q[Len(q)])
    BY <1>10 DEF Follows
  <2>3. \A x : Follower(x)' = Follower(x)
    BY <1>1 DEF Follower
  <2>4. Follows(Text)' = /\ \A n \in 1..Len(p) - 1 : p[n + 1] = Follower(p[n])
                         /\ p # <<>> => Follower(u) = Follower(p[Len(p)])
    BY <1>1, <2>3 DEF Follows, Follower
  <2>5. NextIn' = (IF p = <<>> THEN Follower(u) ELSE p[1]) /\ NextIn = IF q = <<>> THEN u ELSE q[1]
    BY <1>1 DEF NextIn
  <2>. HIDE DEF p, q, u, Units
  <2>6. /\ p \in Seq(Units) /\ Len(p) = Len(q) + 1 /\ p[Len(q) + 1] = u /\ Len(q) \in Nat
        /\ \A i \in 1..Len(q) : p[i] = q[i]
    BY <2>1, AppendProperties
  <2>7. p # <<>> /\ (q = <<>> <=> Len(q) = 0)
    BY <2>1, <2>6
  <2>8. ASSUME NEW n \in 1..Len(p) - 1 PROVE p[n + 1] = Follower(p[n])
    <3>1. n \in 1..Len(q) /\ p[n] = q[n]
      BY <2>6
    <3>2. CASE n = Len(q)
      BY <2>2, <2>6, <2>7, <3>1, <3>2
    <3>3. CASE n # Len(q)
      <4>1. n \in 1..Len(q) - 1 /\ n + 1 \in 1..Len(q)
        BY <2>6, <3>1, <3>3
      <4>. QED
        BY <2>2, <2>6, <3>1, <4>1
    <3>. QED
      BY <3>2, <3>3
  <2>9. p[Len(p)] = u
    BY <2>6
  <2>10. p[1] = IF q = <<>> THEN u ELSE q[1]
    <3>1. q # <<>> => 1 \in 1..Len(q)
      BY <2>6, <2>7
    <3>. QED
      BY <2>6, <2>7, <3>1
  <2>. QED
    BY <2>4, <2>5, <2>7, <2>8, <2>9, <2>10
<1>11. InputOK'
  <2>1. Clean' = Clean
    BY <1>2 DEF Clean
  <2>2. ASSUME Aligned, NextIn' = NextIn PROVE Aligned'
    BY <1>1, <1>2, <2>2 DEF Aligned
  <2>. QED
    BY <1>2, <1>10, <2>1, <2>2 DEF HttpInv, InputOK
<1>. QED
  BY <1>3, <1>5, <1>7, <1>11 DEF HttpInv

-----------------------------------------------------------------------------
(* Reading the body of a request. *)
LEMMA BodyTaken ==
  ASSUME HttpInv, Follows(Text), seq = "Body", Aligned, UNCHANGED <<asked, unsent>>,
         NEW text, NEW k, Taken(text, k), k <= msg.kind.body - msg.read
  PROVE  /\ \A j \in 1..k : TypeOf(text[j]) = "data" /\ text[j][1] = msg.req
         /\ Follows(Text)'
         /\ NextIn' = IF msg.read + k = msg.kind.body THEN <<handled + 1, 1>>
                      ELSE <<handled, asked[handled].lead + 3 + msg.read + k>>
<1>. DEFINE a == asked[handled].lead
            b == asked[handled].body
            n == msg.read
            i == a + 3 + n
<1>1. /\ handled \in Requests /\ msg.req = handled /\ msg.kind = asked[handled]
      /\ NextIn = IF n = b THEN <<handled + 1, 1>> ELSE <<handled, a + 3 + n>>
  BY DEF Aligned
<1>2. /\ Types /\ asked \in [Requests -> Kinds] /\ handled \in Nat /\ a \in Nat /\ b \in Nat
      /\ n \in Nat /\ n <= b /\ k \in Nat /\ k <= b - n
  <2>1. Types /\ asked \in [Requests -> Kinds] /\ msg \in MessageType /\ n <= b
        /\ handled \in 0..MaxRequests
    BY <1>1 DEF HttpInv, Types, MsgOK, Requests
  <2>2. asked[handled] \in Kinds /\ handled \in Nat
    BY <1>1, <2>1
  <2>3. k \in Nat
    BY <2>1, TakenText
  <2>. QED
    BY <1>1, <2>1, <2>2, <2>3, KindTypes DEF MessageType
<1>3. /\ Text \in Seq(Units) /\ Len(text) <= Len(Text) /\ k <= Len(text)
      /\ \A j \in 1..Len(text) : text[j] = Text[j]
  <2>1. Text \in Seq(Units) /\ Len(text) <= Len(Text) /\ k \in 0..Len(Text)
        /\ \A j \in 1..Len(text) : text[j] = Text[j]
    BY <1>2, TakenText, TextParts
  <2>2. k \in 0..Len(text)
    BY DEF Taken
  <2>. QED
    BY <2>1, <2>2
<1>4. /\ Follows(Text)'
      /\ NextIn' = IF k = 0 THEN NextIn ELSE Follower(text[k])
  BY <1>2, TakenFollows
<1>. HIDE DEF a, b, n
<1>5. ASSUME NEW j \in 1..k PROVE text[j] = <<handled, i + j - 1>>
  <2>1. n # b /\ i \in Nat \ {0} /\ i + j - 1 <= a + 2 + b /\ j \in 1..Len(text)
        /\ j \in 1..Len(Text)
    <3>1. Len(text) \in Nat /\ Len(Text) \in Nat
      BY <1>2, <1>3, TakenText
    <3>. QED
      BY <1>2, <1>3, <1>5, <3>1
  <2>2. Text # <<>> => Text[1] = <<handled, i>>
    BY <1>1, <2>1 DEF NextIn
  <2>3. \A m \in 1..Len(Text) - 1 : Text[m + 1] = Follower(Text[m])
    BY DEF Follows
  <2>. DEFINE q == Text
              p == i
  <2>4. /\ q \in Seq(Units) /\ (q # <<>> => q[1] = <<handled, p>>) /\ p \in Nat \ {0}
        /\ \A m \in 1..Len(q) - 1 : q[m + 1] = Follower(q[m])
        /\ p + j - 1 <= asked[handled].lead + 2 + asked[handled].body /\ j \in 1..Len(q)
    BY <1>3, <2>1, <2>2, <2>3 DEF a, b
  <2>. HIDE DEF q, p, Units
  <2>5. q[j] = <<handled, p + j - 1>>
    BY <1>2, <2>4, Run
  <2>. QED
    BY <1>3, <2>1, <2>5 DEF q, p
<1>6. ASSUME NEW j \in 1..k PROVE TypeOf(text[j]) = "data" /\ text[j][1] = msg.req
  <2>1. text[j] = <<handled, i + j - 1>>
    BY <1>5
  <2>2. i + j - 1 \in Int /\ i + j - 1 > a + 2
    BY <1>2
  <2>. QED
    BY <1>1, <1>2, <2>1, <2>2 DEF TypeOf, a
<1>7. CASE k = 0
  BY <1>1, <1>2, <1>4, <1>6, <1>7 DEF a, b, n
<1>8. CASE k # 0
  <2>1. text[k] = <<handled, i + k - 1>> /\ n # b
    BY <1>2, <1>5, <1>8
  <2>2. Follower(text[k]) = IF i + k - 1 < a + 2 + b THEN <<handled, i + k>> ELSE <<handled + 1, 1>>
    <3>1. i + k - 1 + 1 = i + k
      BY <1>2
    <3>. QED
      BY <2>1, <3>1 DEF Follower, a, b
  <2>3. (i + k - 1 < a + 2 + b <=> n + k # b) /\ i + k = a + 3 + n + k
    BY <1>2
  <2>4. NextIn' = IF n + k = b THEN <<handled + 1, 1>> ELSE <<handled, a + 3 + n + k>>
    BY <1>4, <1>8, <2>2, <2>3
  <2>. QED
    BY <1>1, <1>4, <1>6, <2>4 DEF a, b, n
<1>. QED
  BY <1>7, <1>8

LEMMA ReaderReadableKeeps ==
  ASSUME HttpInv, ReaderReadable
  PROVE  HttpInv'
<1>. DEFINE text  == IF Len(linebuf) < Wanted THEN linebuf \o wire ELSE linebuf
            taken == IF Len(text) < Wanted THEN Len(text) ELSE Wanted
            foreign == \E j \in 1..taken : TypeOf(text[j]) # "data" \/ text[j][1] # msg.req
            ended == taken < Wanted /\ eof
            c     == IF taken = Wanted \/ ended THEN "Close" ELSE "Wait"
<1>1. /\ at = Reader /\ pc = "readable"
      /\ linebuf' = SubSeq(text, taken + 1, Len(text))
      /\ wire' = IF Len(linebuf) < Wanted THEN <<>> ELSE wire
      /\ msg' = [msg EXCEPT !.read = @ + taken, !.alien = @ \/ foreign]
      /\ state' = (IF ended THEN "Closing" ELSE state)
      /\ resp' = (IF taken = Wanted \/ ended THEN "ReadEnd" ELSE resp)
      /\ AddNone /\ D!ReadableAnswered(c)
      /\ UNCHANGED <<asked, unsent, eof, seq, request, persist, handled, left, client,
                     slow, lost, failed>>
  BY DEF ReaderReadable, Gets
<1>2. Types /\ ChainOK /\ MsgOK /\ InputOK /\ OutputOK
  BY DEF HttpInv
<1>3. /\ Message \in Held /\ Message \in opened /\ Reader \in Held /\ seq = "Body"
      /\ handled > 0 /\ msg \in MessageType
  <2>1. Reader \in Held /\ streams \in Chains /\ Held = Range(streams)
    BY <1>1, <1>2 DEF ChainOK, Held
  <2>2. streams = <<Connection, Message, Response, Reader>>
    BY <2>1, Shapes, Streams
  <2>3. Message \in Held
    BY <2>1, <2>2, Shapes, Streams
  <2>4. seq = "Body"
    BY <1>2, <2>2 DEF ChainOK
  <2>. QED
    BY <1>2, <2>1, <2>2, <2>3, <2>4 DEF ChainOK, Types
<1>4. /\ msg.readable = msg.kind.body /\ msg.read <= msg.kind.body /\ msg.read \in Nat
      /\ msg.kind.body \in Nat /\ Wanted \in Nat /\ Wanted = msg.kind.body - msg.read
  <2>1. msg.kind.body \in Nat /\ msg.read \in Nat
    BY <1>3, KindTypes, MessageTypes DEF MessageType
  <2>. QED
    BY <1>2, <1>3, <2>1 DEF MsgOK, Wanted
<1>5. Taken(text, taken) /\ taken \in Nat /\ taken <= Wanted
  <2>1. Text \in Seq(Units) /\ linebuf \in Seq(Units)
    BY <1>2, TextParts DEF Types
  <2>2. Len(Text) \in Nat /\ Len(linebuf) \in Nat
    <3>. HIDE DEF Units
    <3>. QED
      BY <2>1
  <2>3. (text = linebuf /\ wire' = wire) \/ (text = Text /\ wire' = <<>>)
    BY <1>1 DEF Text
  <2>4. Len(text) \in Nat
    BY <2>2, <2>3
  <2>. HIDE DEF text
  <2>5. taken \in 0..Len(text) /\ taken <= Wanted
    BY <1>4, <2>4
  <2>. QED
    BY <1>1, <2>3, <2>5 DEF Taken
<1>. HIDE DEF text, taken, foreign, ended
<1>6. ChainOK' /\ Held' = Held /\ opened' = opened
  <2>1. c \in {"Ok", "Wait", "Close"}
    OBVIOUS
  <2>2. UNCHANGED state \/ (state' = "Closing" /\ at \notin {Connection, Message})
    BY <1>1, Streams
  <2>3. UNCHANGED <<streams, fresh, seq, handled>> /\ at # Connection /\ at # Message
    BY <1>1, Streams DEF AddNone
  <2>4. /\ ChainOK' /\ Held' = Held
        /\ opened' = IF pc = "opening" THEN opened \cup {at} ELSE opened
    BY <1>1, <1>2, <2>1, <2>2, <2>3, AnsweredChain
  <2>. QED
    BY <1>1, <2>4
<1>7. /\ msg' \in MessageType /\ msg'.req = msg.req /\ msg'.kind = msg.kind
      /\ msg'.read = msg.read + taken /\ msg'.readable = msg.readable
      /\ msg'.hdr = msg.hdr /\ msg'.chunked = msg.chunked
      /\ msg'.remaining = msg.remaining /\ msg'.written = msg.written
      /\ msg'.alien = (msg.alien \/ foreign)
  <2>. DEFINE n == msg.read + taken
              f == msg.alien \/ foreign
  <2>1. n \in Nat /\ f \in BOOLEAN
    BY <1>4, <1>5
  <2>2. msg' = [msg EXCEPT !.read = n, !.alien = f]
    BY <1>1
  <2>. HIDE DEF n, f
  <2>3. /\ msg' \in MessageType /\ msg'.req = msg.req /\ msg'.kind = msg.kind
        /\ msg'.read = n /\ msg'.readable = msg.readable
        /\ msg'.hdr = msg.hdr /\ msg'.chunked = msg.chunked
        /\ msg'.remaining = msg.remaining /\ msg'.written = msg.written
        /\ msg'.alien = f
    BY <1>3, <2>1, <2>2 DEF MessageType
  <2>. QED
    BY <2>3 DEF n, f
<1>8. Types'
  <2>1. linebuf' \in Seq(Units) /\ wire' \in Seq(Units)
    BY <1>2, <1>5, TakenText
  <2>2. resp' \in Stages
    BY <1>1, <1>2 DEF Types, Stages
  <2>. QED
    BY <1>1, <1>2, <1>3, <1>7, <2>1, <2>2 DEF Types, Stages
<1>9. Message' = Message /\ Response' = Response /\ Transfer' = Transfer
  BY <1>1, Names
<1>10. MsgOK'
  <2>1. Framed(msg)' = Framed(msg)
    BY <1>7 DEF Framed, Chunked, HasBody, ContentLength
  <2>2. msg'.read <= msg'.kind.body
    BY <1>4, <1>5, <1>7
  <2>. QED
    BY <1>1, <1>2, <1>3, <1>6, <1>7, <1>9, <2>1, <2>2 DEF MsgOK
<1>11. Clean' = Clean
  BY <1>1 DEF Clean
<1>12. OutputOK'
  <2>1. Tracks(msg, client)' = Tracks(msg, client)
    BY <1>1, <1>7 DEF Tracks, Idle, Within, Framing, HasBody, ContentLength
  <2>. QED
    BY <1>1, <1>2, <1>3, <1>6, <1>9, <1>11, <2>1 DEF OutputOK
<1>13. InputOK'
  <2>. SUFFICES ASSUME Clean PROVE InputOK'
    BY <1>11 DEF InputOK
  <2>1. Follows(Text) /\ Aligned /\ msg.req = handled /\ ~msg.alien
    BY <1>2, <1>3 DEF InputOK
  <2>2. /\ \A j \in 1..taken : TypeOf(text[j]) = "data" /\ text[j][1] = msg.req
        /\ Follows(Text)'
        /\ NextIn' = IF msg.read + taken = msg.kind.body THEN <<handled + 1, 1>>
                     ELSE <<handled, asked[handled].lead + 3 + msg.read + taken>>
    BY <1>1, <1>3, <1>4, <1>5, <2>1, BodyTaken
  <2>3. ~foreign
    BY <2>2 DEF foreign
  <2>4. ~msg'.alien
    BY <1>7, <2>1, <2>3
  <2>5. /\ handled \in Requests /\ request = NoRequest /\ msg.kind = asked[handled]
        /\ asked[handled].lead \in Nat
    <3>1. handled \in Requests /\ request = NoRequest /\ msg.kind = asked[handled]
      BY <1>3, <2>1 DEF Aligned
    <3>2. asked[handled] \in Kinds
      BY <1>2, <3>1 DEF Types
    <3>. QED
      BY <3>1, <3>2, KindTypes
  <2>6. asked[handled].lead + 3 + msg.read + taken = asked[handled].lead + 3 + (msg.read + taken)
    BY <1>4, <1>5, <2>5
  <2>7. Aligned'
    BY <1>1, <1>3, <1>7, <2>1, <2>2, <2>4, <2>5, <2>6 DEF Aligned
  <2>. QED
    BY <1>1, <1>7, <2>1, <2>2, <2>4, <2>7 DEF InputOK
<1>. QED
  BY <1>6, <1>8, <1>10, <1>12, <1>13 DEF HttpInv

-----------------------------------------------------------------------------
(* Reading the lines of a request. *)

(* http:connection stands before the i-th unit of request r: before the first, after
   one empty line, or after the line and headers. *)
Reads(s, r, i) ==
  \/ s = "Request" /\ request = NoRequest /\ i = 1
  \/ s = "Request" /\ request = BadRequest /\ i = 2 /\ r \in Requests /\ asked[r].lead = 1
  \/ s = "Headers" /\ request = r /\ r \in Requests /\ i = asked[r].lead + 2

(* How many units there are from there to the empty line that ends the headers. *)
Lines(r, i) == asked[r].lead + 3 - i

Linked(q) == \A n \in 1..Len(q) - 1 : q[n + 1] = Follower(q[n])

(* q is what follows there, as far as the lines go. *)
LinedUp(s, r, i, q) ==
  /\ r \in Requests /\ asked[r] \in Kinds /\ asked[r].lead \in 0..1
  /\ asked[r].body \in Nat /\ Lines(r, i) \in 1..3 /\ (Lines(r, i) = 1 <=> s = "Headers")
  /\ \A j \in 1..Len(q) : j <= Lines(r, i) =>
       /\ q[j] = <<r, i + j - 1>> /\ j \in Begins(q)
       /\ TypeOf(q[j]) = IF j = Lines(r, i) - 1 THEN "line" ELSE "blank"

LEMMA UnitsAre ==
  ASSUME Types, KindsAreGood, NEW s, NEW r \in Nat, NEW i \in Nat \ {0}, Reads(s, r, i),
         NEW q \in Seq(Units), q # <<>>, q[1] = <<r, i>>, Linked(q)
  PROVE  LinedUp(s, r, i, q)
<1>. DEFINE a == asked[r].lead
            n == Lines(r, i)
<1>1. Len(q) \in Nat /\ 1 \in 1..Len(q)
  OBVIOUS
<1>2. r \in Requests
  <2>1. q[1] \in Units
    BY <1>1
  <2>. QED
    BY <2>1 DEF Units
<1>3. asked[r] \in Kinds /\ a \in 0..1 /\ asked[r].body \in Nat /\ asked \in [Requests -> Kinds]
  <2>1. asked[r] \in Kinds /\ asked \in [Requests -> Kinds]
    BY <1>2 DEF Types
  <2>. QED
    BY <2>1, KindTypes DEF Good
<1>4. n \in 1..3 /\ (n = 1 <=> s = "Headers") /\ n = a + 3 - i
  BY <1>3 DEF Reads, Lines
<1>. HIDE DEF n, a, Units
<1>5. ASSUME NEW j \in 1..Len(q), j <= n
      PROVE  q[j] = <<r, i + j - 1>> /\ TypeOf(q[j]) = IF j = n - 1 THEN "line" ELSE "blank"
  <2>1. i + j - 1 <= a + 2 /\ i + j - 1 <= a + 2 + asked[r].body /\ i + j - 1 \in Int
        /\ (i + j - 1 = a + 1 <=> j = n - 1)
    BY <1>1, <1>3, <1>4, <1>5
  <2>2. q[j] = <<r, i + j - 1>>
    BY <1>3, <2>1, Run DEF Linked, a
  <2>. QED
    BY <2>1, <2>2 DEF TypeOf, a
<1>6. ASSUME NEW j \in 1..Len(q), j <= n PROVE j \in Begins(q)
  <2>1. j \in Ends(q)
    BY <1>5, <1>6 DEF Ends
  <2>2. j # 1 => j - 1 \in 1..Len(q) /\ j - 1 <= n
    BY <1>1, <1>4, <1>6
  <2>3. j # 1 => TypeOf(q[j - 1]) # "data"
    BY <1>5, <2>2
  <2>. QED
    BY <2>1, <2>3 DEF Begins
<1>. QED
  BY <1>2, <1>3, <1>4, <1>5, <1>6 DEF n, a, LinedUp

LEMMA LinesOf ==
  ASSUME Types, KindsAreGood, NEW s, NEW r \in Nat, NEW i \in Nat \ {0}, Reads(s, r, i),
         NEW q \in Seq(Units), q # <<>>, q[1] = <<r, i>>, Linked(q), Len(q) <= Lines(r, i)
  PROVE  /\ Ends(q) = 1..Len(q)
         /\ RequestOf(s, q) = IF s = "Headers" THEN request
                              ELSE IF Lines(r, i) - 1 <= Len(q) THEN r ELSE BadRequest
<1>. DEFINE n == Lines(r, i)
<1>1. /\ Len(q) \in Nat /\ 1 \in 1..Len(q) /\ Len(q) <= n /\ DOMAIN q = 1..Len(q)
  OBVIOUS
<1>2. /\ r \in Requests /\ asked[r] \in Kinds /\ asked[r].lead \in 0..1
      /\ asked[r].body \in Nat /\ Lines(r, i) \in 1..3 /\ (Lines(r, i) = 1 <=> s = "Headers")
      /\ \A j \in 1..Len(q) : j <= Lines(r, i) =>
           /\ q[j] = <<r, i + j - 1>> /\ j \in Begins(q)
           /\ TypeOf(q[j]) = IF j = Lines(r, i) - 1 THEN "line" ELSE "blank"
  <2>1. LinedUp(s, r, i, q)
    BY UnitsAre
  <2>. QED
    BY <2>1 DEF LinedUp
<1>. HIDE DEF Units
<1>3. \A j \in 1..Len(q) : j <= n
  BY <1>1, <1>2
<1>4. Ends(q) = 1..Len(q)
  BY <1>1, <1>2, <1>3 DEF Ends
<1>5. Parsed(q) = {j \in 1..Len(q) : j = n - 1}
  BY <1>2, <1>3, <1>4 DEF Parsed, Begins
<1>6. CASE s = "Headers"
  BY <1>4, <1>6 DEF RequestOf
<1>7. CASE s # "Headers" /\ n - 1 <= Len(q)
  <2>1. n - 1 \in 1..Len(q) /\ n - 1 \in Nat
    BY <1>1, <1>2, <1>7
  <2>2. Parsed(q) = {n - 1}
    BY <1>5, <2>1
  <2>3. Min(Parsed(q)) = n - 1
    BY <2>1, <2>2, LeastIs
  <2>4. q[n - 1][1] = r
    BY <1>2, <1>3, <2>1
  <2>. QED
    BY <1>1, <1>4, <1>7, <2>2, <2>3, <2>4 DEF RequestOf
<1>8. CASE s # "Headers" /\ ~(n - 1 <= Len(q))
  <2>1. Parsed(q) = {}
    BY <1>1, <1>2, <1>5, <1>8
  <2>. QED
    BY <1>1, <1>4, <1>8, <2>1 DEF RequestOf
<1>. QED
  BY <1>4, <1>6, <1>7, <1>8

LEMMA UpToIs ==
  ASSUME NEW q \in Seq(Units), NEW m \in 0..Len(q)
  PROVE  /\ UpTo(q, m) \in Seq(Units) /\ Len(UpTo(q, m)) = m
         /\ \A j \in 1..m : UpTo(q, m)[j] = q[j]
         /\ m = 0 => Ends(UpTo(q, m)) = {}
         /\ m # 0 => UpTo(q, m) # <<>> /\ UpTo(q, m)[1] = q[1]
         /\ Linked(q) => Linked(UpTo(q, m))
<1>. DEFINE p == UpTo(q, m)
<1>. HIDE DEF Units
<1>1. Len(q) \in Nat /\ m \in Nat /\ \A j \in 1..Len(q) : q[j] \in Units
  OBVIOUS
<1>2. /\ p \in Seq(Units) /\ Len(p) = m
      /\ \A j \in 1..m : p[j] = q[j]
  <2>1. \A j \in 1..m : q[j] \in Units
    BY <1>1
  <2>2. /\ SubSeq(q, 1, m) \in Seq(Units)
        /\ Len(SubSeq(q, 1, m)) = IF 1 <= m THEN m - 1 + 1 ELSE 0
        /\ \A j \in 1..m - 1 + 1 : SubSeq(q, 1, m)[j] = q[1 + j - 1]
    BY <1>1, <2>1, SubSeqProperties
  <2>3. /\ (IF 1 <= m THEN m - 1 + 1 ELSE 0) = m
        /\ \A j \in 1..m : j \in 1..m - 1 + 1 /\ 1 + j - 1 = j
    BY <1>1
  <2>. QED
    BY <2>2, <2>3 DEF UpTo
<1>. HIDE DEF p
<1>3. m = 0 => Ends(p) = {}
  BY <1>2 DEF Ends
<1>4. m # 0 => p # <<>> /\ p[1] = q[1]
  BY <1>1, <1>2
<1>5. Linked(q) => Linked(p)
  <2>. SUFFICES ASSUME Linked(q), NEW n \in 1..m - 1 PROVE p[n + 1] = Follower(p[n])
    BY <1>2 DEF Linked
  <2>1. n \in 1..m /\ n + 1 \in 1..m /\ n \in 1..Len(q) - 1
    BY <1>1
  <2>. QED
    BY <1>2, <2>1 DEF Linked
<1>. QED
  BY <1>2, <1>3, <1>4, <1>5 DEF p

(* http:connection reads up to the end of the headers, or all there is. *)
LEMMA ReadsLines ==
  ASSUME Types, KindsAreGood, NEW s, NEW r \in Nat, NEW i \in Nat \ {0}, Reads(s, r, i),
         NEW q \in Seq(Units), q # <<>> => q[1] = <<r, i>>, Linked(q)
  PROVE  LET n == Lines(r, i)
         IN /\ q # <<>> /\ n <= Len(q)
                 => /\ Completing(s, q) # {} /\ Min(Completing(s, q)) = n
                    /\ RequestOf(s, UpTo(q, n)) = r
            /\ ~(q # <<>> /\ n <= Len(q))
                 => /\ Completing(s, q) = {} /\ Max(Ends(q) \cup {0}) = Len(q)
                    /\ RequestOf(s, UpTo(q, Len(q)))
                         = IF q = <<>> THEN request ELSE IF n - 1 <= Len(q) THEN r ELSE BadRequest
<1>. DEFINE n == Lines(r, i)
<1>1. Len(q) \in Nat /\ DOMAIN q = 1..Len(q) /\ (q = <<>> <=> Len(q) = 0)
  OBVIOUS
<1>2. ASSUME q = <<>>
      PROVE  /\ Completing(s, q) = {} /\ Max(Ends(q) \cup {0}) = Len(q)
             /\ RequestOf(s, UpTo(q, Len(q))) = request
  <2>1. Ends(q) = {} /\ Len(q) = 0
    BY <1>2 DEF Ends
  <2>2. Completing(s, q) = {}
    BY <2>1 DEF Completing, Begins
  <2>3. Max({0}) = 0
    <3>1. {0} \subseteq 0..0 /\ {0} # {}
      OBVIOUS
    <3>2. Max({0}) \in {0}
      BY <3>1, GreatestIs
    <3>. QED
      BY <3>2
  <2>4. Ends(UpTo(q, 0)) = {}
    <3>1. 0 \in 0..Len(q)
      BY <1>1
    <3>. HIDE DEF Units
    <3>. QED
      BY <3>1, UpToIs
  <2>5. Ends(q) \cup {0} = {0}
    BY <2>1
  <2>. QED
    BY <2>1, <2>2, <2>3, <2>4, <2>5 DEF RequestOf
<1>3. ASSUME q # <<>>
      PROVE  /\ r \in Requests /\ asked[r] \in Kinds /\ asked[r].lead \in 0..1
             /\ asked[r].body \in Nat /\ Lines(r, i) \in 1..3 /\ (Lines(r, i) = 1 <=> s = "Headers")
             /\ \A j \in 1..Len(q) : j <= Lines(r, i) =>
                  /\ q[j] = <<r, i + j - 1>> /\ j \in Begins(q)
                  /\ TypeOf(q[j]) = IF j = Lines(r, i) - 1 THEN "line" ELSE "blank"
  <2>1. q[1] = <<r, i>>
    BY <1>3
  <2>. HIDE DEF Units
  <2>. QED
    <3>1. LinedUp(s, r, i, q)
      BY <1>3, <2>1, UnitsAre
    <3>. QED
      BY <3>1 DEF LinedUp
<1>4. ASSUME q # <<>>, NEW m \in 1..Len(q), m <= n
      PROVE  RequestOf(s, UpTo(q, m)) = IF s = "Headers" THEN request
                                        ELSE IF n - 1 <= m THEN r ELSE BadRequest
  <2>. DEFINE p == UpTo(q, m)
  <2>1. p \in Seq(Units) /\ Len(p) = m /\ p # <<>> /\ p[1] = <<r, i>> /\ Linked(p)
    <3>1. m \in 0..Len(q) /\ m # 0
      OBVIOUS
    <3>. HIDE DEF Units
    <3>. QED
      BY <1>4, <3>1, UpToIs
  <2>. HIDE DEF p, Units
  <2>2. RequestOf(s, p) = IF s = "Headers" THEN request
                          ELSE IF Lines(r, i) - 1 <= Len(p) THEN r ELSE BadRequest
    BY <1>4, <2>1, LinesOf
  <2>. QED
    BY <2>1, <2>2 DEF p
<1>5. NoRequest \notin Requests /\ BadRequest \notin Requests /\ NoRequest # BadRequest
  BY DEF NoRequest, BadRequest, Requests
<1>6. ASSUME q # <<>>, NEW j \in Completing(s, q) PROVE n <= j
  <2>. SUFFICES ASSUME ~(n <= j) PROVE FALSE
    OBVIOUS
  <2>1. j \in 1..Len(q) /\ TypeOf(q[j]) = "blank" /\ RequestOf(s, UpTo(q, j - 1)) # NoRequest
    BY <1>1 DEF Completing, Begins, Ends
  <2>2. n \in 1..3 /\ j < n /\ j # n - 1
    <3>1. n \in 1..3 /\ j < n
      BY <1>3, <1>6, <2>1
    <3>2. TypeOf(q[j]) = IF j = n - 1 THEN "line" ELSE "blank"
      BY <1>3, <1>6, <2>1, <3>1
    <3>. QED
      BY <2>1, <3>1, <3>2
  <2>3. n = 3 /\ j = 1
    BY <2>1, <2>2
  <2>4. request = NoRequest
    BY <1>3, <1>6, <2>3 DEF Reads, Lines
  <2>5. Ends(UpTo(q, 0)) = {}
    BY <1>1, UpToIs
  <2>6. RequestOf(s, UpTo(q, 0)) = request
    BY <2>5 DEF RequestOf
  <2>. QED
    BY <2>1, <2>3, <2>4, <2>6
<1>7. ASSUME q # <<>>, n <= Len(q)
      PROVE  /\ Completing(s, q) # {} /\ Min(Completing(s, q)) = n
             /\ RequestOf(s, UpTo(q, n)) = r
  <2>1. n \in 1..3 /\ n \in 1..Len(q) /\ r \in Requests
    BY <1>1, <1>3, <1>7
  <2>2. RequestOf(s, UpTo(q, n)) = r
    <3>1. s = "Headers" => request = r
      BY DEF Reads
    <3>. QED
      BY <1>4, <1>7, <2>1, <3>1
  <2>3. RequestOf(s, UpTo(q, n - 1)) # NoRequest
    <3>1. CASE s = "Headers"
      <4>1. request = r
        BY <3>1 DEF Reads
      <4>. QED
        BY <1>5, <2>1, <3>1, <4>1 DEF RequestOf
    <3>2. CASE s # "Headers"
      <4>1. n - 1 \in 1..Len(q) /\ n - 1 <= n
        BY <1>3, <1>7, <2>1, <3>2
      <4>2. RequestOf(s, UpTo(q, n - 1)) = r
        BY <1>4, <1>7, <3>2, <4>1
      <4>. QED
        BY <1>5, <2>1, <4>2
    <3>. QED
      BY <3>1, <3>2
  <2>4. TypeOf(q[n]) = "blank" /\ n \in Begins(q)
    BY <1>3, <1>7, <2>1
  <2>5. n \in Completing(s, q)
    BY <2>3, <2>4 DEF Completing
  <2>6. Completing(s, q) \subseteq Nat
    BY <1>1 DEF Completing, Begins, Ends
  <2>7. Min(Completing(s, q)) \in Completing(s, q) /\ Min(Completing(s, q)) <= n
    BY <2>5, <2>6, LeastIs
  <2>8. n <= Min(Completing(s, q))
    BY <1>6, <1>7, <2>7
  <2>9. Min(Completing(s, q)) = n
    BY <2>1, <2>6, <2>7, <2>8
  <2>. QED
    BY <2>2, <2>5, <2>9
<1>8. ASSUME q # <<>>, ~(n <= Len(q))
      PROVE  /\ Completing(s, q) = {} /\ Max(Ends(q) \cup {0}) = Len(q)
             /\ RequestOf(s, UpTo(q, Len(q))) = IF n - 1 <= Len(q) THEN r ELSE BadRequest
  <2>1. n \in 1..3 /\ Len(q) \in 1..Len(q) /\ Len(q) <= n /\ n # 1
    BY <1>1, <1>3, <1>8
  <2>2. Completing(s, q) = {}
    <3>. SUFFICES ASSUME NEW j \in Completing(s, q) PROVE FALSE
      OBVIOUS
    <3>1. j \in 1..Len(q)
      BY <1>1 DEF Completing, Begins, Ends
    <3>. QED
      BY <1>1, <1>6, <1>8, <2>1, <3>1
  <2>3. Ends(q) = 1..Len(q)
    BY <1>8, <2>1, LinesOf
  <2>4. Max(Ends(q) \cup {0}) = Len(q)
    <3>. DEFINE T == Ends(q) \cup {0}
    <3>1. T \subseteq 0..Len(q) /\ T # {} /\ Len(q) \in T
      BY <1>1, <2>1, <2>3
    <3>. HIDE DEF T
    <3>2. Max(T) \in T /\ Max(T) >= Len(q)
      BY <1>1, <3>1, GreatestIs
    <3>. QED
      BY <1>1, <3>1, <3>2 DEF T
  <2>5. RequestOf(s, UpTo(q, Len(q))) = IF n - 1 <= Len(q) THEN r ELSE BadRequest
    BY <1>3, <1>4, <1>8, <2>1
  <2>. QED
    BY <2>2, <2>4, <2>5
<1>. QED
  BY <1>2, <1>7, <1>8

LEMMA InputRead ==
  ASSUME Types, NEW s \in {"Request", "Headers"}, NEW c, ProcessInput(s, c)
  PROVE  LET text == Available(s)
             acts == Completing(s, text) # {}
             read == IF acts THEN Min(Completing(s, text)) ELSE Max(Ends(text) \cup {0})
             r    == RequestOf(s, UpTo(text, read))
         IN /\ text \in Seq(Units) /\ Taken(text, read) /\ (acts <=> c = "Ok")
            /\ r \in Requests \cup {NoRequest, BadRequest}
            /\ acts => r # NoRequest
<1>. DEFINE text == Available(s)
            acts == Completing(s, text) # {}
            read == IF acts THEN Min(Completing(s, text)) ELSE Max(Ends(text) \cup {0})
            r    == RequestOf(s, UpTo(text, read))
<1>1. /\ linebuf' = SubSeq(text, read + 1, Len(text))
      /\ wire' = IF Receives(s) THEN <<>> ELSE wire
      /\ acts <=> c = "Ok"
  <2>1. /\ linebuf' = SubSeq(text, read + 1, Len(text))
        /\ wire' = IF Receives(s) THEN <<>> ELSE wire
        /\ c = IF acts THEN "Ok"
               ELSE IF ~MeetsEnd(s) THEN "Wait"
               ELSE IF seq' = "Request" THEN "Close" ELSE "End"
    BY DEF ProcessInput
  <2>. QED
    BY <2>1
<1>2. (text = linebuf /\ wire' = wire) \/ (text = Text /\ wire' = <<>>)
  BY <1>1 DEF Available, Text
<1>3. text \in Seq(Units)
  BY <1>2, TextParts DEF Types
<1>. HIDE DEF text, Units
<1>4. Len(text) \in Nat /\ DOMAIN text = 1..Len(text) /\ \A j \in 1..Len(text) : text[j] \in Units
  BY <1>3
<1>5. /\ Ends(text) \subseteq 1..Len(text) /\ Begins(text) \subseteq Ends(text)
      /\ Completing(s, text) \subseteq Begins(text)
  BY <1>4 DEF Ends, Begins, Completing
<1>6. acts => read \in Completing(s, text)
  <2>1. Completing(s, text) \subseteq Nat
    BY <1>4, <1>5
  <2>. QED
    BY <2>1, LeastIs
<1>7. read \in 0..Len(text)
  <2>1. CASE acts
    BY <1>4, <1>5, <1>6, <2>1
  <2>2. CASE ~acts
    <3>. DEFINE T == Ends(text) \cup {0}
    <3>1. T \subseteq 0..Len(text) /\ T # {}
      BY <1>4, <1>5
    <3>2. read = Max(T)
      BY <2>2
    <3>. HIDE DEF T, read
    <3>3. Max(T) \in T
      BY <1>4, <3>1, GreatestIs
    <3>. QED
      BY <3>1, <3>2, <3>3
  <2>. QED
    BY <2>1, <2>2
<1>8. Taken(text, read)
  BY <1>1, <1>2, <1>7 DEF Taken
<1>. HIDE DEF read
<1>. DEFINE p == UpTo(text, read)
<1>9. /\ p \in Seq(Units) /\ Len(p) = read /\ \A j \in 1..read : p[j] = text[j]
  BY <1>3, <1>7, UpToIs
<1>. HIDE DEF p
<1>10. Parsed(p) # {} => p[Min(Parsed(p))][1] \in Requests
  <2>. SUFFICES ASSUME Parsed(p) # {} PROVE p[Min(Parsed(p))][1] \in Requests
    OBVIOUS
  <2>1. Parsed(p) \subseteq 1..read
    BY <1>9 DEF Parsed, Begins, Ends
  <2>2. Min(Parsed(p)) \in Parsed(p)
    <3>1. Parsed(p) \subseteq Nat
      BY <1>4, <1>7, <2>1
    <3>. QED
      BY <3>1, LeastIs
  <2>3. p[Min(Parsed(p))] \in Units
    BY <1>9, <2>1, <2>2
  <2>. QED
    BY <2>3 DEF Units
<1>11. r \in Requests \cup {NoRequest, BadRequest}
  BY <1>10 DEF Types, RequestOf, p
<1>12. ASSUME acts PROVE r # NoRequest
  <2>1. read \in Begins(text) /\ RequestOf(s, UpTo(text, read - 1)) # NoRequest
    BY <1>6, <1>12 DEF Completing
  <2>2. CASE s = "Headers"
    BY <2>1, <2>2 DEF RequestOf
  <2>3. CASE s # "Headers"
    <3>1. read \in Ends(text) /\ read \in 1..Len(text) /\ read \in 1..read
      BY <1>4, <1>5, <2>1
    <3>2. read \in Ends(p)
      BY <1>9, <3>1 DEF Ends
    <3>3. NoRequest \notin Requests /\ NoRequest # BadRequest
      BY DEF NoRequest, BadRequest, Requests
    <3>. QED
      BY <1>10, <2>3, <3>2, <3>3 DEF RequestOf, p
  <2>. QED
    BY <2>2, <2>3
<1>. QED
  BY <1>1, <1>3, <1>8, <1>11, <1>12 DEF text, read

LEMMA NewIs ==
  ASSUME Types, NEW r \in Requests \cup {BadRequest}, NewMessage(r)
  PROVE  /\ handled' = handled + 1 /\ AddStream(<<"message", handled + 1>>)
         /\ msg' \in MessageType /\ msg'.req = r /\ Framed(msg')
         /\ msg'.kind.body \in Nat
         /\ msg'.read = 0 /\ msg'.readable = -1 /\ msg'.alien = FALSE /\ msg'.hdr = "none"
         /\ msg'.chunked = FALSE /\ msg'.remaining = 0 /\ msg'.written = 0
         /\ r # BadRequest => msg'.kind = asked[r]
<1>1. PICK k \in IF r # BadRequest THEN {asked[r]} ELSE BadKinds :
        /\ handled' = handled + 1 /\ AddStream(<<"message", handled + 1>>)
        /\ msg' = [req |-> r, kind |-> k, read |-> 0, readable |-> -1, alien |-> FALSE,
                   hdr |-> "none", chunked |-> FALSE, remaining |-> 0, written |-> 0]
  BY DEF NewMessage, BadKinds
<1>2. k \in Kinds \cup BadKinds /\ (r # BadRequest => k = asked[r])
  BY <1>1 DEF Types
<1>. HIDE DEF BadKinds
<1>3. msg' \in MessageType /\ msg'.kind = k
  BY <1>1, <1>2 DEF MessageType
<1>4. k.body \in Nat
  BY <1>2, KindTypes
<1>. QED
  BY <1>1, <1>2, <1>3, <1>4 DEF Framed

(* What is read next is still what the state of http:connection says. *)
LEMMA LinesAligned ==
  ASSUME Types, KindsAreGood, NEW s \in {"Request", "Headers"}, NEW c, ProcessInput(s, c),
         NEW i \in Nat \ {0}, Reads(s, handled + 1, i), NextIn = <<handled + 1, i>>,
         Follows(Text), handled > 0 => msg.req = handled /\ ~msg.alien
  PROVE  /\ Follows(Text)' /\ Aligned'
         /\ handled' > 0 => msg'.req = handled' /\ ~msg'.alien
<1>. DEFINE text == Available(s)
            acts == Completing(s, text) # {}
            read == IF acts THEN Min(Completing(s, text)) ELSE Max(Ends(text) \cup {0})
            r    == RequestOf(s, UpTo(text, read))
            h    == handled + 1
            n    == Lines(h, i)
<1>1. /\ text \in Seq(Units) /\ Taken(text, read) /\ (acts <=> c = "Ok")
      /\ r \in Requests \cup {NoRequest, BadRequest}
  BY InputRead
<1>2. /\ seq' = (IF acts THEN "Body" ELSE IF r \in Requests THEN "Headers" ELSE s)
      /\ request' = (IF acts THEN NoRequest ELSE r)
      /\ IF acts THEN NewMessage(r) ELSE UNCHANGED <<handled, msg>>
      /\ UNCHANGED <<asked, unsent>>
  BY DEF ProcessInput
<1>3. h \in Nat /\ handled \in Nat /\ NoRequest \notin Requests /\ BadRequest \notin Requests
      /\ NoRequest # BadRequest /\ asked \in [Requests -> Kinds]
  BY HttpAssumption DEF Types, NoRequest, BadRequest, Requests
<1>. HIDE DEF text
<1>4. /\ Text \in Seq(Units) /\ Len(text) <= Len(Text) /\ Len(text) \in Nat /\ Len(Text) \in Nat
      /\ \A j \in 1..Len(text) : text[j] = Text[j]
  <2>1. Text \in Seq(Units) /\ Len(text) <= Len(Text)
        /\ \A j \in 1..Len(text) : text[j] = Text[j]
    BY <1>1, TakenText, TextParts
  <2>. HIDE DEF Units
  <2>. QED
    BY <1>1, <2>1
<1>5. /\ Follows(Text)'
      /\ NextIn' = IF read = 0 THEN NextIn ELSE Follower(text[read])
  BY <1>1, <1>2, TakenFollows
<1>6. text # <<>> => text[1] = <<h, i>>
  <2>1. text # <<>> => 1 \in 1..Len(text) /\ Text # <<>>
    <3>. HIDE DEF Units
    <3>. QED
      BY <1>1, <1>4
  <2>. QED
    BY <1>4, <2>1 DEF NextIn
<1>7. Linked(text)
  <2>. SUFFICES ASSUME NEW m \in 1..Len(text) - 1 PROVE text[m + 1] = Follower(text[m])
    BY DEF Linked
  <2>1. m \in 1..Len(text) /\ m + 1 \in 1..Len(text) /\ m \in 1..Len(Text) - 1
    BY <1>4
  <2>. QED
    BY <1>4, <2>1 DEF Follows
<1>8. /\ text # <<>> /\ n <= Len(text)
           => /\ Completing(s, text) # {} /\ Min(Completing(s, text)) = n
              /\ RequestOf(s, UpTo(text, n)) = h
      /\ ~(text # <<>> /\ n <= Len(text))
           => /\ Completing(s, text) = {} /\ Max(Ends(text) \cup {0}) = Len(text)
              /\ RequestOf(s, UpTo(text, Len(text)))
                   = IF text = <<>> THEN request ELSE IF n - 1 <= Len(text) THEN h ELSE BadRequest
  <2>. HIDE DEF Units
  <2>. QED
    BY <1>1, <1>3, <1>6, <1>7, ReadsLines
<1>9. ASSUME text # <<>> PROVE LinedUp(s, h, i, text)
  BY <1>1, <1>3, <1>6, <1>7, <1>9, UnitsAre
<1>. HIDE DEF acts, read, r
<1>10. CASE acts
  <2>1. text # <<>> /\ n <= Len(text) /\ read = n /\ r = h
    BY <1>8, <1>10 DEF acts, read, r
  <2>. DEFINE a == asked[h].lead
  <2>2. /\ h \in Requests /\ asked[h].body \in Nat /\ n \in 1..3 /\ n = a + 3 - i /\ a \in 0..1
        /\ text[n] = <<h, i + n - 1>>
    <3>1. LinedUp(s, h, i, text)
      BY <1>9, <2>1
    <3>2. /\ h \in Requests /\ asked[h].body \in Nat /\ n \in 1..3 /\ a \in 0..1
          /\ \A j \in 1..Len(text) : j <= n => text[j] = <<h, i + j - 1>>
      BY <3>1 DEF LinedUp
    <3>3. n \in 1..Len(text)
      BY <1>4, <2>1, <3>2
    <3>. QED
      BY <3>2, <3>3 DEF Lines
  <2>3. text[n] = <<h, a + 2>>
    <3>1. i + n - 1 = a + 2
      BY <2>2
    <3>. QED
      BY <2>2, <3>1
  <2>4. Follower(text[n]) = IF asked[h].body = 0 THEN <<h + 1, 1>> ELSE <<h, a + 3>>
    <3>1. (a + 2 < a + 2 + asked[h].body <=> asked[h].body # 0) /\ a + 2 + 1 = a + 3
      BY <2>2
    <3>. QED
      BY <2>3, <3>1 DEF Follower
  <2>5. NextIn' = IF asked[h].body = 0 THEN <<h + 1, 1>> ELSE <<h, a + 3>>
    <3>1. read # 0 /\ text[read] = text[n]
      BY <2>1, <2>2
    <3>. QED
      BY <1>5, <2>4, <3>1
  <2>6. /\ handled' = h /\ msg'.req = h /\ msg'.read = 0 /\ msg'.alien = FALSE
        /\ msg'.kind = asked[h] /\ seq' = "Body" /\ request' = NoRequest
    <3>1. NewMessage(h)
      BY <1>2, <1>10, <2>1
    <3>2. h # BadRequest
      BY <1>3, <2>2
    <3>. QED
      BY <1>2, <1>10, <2>2, <3>1, <3>2, NewIs
  <2>7. a + 3 + 0 = a + 3
    BY <2>2
  <2>8. Aligned'
    BY <1>2, <2>2, <2>5, <2>6, <2>7 DEF Aligned
  <2>. QED
    BY <1>5, <2>6, <2>8
<1>11. CASE ~acts
  <2>1. /\ ~(text # <<>> /\ n <= Len(text)) /\ read = Len(text)
        /\ r = IF text = <<>> THEN request ELSE IF n - 1 <= Len(text) THEN h ELSE BadRequest
    BY <1>8, <1>11 DEF acts, read, r
  <2>2. UNCHANGED <<handled, msg>>
    BY <1>2, <1>11
  <2>3. CASE text = <<>>
    <3>1. r = request /\ NextIn' = <<h, i>>
      <4>1. read = 0
        BY <2>1, <2>3
      <4>. QED
        BY <1>5, <2>1, <2>3, <4>1
    <3>2. CASE s = "Headers"
      <4>1. request = h /\ h \in Requests /\ i = asked[h].lead + 2
        BY <3>2 DEF Reads
      <4>2. seq' = "Headers" /\ request' = h
        BY <1>2, <1>11, <3>1, <4>1
      <4>. QED
        BY <1>2, <1>5, <2>2, <3>1, <4>1, <4>2 DEF Aligned
    <3>3. CASE s = "Request"
      <4>1. \/ request = NoRequest /\ i = 1
            \/ request = BadRequest /\ i = 2 /\ h \in Requests /\ asked[h].lead = 1
        BY <3>3 DEF Reads
      <4>2. seq' = "Request" /\ request' = request
        BY <1>2, <1>3, <1>11, <3>1, <3>3, <4>1
      <4>. QED
        BY <1>2, <1>5, <2>2, <3>1, <4>1, <4>2 DEF Aligned
    <3>. QED
      BY <1>5, <2>2, <3>2, <3>3
  <2>4. CASE text # <<>>
    <3>. DEFINE a == asked[h].lead
                m == Len(text)
    <3>1. /\ h \in Requests /\ asked[h].body \in Nat /\ n \in 1..3 /\ n = a + 3 - i /\ a \in 0..1
          /\ (n = 1 <=> s = "Headers") /\ m \in 1..m /\ m < n
          /\ text[m] = <<h, i + m - 1>>
      <4>1. LinedUp(s, h, i, text)
        BY <1>9, <2>4
      <4>2. /\ h \in Requests /\ asked[h].body \in Nat /\ n \in 1..3 /\ a \in 0..1
            /\ (n = 1 <=> s = "Headers")
            /\ \A j \in 1..m : j <= n => text[j] = <<h, i + j - 1>>
        BY <4>1 DEF LinedUp
      <4>3. m \in 1..m /\ m < n
        <5>. HIDE DEF Units
        <5>. QED
          BY <1>1, <1>4, <2>1, <2>4, <4>2
      <4>. QED
        BY <4>2, <4>3 DEF Lines
    <3>2. Follower(text[m]) = <<h, i + m>>
      <4>1. i + m - 1 < a + 2 + asked[h].body /\ i + m - 1 + 1 = i + m
        BY <3>1
      <4>. QED
        BY <3>1, <4>1 DEF Follower
    <3>3. NextIn' = <<h, i + m>>
      <4>1. read # 0 /\ text[read] = text[m]
        BY <2>1, <3>1
      <4>. QED
        BY <1>5, <3>2, <4>1
    <3>4. s = "Request"
      BY <3>1
    <3>5. CASE n - 1 <= m
      <4>1. r = h /\ seq' = "Headers" /\ request' = h
        BY <1>2, <1>11, <2>1, <2>4, <3>1, <3>5
      <4>2. i + m = a + 2
        BY <3>1, <3>5
      <4>. QED
        BY <1>2, <1>5, <2>2, <3>1, <3>3, <4>1, <4>2 DEF Aligned
    <3>6. CASE ~(n - 1 <= m)
      <4>1. r = BadRequest /\ seq' = "Request" /\ request' = BadRequest
        BY <1>2, <1>3, <1>11, <2>1, <2>4, <3>4, <3>6
      <4>2. i + m = 2 /\ a = 1
        BY <3>1, <3>6
      <4>. QED
        BY <1>2, <1>5, <2>2, <3>1, <3>3, <4>1, <4>2 DEF Aligned
    <3>. QED
      BY <1>5, <2>2, <3>5, <3>6
  <2>. QED
    BY <1>5, <2>2, <2>3, <2>4
<1>. QED
  BY <1>10, <1>11

(* The messages so far are answered, and the next request is what comes next. *)
Ready(s) ==
  Clean => /\ Idle(client, handled) /\ (handled > 0 => msg.kind.keep)
           /\ \E i \in Nat \ {0} : Reads(s, handled + 1, i) /\ NextIn = <<handled + 1, i>>

LEMMA IsReady ==
  ASSUME HttpInv, NEW s \in {"Request", "Headers"},
         \/ seq # "Body" /\ s = seq
         \/ seq = "Body" /\ s = "Request" /\ persist /\ Message \notin Held
  PROVE  Ready(s)
<1>. SUFFICES ASSUME Clean PROVE Ready(s)
  BY DEF Ready
<1>1. Types /\ Aligned /\ OutputOK
  BY DEF HttpInv, InputOK
<1>2. handled \in Nat
  BY <1>1, HttpAssumption DEF Types
<1>3. CASE seq = "Request" /\ s = "Request"
  <2>1. Idle(client, handled) /\ (handled > 0 => msg.kind.keep)
    BY <1>1, <1>3 DEF OutputOK
  <2>2. \/ Reads(s, handled + 1, 1) /\ NextIn = <<handled + 1, 1>>
        \/ Reads(s, handled + 1, 2) /\ NextIn = <<handled + 1, 2>>
    BY <1>1, <1>3 DEF Aligned, Reads
  <2>. QED
    BY <2>1, <2>2 DEF Ready
<1>4. CASE seq = "Headers" /\ s = "Headers"
  <2>1. Idle(client, handled) /\ (handled > 0 => msg.kind.keep)
    BY <1>1, <1>4 DEF OutputOK
  <2>. DEFINE i == asked[handled + 1].lead + 2
  <2>2. /\ handled + 1 \in Requests /\ request = handled + 1
        /\ NextIn = <<handled + 1, i>>
    BY <1>1, <1>4 DEF Aligned
  <2>3. i \in Nat \ {0}
    <3>1. asked[handled + 1] \in Kinds
      BY <1>1, <2>2 DEF Types
    <3>2. asked[handled + 1].lead \in Nat
      BY <3>1, KindTypes
    <3>. QED
      BY <3>2
  <2>4. Reads(s, handled + 1, i)
    BY <1>4, <2>2 DEF Reads
  <2>. HIDE DEF i
  <2>. QED
    BY <2>1, <2>2, <2>3, <2>4 DEF Ready
<1>5. CASE seq = "Body" /\ s = "Request" /\ persist /\ Message \notin Held
  <2>1. Complete(msg, client) /\ persist = msg.kind.keep /\ msg.read = msg.kind.body
    BY <1>1, <1>5 DEF OutputOK
  <2>2. /\ request = NoRequest /\ msg.req = handled /\ NextIn = <<handled + 1, 1>>
    BY <1>1, <1>5, <2>1 DEF Aligned
  <2>3. Idle(client, handled) /\ msg.kind.keep
    BY <1>5, <2>1, <2>2 DEF Complete
  <2>4. Reads(s, handled + 1, 1)
    BY <1>5, <2>2 DEF Reads
  <2>. QED
    BY <2>2, <2>3, <2>4 DEF Ready
<1>. QED
  BY <1>1, <1>3, <1>4, <1>5 DEF Types

LEMMA InputGoesOn ==
  ASSUME HttpInv, KindsAreGood, NEW s \in {"Request", "Headers"}, NEW c, ProcessInput(s, c),
         Ready(s)
  PROVE  InputOK' /\ Clean' = Clean
<1>1. UNCHANGED <<lost, failed>>
  BY DEF ProcessInput
<1>2. Clean' = Clean
  BY <1>1 DEF Clean
<1>. SUFFICES ASSUME Clean PROVE InputOK'
  BY <1>2 DEF InputOK
<1>3. Types /\ Follows(Text) /\ (handled > 0 => msg.req = handled /\ ~msg.alien)
  BY DEF HttpInv, InputOK
<1>4. PICK i \in Nat \ {0} : Reads(s, handled + 1, i) /\ NextIn = <<handled + 1, i>>
  BY DEF Ready
<1>5. Follows(Text)' /\ Aligned' /\ (handled' > 0 => msg'.req = handled' /\ ~msg'.alien)
  BY <1>3, <1>4, LinesAligned
<1>. QED
  BY <1>5 DEF InputOK

(* No request is complete. *)
LEMMA ReadNothing ==
  ASSUME HttpInv, KindsAreGood, NEW s \in {"Request", "Headers"}, NEW c, ProcessInput(s, c),
         Ready(s), c # "Ok", SameAbove
  PROVE  Types' /\ MsgOK' /\ InputOK' /\ OutputOK'
<1>. DEFINE text == Available(s)
            acts == Completing(s, text) # {}
            read == IF acts THEN Min(Completing(s, text)) ELSE Max(Ends(text) \cup {0})
            r    == RequestOf(s, UpTo(text, read))
<1>1. Types
  BY DEF HttpInv
<1>2. /\ Taken(text, read) /\ ~acts /\ r \in Requests \cup {NoRequest, BadRequest}
  BY <1>1, InputRead
<1>3. /\ seq' = (IF acts THEN "Body" ELSE IF r \in Requests THEN "Headers" ELSE s)
      /\ request' = (IF acts THEN NoRequest ELSE r)
      /\ IF acts THEN NewMessage(r) ELSE UNCHANGED <<handled, msg>>
      /\ UNCHANGED <<asked, unsent, eof, persist, resp, left, client, slow, lost, failed>>
  BY DEF ProcessInput
<1>4. linebuf' \in Seq(Units) /\ wire' \in Seq(Units)
  BY <1>1, <1>2, TakenText
<1>. HIDE DEF acts, r, read, text
<1>5. /\ seq' \in {"Request", "Headers"} /\ request' \in Requests \cup {NoRequest, BadRequest}
      /\ UNCHANGED <<handled, msg>>
  BY <1>2, <1>3
<1>6. Types'
  BY <1>1, <1>3, <1>4, <1>5 DEF Types
<1>7. InputOK' /\ Clean' = Clean
  BY InputGoesOn
<1>8. /\ Message' = Message /\ Response' = Response /\ Transfer' = Transfer
  BY <1>5, Names
<1>9. MsgOK'
  <2>1. Framed(msg)' = Framed(msg)
    BY <1>5 DEF Framed, Chunked, HasBody, ContentLength
  <2>2. Message \in opened => Message \in Held
    BY DEF HttpInv, ChainOK
  <2>. QED
    BY <1>3, <1>5, <1>8, <2>1, <2>2 DEF HttpInv, MsgOK, SameAbove
<1>10. OutputOK'
  <2>1. Idle(client, handled)' = Idle(client, handled)
    BY <1>3, <1>5 DEF Idle
  <2>. QED
    BY <1>5, <1>7, <2>1 DEF OutputOK, Ready
<1>. QED
  BY <1>6, <1>7, <1>9, <1>10

(* A request is complete: its message is the only stream above http:connection. *)
LEMMA ReadMessage ==
  ASSUME HttpInv, KindsAreGood, NEW s \in {"Request", "Headers"}, ProcessInput(s, "Ok"),
         Ready(s), streams = <<Connection>>, D!Handler(at), UNCHANGED opened
  PROVE  /\ Types' /\ MsgOK' /\ InputOK' /\ OutputOK'
         /\ streams' = <<Connection, Message'>> /\ fresh' \subseteq fresh
         /\ seq' = "Body" /\ handled' > 0
<1>. DEFINE text == Available(s)
            acts == Completing(s, text) # {}
            read == IF acts THEN Min(Completing(s, text)) ELSE Max(Ends(text) \cup {0})
            r    == RequestOf(s, UpTo(text, read))
            new  == <<"message", handled + 1>>
<1>1. Types /\ ChainOK /\ handled \in Nat
  BY HttpAssumption DEF HttpInv, Types
<1>2. /\ Taken(text, read) /\ acts /\ r \in Requests \cup {BadRequest}
  <2>1. /\ Taken(text, read) /\ (acts <=> "Ok" = "Ok")
        /\ r \in Requests \cup {NoRequest, BadRequest} /\ (acts => r # NoRequest)
    BY <1>1, InputRead
  <2>. QED
    BY <2>1
<1>3. /\ seq' = (IF acts THEN "Body" ELSE IF r \in Requests THEN "Headers" ELSE s)
      /\ request' = (IF acts THEN NoRequest ELSE r)
      /\ IF acts THEN NewMessage(r) ELSE UNCHANGED <<handled, msg>>
      /\ UNCHANGED <<asked, unsent, eof, persist, resp, left, client, slow, lost, failed>>
  BY DEF ProcessInput
<1>4. linebuf' \in Seq(Units) /\ wire' \in Seq(Units)
  BY <1>1, <1>2, TakenText
<1>. HIDE DEF acts, r, read, text
<1>5. /\ seq' = "Body" /\ request' = NoRequest
      /\ handled' = handled + 1 /\ AddStream(new)
      /\ msg' \in MessageType /\ msg'.req = r /\ Framed(msg')
      /\ msg'.kind.body \in Nat
      /\ msg'.read = 0 /\ msg'.readable = -1 /\ msg'.alien = FALSE /\ msg'.hdr = "none"
      /\ msg'.chunked = FALSE /\ msg'.remaining = 0 /\ msg'.written = 0
  BY <1>1, <1>2, <1>3, NewIs
<1>6. new \in fresh /\ streams' = Append(streams, new) /\ fresh' \subseteq fresh
  BY <1>5, AddsOne
<1>7. handled + 1 \in 1..MaxRequests /\ handled' > 0
  <2>1. new \in {Connection} \cup Messages \cup Responses \cup Readers \cup Transfers
    BY <1>1, <1>6 DEF ChainOK
  <2>2. new[1] = "message" /\ new[2] = handled + 1 /\ Connection[1] # "message"
    BY DEF Connection
  <2>3. new \in Messages
    BY <2>1, <2>2 DEF Messages, Responses, Readers, Transfers, Numbered
  <2>. QED
    BY <1>1, <1>5, <2>3 DEF Messages, Numbered
<1>8. Message' = new
  BY <1>5 DEF Message
<1>9. streams' = <<Connection, Message'>>
  <2>. DEFINE a == Connection
              x == new
  <2>. HIDE DEF a, x
  <2>1. Append(<<a>>, x) = <<a, x>>
    BY Appends
  <2>. QED
    BY <1>6, <1>8, <2>1 DEF a, x
<1>10. Types'
  <2>1. handled' \in 0..MaxRequests
    BY <1>5, <1>7
  <2>. QED
    BY <1>1, <1>3, <1>4, <1>5, <1>7, <2>1 DEF Types
<1>11. InputOK' /\ Clean' = Clean
  BY InputGoesOn
<1>12. Held' = {Connection, Message'} /\ Message' \notin opened'
  <2>1. Held' = {Connection, Message'}
    BY <1>9 DEF Held, Range
  <2>2. Range(<<Connection>>) = {Connection}
    BY DEF Range
  <2>3. opened \subseteq {Connection}
    BY <1>1, <2>2 DEF ChainOK, Held
  <2>. QED
    BY <1>8, <2>1, <2>3 DEF Connection
<1>13. Response' \notin Held' /\ Transfer' \notin Held' /\ Message' \in Held'
  BY <1>12 DEF Response, Transfer, Message, Connection
<1>14. MsgOK'
  BY <1>5, <1>12, <1>13 DEF MsgOK
<1>15. OutputOK'
  <2>. SUFFICES ASSUME Clean PROVE OutputOK'
    BY <1>11 DEF OutputOK
  <2>1. Idle(client, handled)
    BY DEF Ready
  <2>2. msg'.req = handled + 1
    BY <1>5, <1>7, <1>11 DEF InputOK
  <2>3. Idle(client, handled)' <=> client'.mode = "idle" /\ client'.done = Done(handled')
    BY DEF Idle
  <2>4. msg'.req - 1 = handled
    BY <1>1, <2>2
  <2>5. Tracks(msg', client')
    BY <1>3, <1>5, <2>1, <2>4 DEF Tracks, Idle
  <2>6. Tracks(msg, client)'
    BY <2>5 DEF Tracks, Idle, Within, Framing, HasBody, ContentLength
  <2>. QED
    BY <1>5, <1>13, <2>6 DEF OutputOK
<1>. QED
  BY <1>5, <1>6, <1>7, <1>9, <1>10, <1>11, <1>14, <1>15

LEMMA NewChain ==
  ASSUME ChainOK, streams = <<Connection>>, streams' = <<Connection, Message'>>,
         fresh' \subseteq fresh, UNCHANGED opened, at' = Connection,
         pc' \in {"writeable", "endloop"}, flags' = {}, state' = "Connected",
         seq' = "Body", handled' > 0
  PROVE  ChainOK'
<1>1. Held' = {Connection, Message'} /\ Held = {Connection}
  BY DEF Held, Range
<1>2. opened' \subseteq {Connection}
  BY <1>1 DEF ChainOK
<1>3. fresh' \subseteq {Connection} \cup Messages \cup Responses \cup Readers \cup Transfers
  BY DEF ChainOK
<1>4. streams' \in Chains' /\ streams' # <<>> /\ streams' # <<Connection>>
  BY DEF Chains, Connection
<1>5. Response' \notin Held'
  BY <1>1 DEF Response, Message, Connection
<1>6. Connection' = Connection
  BY DEF Connection
<1>. QED
  BY <1>1, <1>2, <1>3, <1>4, <1>5, <1>6 DEF ChainOK

LEMMA ConnectionReadableKeeps ==
  ASSUME HttpInv, KindsAreGood, ConnectionReadable
  PROVE  HttpInv'
<1>1. PICK c \in {"Ok", "Wait", "End", "Close"} :
        /\ IF ~Busy
           THEN /\ ProcessInput(seq, c)
                /\ c # "Ok" => AddNone
                /\ state' = IF MeetsEnd(seq) THEN "Closing" ELSE state
           ELSE c = "Ok" /\ AddNone /\ UNCHANGED <<state, ownVars>>
        /\ D!ReadableAnswered(c)
  BY DEF ConnectionReadable
<1>2. at = Connection /\ pc = "readable"
  BY DEF ConnectionReadable, Gets
<1>3. Types /\ ChainOK
  BY DEF HttpInv
<1>4. CASE Busy
  <2>1. c = "Ok" /\ AddNone /\ UNCHANGED <<state, ownVars>> /\ D!ReadableAnswered(c)
    BY <1>1, <1>4
  <2>2. UNCHANGED <<streams, fresh, seq, handled>>
    BY <2>1 DEF AddNone, ownVars, inputVars, outputVars
  <2>3. /\ ChainOK' /\ Held' = Held
        /\ opened' = IF pc = "opening" THEN opened \cup {at} ELSE opened
    BY <1>3, <2>1, <2>2, AnsweredChain
  <2>4. SameAbove
    BY <1>2, <2>2, <2>3 DEF SameAbove
  <2>. QED
    BY <2>1, <2>3, <2>4, OwnWhole DEF HttpInv
<1>5. CASE ~Busy
  <2>1. /\ ProcessInput(seq, c) /\ (c # "Ok" => AddNone)
        /\ state' = (IF MeetsEnd(seq) THEN "Closing" ELSE state) /\ D!ReadableAnswered(c)
    BY <1>1, <1>5
  <2>2. seq # "Body" /\ seq \in {"Request", "Headers"}
    BY <1>3, <1>5 DEF Busy, Types
  <2>3. streams = <<Connection>> /\ state = "Connected" /\ flags = {}
        /\ Held = {Connection}
    <3>1. at \in Held
      BY <1>2, <1>3 DEF ChainOK
    <3>2. Range(<<>>) = {} /\ Range(<<Connection>>) = {Connection}
      BY DEF Range
    <3>. QED
      BY <1>2, <1>3, <2>2, <3>1, <3>2 DEF ChainOK, Held
  <2>4. /\ UNCHANGED <<opened, at, loop>> /\ pc' = "writeable"
        /\ flags' = D!Answer(c) /\ D!Handler(at)
    BY <2>1, <2>3 DEF D!ReadableAnswered, D!Answered
  <2>5. Ready(seq)
    BY <2>2, IsReady
  <2>6. CASE c = "Ok"
    <3>1. ~MeetsEnd(seq)
      <4>1. Completing(seq, Available(seq)) # {}
        BY <1>3, <2>1, <2>2, <2>6, InputRead
      <4>. QED
        BY <4>1 DEF MeetsEnd
    <3>2. /\ Types' /\ MsgOK' /\ InputOK' /\ OutputOK'
          /\ streams' = <<Connection, Message'>> /\ fresh' \subseteq fresh
          /\ seq' = "Body" /\ handled' > 0
      BY <2>1, <2>2, <2>3, <2>4, <2>5, <2>6, ReadMessage
    <3>3. flags' = {} /\ state' = "Connected"
      BY <2>1, <2>3, <2>4, <2>6, <3>1 DEF D!Answer
    <3>4. ChainOK'
      BY <1>2, <1>3, <2>3, <2>4, <3>2, <3>3, NewChain
    <3>. QED
      BY <3>2, <3>4 DEF HttpInv
  <2>7. CASE c # "Ok"
    <3>1. UNCHANGED <<streams, fresh>>
      BY <2>1, <2>7 DEF AddNone
    <3>2. Completing(seq, Available(seq)) = {}
      BY <1>3, <2>1, <2>2, <2>7, InputRead
    <3>3. handled' = handled /\ seq' # "Body"
      BY <2>1, <2>2, <3>2 DEF ProcessInput
    <3>4. Held' = Held /\ Message' = Message /\ Response' = Response
          /\ Chains' = Chains /\ Connection' = Connection
      BY <3>1, <3>3, Names DEF Held, Connection
    <3>5. SameAbove
      BY <2>4, <3>3, <3>4 DEF SameAbove
    <3>6. Types' /\ MsgOK' /\ InputOK' /\ OutputOK'
      BY <2>1, <2>2, <2>5, <2>7, <3>5, ReadNothing
    <3>7. flags' \subseteq {"close", "remove"}
      BY <1>1, <2>4, <2>7 DEF D!Answer
    <3>8. state' \in {"Connected", "Closing"}
      BY <2>1, <2>3
    <3>9. Message \notin Held /\ Response \notin Held
      BY <2>3, Streams
    <3>10. ChainOK'
      BY <1>2, <1>3, <2>3, <2>4, <3>1, <3>3, <3>4, <3>7, <3>8, <3>9 DEF ChainOK
    <3>. QED
      BY <3>6, <3>10 DEF HttpInv
  <2>. QED
    BY <2>6, <2>7
<1>. QED
  BY <1>4, <1>5

(* When http:connection is asked to close, the streams above it are gone. *)
LEMMA ClosesAlone ==
  ASSUME ChainOK, at = Connection, pc = "closing"
  PROVE  /\ streams = <<Connection>> /\ Held = {Connection} /\ flags = {} /\ state = "Closing"
         /\ Message \notin Held
<1>1. streams \in Chains /\ at = D!Upper(streams) /\ Held = Range(streams) /\ flags = {}
      /\ state = "Closing" /\ at \in Held
  BY DEF ChainOK, Held
<1>2. streams = <<Connection>> /\ Held = {Connection}
  BY <1>1, Shapes, Streams
<1>. QED
  BY <1>1, <1>2, Streams

LEMMA ConnectionClosingKeeps ==
  ASSUME HttpInv, KindsAreGood, ConnectionClosing
  PROVE  HttpInv'
<1>1. at = Connection /\ pc = "closing" /\ Types /\ ChainOK
  BY DEF ConnectionClosing, Gets, HttpInv
<1>2. /\ streams = <<Connection>> /\ Held = {Connection} /\ flags = {} /\ state = "Closing"
      /\ Message \notin Held
  BY <1>1, ClosesAlone
<1>3. CASE ~Persists
  <2>1. UNCHANGED state /\ D!ClosingOk /\ UNCHANGED ownVars
    BY <1>3 DEF ConnectionClosing
  <2>2. handled' = handled /\ seq' = seq
    BY <2>1 DEF ownVars, inputVars, outputVars
  <2>3. ChainOK' /\ Held' = Held \ {at} /\ opened' = opened \ {at}
    BY <1>1, <2>1, <2>2, PopChain
  <2>4. SameAbove
    BY <1>1, <2>2, <2>3, Streams DEF SameAbove
  <2>. QED
    BY <2>1, <2>3, <2>4, OwnWhole DEF HttpInv
<1>4. CASE Persists
  <2>1. PICK c \in {"Ok", "Wait", "End", "Close"} :
          /\ ProcessInput("Request", c)
          /\ IF c = "Close" THEN UNCHANGED state /\ D!ClosingOk
             ELSE /\ c # "Ok" => AddNone
                  /\ UNCHANGED interest /\ Buffered
                  /\ D!ClosingCancelled
    BY <1>4 DEF ConnectionClosing
  <2>2. Ready("Request")
    BY <1>2, <1>4, IsReady DEF Persists, Busy
  <2>3. CASE c = "Ok"
    <3>1. D!ClosingCancelled /\ ProcessInput("Request", "Ok")
      BY <2>1, <2>3
    <3>2. /\ UNCHANGED <<opened, at, flags>> /\ pc' = "endloop" /\ state' = "Connected"
          /\ D!Handler(at)
      BY <3>1 DEF D!ClosingCancelled
    <3>3. /\ Types' /\ MsgOK' /\ InputOK' /\ OutputOK'
          /\ streams' = <<Connection, Message'>> /\ fresh' \subseteq fresh
          /\ seq' = "Body" /\ handled' > 0
      BY <1>2, <2>2, <3>1, <3>2, ReadMessage
    <3>4. ChainOK'
      BY <1>1, <1>2, <3>2, <3>3, NewChain
    <3>. QED
      BY <3>3, <3>4 DEF HttpInv
  <2>4. CASE c # "Ok"
    <3>1. Completing("Request", Available("Request")) = {}
      BY <1>1, <2>1, <2>4, InputRead
    <3>2. handled' = handled /\ seq' # "Body"
      BY <2>1, <3>1 DEF ProcessInput
    <3>3. Message' = Message /\ Response' = Response /\ Transfer' = Transfer
      BY <3>2, Names
    <3>4. ChainOK' /\ SameAbove
      <4>1. CASE c = "Close"
        <5>1. UNCHANGED state /\ D!ClosingOk
          BY <2>1, <4>1
        <5>2. ChainOK' /\ Held' = Held \ {at} /\ opened' = opened \ {at}
          BY <1>1, <3>2, <5>1, PopChain
        <5>. QED
          BY <1>1, <3>2, <5>2, Streams DEF SameAbove
      <4>2. CASE c # "Close"
        <5>1. AddNone /\ D!ClosingCancelled
          BY <2>1, <2>4, <4>2
        <5>2. ChainOK' /\ Held' = Held /\ opened' = opened
          BY <1>1, <3>2, <5>1, ClosingChain DEF AddNone
        <5>. QED
          BY <3>2, <5>2 DEF SameAbove
      <4>. QED
        BY <4>1, <4>2
    <3>5. Types' /\ MsgOK' /\ InputOK' /\ OutputOK'
      BY <2>1, <2>2, <2>4, <3>4, ReadNothing
    <3>. QED
      BY <3>4, <3>5 DEF HttpInv
  <2>. QED
    BY <2>3, <2>4
<1>. QED
  BY <1>3, <1>4

-----------------------------------------------------------------------------
(* The invariant is inductive. *)
LEMMA InitHolds ==
  ASSUME HttpInit
  PROVE  HttpInv
<1>1. /\ state = "Connected" /\ streams = <<Connection>> /\ opened = {} /\ pc = "idle"
      /\ flags = {} /\ asked \in [Requests -> Kinds] /\ unsent = <<1, 1>> /\ wire = <<>>
      /\ eof = FALSE /\ linebuf = <<>> /\ seq = "Request" /\ request = NoRequest
      /\ persist \in BOOLEAN /\ handled = 0 /\ msg = [req |-> NoRequest, hdr |-> "none"]
      /\ resp = "Start" /\ left = -1 /\ slow = 0 /\ lost = FALSE /\ failed = {}
      /\ client = [mode |-> "idle", req |-> NoRequest, left |-> 0, done |-> <<>>]
  BY DEF HttpInit, D!Init
<1>2. fresh \subseteq {Connection} \cup Messages \cup Responses \cup Readers \cup Transfers
  BY DEF HttpInit, D!Init
<1>3. Held = {Connection}
  BY <1>1 DEF Held, Range
<1>4. Types
  <2>1. client \in ClientType
    BY <1>1 DEF ClientType, Answers, NoRequest
  <2>2. wire \in Seq(Units) /\ linebuf \in Seq(Units)
    BY <1>1
  <2>3. 0 \in 0..MaxRequests /\ 0 \in 0..MaxSlow /\ unsent \in Nat \X Nat
    BY <1>1, HttpAssumption
  <2>4. handled \in 0..MaxRequests /\ slow \in 0..MaxSlow
    BY <1>1, <2>3
  <2>6. left \in Int
    BY <1>1
  <2>7. lost \in BOOLEAN /\ eof \in BOOLEAN
    BY <1>1, Zenon
  <2>8. /\ seq \in {"Request", "Headers", "Body"}
        /\ request \in Requests \cup {NoRequest, BadRequest}
        /\ resp \in {"Start", "ReadSingle", "ReadEnd", "Write", "WriteWait", "End"}
    BY <1>1, Zenon
  <2>5. ~(handled > 0)
    BY <1>1
  <2>. QED
    BY <1>1, <2>1, <2>2, <2>3, <2>4, <2>5, <2>6, <2>7, <2>8, Zenon DEF Types
<1>5. ChainOK
  <2>1. Message \notin Held /\ Response \notin Held /\ streams \in Chains
    BY <1>1, <1>3, Streams DEF Chains
  <2>. QED
    BY <1>1, <1>2, <1>3, <2>1 DEF ChainOK
<1>6. MsgOK
  BY <1>1 DEF MsgOK
<1>7. Text = <<>>
  <2>1. <<>> \o <<>> = <<>>
    BY ConcatEmptySeq
  <2>. QED
    BY <1>1, <2>1 DEF Text
<1>8. InputOK
  <2>1. Follows(Text)
    BY <1>7 DEF Follows
  <2>2. Aligned
    BY <1>1, <1>7 DEF Aligned, NextIn
  <2>. QED
    BY <1>1, <2>1, <2>2 DEF InputOK
<1>9. OutputOK
  <2>1. Done(0) = <<>>
    BY DEF Done
  <2>2. Idle(client, handled)
    BY <1>1, <2>1 DEF Idle
  <2>. QED
    BY <1>1, <2>2 DEF OutputOK
<1>. QED
  BY <1>4, <1>5, <1>6, <1>8, <1>9 DEF HttpInv

LEMMA StepHolds ==
  ASSUME KindsAreGood, HttpInv, [HttpNext]_httpVars
  PROVE  HttpInv'
<1>1. CASE Arrive
  BY <1>1, ArriveKeeps
<1>2. CASE ClientEnds
  BY <1>2, ClientEndsKeeps
<1>3. CASE Dispatch \/ DispatchGone \/ SourceReady \/ Quiet
  BY <1>3, QuietKeeps
<1>4. CASE Handlers
  <2>1. CASE ConnectionOpening \/ AboveOpening
    BY <2>1, OpeningKeeps
  <2>2. CASE ConnectionReadable
    BY <2>2, ConnectionReadableKeeps
  <2>3. CASE ConnectionClosing
    BY <2>3, ConnectionClosingKeeps
  <2>4. CASE MessageOpening
    BY <2>4, MessageOpeningKeeps
  <2>5. CASE MessageWriteable
    BY <2>5, MessageWriteableKeeps
  <2>6. CASE MessageClosingEmpty
    BY <2>6, MessageClosingEmptyKeeps
  <2>7. CASE MessageClosingLate
    BY <2>7, MessageClosingLateKeeps
  <2>8. CASE MessageClosing
    BY <2>8, MessageClosingKeeps
  <2>9. CASE ResponseOpening
    BY <2>9, ResponseOpeningKeeps
  <2>10. CASE ResponseWriteable
    BY <2>10, ResponseWriteableKeeps
  <2>11. CASE ResponseClosing
    BY <2>11, ResponseClosingKeeps
  <2>12. CASE AboveClosing
    BY <2>12, AboveClosingKeeps
  <2>13. CASE ReaderReadable
    BY <2>13, ReaderReadableKeeps
  <2>14. CASE TransferWriteable
    BY <2>14, TransferWriteableKeeps
  <2>. QED
    BY <1>4, <2>1, <2>2, <2>3, <2>4, <2>5, <2>6, <2>7, <2>8, <2>9, <2>10, <2>11, <2>12, <2>13,
       <2>14 DEF Handlers
<1>5. CASE Gone \/ UNCHANGED httpVars
  BY <1>5, StutterKeeps DEF Gone
<1>. QED
  BY <1>1, <1>2, <1>3, <1>4, <1>5 DEF HttpNext

(* Whatever the requests are that the client makes (of those that KindsAreGood
   lets pass), however they arrive and however the writes are cut: the chain of
   streams, the message, the input and the client stay as HttpInv says. *)
THEOREM HttpInvHolds ==
  ASSUME KindsAreGood
  PROVE  HttpSpec => []HttpInv
<1>1. HttpInit => HttpInv
  BY InitHolds
<1>2. HttpInv /\ [HttpNext]_httpVars => HttpInv'
  BY StepHolds
<1>. QED
  BY <1>1, <1>2, PTL DEF HttpSpec

(* ConnectionStream and MessageStream keep their members within their types. *)
THEOREM HttpTypes ==
  ASSUME KindsAreGood
  PROVE  HttpSpec => []HttpTypeOK
<1>1. HttpInv => HttpTypeOK
  <2>. SUFFICES ASSUME HttpInv PROVE HttpTypeOK
    OBVIOUS
  <2>1. Types /\ MsgOK
    BY DEF HttpInv
  <2>2. msg.hdr \in {"none", "buffered", "sent"}
    <3>1. handled = 0 \/ handled > 0
      BY <2>1, HttpAssumption DEF Types
    <3>. QED
      BY <2>1, <3>1 DEF Types, MessageType
  <2>3. ASSUME handled > 0
        PROVE  /\ msg.read \in 0..msg.kind.body /\ msg.written \in Nat
               /\ IF msg.chunked THEN msg.remaining \in -1..1
                  ELSE msg.remaining = 0 - msg.written
    <3>1. msg \in MessageType /\ Framed(msg) /\ msg.read <= msg.kind.body
      BY <2>1, <2>3 DEF Types, MsgOK
    <3>2. msg.read \in Nat /\ msg.written \in Nat /\ msg.kind.body \in Nat
      BY <3>1, MessageTypes, KindTypes DEF MessageType
    <3>. QED
      BY <3>1, <3>2 DEF Framed
  <2>. QED
    BY <2>1, <2>2, <2>3 DEF Types, HttpTypeOK
<1>2. HttpSpec => []HttpInv
  BY HttpInvHolds
<1>. QED
  BY <1>1, <1>2, PTL

(* What the client has of the responses, by HttpInv. *)
LEMMA ClientIs ==
  ASSUME HttpInv, Clean
  PROVE  /\ client.mode # "broken"
         /\ \E n \in Nat : client.done = Done(n)
<1>1. Types /\ OutputOK /\ handled \in Nat
  BY HttpAssumption DEF HttpInv, Types
<1>2. CASE seq # "Body"
  BY <1>1, <1>2 DEF OutputOK, Idle
<1>3. CASE seq = "Body"
  <2>1. handled > 0 /\ msg \in MessageType /\ msg.req = handled
    BY <1>1, <1>3 DEF HttpInv, ChainOK, InputOK, Types
  <2>2. msg.req \in Nat /\ msg.req - 1 \in Nat
    BY <1>1, <2>1
  <2>3. CASE Message \in Held
    <3>1. Tracks(msg, client)
      BY <1>1, <1>3, <2>3 DEF OutputOK
    <3>2. Framing(msg).frame \in {"none", "length", "chunked", "close"}
      BY <2>1, MessageTypes
    <3>3. \/ Idle(client, msg.req - 1) \/ Idle(client, msg.req)
          \/ \E m \in {"length", "first", "next", "chunk", "close"} : Within(client, m, msg)
      BY <3>1, <3>2 DEF Tracks
    <3>. QED
      BY <2>2, <3>3 DEF Idle, Within
  <2>4. CASE Message \notin Held
    <3>1. Complete(msg, client)
      BY <1>1, <1>3, <2>4 DEF OutputOK
    <3>. QED
      BY <2>2, <3>1 DEF Complete, Idle, Within
  <2>. QED
    BY <2>3, <2>4
<1>. QED
  BY <1>2, <1>3

(* The client can take the responses apart, and they answer its requests in turn. *)
THEOREM ClientAlwaysReads ==
  ASSUME KindsAreGood
  PROVE  HttpSpec => []ClientReads
<1>1. HttpInv => ClientReads
  <2>. SUFFICES ASSUME HttpInv, Clean
                PROVE  /\ client.mode # "broken"
                       /\ client.done = [i \in 1..Len(client.done) |-> i]
    BY DEF ClientReads
  <2>1. PICK n \in Nat : client.done = Done(n)
    BY ClientIs
  <2>2. Len(client.done) = n
    BY <2>1 DEF Done
  <2>. QED
    BY <2>1, <2>2, ClientIs DEF Done
<1>2. HttpSpec => []HttpInv
  BY HttpInvHolds
<1>. QED
  BY <1>1, <1>2, PTL

(* The n-th message is the n-th request, and what is read as its body is its body. *)
THEOREM InputAlwaysAligned ==
  ASSUME KindsAreGood
  PROVE  HttpSpec => []InputStaysAligned
<1>1. HttpInv => InputStaysAligned
  BY DEF HttpInv, InputOK, InputStaysAligned
<1>2. HttpSpec => []HttpInv
  BY HttpInvHolds
<1>. QED
  BY <1>1, <1>2, PTL

(* Only these steps start a message. *)
LEMMA Starts ==
  ASSUME HttpNext, handled' # handled
  PROVE  \/ ConnectionReadable /\ ~Busy
         \/ ConnectionClosing /\ Persists
<1>1. CASE Arrive \/ ClientEnds
  BY <1>1 DEF Arrive, ClientEnds, outputVars
<1>2. CASE Dispatch \/ DispatchGone \/ SourceReady \/ Quiet \/ Gone
  BY <1>2 DEF Dispatch, DispatchGone, SourceReady, Quiet, Gone, httpVars, ownVars, outputVars
<1>3. CASE Handlers
  <2>1. CASE ConnectionReadable /\ Busy
    BY <2>1 DEF ConnectionReadable, ownVars, outputVars
  <2>2. CASE ConnectionClosing /\ ~Persists
    BY <2>2 DEF ConnectionClosing, ownVars, outputVars
  <2>3. CASE ConnectionOpening \/ AboveOpening \/ AboveClosing
    BY <2>3 DEF ConnectionOpening, AboveOpening, AboveClosing, ownVars, outputVars
  <2>4. CASE MessageOpening \/ MessageWriteable
    BY <2>4 DEF MessageOpening, MessageWriteable
  <2>5. CASE MessageClosingEmpty \/ MessageClosingLate \/ MessageClosing
    BY <2>5 DEF MessageClosingEmpty, MessageClosingLate, MessageClosing
  <2>6. CASE ResponseOpening \/ ResponseWriteable \/ ResponseClosing
    BY <2>6 DEF ResponseOpening, ResponseWriteable, ResponseClosing
  <2>7. CASE ReaderReadable \/ TransferWriteable
    BY <2>7 DEF ReaderReadable, TransferWriteable
  <2>. QED
    BY <1>3, <2>1, <2>2, <2>3, <2>4, <2>5, <2>6, <2>7 DEF Handlers
<1>. QED
  BY <1>1, <1>2, <1>3 DEF HttpNext

(* A message is started when the response before it is complete, and left the
   connection open. *)
THEOREM NextAlwaysAfterWhole ==
  ASSUME KindsAreGood
  PROVE  HttpSpec => NextAfterWhole
<1>1. ASSUME HttpInv, [HttpNext]_httpVars, handled' # handled, handled > 0, Clean
      PROVE  client.mode = "idle" /\ Len(client.done) = handled /\ msg.kind.keep
  <2>1. HttpNext /\ Types /\ ChainOK /\ handled \in Nat
    BY <1>1, HttpAssumption DEF HttpInv, Types, httpVars, ownVars, outputVars
  <2>2. CASE ConnectionReadable /\ ~Busy
    <3>1. seq # "Body" /\ seq \in {"Request", "Headers"}
      BY <2>1, <2>2 DEF Busy, Types
    <3>2. Ready(seq)
      BY <1>1, <3>1, IsReady
    <3>. QED
      BY <1>1, <2>1, <3>2 DEF Ready, Idle, Done
  <2>3. CASE ConnectionClosing /\ Persists
    <3>1. Message \notin Held
      BY <2>1, <2>3, ClosesAlone DEF ConnectionClosing, Gets
    <3>2. Ready("Request")
      BY <1>1, <2>3, <3>1, IsReady DEF Persists, Busy
    <3>. QED
      BY <1>1, <2>1, <3>2 DEF Ready, Idle, Done
  <2>. QED
    BY <1>1, <2>1, <2>2, <2>3, Starts
<1>2. HttpInv /\ [HttpNext]_httpVars
        => [handled' # handled /\ handled > 0 /\ Clean =>
              /\ client.mode = "idle" /\ Len(client.done) = handled
              /\ msg.kind.keep]_httpVars
  BY <1>1
<1>3. HttpSpec => []HttpInv
  BY HttpInvHolds
<1>. QED
  BY <1>2, <1>3, PTL DEF HttpSpec, NextAfterWhole

=============================================================================
