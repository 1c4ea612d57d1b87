---------------------------- MODULE RWLockProofs ----------------------------
(***************************************************************************)
(* Proofs about RWLock, for every finite set of lockers.  The inductive    *)
(* invariant IInv ties the two counters to the lockers that hold the lock; *)
(* Effect says what any step does to the counters and to who holds it, and *)
(* from it follow the invariant and the refinement of SharedLock.          *)
(***************************************************************************)
EXTENDS RWLock, FiniteSetTheorems, TLAPS

Places == {"run", "asleep", "woken", "gone"}

Types ==
  /\ m_readers \in Nat
  /\ m_writing \in BOOLEAN
  /\ m_locked \in [Lockers -> BOOLEAN]
  /\ m_mode \in [Lockers -> Modes]
  /\ at \in [Lockers -> Places]
  /\ want \in [Lockers -> Modes]

Counted == m_readers = Cardinality(Readers)

(* m_writing is set exactly while some locker holds the lock for writing. *)
WritingIsHeld == m_writing <=> \E u \in Lockers : HeldBy(u) = "Write"

(* What a sleeper waits for, in terms of the lock's members. *)
WokenWriter == \E u \in Lockers : at[u] = "woken" /\ want[u] = "Write"

SleepersBlocked ==
  \A t \in Lockers : at[t] = "asleep" =>
    \/ m_writing
    \/ want[t] = "Write" /\ (m_readers > 0 \/ WokenWriter)

IInv == Types /\ Counted /\ WritingIsHeld /\ OneWriter /\ SleepersBlocked

-----------------------------------------------------------------------------
(* Counting the readers *)

LEMMA ReadersFinite == IsFiniteSet(Readers)
  BY LockersAssumption, FS_Subset DEF Readers

LEMMA OneReaderCounts ==
  ASSUME Counted, NEW t \in Lockers, HeldBy(t) = "Read"
  PROVE  m_readers > 0
<1>1. t \in Readers  BY DEF Readers
<1>2. Cardinality(Readers) # 0  BY <1>1, ReadersFinite, FS_EmptySet
<1>3. Cardinality(Readers) \in Nat  BY ReadersFinite, FS_CardinalityType
<1> QED  BY <1>2, <1>3 DEF Counted

LEMMA NoReadersIsFree ==
  ASSUME Counted, m_readers = 0
  PROVE  \A u \in Lockers : HeldBy(u) # "Read"
<1>1. Readers = {}  BY ReadersFinite, FS_EmptySet DEF Counted
<1> QED  BY <1>1 DEF Readers

LEMMA LastReaderIsAlone ==
  ASSUME Counted, m_readers = 1, NEW t \in Lockers, HeldBy(t) = "Read"
  PROVE  \A u \in Lockers \ {t} : HeldBy(u) # "Read"
<1>1. t \in Readers  BY DEF Readers
<1>2. /\ IsFiniteSet(Readers \ {t})
      /\ Cardinality(Readers \ {t}) = Cardinality(Readers) - 1
  BY <1>1, ReadersFinite, FS_RemoveElement
<1>3. Readers \ {t} = {}  BY <1>2, FS_EmptySet DEF Counted
<1> QED  BY <1>3 DEF Readers

-----------------------------------------------------------------------------
(* What a step does to the lock: t is the locker that acts. *)

OthersKeep(t) == \A u \in Lockers \ {t} : HeldBy(u)' = HeldBy(u)

Stays(t) == HeldBy(t)' = HeldBy(t) /\ UNCHANGED <<m_readers, m_writing>>

TakesRead(t) ==
  /\ HeldBy(t) = "None" /\ HeldBy(t)' = "Read" /\ ~m_writing
  /\ m_readers' = m_readers + 1 /\ m_writing' = m_writing

TakesWrite(t) ==
  /\ HeldBy(t) = "None" /\ HeldBy(t)' = "Write" /\ ~m_writing /\ m_readers = 0
  /\ m_readers' = m_readers /\ m_writing' = TRUE

Upgrades(t) ==
  /\ HeldBy(t) = "Read" /\ HeldBy(t)' = "Write" /\ ~m_writing /\ m_readers = 1
  /\ m_readers' = 0 /\ m_writing' = TRUE

Downgrades(t) ==
  /\ HeldBy(t) = "Write" /\ HeldBy(t)' = "Read"
  /\ m_readers' = m_readers + 1 /\ m_writing' = FALSE

LeavesRead(t) ==
  /\ HeldBy(t) = "Read" /\ HeldBy(t)' = "None" /\ m_readers > 0
  /\ m_readers' = m_readers - 1 /\ m_writing' = m_writing

LeavesWrite(t) ==
  /\ HeldBy(t) = "Write" /\ HeldBy(t)' = "None"
  /\ m_readers' = m_readers /\ m_writing' = FALSE

Effect(t) ==
  /\ OthersKeep(t)
  /\ \/ Stays(t) \/ TakesRead(t) \/ TakesWrite(t) \/ Upgrades(t)
     \/ Downgrades(t) \/ LeavesRead(t) \/ LeavesWrite(t)

(* The condition variable moves only sleepers besides its caller. *)
Moves(t, p) ==
  /\ at' \in [Lockers -> Places]
  /\ at'[t] = p
  /\ \A u \in Lockers \ {t} :
       at'[u] = at[u] \/ (at[u] = "asleep" /\ at'[u] = "woken")

LEMMA WakingMoves ==
  ASSUME Types, NEW t \in Lockers, at[t] # "asleep", NEW p \in Places,
         WakeNone(t, p) \/ WakeOne(t, p) \/ WakeAll(t, p)
  PROVE  Moves(t, p)
<1>1. CASE WakeNone(t, p)
  BY <1>1 DEF WakeNone, Moves, Types, Places
<1>2. CASE \E u \in Asleep : at' = [at EXCEPT ![t] = p, ![u] = "woken"]
  BY <1>2 DEF Asleep, Moves, Types, Places
<1>3. CASE WakeAll(t, p)
  BY <1>3 DEF WakeAll, Asleep, Moves, Types, Places
<1> QED  BY <1>1, <1>2, <1>3 DEF WakeOne

(* A step that touches only the locker t leaves the others what they hold. *)
LEMMA MovesKeep ==
  ASSUME NEW t \in Lockers, NEW p \in Places, Moves(t, p),
         \A u \in Lockers \ {t} :
           m_locked'[u] = m_locked[u] /\ m_mode'[u] = m_mode[u]
  PROVE  /\ OthersKeep(t)
         /\ HeldBy(t)' = IF m_locked'[t] /\ p = "run" THEN m_mode'[t] ELSE "None"
<1>1. ASSUME NEW u \in Lockers \ {t}  PROVE HeldBy(u)' = HeldBy(u)
  BY <1>1 DEF Moves, HeldBy
<1>2. HeldBy(t)' = IF m_locked'[t] /\ p = "run" THEN m_mode'[t] ELSE "None"
  BY DEF Moves, HeldBy
<1> QED  BY <1>1, <1>2 DEF OthersKeep

(* Taking the lock, at once or after a wait. *)
LEMMA Taking ==
  ASSUME Types, NEW t \in Lockers, NEW mode \in Modes,
         ~Blocked(mode, m_readers, m_writing),
         HeldBy(t) = "None", HeldBy(t)' = mode,
         m_readers' = IF mode = "Read" THEN m_readers + 1 ELSE m_readers,
         m_writing' = (m_writing \/ mode = "Write")
  PROVE  /\ TakesRead(t) \/ TakesWrite(t)
         /\ m_readers' \in Nat /\ m_writing' \in BOOLEAN
<1>1. ~m_writing  BY DEF Blocked
<1>2. CASE mode = "Read"
  <2>1. m_writing' = FALSE  BY <1>1, <1>2, Zenon
  <2>2. m_writing = FALSE  BY <1>1 DEF Types
  <2> QED  BY <1>1, <1>2, <2>1, <2>2 DEF TakesRead, Types
<1>3. CASE mode = "Write"
  <2>1. m_writing' = TRUE  BY <1>3, Zenon
  <2>2. m_readers = 0  BY <1>3 DEF Blocked, Types
  <2> QED  BY <1>1, <1>3, <2>1, <2>2 DEF TakesWrite
<1> QED  BY <1>2, <1>3 DEF Modes

LEMMA TakingLeavesReason ==
  ASSUME Types, NEW t \in Lockers, TakesRead(t) \/ TakesWrite(t)
  PROVE  m_writing' \/ (~m_writing' /\ ~m_writing /\ m_readers' > 0)
<1>1. CASE TakesWrite(t)  BY <1>1 DEF TakesWrite
<1>2. CASE TakesRead(t)
  <2>1. ~m_writing /\ ~m_writing'  BY <1>2 DEF TakesRead
  <2>2. m_readers' > 0  BY <1>2 DEF TakesRead, Types
  <2> QED  BY <2>1, <2>2
<1> QED  BY <1>1, <1>2

(* Which places an action sends its locker to, and that it changes no other
   locker's members. *)
LEMMA LockNowEffect ==
  ASSUME IInv, NEW t \in Lockers, NEW mode \in Modes, LockNow(t, mode)
  PROVE  /\ Types' /\ Moves(t, "run") /\ Effect(t)
         /\ TakesRead(t) \/ TakesWrite(t)
<1> USE DEF IInv
<1>1. Moves(t, "run")
  BY DEF LockNow, Moves, Types
<1>2. OthersKeep(t) /\ HeldBy(t)' = mode /\ HeldBy(t) = "None"
  <2>1. \A u \in Lockers \ {t} :
          m_locked'[u] = m_locked[u] /\ m_mode'[u] = m_mode[u]
    BY DEF LockNow, Granted, Types
  <2>2. m_locked'[t] /\ m_mode'[t] = mode /\ ~m_locked[t]
    BY DEF LockNow, Granted, Types
  <2> QED  BY <1>1, <2>1, <2>2, MovesKeep DEF Places, HeldBy
<1>3. /\ TakesRead(t) \/ TakesWrite(t)
      /\ m_readers' \in Nat /\ m_writing' \in BOOLEAN
  BY <1>2, Taking DEF LockNow
<1>4. Types'
  BY <1>3 DEF LockNow, Granted, Types
<1> QED  BY <1>1, <1>2, <1>3, <1>4 DEF Effect

LEMMA LockWaitEffect ==
  ASSUME IInv, NEW t \in Lockers, NEW mode \in Modes, LockWait(t, mode)
  PROVE  Types' /\ Moves(t, "asleep") /\ Effect(t)
<1> USE DEF IInv
<1>1. Types'
  BY DEF LockWait, WakeNone, Types, Places
<1>2. Moves(t, "asleep")
  BY WakingMoves DEF LockWait, Places
<1>3. OthersKeep(t) /\ HeldBy(t)' = "None" /\ HeldBy(t) = "None"
  BY <1>2, MovesKeep DEF LockWait, Places, HeldBy
<1>4. Stays(t)
  BY <1>3 DEF LockWait, Stays
<1> QED  BY <1>1, <1>2, <1>3, <1>4 DEF Effect

LEMMA SpuriousEffect ==
  ASSUME IInv, NEW t \in Lockers, Spurious(t)
  PROVE  Types' /\ Moves(t, "woken") /\ Effect(t)
<1> USE DEF IInv
<1>1. Types'
  BY DEF Spurious, WakeNone, Types, Places
<1>2. Moves(t, "woken")
  BY DEF Spurious, WakeNone, Moves, Types, Places
<1>3. OthersKeep(t) /\ HeldBy(t)' = "None" /\ HeldBy(t) = "None"
  BY <1>2, MovesKeep DEF Spurious, Places, HeldBy
<1>4. Stays(t)
  BY <1>3 DEF Spurious, Stays
<1> QED  BY <1>1, <1>2, <1>3, <1>4 DEF Effect

LEMMA RetryEffect ==
  ASSUME IInv, NEW t \in Lockers, Retry(t)
  PROVE  /\ Types' /\ Effect(t)
         /\ \/ Moves(t, "run") /\ (TakesRead(t) \/ TakesWrite(t))
            \/ Moves(t, "asleep") /\ Blocked(want[t], m_readers, m_writing)
<1> USE DEF IInv
<1>1. CASE Blocked(want[t], m_readers, m_writing)
  <2>1. Types'
    BY <1>1 DEF Retry, WakeNone, Types, Places
  <2>2. Moves(t, "asleep")
    BY <1>1, WakingMoves DEF Retry, Places
  <2>3. OthersKeep(t) /\ HeldBy(t)' = "None" /\ HeldBy(t) = "None"
    BY <1>1, <2>2, MovesKeep DEF Retry, Places, HeldBy
  <2>4. Stays(t)
    BY <1>1, <2>3 DEF Retry, Stays
  <2> QED  BY <1>1, <2>1, <2>2, <2>3, <2>4 DEF Effect
<1>2. CASE ~Blocked(want[t], m_readers, m_writing)
  <2>2. Moves(t, "run")
    BY <1>2, WakingMoves DEF Retry, Places
  <2>3. OthersKeep(t) /\ HeldBy(t)' = want[t] /\ HeldBy(t) = "None"
    <3>1. \A u \in Lockers \ {t} :
            m_locked'[u] = m_locked[u] /\ m_mode'[u] = m_mode[u]
      BY <1>2 DEF Retry, Granted, Types
    <3>2. m_locked'[t] /\ m_mode'[t] = want[t] /\ at[t] # "run"
      BY <1>2 DEF Retry, Granted, Types
    <3> QED  BY <2>2, <3>1, <3>2, MovesKeep DEF Places, HeldBy
  <2>4. /\ TakesRead(t) \/ TakesWrite(t)
        /\ m_readers' \in Nat /\ m_writing' \in BOOLEAN
    BY <1>2, <2>3, Taking DEF Retry, Types
  <2>5. m_locked' \in [Lockers -> BOOLEAN] /\ m_mode' \in [Lockers -> Modes]
    BY <1>2 DEF Retry, Granted, Types
  <2>6. Types'
    BY <2>2, <2>4, <2>5 DEF Retry, Moves, Types
  <2> QED  BY <2>2, <2>3, <2>4, <2>6 DEF Effect
<1> QED  BY <1>1, <1>2

LEMMA ConvertReadEffect ==
  ASSUME IInv, NEW t \in Lockers, ConvertRead(t)
  PROVE  /\ Types' /\ Moves(t, "run") /\ Effect(t)
         /\ \A u \in Lockers : at'[u] # "asleep"
<1> USE DEF IInv
<1>1. HeldBy(t) = "Write" /\ m_writing
  BY DEF ConvertRead, HeldBy, WritingIsHeld
<1>2. WakeAll(t, "run")
  BY <1>1 DEF ConvertRead
<1>3. Moves(t, "run")
  BY <1>2, WakingMoves DEF ConvertRead, Places
<1>4. OthersKeep(t) /\ HeldBy(t)' = "Read"
  <2>1. \A u \in Lockers \ {t} :
          m_locked'[u] = m_locked[u] /\ m_mode'[u] = m_mode[u]
    BY DEF ConvertRead, Granted, Types
  <2>2. m_locked'[t] /\ m_mode'[t] = "Read"
    BY DEF ConvertRead, Granted, Types
  <2> QED  BY <1>3, <2>1, <2>2, MovesKeep DEF Places
<1>5. Types'
  <2>1. m_locked' \in [Lockers -> BOOLEAN] /\ m_mode' \in [Lockers -> Modes]
    BY DEF ConvertRead, Granted, Types, Modes
  <2>2. m_readers' \in Nat
    <3>1. m_readers' = m_readers + 1  BY DEF ConvertRead
    <3> QED  BY <3>1 DEF Types
  <2>3. m_writing' = FALSE /\ want' = want
    BY DEF ConvertRead
  <2> QED  BY <1>3, <2>1, <2>2, <2>3 DEF Moves, Types
<1>6. Downgrades(t)
  BY <1>1, <1>4 DEF ConvertRead, Downgrades
<1>7. \A u \in Lockers : at'[u] # "asleep"
  BY <1>2 DEF WakeAll, Asleep
<1> QED  BY <1>3, <1>4, <1>5, <1>6, <1>7 DEF Effect

LEMMA ConvertWriteEffect ==
  ASSUME IInv, NEW t \in Lockers, ConvertWrite(t)
  PROVE  /\ Types' /\ Effect(t)
         /\ \/ Moves(t, "run") /\ m_writing'
            \/ /\ Moves(t, "asleep") /\ m_readers' > 0
               /\ want' = [want EXCEPT ![t] = "Write"]
<1> USE DEF IInv
<1>1. HeldBy(t) = "Read" /\ m_readers > 0
  BY OneReaderCounts DEF ConvertWrite, HeldBy
<1>2. ~m_writing
  BY <1>1 DEF WritingIsHeld, OneWriter
<1>3. m_readers' = m_readers - 1
  BY <1>1 DEF ConvertWrite
<1>4. CASE m_readers' > 0
  <2>1. Moves(t, "asleep")
    BY <1>1, <1>2, <1>3, <1>4, WakingMoves
    DEF ConvertWrite, Blocked, Types, Places
  <2>2. /\ want' = [want EXCEPT ![t] = "Write"]
        /\ UNCHANGED <<m_writing, m_locked, m_mode>>
    BY <1>1, <1>3, <1>4 DEF ConvertWrite, Blocked, Types
  <2>3. OthersKeep(t) /\ HeldBy(t)' = "None"
    BY <2>1, <2>2, MovesKeep DEF Places
  <2>4. Types'
    BY <1>3, <2>1, <2>2 DEF ConvertWrite, Moves, Types, Modes
  <2>5. LeavesRead(t)
    BY <1>1, <1>3, <2>2, <2>3 DEF LeavesRead
  <2> QED  BY <1>4, <2>1, <2>2, <2>3, <2>4, <2>5 DEF Effect
<1>5. CASE m_readers' = 0
  <2>1. Moves(t, "run")
    BY <1>1, <1>2, <1>3, <1>5, WakingMoves
    DEF ConvertWrite, Blocked, Types, Places
  <2>2. m_writing' = TRUE /\ Granted(t, "Write") /\ UNCHANGED want
    BY <1>1, <1>2, <1>3, <1>5 DEF ConvertWrite, Blocked, Types
  <2>3. OthersKeep(t) /\ HeldBy(t)' = "Write"
    <3>1. \A u \in Lockers \ {t} :
            m_locked'[u] = m_locked[u] /\ m_mode'[u] = m_mode[u]
      BY <2>2 DEF Granted, Types
    <3>2. m_locked'[t] /\ m_mode'[t] = "Write"
      BY <2>2 DEF Granted, Types
    <3> QED  BY <2>1, <3>1, <3>2, MovesKeep DEF Places
  <2>4. Types'
    <3>1. m_locked' \in [Lockers -> BOOLEAN] /\ m_mode' \in [Lockers -> Modes]
      BY <2>2 DEF Granted, Types, Modes
    <3>2. m_writing' \in BOOLEAN
      BY <2>2
    <3>3. want' \in [Lockers -> Modes]
      BY <2>2 DEF Types
    <3>4. at' \in [Lockers -> Places]
      BY <2>1 DEF Moves
    <3> QED  BY <1>5, <3>1, <3>2, <3>3, <3>4 DEF Types
  <2>5. Upgrades(t)
    BY <1>1, <1>2, <1>3, <1>5, <2>2, <2>3 DEF Upgrades, Types
  <2> QED  BY <2>1, <2>2, <2>3, <2>4, <2>5 DEF Effect
<1>6. m_readers' \in Nat
  BY <1>1, <1>3 DEF Types
<1>7. m_readers' > 0 \/ m_readers' = 0
  BY <1>6
<1> QED  BY <1>4, <1>5, <1>7

LEMMA LockAgainEffect ==
  ASSUME IInv, NEW t \in Lockers, LockAgain(t)
  PROVE  Types' /\ Moves(t, "run") /\ Effect(t)
<1> USE DEF IInv
<1>1. Types'
  BY DEF LockAgain, Types
<1>2. Moves(t, "run")
  BY DEF LockAgain, Moves, Types
<1>3. Effect(t)
  BY DEF LockAgain, Effect, OthersKeep, Stays, HeldBy
<1> QED  BY <1>1, <1>2, <1>3

(* Letting go of the lock, by unlock() or by the destructor. *)
LEMMA ReadUnlocked ==
  ASSUME IInv, NEW t \in Lockers, NEW p \in {"run", "gone"}, at[t] = "run",
         UnlockRead(t, p), m_locked' = [m_locked EXCEPT ![t] = FALSE],
         UNCHANGED <<m_mode, want>>
  PROVE  /\ Types' /\ Moves(t, p) /\ Effect(t)
         /\ m_readers' = 0 => WakeOne(t, p)
<1> USE DEF IInv
<1>1. HeldBy(t) = "Read" /\ m_readers > 0
  BY OneReaderCounts DEF UnlockRead, HeldBy
<1>2. m_readers' = m_readers - 1 /\ m_readers' \in Nat
  BY <1>1 DEF UnlockRead, Types
<1>3. Moves(t, p)
  BY WakingMoves DEF UnlockRead, Places
<1>4. OthersKeep(t) /\ HeldBy(t)' = "None"
  BY <1>3, MovesKeep DEF Types, Places
<1>5. Types'
  BY <1>2, <1>3 DEF UnlockRead, Moves, Types
<1>6. LeavesRead(t)
  BY <1>1, <1>2, <1>4 DEF UnlockRead, LeavesRead
<1>7. m_readers' = 0 => WakeOne(t, p)
  BY <1>1 DEF UnlockRead
<1> QED  BY <1>3, <1>4, <1>5, <1>6, <1>7 DEF Effect

LEMMA WriteUnlocked ==
  ASSUME IInv, NEW t \in Lockers, NEW p \in {"run", "gone"}, at[t] = "run",
         UnlockWrite(t, p), m_locked' = [m_locked EXCEPT ![t] = FALSE],
         UNCHANGED <<m_mode, want>>
  PROVE  /\ Types' /\ Moves(t, p) /\ Effect(t)
         /\ \A u \in Lockers : at'[u] # "asleep"
<1> USE DEF IInv
<1>1. HeldBy(t) = "Write" /\ m_writing
  BY DEF UnlockWrite, HeldBy, WritingIsHeld
<1>2. WakeAll(t, p)
  BY <1>1 DEF UnlockWrite
<1>3. Moves(t, p)
  BY <1>2, WakingMoves DEF Places
<1>4. OthersKeep(t) /\ HeldBy(t)' = "None"
  BY <1>3, MovesKeep DEF Types, Places
<1>5. Types'
  BY <1>3 DEF UnlockWrite, Moves, Types
<1>6. LeavesWrite(t)
  BY <1>1, <1>4 DEF UnlockWrite, LeavesWrite
<1>7. \A u \in Lockers : at'[u] # "asleep"
  BY <1>2 DEF WakeAll, Asleep
<1> QED  BY <1>3, <1>4, <1>5, <1>6, <1>7 DEF Effect

(* The destructor of a locker that is not locked. *)
LEMMA DestroyedUnlocked ==
  ASSUME IInv, NEW t \in Lockers, at[t] = "run", ~m_locked[t],
         WakeNone(t, "gone"), UNCHANGED <<m_readers, m_writing>>,
         m_locked' = [m_locked EXCEPT ![t] = FALSE],
         UNCHANGED <<m_mode, want>>
  PROVE  Types' /\ Moves(t, "gone") /\ Effect(t)
<1> USE DEF IInv
<1>1. Moves(t, "gone")
  BY WakingMoves DEF Places
<1>2. OthersKeep(t) /\ HeldBy(t)' = "None" /\ HeldBy(t) = "None"
  BY <1>1, MovesKeep DEF Types, Places, HeldBy
<1>3. Types'
  BY <1>1 DEF Moves, Types
<1>4. Stays(t)
  BY <1>2 DEF Stays
<1> QED  BY <1>1, <1>2, <1>3, <1>4 DEF Effect

LEMMA CreateEffect ==
  ASSUME IInv, NEW t \in Lockers, Create(t)
  PROVE  Types' /\ Moves(t, "run") /\ Effect(t)
<1> USE DEF IInv
<1>1. Moves(t, "run")
  BY WakingMoves DEF Create, Places
<1>2. m_mode' \in [Lockers -> Modes]
      /\ \A u \in Lockers \ {t} : m_mode'[u] = m_mode[u]
  BY DEF Create, Types
<1>3. OthersKeep(t) /\ HeldBy(t)' = "None" /\ HeldBy(t) = "None"
  BY <1>1, <1>2, MovesKeep DEF Create, Types, Places, HeldBy
<1>4. Types'
  BY <1>1, <1>2 DEF Create, Moves, Types
<1>5. Stays(t)
  BY <1>3 DEF Create, Stays
<1> QED  BY <1>1, <1>3, <1>4, <1>5 DEF Effect

-----------------------------------------------------------------------------
(* The invariant *)

LEMMA EffectKeepsCount ==
  ASSUME IInv, Types', NEW t \in Lockers, Effect(t)
  PROVE  Counted'
<1> USE DEF IInv
<1>1. CASE HeldBy(t) # "Read" /\ HeldBy(t)' = "Read"
  <2>1. Readers' = Readers \cup {t} /\ t \notin Readers
    BY <1>1 DEF Effect, OthersKeep, Readers
  <2>2. Cardinality(Readers') = Cardinality(Readers) + 1
    BY <2>1, ReadersFinite, FS_AddElement
  <2>3. m_readers' = m_readers + 1
    BY <1>1 DEF Effect, Stays, TakesRead, TakesWrite, Upgrades, Downgrades,
                LeavesRead, LeavesWrite
  <2> QED  BY <2>2, <2>3 DEF Counted
<1>2. CASE HeldBy(t) = "Read" /\ HeldBy(t)' # "Read"
  <2>1. Readers' = Readers \ {t} /\ t \in Readers
    BY <1>2 DEF Effect, OthersKeep, Readers
  <2>2. Cardinality(Readers') = Cardinality(Readers) - 1
    BY <2>1, ReadersFinite, FS_RemoveElement
  <2>3. m_readers' = m_readers - 1
    BY <1>2 DEF Effect, Stays, TakesRead, TakesWrite, Upgrades, Downgrades,
                LeavesRead, LeavesWrite
  <2> QED  BY <2>2, <2>3 DEF Counted
<1>3. CASE (HeldBy(t) = "Read") <=> (HeldBy(t)' = "Read")
  <2>1. Readers' = Readers
    BY <1>3 DEF Effect, OthersKeep, Readers
  <2>2. m_readers' = m_readers
    BY <1>3 DEF Effect, Stays, TakesRead, TakesWrite, Upgrades, Downgrades,
                LeavesRead, LeavesWrite
  <2> QED  BY <2>1, <2>2 DEF Counted
<1> QED  BY <1>1, <1>2, <1>3

(* Who may take the lock finds it as SharedLock demands. *)
LEMMA TakersFindItFree ==
  ASSUME IInv, NEW t \in Lockers
  PROVE  /\ TakesRead(t) => \A u \in Lockers : HeldBy(u) # "Write"
         /\ TakesWrite(t) \/ Upgrades(t) =>
              \A u \in Lockers \ {t} : HeldBy(u) = "None"
         /\ Downgrades(t) \/ LeavesWrite(t) =>
              \A u \in Lockers \ {t} : HeldBy(u) = "None"
<1> USE DEF IInv
<1>1. \A u \in Lockers : HeldBy(u) \in {"None", "Read", "Write"}
  BY DEF HeldBy, Types, Modes
<1>2. TakesRead(t) => \A u \in Lockers : HeldBy(u) # "Write"
  BY DEF TakesRead, WritingIsHeld
<1>3. TakesWrite(t) => \A u \in Lockers \ {t} : HeldBy(u) = "None"
  BY <1>1, NoReadersIsFree DEF TakesWrite, WritingIsHeld
<1>4. Upgrades(t) => \A u \in Lockers \ {t} : HeldBy(u) = "None"
  BY <1>1, LastReaderIsAlone DEF Upgrades, WritingIsHeld
<1>5. Downgrades(t) \/ LeavesWrite(t) =>
        \A u \in Lockers \ {t} : HeldBy(u) = "None"
  BY DEF Downgrades, LeavesWrite, OneWriter
<1> QED  BY <1>2, <1>3, <1>4, <1>5

LEMMA EffectKeepsExclusion ==
  ASSUME IInv, Types', NEW t \in Lockers, Effect(t)
  PROVE  WritingIsHeld' /\ OneWriter'
<1> USE DEF IInv
<1>1. OthersKeep(t)  BY DEF Effect
<1>2. CASE Stays(t)
  BY <1>1, <1>2 DEF Stays, OthersKeep, WritingIsHeld, OneWriter
<1>3. CASE TakesRead(t)
  <2>1. \A u \in Lockers : HeldBy(u)' # "Write"
    BY <1>1, <1>3, TakersFindItFree DEF TakesRead, OthersKeep
  <2>2. ~m_writing'
    BY <1>3 DEF TakesRead
  <2> QED  BY <2>1, <2>2 DEF WritingIsHeld, OneWriter
<1>4. CASE TakesWrite(t) \/ Upgrades(t)
  <2>1. \A u \in Lockers \ {t} : HeldBy(u)' = "None"
    BY <1>1, <1>4, TakersFindItFree DEF OthersKeep
  <2>2. m_writing' /\ HeldBy(t)' = "Write"
    BY <1>4 DEF TakesWrite, Upgrades
  <2> QED  BY <2>1, <2>2 DEF WritingIsHeld, OneWriter
<1>5. CASE Downgrades(t) \/ LeavesWrite(t)
  <2>1. \A u \in Lockers \ {t} : HeldBy(u)' = "None"
    BY <1>1, <1>5, TakersFindItFree DEF OthersKeep
  <2>2. ~m_writing' /\ HeldBy(t)' # "Write"
    BY <1>5 DEF Downgrades, LeavesWrite
  <2> QED  BY <2>1, <2>2 DEF WritingIsHeld, OneWriter
<1>6. CASE LeavesRead(t)
  <2>1. ~m_writing /\ \A u \in Lockers : HeldBy(u) # "Write"
    BY <1>6 DEF LeavesRead, WritingIsHeld, OneWriter
  <2>2. \A u \in Lockers : HeldBy(u)' # "Write"
    BY <1>1, <1>6, <2>1 DEF LeavesRead, OthersKeep
  <2>3. ~m_writing'
    BY <1>6, <2>1 DEF LeavesRead
  <2> QED  BY <2>2, <2>3 DEF WritingIsHeld, OneWriter
<1> QED  BY <1>2, <1>3, <1>4, <1>5, <1>6 DEF Effect

(* Sleepers stay as they are, and keep a reason to sleep, in a step that lets
   nobody go and lets no woken writer go back to sleep for nothing. *)
LEMMA SleepersKeep ==
  ASSUME IInv, Types', NEW t \in Lockers, NEW p \in Places, Moves(t, p),
         \A u \in Lockers \ {t} : want'[u] = want[u],
         p = "asleep" => m_writing' \/ (want'[t] = "Write" /\ m_readers' > 0),
         \/ m_writing'
         \/ ~m_writing' /\ ~m_writing /\ m_readers' > 0
         \/ /\ UNCHANGED <<m_readers, m_writing>> /\ at[t] # "woken"
            /\ p # "asleep"
  PROVE  SleepersBlocked'
<1> USE DEF IInv
<1> SUFFICES ASSUME NEW u \in Lockers, at'[u] = "asleep"
             PROVE  \/ m_writing'
                    \/ want'[u] = "Write" /\ (m_readers' > 0 \/ WokenWriter')
  BY DEF SleepersBlocked
<1>1. CASE u = t
  BY <1>1 DEF Moves
<1>2. CASE u # t
  <2>1. at[u] = "asleep" /\ want'[u] = want[u]
    BY <1>2 DEF Moves
  <2>2. CASE ~m_writing' /\ ~m_writing /\ m_readers' > 0
    BY <2>1, <2>2 DEF SleepersBlocked
  <2>3. CASE UNCHANGED <<m_readers, m_writing>> /\ at[t] # "woken"
    <3>1. WokenWriter => WokenWriter'
      BY <2>3 DEF WokenWriter, Moves
    <3> QED  BY <2>1, <2>3, <3>1 DEF SleepersBlocked
  <2> QED  BY <2>2, <2>3
<1> QED  BY <1>1, <1>2

(* The last reader wakes a sleeper, and that is a writer. *)
LEMMA LastReaderWakesWriter ==
  ASSUME IInv, Types', NEW t \in Lockers, NEW p \in {"run", "gone"},
         at[t] = "run", WakeOne(t, p), ~m_writing, UNCHANGED want
  PROVE  SleepersBlocked'
<1> USE DEF IInv
<1>1. CASE Asleep = {}
  <2>1. \A u \in Lockers : at'[u] # "asleep"
    BY <1>1 DEF WakeOne, WakeNone, Asleep, Types
  <2> QED  BY <2>1 DEF SleepersBlocked
<1>2. ASSUME NEW w \in Asleep, at' = [at EXCEPT ![t] = p, ![w] = "woken"]
      PROVE  SleepersBlocked'
  <2>1. at'[w] = "woken" /\ w \in Lockers
    BY <1>2 DEF Asleep, Types
  <2>2. want[w] = "Write"
    BY <1>2 DEF Asleep, SleepersBlocked
  <2>3. WokenWriter'
    BY <2>1, <2>2 DEF WokenWriter
  <2>4. \A u \in Lockers : at'[u] = "asleep" => at[u] = "asleep"
    BY <1>2, <2>1 DEF Types
  <2> QED  BY <2>3, <2>4 DEF SleepersBlocked
<1> QED  BY <1>1, <1>2 DEF WakeOne, WakeNone

(* Each action changes the lock as Effect says and leaves no sleeper behind. *)
LEMMA StepKeepsSleepers ==
  ASSUME IInv, NEW t \in Lockers,
         Locking(t) \/ Spurious(t) \/ Unlock(t) \/ Destroy(t) \/ Create(t)
  PROVE  Types' /\ Effect(t) /\ SleepersBlocked'
<1> USE DEF IInv
<1>1. ASSUME NEW mode \in Modes, LockNow(t, mode)
      PROVE  Types' /\ Effect(t) /\ SleepersBlocked'
  <2>1. /\ Types' /\ Moves(t, "run") /\ Effect(t)
        /\ TakesRead(t) \/ TakesWrite(t)
    BY <1>1, LockNowEffect
  <2>2. m_writing' \/ (~m_writing' /\ ~m_writing /\ m_readers' > 0)
    BY <2>1, TakingLeavesReason
  <2>3. \A u \in Lockers \ {t} : want'[u] = want[u]
    BY <1>1 DEF LockNow
  <2> QED  BY <2>1, <2>2, <2>3, SleepersKeep DEF Places
<1>2. ASSUME NEW mode \in Modes, LockWait(t, mode)
      PROVE  Types' /\ Effect(t) /\ SleepersBlocked'
  <2>1. Types' /\ Moves(t, "asleep") /\ Effect(t)
    BY <1>2, LockWaitEffect
  <2>2. /\ m_writing' = m_writing /\ m_readers' = m_readers
        /\ want' = [want EXCEPT ![t] = mode]
    BY <1>2 DEF LockWait
  <2>3. m_writing \/ (mode = "Write" /\ m_readers > 0)
    BY <1>2 DEF LockWait, Blocked
  <2>4. want'[t] = mode /\ \A u \in Lockers \ {t} : want'[u] = want[u]
    BY <2>2 DEF Types
  <2> QED  BY <2>1, <2>2, <2>3, <2>4, SleepersKeep DEF Places
<1>3. CASE Retry(t)
  <2>1. /\ Types' /\ Effect(t)
        /\ \/ Moves(t, "run") /\ (TakesRead(t) \/ TakesWrite(t))
           \/ Moves(t, "asleep") /\ Blocked(want[t], m_readers, m_writing)
    BY <1>3, RetryEffect
  <2>2. \A u \in Lockers : want'[u] = want[u]
    BY <1>3 DEF Retry
  <2>3. CASE Blocked(want[t], m_readers, m_writing)
    <3>1. m_writing' = m_writing /\ m_readers' = m_readers
      BY <1>3, <2>3 DEF Retry
    <3>2. m_writing \/ (~m_writing /\ want[t] = "Write" /\ m_readers > 0)
      BY <2>3 DEF Blocked
    <3> QED  BY <2>1, <2>2, <3>1, <3>2, SleepersKeep DEF Places
  <2>4. CASE ~Blocked(want[t], m_readers, m_writing)
    <3>1. Moves(t, "run") /\ (TakesRead(t) \/ TakesWrite(t))
      BY <2>1, <2>4
    <3>2. m_writing' \/ (~m_writing' /\ ~m_writing /\ m_readers' > 0)
      BY <3>1, TakingLeavesReason
    <3> QED  BY <2>1, <2>2, <3>1, <3>2, SleepersKeep DEF Places
  <2> QED  BY <2>3, <2>4
<1>4. CASE ConvertRead(t)
  BY <1>4, ConvertReadEffect DEF SleepersBlocked
<1>5. CASE ConvertWrite(t)
  <2>1. /\ Types' /\ Effect(t)
        /\ \/ Moves(t, "run") /\ m_writing'
           \/ /\ Moves(t, "asleep") /\ m_readers' > 0
              /\ want' = [want EXCEPT ![t] = "Write"]
    BY <1>5, ConvertWriteEffect
  <2>2. want' = [want EXCEPT ![t] = "Write"] \/ want' = want
    BY <1>5 DEF ConvertWrite
  <2>3. \A u \in Lockers \ {t} : want'[u] = want[u]
    BY <2>2 DEF Types
  <2>4. CASE Moves(t, "run") /\ m_writing'
    BY <2>1, <2>3, <2>4, SleepersKeep DEF Places
  <2>5. CASE /\ Moves(t, "asleep") /\ m_readers' > 0
             /\ want' = [want EXCEPT ![t] = "Write"]
    <3>1. want'[t] = "Write"
      BY <2>5 DEF Types
    <3>2. HeldBy(t) = "Read"
      BY <1>5 DEF ConvertWrite, HeldBy
    <3>3. ~m_writing
      BY <3>2 DEF WritingIsHeld, OneWriter
    <3> QED  BY <2>1, <2>3, <2>5, <3>1, <3>3, SleepersKeep DEF Places
  <2> QED  BY <2>1, <2>4, <2>5
<1>6. CASE LockAgain(t)
  <2>1. Types' /\ Moves(t, "run") /\ Effect(t)
    BY <1>6, LockAgainEffect
  <2>2. /\ UNCHANGED <<m_readers, m_writing>> /\ at[t] # "woken"
        /\ \A u \in Lockers \ {t} : want'[u] = want[u]
    BY <1>6 DEF LockAgain
  <2> QED  BY <2>1, <2>2, SleepersKeep DEF Places
<1>7. CASE Spurious(t)
  <2>1. Types' /\ Moves(t, "woken") /\ Effect(t)
    BY <1>7, SpuriousEffect
  <2>2. /\ UNCHANGED <<m_readers, m_writing>> /\ at[t] # "woken"
        /\ \A u \in Lockers \ {t} : want'[u] = want[u]
    BY <1>7 DEF Spurious
  <2> QED  BY <2>1, <2>2, SleepersKeep DEF Places
<1>8. ASSUME NEW p \in {"run", "gone"}, at[t] = "run", UnlockRead(t, p),
             m_locked' = [m_locked EXCEPT ![t] = FALSE],
             UNCHANGED <<m_mode, want>>
      PROVE  Types' /\ Effect(t) /\ SleepersBlocked'
  <2>1. /\ Types' /\ Moves(t, p) /\ Effect(t)
        /\ m_readers' = 0 => WakeOne(t, p)
    BY <1>8, ReadUnlocked
  <2>2. HeldBy(t) = "Read"
    BY <1>8 DEF UnlockRead, HeldBy
  <2>3. ~m_writing
    BY <2>2 DEF WritingIsHeld, OneWriter
  <2>4. CASE m_readers' = 0
    BY <1>8, <2>1, <2>3, <2>4, LastReaderWakesWriter
  <2>5. CASE m_readers' > 0
    <3>1. ~m_writing'
      BY <1>8, <2>3 DEF UnlockRead
    <3> QED  BY <1>8, <2>1, <2>3, <2>5, <3>1, SleepersKeep DEF Places
  <2>6. m_readers' = 0 \/ m_readers' > 0
    BY <2>1 DEF Types
  <2> QED  BY <2>1, <2>4, <2>5, <2>6
<1>9. ASSUME NEW p \in {"run", "gone"}, at[t] = "run", UnlockWrite(t, p),
             m_locked' = [m_locked EXCEPT ![t] = FALSE],
             UNCHANGED <<m_mode, want>>
      PROVE  Types' /\ Effect(t) /\ SleepersBlocked'
  BY <1>9, WriteUnlocked DEF SleepersBlocked
<1>10. CASE Unlock(t)
  BY <1>8, <1>9, <1>10 DEF Unlock
<1>11. CASE Destroy(t)
  <2>1. CASE ~m_locked[t] /\ WakeNone(t, "gone") /\ UNCHANGED <<m_readers, m_writing>>
    <3>1. Types' /\ Moves(t, "gone") /\ Effect(t)
      BY <1>11, <2>1, DestroyedUnlocked DEF Destroy
    <3>2. at[t] # "woken" /\ want' = want
      BY <1>11 DEF Destroy
    <3> QED  BY <2>1, <3>1, <3>2, SleepersKeep DEF Places
  <2> QED  BY <1>8, <1>9, <1>11, <2>1 DEF Destroy
<1>12. CASE Create(t)
  <2>1. Types' /\ Moves(t, "run") /\ Effect(t)
    BY <1>12, CreateEffect
  <2>2. /\ UNCHANGED <<m_readers, m_writing>> /\ at[t] # "woken"
        /\ \A u \in Lockers \ {t} : want'[u] = want[u]
    BY <1>12 DEF Create
  <2> QED  BY <2>1, <2>2, SleepersKeep DEF Places
<1> QED  BY <1>1, <1>2, <1>3, <1>4, <1>5, <1>6, <1>7, <1>10, <1>11, <1>12
         DEF Locking

LEMMA InvariantStart ==
  ASSUME Init
  PROVE  IInv
<1>1. Types
  BY LockersAssumption DEF Init, Types, Modes, Places
<1>2. \A u \in Lockers : HeldBy(u) = "None"
  BY DEF Init, HeldBy
<1>3. Counted
  <2>1. Readers = {}  BY <1>2 DEF Readers
  <2> QED  BY <2>1, FS_EmptySet DEF Counted, Init
<1>4. WritingIsHeld /\ OneWriter
  BY <1>2 DEF WritingIsHeld, OneWriter, Init
<1>5. SleepersBlocked
  BY DEF SleepersBlocked, Init
<1> QED  BY <1>1, <1>3, <1>4, <1>5 DEF IInv

LEMMA InvariantStep ==
  ASSUME IInv, [Next]_vars
  PROVE  IInv'
<1>1. ASSUME NEW t \in Lockers,
             Locking(t) \/ Spurious(t) \/ Unlock(t) \/ Destroy(t) \/ Create(t)
      PROVE  IInv'
  BY <1>1, StepKeepsSleepers, EffectKeepsCount, EffectKeepsExclusion DEF IInv
<1>2. CASE UNCHANGED vars
  BY <1>2 DEF vars, IInv, Types, Counted, Readers, WritingIsHeld, OneWriter,
              SleepersBlocked, WokenWriter, HeldBy
<1> QED  BY <1>1, <1>2 DEF Next

(* The strengthening that carries the other theorems: the members of the lock
   count exactly those that hold it, and every sleeper has a reason to sleep. *)
THEOREM Invariant == Spec => []IInv
<1>1. Init => IInv  BY InvariantStart
<1>2. IInv /\ [Next]_vars => IInv'  BY InvariantStep
<1> QED  BY <1>1, <1>2, PTL DEF Spec

-----------------------------------------------------------------------------
(* The properties *)

(* RWLock::m_readers is the number of readers, and all members keep their type. *)
THEOREM TypeCorrect == Spec => []TypeOK
<1>1. IInv => TypeOK
  BY DEF IInv, Types, Counted, TypeOK, Places
<1> QED  BY <1>1, Invariant, PTL

(* lock(), unlock() and convert() keep the writer alone. *)
THEOREM OneWriterAlways == Spec => []OneWriter
<1>1. IInv => OneWriter  BY DEF IInv
<1> QED  BY <1>1, Invariant, PTL

(* signal() at the last reader and broadcast() at the writer leave no sleeper
   that nobody is going to wake. *)
THEOREM SleepersAreAwaitedAlways == Spec => []SleepersAreAwaited
<1>1. ASSUME IInv  PROVE SleepersAreAwaited
  <2>1. m_readers > 0 => Readers # {}
    BY <1>1, FS_EmptySet DEF IInv, Counted
  <2>2. m_writing => \E u \in Lockers : HeldBy(u) = "Write"
    BY <1>1 DEF IInv, WritingIsHeld
  <2> QED  BY <1>1, <2>1, <2>2
           DEF IInv, SleepersBlocked, WokenWriter, SleepersAreAwaited, Asleep
<1> QED  BY <1>1, Invariant, PTL

LEMMA EffectIsShared ==
  ASSUME IInv, NEW t \in Lockers, Effect(t)
  PROVE  [Lock!Next]_Holds
<1> USE DEF IInv
<1>1. \A u \in Lockers : Holds[u] = HeldBy(u) /\ Holds'[u] = HeldBy(u)'
  BY DEF Holds
<1>2. OthersKeep(t)  BY DEF Effect
<1>3. Holds' = [Holds EXCEPT ![t] = HeldBy(t)']
  BY <1>2 DEF Holds, OthersKeep
<1>4. CASE Stays(t)
  <2>1. \A u \in Lockers : HeldBy(u)' = HeldBy(u)
    BY <1>2, <1>4 DEF Stays, OthersKeep
  <2>2. Holds' = Holds  BY <2>1 DEF Holds
  <2> QED  BY <2>2
<1>5. CASE TakesRead(t)
  <2>1. Lock!TakeRead(t)
    BY <1>1, <1>3, <1>5, TakersFindItFree DEF TakesRead, Lock!TakeRead
  <2> QED  BY <2>1 DEF Lock!Next
<1>6. CASE TakesWrite(t) \/ Upgrades(t)
  <2>1. Lock!TakeWrite(t)
    BY <1>1, <1>3, <1>6, TakersFindItFree
    DEF TakesWrite, Upgrades, Lock!TakeWrite, Lock!Free
  <2> QED  BY <2>1 DEF Lock!Next
<1>7. CASE Downgrades(t)
  <2>1. Lock!Downgrade(t)
    BY <1>1, <1>3, <1>7 DEF Downgrades, Lock!Downgrade
  <2> QED  BY <2>1 DEF Lock!Next
<1>8. CASE LeavesRead(t) \/ LeavesWrite(t)
  <2>1. Lock!LetGo(t)
    BY <1>1, <1>3, <1>8 DEF LeavesRead, LeavesWrite, Lock!LetGo
  <2> QED  BY <2>1 DEF Lock!Next
<1> QED  BY <1>4, <1>5, <1>6, <1>7, <1>8 DEF Effect

(* RWLock with its lockers is a readers-writer lock: each step either leaves
   the lock as it is or is a step of SharedLock. *)
THEOREM Refinement == Spec => IsSharedLock
<1>1. Init => Lock!Init
  BY DEF Init, Lock!Init, Holds, HeldBy
<1>2. ASSUME IInv, [Next]_vars  PROVE [Lock!Next]_Holds
  <2>1. ASSUME NEW t \in Lockers,
               Locking(t) \/ Spurious(t) \/ Unlock(t) \/ Destroy(t) \/ Create(t)
        PROVE  [Lock!Next]_Holds
    BY <1>2, <2>1, StepKeepsSleepers, EffectIsShared
  <2>2. CASE UNCHANGED vars
    BY <2>2 DEF vars, Holds, HeldBy
  <2> QED  BY <1>2, <2>1, <2>2 DEF Next
<1> QED  BY <1>1, <1>2, Invariant, PTL DEF Spec, Lock!Spec, IsSharedLock

=============================================================================
