------------------------------- MODULE RWLock -------------------------------
(***************************************************************************)
(* sconex RWLock and RWLocker: one lock, and a set of lockers, each in a   *)
(* thread of its own.  Every method of RWLock holds m_mutex from its first *)
(* line to its last, except inside m_condition.wait(), so a method is one  *)
(* step up to its wait, and one step each time it wakes up.  Readers and   *)
(* writers sleep on the same condition variable.                           *)
(***************************************************************************)
EXTENDS Naturals, FiniteSets

CONSTANT
  Lockers      \* RWLocker objects alive at once, each used by one thread

ASSUME LockersAssumption == IsFiniteSet(Lockers)

VARIABLES
  m_readers,   \* RWLock::m_readers
  m_writing,   \* RWLock::m_writing
  m_locked,    \* RWLocker::m_locked, of each locker
  m_mode,      \* RWLocker::m_mode, of each locker
  at,          \* "run" outside the lock's methods, "asleep" in wait(), "woken"
               \* on the way out of wait(), "gone" when the locker is destroyed
  want         \* the mode that the call in progress asks for

vars == <<m_readers, m_writing, m_locked, m_mode, at, want>>

Modes == {"Read", "Write"}

(* How a locker holds the lock; while convert() waits it does not, although
   m_locked is still set. *)
HeldBy(t) == IF m_locked[t] /\ at[t] = "run" THEN m_mode[t] ELSE "None"

Holds   == [t \in Lockers |-> HeldBy(t)]
Readers == {t \in Lockers : HeldBy(t) = "Read"}
Asleep  == {t \in Lockers : at[t] = "asleep"}

Lock == INSTANCE SharedLock WITH Holders <- Lockers, holds <- Holds

-----------------------------------------------------------------------------
Init ==
  /\ m_readers = 0 /\ m_writing = FALSE
  /\ m_locked = [t \in Lockers |-> FALSE]
  /\ m_mode \in [Lockers -> Modes]
  /\ at = [t \in Lockers |-> "run"]
  /\ want = [t \in Lockers |-> "Read"]

(* The condition variable.  Each operator gives the next value of "at", where t
   is the caller and goes to the place p. *)
WakeNone(t, p) == at' = [at EXCEPT ![t] = p]

WakeOne(t, p) ==
  \/ Asleep = {} /\ WakeNone(t, p)
  \/ \E u \in Asleep : at' = [at EXCEPT ![t] = p, ![u] = "woken"]

WakeAll(t, p) ==
  at' = [u \in Lockers |-> IF u = t THEN p
                           ELSE IF u \in Asleep THEN "woken" ELSE at[u]]

(* Slip: a writer takes one reader to be itself. *)
BlockedByOthers(mode, n, w) == w \/ (mode = "Write" /\ n > 1)

(* The loop conditions of lock() and convert(): n readers, w writing. *)
Blocked(mode, n, w) == w \/ (mode = "Write" /\ n > 0)

(* The end of a lock() of the locker: the lock is taken in the mode asked. *)
Granted(t, mode) ==
  /\ m_locked' = [m_locked EXCEPT ![t] = TRUE]
  /\ m_mode' = [m_mode EXCEPT ![t] = mode]

-----------------------------------------------------------------------------
(* RWLocker::lock() of an unlocked locker: RWLock::lock(). *)
LockNow(t, mode) ==
  /\ at[t] = "run" /\ ~m_locked[t]
  /\ ~Blocked(mode, m_readers, m_writing)
  /\ m_readers' = IF mode = "Read" THEN m_readers + 1 ELSE m_readers
  /\ m_writing' = (m_writing \/ mode = "Write")
  /\ Granted(t, mode)
  /\ UNCHANGED <<at, want>>

LockWait(t, mode) ==
  /\ at[t] = "run" /\ ~m_locked[t]
  /\ Blocked(mode, m_readers, m_writing)
  /\ want' = [want EXCEPT ![t] = mode]
  /\ WakeNone(t, "asleep")
  /\ UNCHANGED <<m_readers, m_writing, m_locked, m_mode>>

(* pthread_cond_wait() may return although nobody signalled. *)
Spurious(t) ==
  /\ at[t] = "asleep"
  /\ WakeNone(t, "woken")
  /\ UNCHANGED <<m_readers, m_writing, m_locked, m_mode, want>>

(* wait() returns, with m_mutex held again, and the loop tests its condition. *)
Retry(t) ==
  /\ at[t] = "woken"
  /\ IF Blocked(want[t], m_readers, m_writing)
     THEN /\ WakeNone(t, "asleep")
          /\ UNCHANGED <<m_readers, m_writing, m_locked, m_mode>>
     ELSE /\ m_readers' = IF want[t] = "Read" THEN m_readers + 1 ELSE m_readers
          /\ m_writing' = (m_writing \/ want[t] = "Write")
          /\ Granted(t, want[t])
          /\ WakeNone(t, "run")
  /\ UNCHANGED want

(* RWLocker::lock(Read) of a locker that writes: RWLock::convert(Read). *)
ConvertRead(t) ==
  /\ at[t] = "run" /\ m_locked[t] /\ m_mode[t] = "Write"
  /\ IF m_writing THEN WakeAll(t, "run") ELSE UNCHANGED at
  /\ m_writing' = FALSE
  /\ m_readers' = m_readers + 1
  /\ Granted(t, "Read")
  /\ UNCHANGED want

(* RWLocker::lock(Write) of a locker that reads: RWLock::convert(Write) lets go
   of the read lock first, and then waits like any other writer. *)
ConvertWrite(t) ==
  /\ at[t] = "run" /\ m_locked[t] /\ m_mode[t] = "Read"
  /\ LET left  == IF m_readers > 0 THEN m_readers - 1 ELSE m_readers
         waits == Blocked("Write", left, m_writing)
         place == IF waits THEN "asleep" ELSE "run"
     IN /\ m_readers' = left
        /\ IF m_readers > 0 /\ left = 0 THEN WakeOne(t, place)
                                        ELSE WakeNone(t, place)
        /\ IF waits
           THEN /\ want' = [want EXCEPT ![t] = "Write"]
                /\ UNCHANGED <<m_writing, m_locked, m_mode>>
           ELSE /\ m_writing' = TRUE
                /\ Granted(t, "Write")
                /\ UNCHANGED want

(* RWLocker::lock() in the mode it has already: returns false. *)
LockAgain(t) ==
  /\ at[t] = "run" /\ m_locked[t]
  /\ UNCHANGED <<m_readers, m_writing, m_locked, m_mode, at, want>>

(* Slip: the last reader signals nobody. *)
UnlockReadSilent(t, place) ==
  /\ m_locked[t] /\ m_mode[t] = "Read"
  /\ m_readers' = IF m_readers > 0 THEN m_readers - 1 ELSE m_readers
  /\ WakeNone(t, place)
  /\ UNCHANGED m_writing

(* RWLock::unlock(Read): only the last reader signals, and wakes one. *)
UnlockRead(t, place) ==
  /\ m_locked[t] /\ m_mode[t] = "Read"
  /\ m_readers' = IF m_readers > 0 THEN m_readers - 1 ELSE m_readers
  /\ IF m_readers > 0 /\ m_readers' = 0 THEN WakeOne(t, place)
                                        ELSE WakeNone(t, place)
  /\ UNCHANGED m_writing

(* Slip: the writer wakes only one of those that wait. *)
UnlockWriteOne(t, place) ==
  /\ m_locked[t] /\ m_mode[t] = "Write"
  /\ IF m_writing THEN WakeOne(t, place) ELSE WakeNone(t, place)
  /\ m_writing' = FALSE
  /\ UNCHANGED m_readers

(* RWLock::unlock(Write) wakes everybody. *)
UnlockWrite(t, place) ==
  /\ m_locked[t] /\ m_mode[t] = "Write"
  /\ IF m_writing THEN WakeAll(t, place) ELSE WakeNone(t, place)
  /\ m_writing' = FALSE
  /\ UNCHANGED m_readers

(* RWLocker::unlock() of a locker that is locked; of another it does nothing. *)
Unlock(t) ==
  /\ at[t] = "run"
  /\ UnlockRead(t, "run") \/ UnlockWrite(t, "run")
  /\ m_locked' = [m_locked EXCEPT ![t] = FALSE]
  /\ UNCHANGED <<m_mode, want>>

(* RWLocker::~RWLocker() *)
Destroy(t) ==
  /\ at[t] = "run"
  /\ \/ UnlockRead(t, "gone") \/ UnlockWrite(t, "gone")
     \/ ~m_locked[t] /\ WakeNone(t, "gone") /\ UNCHANGED <<m_readers, m_writing>>
  /\ m_locked' = [m_locked EXCEPT ![t] = FALSE]
  /\ UNCHANGED <<m_mode, want>>

(* RWLocker::RWLocker(): another block of some thread has a locker of its
   own, not locked yet. *)
Create(t) ==
  /\ at[t] = "gone"
  /\ WakeNone(t, "run")
  /\ \E mode \in Modes : m_mode' = [m_mode EXCEPT ![t] = mode]
  /\ m_locked' = [m_locked EXCEPT ![t] = FALSE]
  /\ UNCHANGED <<m_readers, m_writing, want>>

Locking(t) ==
  \/ \E mode \in Modes : LockNow(t, mode) \/ LockWait(t, mode)
  \/ Retry(t) \/ ConvertRead(t) \/ ConvertWrite(t) \/ LockAgain(t)

Next ==
  \E t \in Lockers :
    Locking(t) \/ Spurious(t) \/ Unlock(t) \/ Destroy(t) \/ Create(t)

Spec == Init /\ [][Next]_vars

(* A thread that is woken runs on, and a locker is a local variable of a block
   that its thread leaves, however often it locks in it. *)
Fairness == \A t \in Lockers : WF_vars(Retry(t)) /\ SF_vars(Destroy(t))

FairSpec == Spec /\ Fairness

-----------------------------------------------------------------------------
(* Properties *)

(* The members keep to their types, and m_readers, which is unsigned, is the
   number of those that read: it is never decremented below 0. *)
TypeOK ==
  /\ m_readers = Cardinality(Readers)
  /\ m_writing \in BOOLEAN
  /\ m_locked \in [Lockers -> BOOLEAN]
  /\ m_mode \in [Lockers -> Modes]
  /\ at \in [Lockers -> {"run", "asleep", "woken", "gone"}]
  /\ want \in [Lockers -> Modes]

(* Mutex.h: "A mutex which allows multiple readers but only one writer". *)
OneWriter ==
  \A t, u \in Lockers : HeldBy(t) = "Write" /\ t # u => HeldBy(u) = "None"

(* The lock wakes one sleeper when the last reader leaves and all of them when
   the writer does, on a condition variable that readers and writers share.  That
   is enough: a sleeper always has someone who keeps the lock from it, or a
   writer that is awake and will take the lock, and wake it, in its turn. *)
SleepersAreAwaited ==
  \A t \in Asleep :
    \/ \E u \in Lockers : HeldBy(u) = "Write"
    \/ want[t] = "Write" /\ Readers # {}
    \/ want[t] = "Write" /\ \E u \in Lockers : at[u] = "woken" /\ want[u] = "Write"

(* Every step is one that a readers-writer lock may make, and a convert() to
   Write passes through a state in which the lock is not held at all unless its
   caller is the only reader: what was read before may be stale. *)
IsSharedLock == Lock!Spec

(* A step in which another takes the lock in a mode that keeps t from it. *)
Overtakes(t) ==
  \E u \in Lockers \ {t} :
    /\ HeldBy(u)' # HeldBy(u)
    /\ HeldBy(u)' \in (IF want[t] = "Write" THEN Modes ELSE {"Write"})

(* Every call of lock() returns, if those who hold the lock let go of it, unless
   others take it from its caller again and again: a reader writers, a writer
   anybody, as lock() gives neither a preference and no place in a queue.  So the
   lock is never left unused with somebody asleep. *)
AllGetIn ==
  \A t \in Lockers :
    (at[t] \in {"asleep", "woken"} ~> at[t] = "run") \/ []<><<Overtakes(t)>>_vars
=============================================================================
