------------------------------ MODULE Sessions ------------------------------
(* The sessions of http/Session and what http/Host::check_session does with   *)
(* them: a map of references under one mutex, a job that removes the sessions *)
(* that have expired and that nobody refers to, and a lock that a request     *)
(* takes while it renders.  The expiry date is abstracted to whether it lies  *)
(* ahead, and changes without the mutex.                                      *)
EXTENDS Naturals, FiniteSets

CONSTANTS
  Conns,   \* connections; each has one request at a time
  Ids,     \* session identifiers; each names one Session object
  NoId

ASSUME SessionAssumption == IsFiniteSet(Conns) /\ NoId \notin Ids

VARIABLES
  m_sessions,  \* the identifiers in the manager's map
  valid,       \* the sessions whose get_expiry() lies ahead
  locked,      \* the sessions with m_locked
  session,     \* the session that the request of a connection refers to
  sweep        \* check_sessions(): what is left to look at, what was not valid

sessionVars == <<m_sessions, valid, locked, session, sweep>>

SessionsInit ==
  /\ m_sessions = {} /\ valid = {} /\ locked = {}
  /\ session = [c \in Conns |-> NoId]
  /\ sweep = [on |-> FALSE, todo |-> {}, expired |-> NoId]

\* m_mutex is taken for one step by every method except check_sessions()
MutexFree == ~sweep.on

Holders(id) == {c \in Conns : session[c] = id}
num_refs(id) == Cardinality(Holders(id)) + (IF id \in m_sessions THEN 1 ELSE 0)

Unused == {id \in Ids : num_refs(id) = 0}
Any(S) == CHOOSE id \in S : TRUE

-----------------------------------------------------------------------------
lookup_session(c, id) ==
  /\ MutexFree /\ id \in m_sessions
  /\ session' = [session EXCEPT ![c] = id]
  /\ UNCHANGED <<m_sessions, valid, locked, sweep>>

NotFound(id) ==
  /\ MutexFree /\ id \notin m_sessions
  /\ UNCHANGED sessionVars

set_last_used(c) ==
  /\ valid' = valid \cup {session[c]}
  /\ UNCHANGED <<m_sessions, locked, session, sweep>>

\* A random identifier that is not in the map; which one makes no difference.
new_session(c) ==
  /\ MutexFree /\ Unused # {}
  /\ m_sessions' = m_sessions \cup {Any(Unused)}
  /\ valid' = valid \cup {Any(Unused)}
  /\ locked' = locked \ {Any(Unused)}
  /\ session' = [session EXCEPT ![c] = Any(Unused)]
  /\ UNCHANGED sweep

lock(c) ==
  /\ MutexFree /\ session[c] \notin locked
  /\ locked' = locked \cup {session[c]}
  /\ UNCHANGED <<m_sessions, valid, session, sweep>>

lockFails(c) ==
  /\ MutexFree /\ session[c] \in locked
  /\ UNCHANGED sessionVars

unlock(c) ==
  /\ MutexFree
  /\ locked' = locked \ {session[c]}
  /\ UNCHANGED <<m_sessions, valid, session, sweep>>

\* ~Request drops the reference.
Release(c) ==
  /\ session' = [session EXCEPT ![c] = NoId]
  /\ UNCHANGED <<m_sessions, valid, locked, sweep>>

\* Time passes, or a script calls reset(), which sets the last use to the epoch.
Expire ==
  /\ \E id \in m_sessions : valid' = valid \ {id}
  /\ UNCHANGED <<m_sessions, locked, session, sweep>>

-----------------------------------------------------------------------------
(* check_sessions(), which SessionCleanupJob runs every half minute, holds    *)
(* m_mutex to its end.  valid() and num_refs() are two reads, and neither     *)
(* what they read needs the mutex to change.                                  *)

SweepStart ==
  /\ ~sweep.on /\ m_sessions # {}
  /\ sweep' = [on |-> TRUE, todo |-> m_sessions, expired |-> NoId]
  /\ UNCHANGED <<m_sessions, valid, locked, session>>

SweepValid ==
  /\ sweep.on /\ sweep.expired = NoId
  /\ sweep.todo # {}
  /\ LET id == Any(sweep.todo) IN
       sweep' = [sweep EXCEPT !.todo = @ \ {id}, !.expired = IF id \in valid THEN NoId ELSE id]
  /\ UNCHANGED <<m_sessions, valid, locked, session>>

(* Slip: a session that is in use is removed like any other. *)
SweepAny ==
  /\ sweep.expired # NoId
  /\ m_sessions' = m_sessions \ {sweep.expired}
  /\ sweep' = [sweep EXCEPT !.expired = NoId]
  /\ UNCHANGED <<valid, locked, session>>
SweepRefs ==
  /\ sweep.expired # NoId
  /\ m_sessions' = IF num_refs(sweep.expired) = 1 THEN m_sessions \ {sweep.expired}
                   ELSE m_sessions
  /\ sweep' = [sweep EXCEPT !.expired = NoId]
  /\ UNCHANGED <<valid, locked, session>>

SweepEnd ==
  /\ sweep.on /\ sweep.expired = NoId /\ sweep.todo = {}
  /\ sweep' = [sweep EXCEPT !.on = FALSE]
  /\ UNCHANGED <<m_sessions, valid, locked, session>>

check_sessions == SweepStart \/ SweepValid \/ SweepRefs \/ SweepEnd

-----------------------------------------------------------------------------
\* The session that a request has found stays in the map until the request is
\* deleted: its client finds it again with the next request, although the job
\* looks at sessions that expire while they are being looked up.
SessionKept == \A c \in Conns : session[c] # NoId => session[c] \in m_sessions
=============================================================================
