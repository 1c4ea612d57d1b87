------------------------- MODULE SiteRequestsProofs -------------------------
(* Proofs about SiteRequests, for any number of connections, sessions and     *)
(* documents: the session of a request stays in the map whenever sessions    *)
(* expire, its lock is held by one request, and no page is stale.           *)
EXTENDS SiteRequests, FiniteSetTheorems, SequenceTheorems, TLAPS

Functions == session = [c \in Conns |-> session[c]]

\* The map is only made smaller by the job, and the count that it reads says
\* that nobody holds the session.
IInv == Functions /\ SessionKept

LEMMA OnlyTheMap ==
  ASSUME NEW id \in m_sessions, num_refs(id) = 1 PROVE Holders(id) = {}
<1>1. IsFiniteSet(Holders(id))
  BY SessionAssumption, FS_Subset DEF Holders
<1>2. Cardinality(Holders(id)) \in Nat
  BY <1>1, FS_CardinalityType
<1>3. Cardinality(Holders(id)) = 0
  BY <1>2 DEF num_refs
<1> QED BY <1>1, <1>3, FS_EmptySet

LEMMA InitIInv == Init => IInv
  BY DEF Init, SessionsInit, IInv, Functions, SessionKept

(* What the methods of the manager and of a session do to the invariant.     *)
LEMMA LookupKeeps == ASSUME IInv, NEW c \in Conns, NEW id, lookup_session(c, id) PROVE IInv'
  BY DEF IInv, Functions, SessionKept, lookup_session

LEMMA NewKeeps == ASSUME IInv, NEW c \in Conns, new_session(c) PROVE IInv'
  BY DEF IInv, Functions, SessionKept, new_session

LEMMA ReleaseKeeps == ASSUME IInv, NEW c \in Conns, Release(c) PROVE IInv'
  BY DEF IInv, Functions, SessionKept, Release

LEMMA SweepKeeps == ASSUME IInv, check_sessions PROVE IInv'
<1>1. CASE SweepRefs
  <2>1. session' = session
    BY <1>1 DEF SweepRefs
  <2>2. ASSUME NEW c \in Conns, session[c] # NoId, session[c] \notin m_sessions' PROVE FALSE
    <3>1. session[c] \in m_sessions
      BY <2>2 DEF IInv, SessionKept
    <3>2. session[c] = sweep.expired /\ num_refs(sweep.expired) = 1
      BY <1>1, <2>2, <3>1 DEF SweepRefs
    <3> QED BY <3>1, <3>2, OnlyTheMap, <2>2 DEF Holders
  <2> QED BY <2>1, <2>2 DEF IInv, Functions, SessionKept
<1>2. CASE SweepStart \/ SweepValid \/ SweepEnd
  BY <1>2 DEF IInv, Functions, SessionKept, SweepStart, SweepValid, SweepEnd
<1> QED BY <1>1, <1>2 DEF check_sessions

(* The same for whatever leaves the map and the references alone.            *)
LEMMA OthersKeep == ASSUME IInv, UNCHANGED <<session, m_sessions>> PROVE IInv'
  BY DEF IInv, Functions, SessionKept

LEMMA CheckSessionKeeps == ASSUME IInv, NEW c \in Conns, CheckSession(c) PROVE IInv'
<1>1. \/ lookup_session(c, cookie[c]) \/ new_session(c)
      \/ UNCHANGED <<session, m_sessions>>
  BY DEF CheckSession, NotFound, sessionVars, set_last_used
<1> QED BY <1>1, LookupKeeps, NewKeeps, OthersKeep

LEMMA AnswerKeeps == ASSUME IInv, NEW c \in Conns, Answer(c) PROVE IInv'
<1>1. CASE CheckSession(c)
  BY <1>1, CheckSessionKeeps
<1>2. CASE EndRequest(c)
  BY <1>2, ReleaseKeeps DEF EndRequest
<1>3. CASE LookupTemplate(c) \/ LockSession(c) \/ SessionBusy(c) \/ UnlockSession(c)
  BY <1>3, OthersKeep DEF LookupTemplate, LockSession, SessionBusy, UnlockSession, lock, lockFails,
     unlock, sessionVars
<1>4. CASE Open(c) \/ Spin(c) \/ AskOpen(c) \/ Stat(c) \/ Parse(c) \/ Opened(c)
  BY <1>4, OthersKeep DEF Open, Spin, AskOpen, Stat, Parse, Opened, sessionVars
<1>5. CASE ProcessArticle(c) \/ WalkEnd(c) \/ Abort(c)
  BY <1>5, OthersKeep DEF ProcessArticle, WalkEnd, Abort, sessionVars
<1> QED BY <1>1, <1>2, <1>3, <1>4, <1>5 DEF Answer

LEMMA NextIInv == IInv /\ [Next]_vars => IInv'
<1> SUFFICES ASSUME IInv, [Next]_vars PROVE IInv'
  OBVIOUS
<1>1. CASE \E c \in Conns : Answer(c)
  BY <1>1, AnswerKeeps
<1>2. CASE \E c \in Conns : \E id \in Ids \cup {NoId} : Begin(c, id)
  BY <1>2, OthersKeep DEF Begin, sessionVars
<1>3. CASE Sweep
  BY <1>3, SweepKeeps DEF Sweep
<1>4. CASE TimePasses \/ AddTemplate \/ RemoveTemplate \/ PurgeLooks \/ PurgeCloses \/ Edit
  BY <1>4, OthersKeep DEF TimePasses, Expire, AddTemplate, RemoveTemplate, PurgeLooks, PurgeCloses,
     Edit, sessionVars
<1>5. CASE UNCHANGED vars
  BY <1>5, OthersKeep DEF vars, sessionVars
<1> QED BY <1>1, <1>2, <1>3, <1>4, <1>5 DEF Next

\* A request's session is found again by the next request of its client,
\* whatever expires and whenever the job runs (http/Session.cpp).
THEOREM KeptForAll == Spec => []SessionKept
<1>1. IInv => SessionKept
  BY DEF IInv
<1> QED BY <1>1, InitIInv, NextIInv, PTL DEF Spec

-----------------------------------------------------------------------------
(* The lock of a session is held by the one request that renders with it.    *)

HasSession == Rendering \cup {"touch", "send", "lock"}

\* Each conjunct on its own: the references that a request has at each point;
\* who renders holds the lock; a lock is held by one that renders; by one only.
Refs == \A c \in Conns : (pc[c] \in HasSession => session[c] \in Ids)
                         /\ (pc[c] \in {"idle", "lookup", "new"} => session[c] = NoId)
RendererHolds == \A c \in Conns : pc[c] \in Rendering => session[c] \in locked
HeldByRenderer == \A id \in m_sessions \cap locked :
                    \E c \in Conns : session[c] = id /\ pc[c] \in Rendering
OneRenders == \A c, d \in Conns :
  pc[c] \in Rendering /\ pc[d] \in Rendering /\ session[c] = session[d] => c = d

LInv == /\ IInv /\ pc = [c \in Conns |-> pc[c]] /\ m_sessions \subseteq Ids
        /\ Refs /\ RendererHolds /\ HeldByRenderer /\ OneRenders

LEMMA LockInv == LInv => LockedByOne
<1> SUFFICES ASSUME LInv, NEW id \in m_sessions
    PROVE Cardinality({c \in Holders(id) : pc[c] \in Rendering}) = IF id \in locked THEN 1 ELSE 0
  BY DEF LockedByOne
<1> DEFINE R == {c \in Holders(id) : pc[c] \in Rendering}
<1>1. CASE id \in locked
  <2>1. PICK c \in Conns : session[c] = id /\ pc[c] \in Rendering
    BY <1>1 DEF LInv, HeldByRenderer
  <2>2. R = {c}
    BY <2>1 DEF LInv, OneRenders, Holders
  <2> QED BY <1>1, <2>2, FS_Singleton
<1>2. CASE id \notin locked
  <2>1. R = {}
    BY <1>2 DEF LInv, RendererHolds, Holders
  <2> QED BY <1>2, <2>1, FS_EmptySet
<1> QED BY <1>1, <1>2

LEMMA InitLInv == Init => LInv
  BY InitIInv DEF Init, SessionsInit, LInv, Refs, RendererHolds, HeldByRenderer, OneRenders,
     HasSession, Rendering

(* A step of one request that leaves sessions and locks alone, and that       *)
(* neither begins nor ends its rendering: it goes to l.                      *)
Quiet(c, l) == /\ UNCHANGED <<session, m_sessions, locked>>
               /\ pc' = [pc EXCEPT ![c] = l]
               /\ l \in Rendering <=> pc[c] \in Rendering
               /\ l \in HasSession => pc[c] \in HasSession
               /\ l \notin {"idle", "lookup"}
               /\ l = "new" => pc[c] = "lookup"

LEMMA QuietKeeps == ASSUME LInv, NEW c \in Conns, NEW l, Quiet(c, l) PROVE LInv'
<1>1. IInv' /\ m_sessions' \subseteq Ids /\ pc' = [d \in Conns |-> pc'[d]]
  BY OthersKeep DEF LInv, Quiet
<1>2. \A d \in Conns : pc'[d] \in Rendering <=> pc[d] \in Rendering
  BY DEF LInv, Quiet
<1>3. Refs'
  BY DEF LInv, Refs, Quiet
<1>4. RendererHolds' /\ OneRenders' /\ HeldByRenderer'
  BY <1>2 DEF LInv, Quiet, RendererHolds, OneRenders, HeldByRenderer
<1> QED BY <1>1, <1>3, <1>4 DEF LInv

(* The same when a request that does not render gets a session or gives it up. *)
LEMMA OutsideKeeps ==
  ASSUME LInv, IInv', NEW c \in Conns, NEW l, pc' = [pc EXCEPT ![c] = l],
         pc[c] \notin Rendering, l \notin Rendering,
         \A d \in Conns \ {c} : session'[d] = session[d],
         l \in HasSession => session'[c] \in Ids,
         l \in {"idle", "lookup", "new"} => session'[c] = NoId,
         m_sessions' \subseteq Ids, m_sessions' \cap locked' \subseteq m_sessions \cap locked,
         \A d \in Conns \ {c} : session[d] \in locked => session[d] \in locked'
  PROVE  LInv'
<1>1. \A d \in Conns : pc'[d] \in Rendering <=> pc[d] \in Rendering
  BY DEF LInv
<1>2. \A d \in Conns : pc[d] \in Rendering => session'[d] = session[d]
  OBVIOUS
<1>3. Refs'
  BY DEF LInv, Refs
<1>4. RendererHolds' /\ OneRenders'
  BY <1>1, <1>2 DEF LInv, RendererHolds, OneRenders
<1>5. HeldByRenderer'
  BY <1>1, <1>2 DEF LInv, HeldByRenderer
<1> QED BY <1>3, <1>4, <1>5 DEF LInv

LEMMA LockCheckSession == ASSUME LInv, NEW c \in Conns, CheckSession(c) PROVE LInv'
<1>0. IInv'
  BY CheckSessionKeeps DEF LInv
<1>1. CASE pc[c] = "lookup" /\ lookup_session(c, cookie[c]) /\ Goto(c, "touch")
  <2>1. session'[c] \in Ids /\ \A d \in Conns \ {c} : session'[d] = session[d]
    BY <1>1 DEF lookup_session, LInv, IInv, Functions
  <2> QED BY <1>0, <1>1, <2>1, OutsideKeeps DEF lookup_session, Goto, LInv, HasSession, Rendering
<1>2. CASE pc[c] = "new" /\ new_session(c) /\ Goto(c, "send")
  <2> DEFINE id == Any(Unused)
  <2>1. id \in Unused /\ id \in Ids
    BY <1>2 DEF new_session, Any, Unused
  <2>2. \A d \in Conns : session[d] # id
    <3>1. Holders(id) = {}
      <4>1. IsFiniteSet(Holders(id))
        BY SessionAssumption, FS_Subset DEF Holders
      <4>2. Cardinality(Holders(id)) \in Nat /\ num_refs(id) = 0
        BY <2>1, <4>1, FS_CardinalityType DEF Unused
      <4> QED BY <4>1, <4>2, FS_EmptySet DEF num_refs
    <3> QED BY <3>1 DEF Holders
  <2>3. session'[c] = id /\ \A d \in Conns \ {c} : session'[d] = session[d]
    BY <1>2 DEF new_session, LInv, IInv, Functions
  <2>4. m_sessions' \subseteq Ids /\ m_sessions' \cap locked' \subseteq m_sessions \cap locked
    BY <1>2, <2>1 DEF new_session, LInv
  <2>5. \A d \in Conns \ {c} : session[d] \in locked => session[d] \in locked'
    BY <1>2, <2>2 DEF new_session
  <2> HIDE DEF id
  <2> QED BY <1>0, <1>2, <2>1, <2>3, <2>4, <2>5, OutsideKeeps DEF Goto, HasSession, Rendering
<1>3. CASE pc[c] = "touch" /\ set_last_used(c) /\ Goto(c, "send")
  <2>1. Quiet(c, "send")
    BY <1>3 DEF Quiet, set_last_used, Goto, HasSession, Rendering
  <2> QED BY <2>1, QuietKeeps
<1>4. CASE pc[c] = "lookup" /\ NotFound(cookie[c]) /\ Goto(c, "new")
  <2>1. Quiet(c, "new")
    BY <1>4 DEF Quiet, NotFound, sessionVars, Goto, HasSession, Rendering
  <2> QED BY <2>1, QuietKeeps
<1> QED BY <1>1, <1>2, <1>3, <1>4 DEF CheckSession

LEMMA LockTaken == ASSUME LInv, NEW c \in Conns, LockSession(c) PROVE LInv'
<1>0. IInv' /\ m_sessions' \subseteq Ids /\ session' = session
  BY OthersKeep DEF LInv, LockSession, lock
<1>1. /\ pc[c] = "lock" /\ pc' = [pc EXCEPT ![c] = "open"]
      /\ session[c] \notin locked /\ locked' = locked \cup {session[c]}
      /\ m_sessions' = m_sessions
  BY DEF LockSession, lock, Goto
<1>2. pc'[c] \in Rendering /\ \A d \in Conns \ {c} : pc'[d] = pc[d]
  BY <1>1 DEF LInv, Rendering
<1>3. Refs'
  BY <1>0, <1>1 DEF LInv, Refs, HasSession, Rendering
<1>4. RendererHolds'
  BY <1>0, <1>1, <1>2 DEF LInv, RendererHolds
<1>5. OneRenders'
  BY <1>0, <1>1, <1>2 DEF LInv, OneRenders, RendererHolds
<1>6. HeldByRenderer'
  BY <1>0, <1>1, <1>2 DEF LInv, HeldByRenderer, Rendering
<1> QED BY <1>0, <1>1, <1>3, <1>4, <1>5, <1>6 DEF LInv

LEMMA LockReleased == ASSUME LInv, NEW c \in Conns, UnlockSession(c) PROVE LInv'
<1>0. IInv' /\ m_sessions' \subseteq Ids /\ session' = session
  BY OthersKeep DEF LInv, UnlockSession, unlock
<1>1. /\ pc[c] = "unlock" /\ pc' = [pc EXCEPT ![c] = "end"]
      /\ locked' = locked \ {session[c]} /\ m_sessions' = m_sessions
  BY DEF UnlockSession, unlock, Goto
<1>2. pc'[c] \notin Rendering /\ \A d \in Conns \ {c} : pc'[d] = pc[d]
  BY <1>1 DEF LInv, Rendering
<1>3. Refs'
  BY <1>0, <1>1 DEF LInv, Refs, HasSession, Rendering
<1>4. RendererHolds'
  BY <1>0, <1>1, <1>2 DEF LInv, RendererHolds, OneRenders, Rendering
<1>5. OneRenders'
  BY <1>0, <1>1, <1>2 DEF LInv, OneRenders
<1>6. HeldByRenderer'
  BY <1>0, <1>1, <1>2 DEF LInv, HeldByRenderer
<1> QED BY <1>0, <1>1, <1>3, <1>4, <1>5, <1>6 DEF LInv

LEMMA LockAnswer == ASSUME LInv, NEW c \in Conns, Answer(c) PROVE LInv'
<1>1. CASE CheckSession(c) \/ LockSession(c) \/ UnlockSession(c)
  BY <1>1, LockCheckSession, LockTaken, LockReleased
<1>2. CASE EndRequest(c)
  <2>1. IInv'
    BY <1>2, ReleaseKeeps DEF EndRequest, LInv
  <2>2. session'[c] = NoId /\ \A d \in Conns \ {c} : session'[d] = session[d]
    BY <1>2 DEF EndRequest, Release, LInv, IInv, Functions
  <2> QED BY <1>2, <2>1, <2>2, OutsideKeeps
          DEF EndRequest, Release, Goto, LInv, HasSession, Rendering
<1>3. CASE LookupTemplate(c) \/ SessionBusy(c)
  <2>1. Quiet(c, "end") \/ Quiet(c, "lock") \/ Quiet(c, "send")
    BY <1>3 DEF Quiet, LookupTemplate, SessionBusy, lockFails, sessionVars, Goto, HasSession,
       Rendering
  <2> QED BY <2>1, QuietKeeps
<1>4. CASE Open(c) \/ Stat(c) \/ Parse(c) \/ ProcessArticle(c)
  <2>1. Quiet(c, "spin") \/ Quiet(c, "stat") \/ Quiet(c, "parse") \/ Quiet(c, "opened")
        \/ Quiet(c, "open")
    BY <1>4 DEF Quiet, Open, Stat, Parse, ProcessArticle, sessionVars, Goto, HasSession, Rendering
  <2> QED BY <2>1, QuietKeeps
<1>5. CASE Spin(c) \/ AskOpen(c) \/ Opened(c) \/ WalkEnd(c) \/ Abort(c)
  <2>1. Quiet(c, "walk") \/ Quiet(c, "rest") \/ Quiet(c, "unlock") \/ Quiet(c, "ask")
    BY <1>5 DEF Quiet, Spin, AskOpen, Opened, WalkEnd, Abort, OpenReturns, Return, sessionVars, Goto,
       HasSession, Rendering
  <2> QED BY <2>1, QuietKeeps
<1> QED BY <1>1, <1>2, <1>3, <1>4, <1>5 DEF Answer

(* The job takes sessions out of the map, the rest leaves all this alone.    *)
LEMMA MapOnlyShrinks ==
  ASSUME LInv, IInv', UNCHANGED <<session, pc, locked>>, m_sessions' \subseteq m_sessions
  PROVE  LInv'
  BY DEF LInv, Refs, RendererHolds, HeldByRenderer, OneRenders

LEMMA NextLInv == LInv /\ [Next]_vars => LInv'
<1> SUFFICES ASSUME LInv, [Next]_vars PROVE LInv'
  OBVIOUS
<1>0. IInv'
  BY NextIInv DEF LInv
<1>1. CASE \E c \in Conns : Answer(c)
  BY <1>1, LockAnswer
<1>2. CASE \E c \in Conns : \E id \in Ids \cup {NoId} : Begin(c, id)
  <2>1. PICK c \in Conns : \E id \in Ids \cup {NoId} : Begin(c, id)
    BY <1>2
  <2>2. session[c] = NoId
    BY <2>1 DEF Begin, LInv, Refs
  <2> QED BY <1>0, <2>1, <2>2, OutsideKeeps DEF Begin, sessionVars, Goto, LInv, HasSession,
          Rendering
<1>3. CASE Sweep
  BY <1>0, <1>3, MapOnlyShrinks DEF Sweep, check_sessions, SweepStart, SweepValid, SweepRefs,
     SweepEnd, requestVars
<1>4. CASE TimePasses \/ AddTemplate \/ RemoveTemplate \/ PurgeLooks \/ PurgeCloses \/ Edit
         \/ UNCHANGED vars
  BY <1>0, <1>4, MapOnlyShrinks DEF TimePasses, Expire, AddTemplate, RemoveTemplate, PurgeLooks,
     PurgeCloses, Edit, requestVars, sessionVars, vars
<1> QED BY <1>1, <1>2, <1>3, <1>4 DEF Next

\* One request at a time renders with a session, and its lock is free when no
\* request does, whatever happens to the page (SconesiteStream.cpp).
THEOREM LockedByOneForAll == Spec => []LockedByOne
<1> QED BY LockInv, InitLInv, NextLInv, PTL DEF Spec

-----------------------------------------------------------------------------
(* Pages are not stale, whenever files change and documents are closed.      *)
Current(d)  == file[FileOf(d)]
Fresh(d, v) == tree[d] = 0 \/ tree[d] >= v
\* The version is none that the file will only have later.
NotAfter(v, d) == Current(d) = 0 \/ v <= Current(d)
\* Somebody who opens the document is about to look at its file.
Looking(d)  == \E e \in Conns : pc[e] = "stat" /\ Doc(e) = d
Busy        == {"stat", "parse", "opened"}
Asking      == Busy \cup {"spin", "ask"}
InDocument  == Asking \cup {"open", "walk", "rest"}

PTyped ==
  /\ pc = [c \in Conns |-> pc[c]]
  /\ docs \in [Conns -> Seq(Docs)] /\ opened \in [Conns -> BOOLEAN]
  /\ since \in [Conns -> Nat] /\ file \in [Files -> Nat] /\ asof \in [Docs -> Nat]
  /\ tree \in [Docs -> Nat] /\ modtime \in [Docs -> Nat] /\ opening \subseteq Docs
  /\ start \in Templates \cup {NoDoc} /\ purging \in Articles \cup {NoDoc}

\* Who is in Document::process() has a document in hand.
InHands == \A c \in Conns : pc[c] \in InDocument \cup {"lock"} => docs[c] # <<>>

\* A tree is at least of the version whose time is kept, and no version is from
\* the future.
Dated == \A d \in Docs :
  /\ tree[d] # 0 => tree[d] >= modtime[d]
  /\ NotAfter(modtime[d], d) /\ NotAfter(asof[d], d)

\* A document is opened by one request at a time.
OneOpens ==
  /\ \A c \in Conns : pc[c] \in Busy => Doc(c) \in opening
  /\ \A c, e \in Conns : pc[c] \in Busy /\ pc[e] \in Busy /\ Doc(c) = Doc(e) => c = e

\* What open() has found out at each point.  What a request waits for in spin()
\* is looked for after the moment that "since" stands for.
Knows(c) ==
  /\ pc[c] \in Asking => NotAfter(since[c], Doc(c))
  /\ pc[c] = "parse" => tree[Doc(c)] = 0
  /\ pc[c] \in {"opened", "ask"} => Fresh(Doc(c), since[c])
  /\ pc[c] = "spin" => Looking(Doc(c)) \/ Fresh(Doc(c), since[c])

Found ==
  /\ \A c \in Conns : Knows(c)
  /\ \A d \in opening : Looking(d) \/ Fresh(d, asof[d])

PInv == PTyped /\ InHands /\ Dated /\ OneOpens /\ Found

LEMMA InitPInv == Init => PInv
<1> SUFFICES ASSUME Init PROVE PInv
  OBVIOUS
<1>1. \A d \in Docs : FileOf(d) \in Files
  BY DEF Docs, Files, FileOf
<1>2. PTyped
  BY DEF Init, PTyped
<1>3. InHands /\ OneOpens /\ Found
  BY DEF Init, InHands, OneOpens, Found, Knows, InDocument, Asking, Busy
<1>4. Dated
  BY <1>1 DEF Init, Dated, NotAfter, Current
<1> QED BY <1>2, <1>3, <1>4 DEF PInv

(* The document that a request is about to open, opens, waits for or walks.  *)
LEMMA InHand ==
  ASSUME PInv, NEW c \in Conns, pc[c] \in InDocument
  PROVE  /\ docs[c] # <<>> /\ Doc(c) \in Docs /\ since[c] \in Nat
         /\ tree[Doc(c)] \in Nat /\ modtime[Doc(c)] \in Nat /\ asof[Doc(c)] \in Nat
         /\ FileOf(Doc(c)) \in Files /\ Current(Doc(c)) \in Nat
<1>1. docs[c] # <<>> /\ PTyped
  BY DEF PInv, InHands
<1>2. Doc(c) \in Docs
  BY <1>1 DEF PTyped, Doc
<1> QED BY <1>1, <1>2 DEF PTyped, Current, FileOf, Files, Docs

(* A request that goes on without a document or to one that is to be opened  *)
(* or walked.                                                                *)
LEMMA MovesOn ==
  ASSUME PInv, NEW c \in Conns, NEW l, NEW s \in Seq(Docs), pc[c] \notin Busy,
         UNCHANGED <<documentVars, file, start>>,
         pc' = [pc EXCEPT ![c] = l], docs' = [docs EXCEPT ![c] = s],
         l \notin Asking, l \in InDocument \cup {"lock"} => s # <<>>,
         opened' = opened,
         since' \in [Conns -> Nat], \A e \in Conns \ {c} : since'[e] = since[e]
  PROVE  PInv'
<1>1. /\ pc'[c] = l /\ docs'[c] = s
      /\ \A e \in Conns \ {c} : pc'[e] = pc[e] /\ docs'[e] = docs[e] /\ Head(docs'[e]) = Doc(e)
      /\ UNCHANGED <<tree, modtime, opening, asof, purging, file, start, opened>>
  BY DEF PInv, PTyped, Doc, documentVars
<1>2. PTyped'
  BY <1>1 DEF PInv, PTyped
<1>3. InHands'
  BY <1>1 DEF PInv, InHands
<1>4. Dated'
  BY <1>1 DEF PInv, Dated, NotAfter, Current
<1>5. OneOpens'
  BY <1>1 DEF PInv, OneOpens, Doc, Asking
<1>6. Found'
  <2>1. \A d : Looking(d)' <=> Looking(d)
    BY <1>1 DEF Looking, Doc, Asking, Busy
  <2>2. ASSUME NEW e \in Conns PROVE Knows(e)'
    BY <1>1, <2>1 DEF PInv, Found, Knows, Doc, Fresh, NotAfter, Current, Asking, Busy
  <2>3. \A d \in opening' : Looking(d)' \/ Fresh(d, asof[d])'
    BY <1>1, <2>1 DEF PInv, Found, Fresh
  <2> QED BY <2>2, <2>3 DEF Found
<1> QED BY <1>2, <1>3, <1>4, <1>5, <1>6 DEF PInv

LEMMA PageOthers == ASSUME PInv, UNCHANGED <<requestVars, documentVars, file, start>> PROVE PInv'
<1>1. UNCHANGED <<pc, docs, opened, since, tree, modtime, opening, asof, purging, file, start>>
  BY DEF requestVars, documentVars
<1> QED BY <1>1 DEF PInv, PTyped, InHands, Dated, OneOpens, Found, Knows, Looking, Fresh, NotAfter,
           Current, Doc

(* Around the documents.                                                     *)
LEMMA PageSession ==
  ASSUME PInv, NEW c \in Conns,
         \/ CheckSession(c) \/ LookupTemplate(c) \/ LockSession(c) \/ SessionBusy(c)
         \/ UnlockSession(c) \/ EndRequest(c) \/ \E id \in Ids \cup {NoId} : Begin(c, id)
  PROVE  PInv'
<1>1. /\ docs \in [Conns -> Seq(Docs)] /\ since \in [Conns -> Nat]
      /\ start \in Templates \cup {NoDoc} /\ <<>> \in Seq(Docs)
      /\ docs[c] \in Seq(Docs) /\ docs = [docs EXCEPT ![c] = docs[c]]
  BY DEF PInv, PTyped
<1>2. CASE CheckSession(c)
  <2>1. PICK l \in {"touch", "new", "send"} : pc' = [pc EXCEPT ![c] = l]
    BY <1>2 DEF CheckSession, Goto
  <2>2. UNCHANGED <<docs, opened, since, documentVars, file, start>> /\ pc[c] \notin Busy
    BY <1>2 DEF CheckSession, Busy
  <2> QED BY <1>1, <2>1, <2>2, MovesOn DEF InDocument, Asking, Busy
<1>3. CASE LookupTemplate(c)
  <2>1. pc[c] = "send" /\ UNCHANGED <<opened, since, documentVars, file, start>>
    BY <1>3 DEF LookupTemplate
  <2>2. CASE start = NoDoc
    <3>1. pc' = [pc EXCEPT ![c] = "end"] /\ docs' = docs
      BY <1>3, <2>2 DEF LookupTemplate, Goto
    <3> QED BY <1>1, <2>1, <3>1, MovesOn DEF InDocument, Asking, Busy
  <2>3. CASE start # NoDoc
    <3>1. pc' = [pc EXCEPT ![c] = "lock"] /\ docs' = [docs EXCEPT ![c] = <<start>>]
      BY <1>3, <2>3 DEF LookupTemplate, Goto
    <3>2. <<start>> \in Seq(Docs) /\ <<start>> # <<>>
      BY <1>1, <2>3 DEF Docs
    <3> QED BY <1>1, <2>1, <3>1, <3>2, MovesOn DEF InDocument, Asking, Busy
  <2> QED BY <2>2, <2>3
<1>4. CASE LockSession(c) \/ UnlockSession(c)
  <2>1. PICK l \in {"open", "end"} :
          pc' = [pc EXCEPT ![c] = l] /\ (l = "open" => pc[c] = "lock")
    BY <1>4 DEF LockSession, UnlockSession, Goto
  <2>2. UNCHANGED <<docs, opened, since, documentVars, file, start>> /\ pc[c] \notin Busy
    BY <1>4 DEF LockSession, UnlockSession, Busy
  <2>3. l = "open" => docs[c] # <<>>
    BY <2>1, <2>2 DEF PInv, InHands
  <2> QED BY <1>1, <2>1, <2>2, <2>3, MovesOn DEF InDocument, Asking, Busy
<1>5. CASE SessionBusy(c)
  <2>1. /\ pc[c] = "lock" /\ UNCHANGED <<opened, since, documentVars, file, start>>
        /\ pc' = [pc EXCEPT ![c] = "send"] /\ docs' = [docs EXCEPT ![c] = <<>>]
    BY <1>5 DEF SessionBusy, Goto
  <2> QED BY <1>1, <2>1, MovesOn DEF InDocument, Asking, Busy
<1>6. CASE EndRequest(c)
  <2>1. /\ pc[c] = "end" /\ UNCHANGED <<opened, since, documentVars, file, start>>
        /\ pc' = [pc EXCEPT ![c] = "idle"] /\ docs' = [docs EXCEPT ![c] = <<>>]
    BY <1>6 DEF EndRequest, Goto
  <2> QED BY <1>1, <2>1, MovesOn DEF InDocument, Asking, Busy
<1>7. CASE \E id \in Ids \cup {NoId} : Begin(c, id)
  <2>1. /\ pc[c] = "idle" /\ UNCHANGED <<docs, opened, since, documentVars, file, start>>
        /\ pc' = [pc EXCEPT ![c] = "lookup"]
    BY <1>7 DEF Begin, Goto
  <2> QED BY <1>1, <2>1, MovesOn DEF InDocument, Asking, Busy
<1> QED BY <1>2, <1>3, <1>4, <1>5, <1>6, <1>7

(* A request that leaves a document.                                         *)
LEMMA PageReturn ==
  ASSUME PInv, NEW c \in Conns, pc[c] \in InDocument \ Busy, Return(c),
         UNCHANGED <<opened, documentVars, file, start>>,
         since' \in [Conns -> Nat], \A e \in Conns \ {c} : since'[e] = since[e]
  PROVE  PInv'
<1> DEFINE s == Tail(docs[c])
           l == IF Len(docs[c]) > 1 THEN "rest" ELSE "unlock"
<1>1. docs[c] \in Seq(Docs) /\ docs[c] # <<>>
  BY DEF PInv, PTyped, InHands
<1>2. s \in Seq(Docs) /\ (Len(docs[c]) > 1 => s # <<>>)
  <2>1. s \in Seq(Docs) /\ Len(s) = Len(docs[c]) - 1
    BY <1>1, HeadTailProperties
  <2>2. Len(<<>>) = 0 /\ Len(docs[c]) \in Nat
    BY <1>1
  <2> HIDE DEF s
  <2> QED BY <2>1, <2>2
<1>3. docs' = [docs EXCEPT ![c] = s] /\ pc' = [pc EXCEPT ![c] = l]
  BY DEF Return, Goto
<1>4. l \in {"rest", "unlock"} /\ (l = "rest" => s # <<>>)
  BY <1>2
<1> HIDE DEF s, l
<1> QED BY <1>1, <1>2, <1>3, <1>4, MovesOn DEF InDocument, Asking, Busy

LEMMA PageWalk ==
  ASSUME PInv, NEW c \in Conns, ProcessArticle(c) \/ WalkEnd(c) \/ Abort(c) PROVE PInv'
<1>1. /\ docs[c] \in Seq(Docs) /\ <<>> \in Seq(Docs) /\ since \in [Conns -> Nat]
      /\ pc[c] \in InDocument \ Busy /\ UNCHANGED <<opened, since, documentVars, file, start>>
  BY DEF PInv, PTyped, ProcessArticle, WalkEnd, Abort, InDocument, Busy
<1>2. CASE ProcessArticle(c)
  <2>1. PICK d \in Articles : docs' = [docs EXCEPT ![c] = <<d>> \o docs[c]]
    BY <1>2 DEF ProcessArticle
  <2>2. <<d>> \o docs[c] \in Seq(Docs) /\ <<d>> \o docs[c] # <<>>
    BY <1>1 DEF Docs
  <2>3. pc' = [pc EXCEPT ![c] = "open"]
    BY <1>2 DEF ProcessArticle, Goto
  <2> QED BY <1>1, <2>1, <2>2, <2>3, MovesOn DEF InDocument, Asking, Busy
<1>3. CASE WalkEnd(c)
  BY <1>1, <1>3, PageReturn DEF WalkEnd
<1>4. CASE Abort(c)
  <2>1. docs' = [docs EXCEPT ![c] = <<>>] /\ pc' = [pc EXCEPT ![c] = "unlock"]
    BY <1>4 DEF Abort, Goto
  <2> QED BY <1>1, <2>1, MovesOn DEF InDocument, Asking, Busy
<1> QED BY <1>2, <1>3, <1>4

(* open() is called: by the first, who will look at the file, or by one that  *)
(* waits for the first.                                                      *)
LEMMA PageOpen == ASSUME PInv, NEW c \in Conns, Open(c) PROVE PInv'
<1> DEFINE d == Doc(c)
           l == IF d \in opening THEN "spin" ELSE "stat"
           v == IF d \in opening THEN asof[d] ELSE Current(d)
<1>1. /\ pc[c] = "open" /\ opening' = opening \cup {d} /\ pc' = [pc EXCEPT ![c] = l]
      /\ UNCHANGED <<docs, opened, tree, modtime, purging, file, start>>
  BY DEF Open, Goto
<1>2. /\ d \in Docs /\ docs[c] # <<>> /\ asof[d] \in Nat /\ Current(d) \in Nat
      /\ FileOf(d) \in Files
  BY <1>1, InHand DEF InDocument
<1>3. /\ asof' = [asof EXCEPT ![d] = v] /\ since' = [since EXCEPT ![c] = v]
  <2>1. asof' = [asof EXCEPT ![d] = v]
    BY <1>2 DEF Open, PInv, PTyped, Current
  <2>2. asof'[d] = v
    BY <2>1, <1>2 DEF PInv, PTyped
  <2> QED BY <2>1, <2>2 DEF Open
<1>4. v \in Nat /\ NotAfter(v, d)
  BY <1>2 DEF PInv, Dated, NotAfter
<1>5. /\ pc'[c] = l /\ since'[c] = v /\ asof'[d] = v
      /\ \A e \in Conns \ {c} : pc'[e] = pc[e] /\ since'[e] = since[e]
      /\ \A x \in Docs \ {d} : asof'[x] = asof[x]
      /\ \A e \in Conns : Head(docs'[e]) = Doc(e)
      /\ \A x : Current(x)' = Current(x)
  BY <1>1, <1>2, <1>3 DEF PInv, PTyped, Doc, Current
<1>6. /\ l \in {"spin", "stat"} /\ (l = "spin" => d \in opening /\ v = asof[d])
      /\ (l = "stat" => d \notin opening)
  OBVIOUS
<1>7. PTyped'
  BY <1>1, <1>2, <1>3, <1>4 DEF PInv, PTyped
<1> HIDE DEF l, v
<1>8. InHands'
  BY <1>1, <1>2, <1>5 DEF PInv, InHands
<1>9. Dated'
  <2> SUFFICES ASSUME NEW x \in Docs
               PROVE  /\ tree[x] # 0 => tree[x] >= modtime[x]
                      /\ NotAfter(modtime[x], x) /\ NotAfter(asof'[x], x)
    BY <1>1, <1>5 DEF Dated, NotAfter
  <2> QED BY <1>4, <1>5 DEF PInv, Dated
<1>10. OneOpens'
  BY <1>1, <1>5, <1>6 DEF PInv, OneOpens, Doc, Busy
<1>11. \A x : Looking(x) => Looking(x)'
  BY <1>1, <1>5 DEF Looking, Doc
<1>12. ASSUME NEW x, x = d, l = "stat" PROVE Looking(x)'
  BY <1>5, <1>12 DEF Looking, Doc
<1>13. Found'
  <2>1. Knows(c)'
    <3>1. l = "spin" => Looking(d) \/ Fresh(d, v)
      BY <1>6 DEF PInv, Found
    <3> QED BY <1>1, <1>4, <1>5, <1>6, <1>11, <3>1
            DEF Knows, Doc, Fresh, NotAfter, Asking, Busy
  <2>2. ASSUME NEW e \in Conns \ {c} PROVE Knows(e)'
    BY <2>2, <1>1, <1>5, <1>11 DEF PInv, Found, Knows, Doc, Fresh, NotAfter
  <2>3. ASSUME NEW x \in opening' PROVE Looking(x)' \/ Fresh(x, asof[x])'
    <3>1. CASE x = d /\ l = "stat"
      BY <3>1, <1>12
    <3>2. CASE x \in opening /\ (x = d => v = asof[d])
      BY <3>2, <1>1, <1>2, <1>3, <1>5, <1>11 DEF PInv, PTyped, Found, Fresh
    <3> QED BY <2>3, <3>1, <3>2, <1>1, <1>6
  <2> QED BY <2>1, <2>2, <2>3 DEF Found
<1> QED BY <1>7, <1>8, <1>9, <1>10, <1>13 DEF PInv

(* Whoever has waited asks whether the document is open.                     *)
LEMMA PageSpin == ASSUME PInv, NEW c \in Conns, Spin(c) PROVE PInv'
<1>1. /\ pc[c] = "spin" /\ Doc(c) \notin opening /\ pc' = [pc EXCEPT ![c] = "ask"]
      /\ UNCHANGED <<docs, opened, since, tree, modtime, opening, asof, purging, file, start>>
  BY DEF Spin, Goto, documentVars
<1>2. /\ pc'[c] = "ask" /\ \A e \in Conns \ {c} : pc'[e] = pc[e]
      /\ \A e \in Conns : Head(docs'[e]) = Doc(e)
  BY <1>1 DEF PInv, PTyped, Doc
<1>3. docs[c] # <<>>
  BY <1>1, InHand DEF InDocument, Asking
<1>4. ~Looking(Doc(c))
  BY <1>1 DEF Looking, PInv, OneOpens, Busy
<1>5. \A x : Looking(x)' <=> Looking(x)
  BY <1>1, <1>2 DEF Looking, Doc
<1>6. PTyped'
  BY <1>1 DEF PInv, PTyped
<1>7. InHands'
  BY <1>1, <1>2, <1>3 DEF PInv, InHands
<1>8. Dated'
  BY <1>1 DEF PInv, Dated, NotAfter, Current
<1>9. OneOpens'
  BY <1>1, <1>2 DEF PInv, OneOpens, Doc, Busy
<1>10. Found'
  <2>1. Knows(c)'
    BY <1>1, <1>2, <1>4 DEF PInv, Found, Knows, Doc, Fresh, NotAfter, Current, Asking, Busy
  <2>2. ASSUME NEW e \in Conns \ {c} PROVE Knows(e)'
    BY <2>2, <1>1, <1>2, <1>5 DEF PInv, Found, Knows, Doc, Fresh, NotAfter, Current
  <2>3. \A x \in opening' : Looking(x)' \/ Fresh(x, asof[x])'
    BY <1>1, <1>5 DEF PInv, Found, Fresh
  <2> QED BY <2>1, <2>2, <2>3 DEF Found
<1> QED BY <1>6, <1>7, <1>8, <1>9, <1>10 DEF PInv

LEMMA PageAsk == ASSUME PInv, NEW c \in Conns, AskOpen(c) PROVE PInv'
<1>1. /\ pc[c] = "ask" /\ OpenReturns(c, tree[Doc(c)] # 0)
      /\ UNCHANGED <<opened, documentVars, file, start>>
      /\ since' = [since EXCEPT ![c] = 0]
  BY DEF AskOpen
<1>2. since' \in [Conns -> Nat] /\ \A e \in Conns \ {c} : since'[e] = since[e]
  BY <1>1 DEF PInv, PTyped
<1>3. docs[c] # <<>> /\ docs[c] \in Seq(Docs) /\ docs = [docs EXCEPT ![c] = docs[c]]
  BY <1>1, InHand DEF InDocument, Asking, PInv, PTyped
<1>4. CASE tree[Doc(c)] = 0
  <2>1. Return(c)
    BY <1>1, <1>4 DEF OpenReturns
  <2> QED BY <1>1, <1>2, <2>1, PageReturn DEF InDocument, Asking, Busy
<1>5. CASE tree[Doc(c)] # 0
  <2>1. pc' = [pc EXCEPT ![c] = "walk"] /\ docs' = docs
    BY <1>1, <1>5 DEF OpenReturns, Goto
  <2> QED BY <1>1, <1>2, <1>3, <2>1, MovesOn DEF InDocument, Asking, Busy
<1> QED BY <1>4, <1>5

(* The one that opens sets the tree, to nothing or to a version that is no    *)
(* older than any the file has had.                                          *)
LEMMA TreeSet ==
  ASSUME PInv, NEW c \in Conns, pc[c] \in {"stat", "parse"},
         NEW l \in {"parse", "opened"}, NEW t \in Nat, NEW m \in Nat, NEW ok \in BOOLEAN,
         pc' = [pc EXCEPT ![c] = l], opened' = [opened EXCEPT ![c] = ok],
         tree' = [tree EXCEPT ![Doc(c)] = t], modtime' = [modtime EXCEPT ![Doc(c)] = m],
         UNCHANGED <<docs, since, opening, asof, purging, file, start>>,
         t # 0 => t >= m, NotAfter(m, Doc(c)), l = "parse" => t = 0,
         \A v \in Nat : NotAfter(v, Doc(c)) => t = 0 \/ t >= v
  PROVE  PInv'
<1> DEFINE d == Doc(c)
<1>1. d \in Docs /\ docs[c] # <<>> /\ d \in opening
  BY InHand DEF InDocument, Asking, Busy, PInv, OneOpens
<1>2. /\ \A e \in Conns \ {c} : pc'[e] = pc[e] /\ opened'[e] = opened[e]
      /\ \A e \in Conns : Head(docs'[e]) = Doc(e)
      /\ pc'[c] = l /\ tree'[d] = t /\ modtime'[d] = m
      /\ \A x \in Docs \ {d} : tree'[x] = tree[x] /\ modtime'[x] = modtime[x]
      /\ \A x : Current(x)' = Current(x)
  BY <1>1 DEF PInv, PTyped, Doc, Current
<1>3. PTyped'
  BY DEF PInv, PTyped
<1>4. InHands'
  BY <1>1, <1>2 DEF PInv, InHands
<1>5. Dated'
  <2> SUFFICES ASSUME NEW x \in Docs
               PROVE  /\ tree'[x] # 0 => tree'[x] >= modtime'[x]
                      /\ NotAfter(modtime'[x], x) /\ NotAfter(asof[x], x)
    BY <1>2 DEF Dated, NotAfter
  <2> QED BY <1>2 DEF PInv, Dated
<1>6. \A e \in Conns : pc[e] \in Busy /\ Doc(e) = d => e = c
  BY DEF PInv, OneOpens, Busy
<1>7. OneOpens'
  BY <1>1, <1>2, <1>6 DEF PInv, OneOpens, Doc, Busy
<1>8. \A v \in Nat : NotAfter(v, d) => tree'[d] = 0 \/ tree'[d] >= v
  BY <1>2
<1>9. \A x \in Docs \ {d} : /\ \A v : Fresh(x, v)' <=> Fresh(x, v)
                            /\ Looking(x) <=> Looking(x)'
  BY <1>2 DEF Fresh, Looking, Doc
<1>10. Found'
  <2>1. ASSUME NEW e \in Conns PROVE Knows(e)'
    <3>1. Doc(e)' = Doc(e) /\ since'[e] = since[e] /\ (Knows(e) /\ Knows(c))
      BY <1>2 DEF Doc, PInv, Found
    <3>2. pc'[e] \in Asking <=> pc[e] \in Asking
      BY <1>2 DEF Asking, Busy
    <3>3. pc[e] \in Asking => NotAfter(since[e], Doc(e)) /\ Doc(e) \in Docs /\ since[e] \in Nat
      BY <3>1, InHand DEF Knows, InDocument
    <3>4. NotAfter(since[e], Doc(e)) <=> NotAfter(since[e], Doc(e))'
      BY <3>1 DEF NotAfter, Current
    <3>5. CASE Doc(e) = d
      <4>1. pc[e] \in Asking => Fresh(Doc(e), since[e])'
        BY <1>8, <3>3, <3>5, <3>1 DEF Fresh
      <4>2. pc'[e] = "parse" => tree'[Doc(e)] = 0
        BY <1>2, <1>6, <3>5 DEF Busy
      <4> QED BY <3>1, <3>2, <3>3, <3>4, <4>1, <4>2 DEF Knows, Asking, Busy
    <3>6. CASE Doc(e) # d
      <4>1. pc'[e] = pc[e] /\ (Doc(e) \in Docs => tree'[Doc(e)] = tree[Doc(e)])
        BY <1>2, <3>6
      <4> QED BY <1>9, <3>1, <3>3, <3>4, <3>6, <4>1 DEF Knows, Asking, Busy, Fresh
    <3> QED BY <3>5, <3>6
  <2>2. ASSUME NEW x \in opening' PROVE Looking(x)' \/ Fresh(x, asof[x])'
    <3>1. x \in Docs /\ x \in opening /\ asof[x] \in Nat
      BY <2>2 DEF PInv, PTyped
    <3>2. CASE x = d
      <4>1. NotAfter(asof[d], d)
        BY <1>1 DEF PInv, Dated
      <4> QED BY <1>8, <3>1, <3>2, <4>1 DEF Fresh
    <3>3. CASE x # d
      BY <1>9, <3>1, <3>3 DEF PInv, Found, Fresh
    <3> QED BY <3>2, <3>3
  <2> QED BY <2>1, <2>2 DEF Found
<1> QED BY <1>3, <1>4, <1>5, <1>7, <1>10 DEF PInv

LEMMA PageStat == ASSUME PInv, NEW c \in Conns, Stat(c) PROVE PInv'
<1> DEFINE d == Doc(c)
           v == Current(d)
           changed == v # 0 /\ (tree[d] = 0 \/ modtime[d] # v)
           l == IF changed THEN "parse" ELSE "opened"
           t == IF v = 0 \/ changed THEN 0 ELSE tree[d]
           m == IF changed THEN v ELSE modtime[d]
           ok == tree[d] # 0
<1>1. /\ pc[c] = "stat" /\ pc' = [pc EXCEPT ![c] = l] /\ opened' = [opened EXCEPT ![c] = ok]
      /\ UNCHANGED <<docs, since, opening, asof, purging, file, start>>
  BY DEF Stat, Goto, Current
<1>2. d \in Docs /\ tree[d] \in Nat /\ modtime[d] \in Nat /\ v \in Nat
  BY <1>1, InHand DEF InDocument, Asking, Busy
<1>3. tree' = [tree EXCEPT ![d] = t] /\ modtime' = [modtime EXCEPT ![d] = m]
  BY <1>2 DEF Stat, Current, PInv, PTyped
<1>4. (tree[d] # 0 => tree[d] >= modtime[d]) /\ NotAfter(modtime[d], d)
  BY <1>2 DEF PInv, Dated
<1>5. /\ t \in Nat /\ m \in Nat /\ l \in {"parse", "opened"} /\ ok \in BOOLEAN
      /\ t # 0 => t >= m
      /\ l = "parse" => t = 0
      /\ v = 0 \/ m <= v
      /\ \A u \in Nat : v = 0 \/ u <= v => t = 0 \/ t >= u
  BY <1>2, <1>4 DEF NotAfter
<1> HIDE DEF l, t, m, ok
<1> QED BY <1>1, <1>3, <1>5, TreeSet DEF NotAfter

LEMMA PageParse == ASSUME PInv, NEW c \in Conns, Parse(c) PROVE PInv'
<1> DEFINE d == Doc(c)
           v == Current(d)
           ok == v # 0 /\ <<FileOf(d), v>> \notin Malformed
           t == IF ok THEN v ELSE 0
<1>1. /\ pc[c] = "parse" /\ pc' = [pc EXCEPT ![c] = "opened"]
      /\ opened' = [opened EXCEPT ![c] = ok] /\ tree' = [tree EXCEPT ![d] = t]
      /\ UNCHANGED <<docs, since, modtime, opening, asof, purging, file, start>>
  BY DEF Parse, Goto, Current
<1>2. d \in Docs /\ modtime[d] \in Nat /\ v \in Nat
  BY <1>1, InHand DEF InDocument, Asking, Busy
<1>3. NotAfter(modtime[d], d) /\ modtime' = [modtime EXCEPT ![d] = modtime[d]]
  BY <1>1, <1>2 DEF PInv, PTyped, Dated
<1>4. /\ t \in Nat /\ ok \in BOOLEAN /\ (t # 0 => t >= modtime[d])
      /\ \A u \in Nat : v = 0 \/ u <= v => t = 0 \/ t >= u
  BY <1>2, <1>3 DEF NotAfter
<1> HIDE DEF t, ok
<1> QED BY <1>1, <1>2, <1>3, <1>4, TreeSet DEF NotAfter

(* open() lets the others go on.                                             *)
LEMMA PageOpened == ASSUME PInv, NEW c \in Conns, Opened(c) PROVE PInv'
<1> DEFINE d == Doc(c)
           s == IF opened[c] THEN docs[c] ELSE Tail(docs[c])
           l == IF opened[c] THEN "walk" ELSE IF Len(docs[c]) > 1 THEN "rest" ELSE "unlock"
<1>1. /\ pc[c] = "opened" /\ opening' = opening \ {d}
      /\ opened' = [opened EXCEPT ![c] = FALSE]
      /\ since' = [since EXCEPT ![c] = 0] /\ asof' = [asof EXCEPT ![d] = 0]
      /\ UNCHANGED <<tree, modtime, purging, file, start>>
  BY DEF Opened
<1>2. d \in Docs /\ docs[c] # <<>> /\ docs[c] \in Seq(Docs) /\ Current(d) \in Nat
  BY <1>1, InHand DEF InDocument, Asking, Busy, PInv, PTyped
<1>3. pc' = [pc EXCEPT ![c] = l] /\ docs' = [docs EXCEPT ![c] = s]
  <2>1. CASE opened[c]
    BY <2>1, <1>2 DEF Opened, OpenReturns, Goto, PInv, PTyped
  <2>2. CASE ~opened[c]
    BY <2>2, <1>2 DEF Opened, OpenReturns, Return, Goto, PInv, PTyped
  <2> QED BY <2>1, <2>2
<1>4. s \in Seq(Docs) /\ (l \in {"walk", "rest"} => s # <<>>)
  <2>1. CASE opened[c]
    BY <2>1, <1>2
  <2>2. CASE ~opened[c]
    <3>1. Tail(docs[c]) \in Seq(Docs) /\ Len(Tail(docs[c])) = Len(docs[c]) - 1
      BY <1>2, HeadTailProperties
    <3>2. Len(<<>>) = 0 /\ Len(docs[c]) \in Nat
      BY <1>2
    <3>3. Len(docs[c]) > 1 => Tail(docs[c]) # <<>>
      BY <3>1, <3>2
    <3> QED BY <2>2, <3>1, <3>3
  <2> QED BY <2>1, <2>2
<1>5. l \in {"walk", "rest", "unlock"}
  OBVIOUS
<1> HIDE DEF s, l
<1>6. /\ \A e \in Conns \ {c} : /\ pc'[e] = pc[e] /\ opened'[e] = opened[e]
                                /\ docs'[e] = docs[e] /\ Head(docs'[e]) = Doc(e)
                                /\ since'[e] = since[e]
      /\ pc'[c] = l /\ docs'[c] = s /\ asof'[d] = 0
      /\ \A x \in Docs \ {d} : asof'[x] = asof[x]
  BY <1>1, <1>2, <1>3, <1>5 DEF PInv, PTyped, Doc
<1>7. PTyped'
  BY <1>1, <1>3, <1>4 DEF PInv, PTyped
<1>8. InHands'
  BY <1>1, <1>2, <1>4, <1>5, <1>6 DEF PInv, InHands, InDocument, Asking, Busy
<1>9. Dated'
  <2> SUFFICES ASSUME NEW x \in Docs
               PROVE  /\ tree[x] # 0 => tree[x] >= modtime[x]
                      /\ NotAfter(modtime[x], x) /\ NotAfter(asof'[x], x)
    BY <1>1 DEF Dated, NotAfter, Current
  <2>1. CASE x = d
    BY <1>2, <1>6, <2>1 DEF PInv, Dated, NotAfter
  <2>2. CASE x # d
    BY <1>6, <2>2 DEF PInv, Dated
  <2> QED BY <2>1, <2>2
<1>10. \A e \in Conns : pc[e] \in Busy /\ Doc(e) = d => e = c
  BY <1>1 DEF PInv, OneOpens, Busy
<1>11. OneOpens'
  BY <1>1, <1>5, <1>6, <1>10 DEF PInv, OneOpens, Doc, Busy
<1>12. \A x : Looking(x) <=> Looking(x)'
  BY <1>1, <1>5, <1>6 DEF Looking, Doc
<1>13. Found'
  <2>1. Knows(c)'
    BY <1>5, <1>6 DEF Knows, Asking, Busy
  <2>2. ASSUME NEW e \in Conns \ {c} PROVE Knows(e)'
    BY <2>2, <1>1, <1>6, <1>12 DEF PInv, Found, Knows, Doc, Fresh, NotAfter, Current
  <2>3. ASSUME NEW x \in opening' PROVE Looking(x)' \/ Fresh(x, asof[x])'
    <3>1. x \in opening /\ x \in Docs \ {d}
      BY <2>3, <1>1 DEF PInv, PTyped
    <3> QED BY <3>1, <1>1, <1>6, <1>12 DEF PInv, Found, Fresh
  <2> QED BY <2>1, <2>2, <2>3 DEF Found
<1> QED BY <1>7, <1>8, <1>9, <1>11, <1>13 DEF PInv

(* The periodic job closes documents, whoever uses them.                     *)
LEMMA TreeClosed ==
  ASSUME PInv, NEW d \in Docs, tree' = [tree EXCEPT ![d] = 0],
         UNCHANGED <<requestVars, modtime, opening, asof, file>>,
         start' \in Templates \cup {NoDoc}, purging' \in Articles \cup {NoDoc}
  PROVE  PInv'
<1>1. UNCHANGED <<pc, docs, opened, since, modtime, opening, asof, file>>
  BY DEF requestVars
<1>2. /\ tree'[d] = 0 /\ tree' \in [Docs -> Nat]
      /\ \A x \in Docs \ {d} : tree'[x] = tree[x]
  BY DEF PInv, PTyped
<1>3. PTyped'
  BY <1>1, <1>2 DEF PInv, PTyped
<1>4. InHands' /\ OneOpens'
  BY <1>1 DEF PInv, InHands, OneOpens, Doc
<1>5. Dated'
  BY <1>1, <1>2 DEF PInv, Dated, NotAfter, Current
<1>6. \A x \in Docs : /\ \A v : Fresh(x, v) => Fresh(x, v)'
                      /\ Looking(x) <=> Looking(x)'
                      /\ tree[x] = 0 => tree'[x] = 0
  BY <1>1, <1>2 DEF Fresh, Looking, Doc
<1>7. Found'
  <2>1. ASSUME NEW e \in Conns PROVE Knows(e)'
    <3>1. pc[e] \in Asking => Doc(e) \in Docs
      BY InHand DEF InDocument
    <3> QED BY <1>1, <1>6, <3>1 DEF PInv, Found, Knows, Doc, NotAfter, Current, Asking, Busy, Fresh
  <2>2. ASSUME NEW x \in opening' PROVE Looking(x)' \/ Fresh(x, asof[x])'
    BY <2>2, <1>1, <1>6 DEF PInv, PTyped, Found, Fresh
  <2> QED BY <2>1, <2>2 DEF Found
<1> QED BY <1>3, <1>4, <1>5, <1>7 DEF PInv

LEMMA PageJob ==
  ASSUME PInv, AddTemplate \/ RemoveTemplate \/ PurgeLooks \/ PurgeCloses
  PROVE  PInv'
<1>1. CASE AddTemplate \/ PurgeLooks
  <2>1. /\ start' \in Templates \cup {NoDoc} /\ purging' \in Articles \cup {NoDoc}
        /\ UNCHANGED <<pc, docs, opened, since, tree, modtime, opening, asof, file>>
    BY <1>1 DEF AddTemplate, PurgeLooks, requestVars, documentVars, PInv, PTyped
  <2> QED BY <2>1 DEF PInv, PTyped, InHands, Dated, OneOpens, Found, Knows, Looking, Fresh,
             NotAfter, Current, Doc
<1>2. CASE RemoveTemplate
  BY <1>2, TreeClosed DEF RemoveTemplate, PInv, PTyped, Docs
<1>3. CASE PurgeCloses
  BY <1>3, TreeClosed DEF PurgeCloses, PInv, PTyped, Docs
<1> QED BY <1>1, <1>2, <1>3

LEMMA PageEdit == ASSUME PInv, Edit PROVE PInv'
<1>1. UNCHANGED <<pc, docs, opened, since, tree, modtime, opening, asof, purging, start>>
  BY DEF Edit, requestVars, documentVars
<1>2. PICK f \in Files : \E v \in {0, file[f] + 1} :
        file[f] # 0 /\ file' = [file EXCEPT ![f] = v]
  BY DEF Edit
<1> PICK v \in {0, file[f] + 1} : file' = [file EXCEPT ![f] = v]
  BY <1>2
<1>3. /\ file[f] \in Nat /\ v \in Nat /\ file' \in [Files -> Nat] /\ (v = 0 \/ v > file[f])
      /\ file'[f] = v /\ \A g \in Files \ {f} : file'[g] = file[g]
  BY <1>2 DEF PInv, PTyped
<1>4. ASSUME NEW d \in Docs, NEW u \in Nat, NotAfter(u, d) PROVE NotAfter(u, d)'
  <2>1. FileOf(d) \in Files /\ file[FileOf(d)] \in Nat
    BY DEF PInv, PTyped, FileOf, Files, Docs
  <2>2. CASE FileOf(d) = f
    BY <2>1, <2>2, <1>2, <1>3, <1>4 DEF NotAfter, Current
  <2>3. CASE FileOf(d) # f
    BY <2>1, <2>3, <1>3, <1>4 DEF NotAfter, Current
  <2> QED BY <2>2, <2>3
<1>5. PTyped'
  BY <1>1, <1>3 DEF PInv, PTyped
<1>6. InHands' /\ OneOpens'
  BY <1>1 DEF PInv, InHands, OneOpens, Doc
<1>7. Dated'
  BY <1>1, <1>4 DEF PInv, PTyped, Dated, NotAfter
<1>8. \A x : Looking(x)' <=> Looking(x)
  BY <1>1 DEF Looking, Doc
<1>9. Found'
  <2>1. ASSUME NEW e \in Conns PROVE Knows(e)'
    <3>1. pc[e] \in Asking => Doc(e) \in Docs /\ since[e] \in Nat
      BY InHand DEF InDocument
    <3>2. ASSUME pc[e] \in Asking PROVE NotAfter(since[e], Doc(e))'
      <4> DEFINE d == Doc(e)
                 u == since[e]
      <4>1. NotAfter(u, d) /\ d \in Docs /\ u \in Nat
        BY <3>1, <3>2 DEF PInv, Found, Knows
      <4>2. Doc(e)' = d /\ since'[e] = u
        BY <1>1 DEF Doc
      <4> HIDE DEF d, u
      <4>3. file'[FileOf(d)] = 0 \/ u <= file'[FileOf(d)]
        BY <4>1, <1>4 DEF NotAfter, Current
      <4> QED BY <4>2, <4>3 DEF NotAfter, Current
    <3> QED BY <1>1, <1>8, <3>2 DEF PInv, Found, Knows, Doc, Fresh, NotAfter
  <2>2. \A x \in opening' : Looking(x)' \/ Fresh(x, asof[x])'
    BY <1>1, <1>8 DEF PInv, Found, Fresh
  <2> QED BY <2>1, <2>2 DEF Found
<1> QED BY <1>5, <1>6, <1>7, <1>9 DEF PInv

LEMMA NextPInv == ASSUME PInv, [Next]_vars PROVE PInv'
<1>1. CASE \E c \in Conns : Answer(c) \/ \E id \in Ids \cup {NoId} : Begin(c, id)
  BY <1>1, PageSession, PageOpen, PageSpin, PageAsk, PageStat, PageParse, PageOpened, PageWalk
     DEF Answer
<1>2. CASE Sweep \/ TimePasses \/ UNCHANGED vars
  BY <1>2, PageOthers DEF Sweep, TimePasses, vars
<1>3. CASE AddTemplate \/ RemoveTemplate \/ PurgeLooks \/ PurgeCloses \/ Edit
  BY <1>3, PageJob, PageEdit
<1> QED BY <1>1, <1>2, <1>3 DEF Next

(* No page shows a version older than its file had when the open() that it     *)
(* relies on was called, for any number of connections, documents and          *)
(* versions, and with files that change, documents that are purged and          *)
(* templates that are deleted at any time (Document::open).                    *)
THEOREM PagesAreFresh == Spec => FreshPage
<1>1. ASSUME PInv, [Next]_vars
      PROVE  [\A c \in Conns : pc[c] \in {"ask", "opened"} /\ pc'[c] = "walk" =>
                tree[Doc(c)] = 0 \/ tree[Doc(c)] >= since[c]]_vars
  BY <1>1 DEF PInv, Found, Knows, Fresh
<1> QED BY <1>1, InitPInv, NextPInv, PTL DEF Spec, FreshPage

=============================================================================
