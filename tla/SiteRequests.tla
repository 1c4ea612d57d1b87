---------------------------- MODULE SiteRequests ----------------------------
(* The requests that sconesite answers: a session from the http module, the   *)
(* template "start" from the profile's store, and the documents (templates    *)
(* and articles) that the threads of the pool open, share and walk.           *)
(*                                                                            *)
(* Files change under the server, at any time.  A Document is parsed again    *)
(* when the time of its file has changed, by whichever request calls open()   *)
(* first; the others spin on m_opening.  Templates are handed out as raw      *)
(* pointers; a periodic job deletes those whose file is gone, and closes the  *)
(* articles that have not been used for a while.                              *)
(*                                                                            *)
(* A tree may be freed under the walk of another request (by open(), by the   *)
(* store's job and by purge()); what the walk does then is undefined, and     *)
(* here it goes on to its end.                                                *)
EXTENDS Sessions, Sequences

CONSTANTS
  Templates,    \* identities of Template objects of the name "start"
  Articles,     \* documents of cached articles, which references keep alive
  NoDoc,
  MaxVersion,   \* versions of a file, which its time tells apart; 0: no file
  Malformed,    \* the versions <<f, v>> of files that are not well-formed
  MaxRequests   \* bounds the requests

Docs == Templates \cup Articles
Files == {"start"} \cup Articles
FileOf(d) == IF d \in Templates THEN "start" ELSE d

VARIABLES
  pc,       \* where the request of a connection is
  cookie,   \* the session identifier that came with the request
  docs,     \* the documents that it is processing, the innermost first
  opened,   \* the local variable of Document::open()
  since,    \* history: the version that the file of the innermost document had
            \* when the open() that the request relies on was called
  count,    \* requests so far
  file,     \* the version of each file
  tree,     \* m_xmldoc of each document: the version that was parsed, 0 if none
  modtime,  \* m_modtime
  opening,  \* the documents with m_opening
  asof,     \* history: the version its file had when the document's open() was called
  purging,  \* the document that purge() is about to close, NoDoc if none
  start     \* what m_templates of the store has for "start"

requestVars == <<pc, cookie, docs, opened, since, count>>
documentVars == <<tree, modtime, opening, asof, purging>>
vars == <<sessionVars, requestVars, documentVars, file, start>>

Doc(c) == Head(docs[c])
Goto(c, l) == pc' = [pc EXCEPT ![c] = l]

-----------------------------------------------------------------------------
(* Host::handle_message -> check_session *)

\* Bound: enough identifiers are left for all that may need a new one.
Begin(c, id) ==
  /\ pc[c] = "idle" /\ count < MaxRequests
  /\ id \in m_sessions \/ Cardinality(Unused) > Cardinality({x \in Conns : pc[x] \in {"lookup", "new"}})
  /\ Goto(c, "lookup")
  /\ cookie' = [cookie EXCEPT ![c] = id]
  /\ count' = count + 1
  /\ UNCHANGED <<sessionVars, docs, opened, since, documentVars, file, start>>

CheckSession(c) ==
  /\ \/ pc[c] = "lookup" /\ lookup_session(c, cookie[c]) /\ Goto(c, "touch")
     \/ pc[c] = "lookup" /\ NotFound(cookie[c]) /\ Goto(c, "new")
     \/ pc[c] = "touch" /\ set_last_used(c) /\ Goto(c, "send")
     \/ pc[c] = "new" /\ new_session(c) /\ Goto(c, "send")
  /\ cookie' = [cookie EXCEPT ![c] = NoId]
  /\ UNCHANGED <<docs, opened, since, count, documentVars, file, start>>

-----------------------------------------------------------------------------
(* SconesiteStream::send_response *)

\* TemplateStore::lookup() under its read lock
LookupTemplate(c) ==
  /\ pc[c] = "send"
  /\ IF start = NoDoc
     THEN Goto(c, "end") /\ UNCHANGED docs      \* internal server error
     ELSE Goto(c, "lock") /\ docs' = [docs EXCEPT ![c] = <<start>>]
  /\ UNCHANGED <<sessionVars, cookie, opened, since, count, documentVars, file, start>>

LockSession(c) ==
  /\ pc[c] = "lock" /\ lock(c)
  /\ Goto(c, "open")
  /\ UNCHANGED <<cookie, docs, opened, since, count, documentVars, file, start>>

\* scx::Wait: send_response() will be called again from its beginning.
SessionBusy(c) ==
  /\ pc[c] = "lock" /\ lockFails(c)
  /\ Goto(c, "send")
  /\ docs' = [docs EXCEPT ![c] = <<>>]
  /\ UNCHANGED <<cookie, opened, since, count, documentVars, file, start>>

UnlockSession(c) ==
  /\ pc[c] = "unlock" /\ unlock(c)
  /\ Goto(c, "end")
  /\ UNCHANGED <<cookie, docs, opened, since, count, documentVars, file, start>>

EndRequest(c) ==
  /\ pc[c] = "end" /\ Release(c)
  /\ Goto(c, "idle")
  /\ docs' = [docs EXCEPT ![c] = <<>>]
  /\ UNCHANGED <<cookie, opened, since, count, documentVars, file, start>>

-----------------------------------------------------------------------------
(* Document::process and Document::open *)

\* What follows a document: the one whose walk led to it, or unlock().
Return(c) ==
  /\ docs' = [docs EXCEPT ![c] = Tail(@)]
  /\ Goto(c, IF Len(docs[c]) > 1 THEN "rest" ELSE "unlock")

\* process() walks the document if open() says that it is open.
OpenReturns(c, ok) == IF ok THEN Goto(c, "walk") /\ UNCHANGED docs ELSE Return(c)

Open(c) ==
  /\ pc[c] = "open"
  /\ Goto(c, IF Doc(c) \in opening THEN "spin" ELSE "stat")
  /\ opening' = opening \cup {Doc(c)}
  /\ asof' = IF Doc(c) \in opening THEN asof
                                    ELSE [asof EXCEPT ![Doc(c)] = file[FileOf(Doc(c))]]
  /\ since' = [since EXCEPT ![c] = asof'[Doc(c)]]
  /\ UNCHANGED <<sessionVars, cookie, docs, opened, count, tree, modtime, purging, file, start>>

\* while (m_opening) { };
Spin(c) ==
  /\ pc[c] = "spin" /\ Doc(c) \notin opening
  /\ Goto(c, "ask")
  /\ UNCHANGED <<sessionVars, cookie, docs, opened, since, count, documentVars, file, start>>

\* return is_open(); without a lock: the next request may be opening it again.
AskOpen(c) ==
  /\ pc[c] = "ask"
  /\ OpenReturns(c, tree[Doc(c)] # 0)
  /\ since' = [since EXCEPT ![c] = 0]
  /\ UNCHANGED <<sessionVars, cookie, opened, count, documentVars, file, start>>

(* Slip: an open document is never opened again. *)
StatOnce(c) ==
  LET d == Doc(c)
      v == file[FileOf(d)]
      changed == v # 0 /\ tree[d] = 0
  IN
  /\ pc[c] = "stat"
  /\ opened' = [opened EXCEPT ![c] = tree[d] # 0]
  /\ tree' = IF v = 0 \/ changed THEN [tree EXCEPT ![d] = 0] ELSE tree
  /\ modtime' = IF changed THEN [modtime EXCEPT ![d] = v] ELSE modtime
  /\ Goto(c, IF changed THEN "parse" ELSE "opened")
  /\ UNCHANGED <<sessionVars, cookie, docs, since, count, opening, asof, purging, file, start>>

\* A file that is gone closes the document, but open() still answers what
\* is_open() said before.  modtime stands for the local stat until "opened".
Stat(c) ==
  LET d == Doc(c)
      v == file[FileOf(d)]
      changed == v # 0 /\ (tree[d] = 0 \/ modtime[d] # v)
  IN
  /\ pc[c] = "stat"
  /\ opened' = [opened EXCEPT ![c] = tree[d] # 0]
  /\ tree' = IF v = 0 \/ changed THEN [tree EXCEPT ![d] = 0] ELSE tree
  /\ modtime' = IF changed THEN [modtime EXCEPT ![d] = v] ELSE modtime
  /\ Goto(c, IF changed THEN "parse" ELSE "opened")
  /\ UNCHANGED <<sessionVars, cookie, docs, since, count, opening, asof, purging, file, start>>

\* XMLDoc::handle_open()
Parse(c) ==
  LET f == FileOf(Doc(c))
      v == file[f]
      ok == v # 0 /\ <<f, v>> \notin Malformed
  IN
  /\ pc[c] = "parse"
  /\ tree' = [tree EXCEPT ![Doc(c)] = IF ok THEN v ELSE 0]
  /\ opened' = [opened EXCEPT ![c] = ok]
  /\ Goto(c, "opened")
  /\ UNCHANGED <<sessionVars, cookie, docs, since, count, modtime, opening, asof, purging,
                 file, start>>

Opened(c) ==
  /\ pc[c] = "opened"
  /\ opening' = opening \ {Doc(c)}
  /\ OpenReturns(c, opened[c])
  /\ opened' = [opened EXCEPT ![c] = FALSE]
  /\ since' = [since EXCEPT ![c] = 0] /\ asof' = [asof EXCEPT ![Doc(c)] = 0]
  /\ UNCHANGED <<sessionVars, cookie, count, tree, modtime, purging, file, start>>

\* A script in a template may process an article; bound: one of them.
ProcessArticle(c) ==
  /\ pc[c] = "walk" /\ Len(docs[c]) = 1
  /\ \E d \in Articles : docs' = [docs EXCEPT ![c] = <<d>> \o @]
  /\ Goto(c, "open")
  /\ UNCHANGED <<sessionVars, cookie, opened, since, count, documentVars, file, start>>

WalkEnd(c) ==
  /\ pc[c] \in {"walk", "rest"} /\ Return(c)
  /\ UNCHANGED <<sessionVars, cookie, opened, since, count, documentVars, file, start>>

(* Slip: an exception leaves send_response() as it came. *)
AbortThrough(c) ==
  /\ pc[c] \in {"walk", "rest"}
  /\ docs' = [docs EXCEPT ![c] = <<>>]
  /\ Goto(c, "end")
  /\ UNCHANGED <<sessionVars, cookie, opened, since, count, documentVars, file, start>>
\* A script calls abort(): the exception ends at send_response().
Abort(c) ==
  /\ pc[c] \in {"walk", "rest"}
  /\ docs' = [docs EXCEPT ![c] = <<>>]
  /\ Goto(c, "unlock")
  /\ UNCHANGED <<sessionVars, cookie, opened, since, count, documentVars, file, start>>

-----------------------------------------------------------------------------
(* TemplateStore::refresh, which the periodic job of the module calls *)

Held(d) == \E c \in Conns : \E i \in DOMAIN docs[c] : docs[c][i] = d

AddTemplate ==
  /\ start = NoDoc /\ file["start"] # 0
  /\ \E d \in Templates : ~Held(d)
  /\ start' = CHOOSE d \in Templates : ~Held(d)     \* a new object
  /\ UNCHANGED <<sessionVars, requestVars, documentVars, file>>

\* The Template goes with the map's reference, its destructor frees the tree.
RemoveTemplate ==
  /\ start # NoDoc /\ file["start"] = 0
  /\ start' = NoDoc
  /\ tree' = [tree EXCEPT ![start] = 0]
  /\ UNCHANGED <<sessionVars, requestVars, modtime, opening, asof, purging, file>>

\* Document::purge() of an article, from the same job: m_clients is looked at
\* under the mutex, and the document is closed when that has been released.
PurgeLooks ==
  /\ purging = NoDoc
  /\ \E d \in Articles : tree[d] # 0 /\ ~Held(d) /\ purging' = d
  /\ UNCHANGED <<sessionVars, requestVars, tree, modtime, opening, asof, file, start>>

PurgeCloses ==
  /\ purging # NoDoc
  /\ tree' = [tree EXCEPT ![purging] = 0]
  /\ purging' = NoDoc
  /\ UNCHANGED <<sessionVars, requestVars, modtime, opening, asof, file, start>>

\* Somebody saves a file, or removes it for good; bound: the last version stays.
Edit ==
  /\ \E f \in Files : \E v \in {0, file[f] + 1} :
       /\ v <= MaxVersion /\ file[f] \notin {0, MaxVersion}
       /\ file' = [file EXCEPT ![f] = v]
  /\ UNCHANGED <<sessionVars, requestVars, documentVars, start>>

Sweep == check_sessions /\ UNCHANGED <<requestVars, documentVars, file, start>>
TimePasses == Expire /\ UNCHANGED <<requestVars, documentVars, file, start>>

-----------------------------------------------------------------------------
Init ==
  /\ SessionsInit
  /\ pc = [c \in Conns |-> "idle"] /\ cookie = [c \in Conns |-> NoId]
  /\ docs = [c \in Conns |-> <<>>] /\ opened = [c \in Conns |-> FALSE]
  /\ file = [f \in Files |-> 1]
  /\ since = [c \in Conns |-> 0] /\ count = 0
  /\ tree = [d \in Docs |-> 0] /\ modtime = [d \in Docs |-> 0] /\ opening = {}
  /\ asof = [d \in Docs |-> 0] /\ purging = NoDoc
  /\ start = NoDoc

Answer(c) ==
  \/ CheckSession(c) \/ LookupTemplate(c) \/ LockSession(c) \/ SessionBusy(c)
  \/ UnlockSession(c) \/ EndRequest(c)
  \/ Open(c) \/ Spin(c) \/ AskOpen(c) \/ Stat(c) \/ Parse(c) \/ Opened(c)
  \/ ProcessArticle(c) \/ WalkEnd(c) \/ Abort(c)

Next ==
  \/ \E c \in Conns : Answer(c) \/ \E id \in Ids \cup {NoId} : Begin(c, id)
  \/ Sweep \/ TimePasses \/ AddTemplate \/ RemoveTemplate
  \/ PurgeLooks \/ PurgeCloses \/ Edit

Spec == Init /\ [][Next]_vars

-----------------------------------------------------------------------------
Rendering == {"open", "spin", "ask", "stat", "parse", "opened", "walk", "rest", "unlock"}

\* A session's lock is held exactly while one request renders with it, also
\* when the page fails or a script throws.
LockedByOne == \A id \in m_sessions :
  Cardinality({c \in Holders(id) : pc[c] \in Rendering}) = IF id \in locked THEN 1 ELSE 0

\* A page never shows a version older than the one that the file had when the
\* open() that it relies on was called: its own, or the one of the request that
\* it waited for, whoever opens, closes and purges the document and however often
\* its file changes meanwhile.
FreshPage == [][\A c \in Conns :
  pc[c] \in {"ask", "opened"} /\ pc'[c] = "walk" =>
    tree[Doc(c)] = 0 \/ tree[Doc(c)] >= since[c]]_vars

\* Document.h:77: "Close the document if it isn't being processed".
PurgeSparesReaders == [][PurgeCloses => ~Held(purging)]_vars
=============================================================================
