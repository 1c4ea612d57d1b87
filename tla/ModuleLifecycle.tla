--------------------------- MODULE ModuleLifecycle ---------------------------
(***************************************************************************)
(* The life of the loadable modules: sconex/Module, sconex/ModuleLoader,   *)
(* what sconex/Kernel does with them when it starts, restarts and stops,   *)
(* and the reference counts of sconex/ScriptBase that keep a module (and   *)
(* the code of its library) in memory while something still uses it.       *)
(*                                                                         *)
(* A loader and the one module it loads share an identity.  Every call is  *)
(* a frame on the stack of the process that makes it, so that loading a    *)
(* module, whose configuration looks up and loads others under the mutex   *)
(* of its loader, and closing one, which closes its sub-modules first, may *)
(* be interleaved with what other processes do.                            *)
(***************************************************************************)
EXTENDS Naturals, Sequences, FiniteSets, SequencesExt

CONSTANTS
  Names,        \* names of modules
  Pool,         \* threads of the pool
  Main,         \* the main thread
  NoProc,
  Loaders,      \* identities of loaders; their number bounds what is created
  Kernel,       \* the kernel, which is a Module but has no loader
  Files,        \* the modules of modules.d in the order of their file names
  Depends,      \* [Names -> SUBSET Names], the DEPENDS lines of a conf file
  Conf,         \* [Names \cup {Kernel} -> Seq(statement)]
  Broken,       \* the modules whose library cannot be loaded
  Keepers,      \* the modules whose close() releases nothing, as smtp's
  Wanted,       \* the names that jobs look up
  Admin,        \* the names that an administrator may insmod and rmmod
  MaxRetries,   \* 10 in Kernel::close
  MaxRestarts   \* bounds the restarts

ASSUME ModuleAssumption ==
  /\ IsFiniteSet(Loaders) /\ IsFiniteSet(Pool)
  /\ Kernel \notin Loaders /\ Main \notin Pool /\ NoProc \notin Pool \cup {Main}
  /\ Files \in Seq(Names)

Procs == Pool \cup {Main}
Owners == Loaders \cup {Kernel}   \* whatever has sub-modules

VARIABLES
  name,     \* m_name of each loader
  confs,    \* the loaders that have an m_conf
  mod,      \* what has become of its module: "none", "new" while its script
            \* runs, "open", "closed", "leaked"; "gone" with its loader
  local,    \* the Module::Ref that rmmod holds in a local variable
  modules,  \* m_modules of the kernel and of each module
  held,     \* the modules that the objects a module owns refer to
  uses,     \* the modules that the jobs run by a thread refer to
  owner,    \* m_mutex of each loader, which is recursive
  stack,    \* the calls each process is in, the innermost first
  ret,      \* what the call that just ended returned
  main      \* where Kernel::run is

vars == <<name, confs, mod, local, modules, held, uses, owner, stack, ret, main>>

Nothing == [v |-> "nothing", l |-> Kernel]     \* no call has just ended
NoRef   == [v |-> "noref", l |-> Kernel]       \* Module::Ref(0)
Ref(l)  == [v |-> "ref", l |-> l]              \* a Module::Ref returned by value
Bool(b) == [v |-> IF b THEN "true" ELSE "false", l |-> Kernel]

\* A statement of a configuration looks a module up, and may leave a reference
\* to it with the objects of a module ("keep"), or inserts a sub-module.
Top(p) == Head(stack[p])
Calls(p, k) == stack[p] # <<>> /\ Top(p).k = k
Free(p) == stack[p] = <<>> /\ ret[p] = Nothing

-----------------------------------------------------------------------------
(* References *)

\* Who holds a ScriptRef to the module of a loader besides the loader's own
\* m_module: objects of modules, jobs, references under way, rmmod.
InObjects(l) == {o \in Owners : l \in held[o]}
InJobs(l) == {p \in Pool : l \in uses[p]}
InValues(l) == {p \in Procs : ret[p] = Ref(l)}
InLocals(l) == {p \in Procs : local[p] = l}

Referenced(l) == InObjects(l) # {} \/ InJobs(l) # {} \/ InValues(l) # {} \/ InLocals(l) # {}

Loaded(l) == mod[l] \in {"new", "open", "closed"}   \* m_module # 0

(* The module is alive: neither deleted nor without its library. *)
Alive(l) == mod[l] \in {"new", "open", "closed", "leaked"}

CountOf(l) == Cardinality(InObjects(l)) + Cardinality(InJobs(l))
              + Cardinality(InValues(l)) + Cardinality(InLocals(l))

(* Slip: the reference of the caller is taken for the loader's. *)
num_refsOthers(l) == CountOf(l)
num_refs(l) == 1 + CountOf(l)

\* Module::find_module: the first loader of that name.
find_module(o, n) ==
  LET hits == {i \in DOMAIN modules[o] : name[modules[o][i]] = n}
  IN IF hits = {} THEN Kernel ELSE modules[o][CHOOSE i \in hits : \A j \in hits : i <= j]

\* Assumed of whoever deletes a loader: no other process is in get_module() on
\* it.  The code does not ensure it: find_module() returns a raw pointer.
Awaited(p, l) == \E q \in Procs \ {p} : \E i \in DOMAIN stack[q] :
                   stack[q][i].k = "get" /\ stack[q][i].l = l

\* Identities that nothing refers to: what a new loader may be given.
Unused == {l \in Loaders : mod[l] = "gone" /\ ~Referenced(l)}
Fresh(i) == CHOOSE l \in Unused : Cardinality({x \in Unused : x < l}) = i - 1
IsFresh(i) == \E l \in Unused : Cardinality({x \in Unused : x < l}) = i - 1

\* delete loader: ~ModuleLoader closes it again and does not look at the answer,
\* so that a module which is still there has nobody left to unload it.
Deleted(l) == IF Alive(l) THEN "leaked" ELSE "gone"

\* A loader is in one list, and once.
Without(s, l) ==
  IF l \in Range(s) THEN RemoveAt(s, CHOOSE i \in DOMAIN s : s[i] = l) ELSE s

-----------------------------------------------------------------------------
(* ModuleLoader::get_module: lock m_mutex; load the library and run the    *)
(* configuration of the module if there is none yet; return a copy of the  *)
(* reference.  Nobody else gets the module before its configuration ended. *)

GetModule(p, l) == stack' = [stack EXCEPT ![p] = <<[k |-> "get", l |-> l]>> \o @]

Lockable(p, l) == owner[l] \in {NoProc, p}

\* What insmod has made has no m_conf, and nothing to run.
Script(l) == IF l \in confs THEN Conf[name[l]] ELSE <<>>

GetLoaded(p) ==
  /\ Calls(p, "get") /\ Lockable(p, Top(p).l) /\ Loaded(Top(p).l)
  /\ ret' = [ret EXCEPT ![p] = Ref(Top(p).l)]
  /\ stack' = [stack EXCEPT ![p] = Tail(@)]
  /\ UNCHANGED <<name, confs, mod, local, modules, held, uses, owner, main>>

\* load_module() finds no file, no library or no entry point
LoadFails(p) ==
  /\ Calls(p, "get") /\ Lockable(p, Top(p).l) /\ ~Loaded(Top(p).l)
  /\ name[Top(p).l] \in Broken
  /\ ret' = [ret EXCEPT ![p] = NoRef]
  /\ stack' = [stack EXCEPT ![p] = Tail(@)]
  /\ UNCHANGED <<name, confs, mod, local, modules, held, uses, owner, main>>

(* Slip: the mutex is held for load_module() only. *)
LoadModuleUnlocked(p) ==
  LET l == Top(p).l IN
  /\ Calls(p, "get") /\ Lockable(p, l) /\ ~Loaded(l)
  /\ name[l] \notin Broken
  /\ mod' = [mod EXCEPT ![l] = "new"]
  /\ stack' = [stack EXCEPT ![p] =
       <<[k |-> "conf", l |-> l, rest |-> Script(l)]>> \o Tail(@)]
  /\ UNCHANGED <<name, confs, local, modules, held, uses, owner, ret, main>>
LoadModule(p) ==
  LET l == Top(p).l IN
  /\ Calls(p, "get") /\ Lockable(p, l) /\ ~Loaded(l)
  /\ name[l] \notin Broken
  /\ mod' = [mod EXCEPT ![l] = "new"]
  /\ owner' = [owner EXCEPT ![l] = p]
  /\ stack' = [stack EXCEPT ![p] =
       <<[k |-> "conf", l |-> l, rest |-> Script(l)]>> \o Tail(@)]
  /\ UNCHANGED <<name, confs, local, modules, held, uses, ret, main>>

\* The name is looked up in the kernel's modules, which is where the
\* resolution of a module's script ends.  A name that is not there is not
\* defined and the script goes on.
ConfLookup(p) ==
  LET st == Head(Top(p).rest)
      l == find_module(Kernel, st.name)
  IN
  /\ Calls(p, "conf") /\ ret[p] = Nothing /\ Top(p).rest # <<>> /\ st.op = "use"
  /\ IF l = Kernel
     THEN stack' = [stack EXCEPT ![p][1].rest = Tail(@)]
     ELSE GetModule(p, l)
  /\ UNCHANGED <<name, confs, mod, local, modules, held, uses, owner, ret, main>>

\* The reference is kept by the objects of the module "keep", or dropped.
ConfGotRef(p) ==
  LET st == Head(Top(p).rest)
      o == find_module(Kernel, st.keep)
  IN
  /\ Calls(p, "conf") /\ ret[p] # Nothing /\ st.op = "use"
  /\ held' = IF ret[p].v = "ref" /\ o # Kernel /\ Loaded(o)
             THEN [held EXCEPT ![o] = @ \cup {ret[p].l}] ELSE held
  /\ ret' = [ret EXCEPT ![p] = Nothing]
  /\ stack' = [stack EXCEPT ![p][1].rest = Tail(@)]
  /\ UNCHANGED <<name, confs, mod, local, modules, uses, owner, main>>

\* The script of a module inserts a sub-module: insmod() on itself.
ConfInsmod(p) ==
  LET st == Head(Top(p).rest) IN
  /\ Calls(p, "conf") /\ ret[p] = Nothing /\ Top(p).rest # <<>> /\ st.op = "insmod"
  /\ stack' = [stack EXCEPT ![p] =
       <<[k |-> "insmod", o |-> Top(p).l, name |-> st.name, l |-> Kernel],
         [Top(p) EXCEPT !.rest = Tail(Top(p).rest)]>> \o Tail(@)]
  /\ UNCHANGED <<name, confs, mod, local, modules, held, uses, owner, ret, main>>

ConfEnd(p) ==
  LET l == Top(p).l IN
  /\ Calls(p, "conf") /\ ret[p] = Nothing /\ Top(p).rest = <<>>
  /\ stack' = [stack EXCEPT ![p] = Tail(@)]
  /\ IF l = Kernel
     THEN UNCHANGED <<mod, owner, ret>>
     ELSE /\ mod' = [mod EXCEPT ![l] = "open"]
          /\ owner' = [owner EXCEPT ![l] = NoProc]
          /\ ret' = [ret EXCEPT ![p] = Ref(l)]
  /\ UNCHANGED <<name, confs, local, modules, held, uses, main>>

-----------------------------------------------------------------------------
(* Module::close and ModuleLoader::unload_module.  A "close" frame is the   *)
(* call of close() on the module of a loader, or on the kernel: sub-modules *)
(* in the reverse order of m_modules, then, if all of them could be         *)
(* unloaded, the objects the module owns.                                   *)

CloseFrame(o) == [k |-> "close", o |-> o, rest |-> Reverse(modules[o]), done |-> TRUE]

CloseSub(p) ==
  /\ Calls(p, "close") /\ ret[p] = Nothing /\ Top(p).rest # <<>>
  /\ stack' = [stack EXCEPT ![p] = <<[k |-> "unload", l |-> Head(Top(p).rest)]>> \o @]
  /\ UNCHANGED <<name, confs, mod, local, modules, held, uses, owner, ret, main>>

\* loader->close() answered: erase and delete the loader, or go on without.
CloseSubDone(p) ==
  LET l == Head(Top(p).rest)
      ok == ret[p] = Bool(TRUE)
  IN
  /\ Calls(p, "close") /\ ret[p] # Nothing
  /\ modules' = IF ok THEN [modules EXCEPT ![Top(p).o] = Without(@, l)] ELSE modules
  /\ mod' = IF ok THEN [mod EXCEPT ![l] = Deleted(l)] ELSE mod
  /\ stack' = [stack EXCEPT ![p][1].rest = Tail(@), ![p][1].done = @ /\ ok]
  /\ ret' = [ret EXCEPT ![p] = Nothing]
  /\ UNCHANGED <<name, confs, local, held, uses, owner, main>>

\* The module's own close() goes on only when Module::close() was complete,
\* and what it then releases is its own affair.
Releases(o) == o = Kernel \/ name[o] \notin Keepers

CloseEnd(p) ==
  LET o == Top(p).o IN
  /\ Calls(p, "close") /\ ret[p] = Nothing /\ Top(p).rest = <<>>
  /\ held' = IF Top(p).done /\ Releases(o) THEN [held EXCEPT ![o] = {}] ELSE held
  /\ mod' = IF Top(p).done /\ o # Kernel THEN [mod EXCEPT ![o] = "closed"] ELSE mod
  /\ ret' = [ret EXCEPT ![p] = Bool(Top(p).done)]
  /\ stack' = [stack EXCEPT ![p] = Tail(@)]
  /\ UNCHANGED <<name, confs, local, modules, uses, owner, main>>

(* Slip: the references are counted before the module is closed. *)
UnloadCounted(p) ==
  LET l == Top(p).l IN
  /\ Calls(p, "unload") /\ Lockable(p, l)
  /\ IF Loaded(l) /\ ~(num_refs(l) > 1)
     THEN /\ owner' = [owner EXCEPT ![l] = p]
          /\ stack' = [stack EXCEPT ![p] =
               <<CloseFrame(l), [k |-> "refs", l |-> l]>> \o Tail(@)]
          /\ UNCHANGED ret
     ELSE /\ stack' = [stack EXCEPT ![p] = Tail(@)]
          /\ ret' = [ret EXCEPT ![p] = Bool(~Loaded(l))]
          /\ UNCHANGED owner
  /\ UNCHANGED <<name, confs, mod, local, modules, held, uses, main>>

\* unload_module() locks m_mutex; with no module there is nothing to do.
UnloadStart(p) ==
  LET l == Top(p).l IN
  /\ Calls(p, "unload") /\ Lockable(p, l)
  /\ IF Loaded(l)
     THEN /\ owner' = [owner EXCEPT ![l] = p]
          /\ stack' = [stack EXCEPT ![p] =
               <<CloseFrame(l), [k |-> "refs", l |-> l]>> \o Tail(@)]
          /\ UNCHANGED ret
     ELSE /\ stack' = [stack EXCEPT ![p] = Tail(@)]
          /\ ret' = [ret EXCEPT ![p] = Bool(TRUE)]
          /\ UNCHANGED owner
  /\ UNCHANGED <<name, confs, mod, local, modules, held, uses, main>>

\* The count decides: unload is deferred when something besides the loader
\* refers to the module, otherwise the module is deleted with all it owns and
\* its library closed.
UnloadRefs(p) ==
  LET l == Top(p).l
      free == ret[p] = Bool(TRUE) /\ ~(num_refs(l) > 1)
  IN
  /\ Calls(p, "refs") /\ ret[p] # Nothing
  /\ mod' = IF free THEN [mod EXCEPT ![l] = "none"] ELSE mod
  /\ held' = IF free THEN [held EXCEPT ![l] = {}] ELSE held
  /\ ret' = [ret EXCEPT ![p] = Bool(free)]
  /\ owner' = [owner EXCEPT ![l] = NoProc]
  /\ stack' = [stack EXCEPT ![p] = Tail(@)]
  /\ UNCHANGED <<name, confs, local, modules, uses, main>>

-----------------------------------------------------------------------------
(* The insmod and rmmod methods of Module::script_method *)

Insmod(p) ==
  LET f == Top(p)
      old == find_module(f.o, f.name)
  IN
  /\ Calls(p, "insmod") /\ f.l = Kernel
  /\ IF old # Kernel /\ Loaded(old)
     THEN /\ stack' = [stack EXCEPT ![p] = Tail(@)]      \* already loaded
          /\ UNCHANGED <<name, confs, mod, modules>>
     ELSE /\ IsFresh(1)
          /\ old # Kernel => Lockable(p, old) /\ ~Awaited(p, old)
          /\ name' = [name EXCEPT ![Fresh(1)] = f.name]
          /\ confs' = confs \ {Fresh(1)}
          /\ mod' = [x \in Loaders |-> IF x = Fresh(1) THEN "none"
                                      ELSE IF x = old THEN Deleted(x) ELSE mod[x]]
          /\ modules' = [modules EXCEPT ![f.o] = Append(Without(@, old), Fresh(1))]
          /\ stack' = [stack EXCEPT ![p] =
               <<[k |-> "get", l |-> Fresh(1)], [f EXCEPT !.l = Fresh(1)]>> \o Tail(@)]
  /\ UNCHANGED <<local, held, uses, owner, ret, main>>

\* A loader whose module cannot be loaded is removed again.
InsmodDone(p) ==
  LET f == Top(p) IN
  /\ Calls(p, "insmod") /\ ret[p] # Nothing /\ (ret[p] = NoRef => ~Awaited(p, f.l))
  /\ IF ret[p] = NoRef
     THEN /\ modules' = [modules EXCEPT ![f.o] = Without(@, f.l)]
          /\ mod' = [mod EXCEPT ![f.l] = Deleted(f.l)]
     ELSE UNCHANGED <<modules, mod>>
  /\ ret' = [ret EXCEPT ![p] = Nothing]
  /\ stack' = [stack EXCEPT ![p] = Tail(@)]
  /\ UNCHANGED <<name, confs, local, held, uses, owner, main>>

RmmodFrame(n) == [k |-> "rmmod", pc |-> "find", l |-> find_module(Kernel, n)]

\* A loader without a module goes at once; the module of another is first got.
RmmodFind(p) ==
  LET f == Top(p) IN
  /\ Calls(p, "rmmod") /\ f.pc = "find"
  /\ IF Loaded(f.l)
     THEN stack' = [stack EXCEPT ![p] = <<[k |-> "get", l |-> f.l],
                                          [f EXCEPT !.pc = "got"]>> \o Tail(@)]
     ELSE stack' = [stack EXCEPT ![p][1].pc = "remove"]
  /\ UNCHANGED <<name, confs, mod, local, modules, held, uses, owner, ret, main>>

\* mod.object()->close(), which does not lock m_mutex
RmmodClose(p) ==
  LET f == Top(p) IN
  /\ Calls(p, "rmmod") /\ f.pc = "got" /\ ret[p].v = "ref"
  /\ local' = [local EXCEPT ![p] = ret[p].l]
  /\ stack' = [stack EXCEPT ![p] =
       <<CloseFrame(f.l), [f EXCEPT !.pc = "closed"]>> \o Tail(@)]
  /\ ret' = [ret EXCEPT ![p] = Nothing]
  /\ UNCHANGED <<name, confs, mod, modules, held, uses, owner, main>>

\* num_refs() - 2: without the loader's reference and the local one
InUse(p) == \/ ret[p] = Bool(FALSE)
            \/ num_refs(Top(p).l) - 2 > 0

\* "in use" ends the call; otherwise the local reference goes and the loader
\* is removed.
RmmodCheck(p) ==
  /\ Calls(p, "rmmod") /\ Top(p).pc = "closed" /\ ret[p] # Nothing
  /\ stack' = IF InUse(p) THEN [stack EXCEPT ![p] = Tail(@)]
              ELSE [stack EXCEPT ![p][1].pc = "remove"]
  /\ ret' = [ret EXCEPT ![p] = Nothing]
  /\ local' = [local EXCEPT ![p] = Kernel]
  /\ UNCHANGED <<name, confs, mod, modules, held, uses, owner, main>>

\* remove_module(): out of m_modules, then ~ModuleLoader, which calls close()
RmmodRemove(p) ==
  LET f == Top(p) IN
  /\ Calls(p, "rmmod") /\ f.pc = "remove" /\ ~Awaited(p, f.l)
  /\ modules' = [modules EXCEPT ![Kernel] = Without(@, f.l)]
  /\ stack' = [stack EXCEPT ![p] = <<[k |-> "unload", l |-> f.l],
                                     [f EXCEPT !.pc = "deleted"]>> \o Tail(@)]
  /\ UNCHANGED <<name, confs, mod, local, held, uses, owner, ret, main>>

\* The destructor ignores what close() returns: a module that was still
\* referred to stays in memory for ever, with nobody to unload it.
RmmodDone(p) ==
  LET l == Top(p).l IN
  /\ Calls(p, "rmmod") /\ Top(p).pc = "deleted" /\ ret[p] # Nothing
  /\ mod' = [mod EXCEPT ![l] = Deleted(l)]
  /\ ret' = [ret EXCEPT ![p] = Nothing]
  /\ stack' = [stack EXCEPT ![p] = Tail(@)]
  /\ UNCHANGED <<name, confs, local, modules, held, uses, owner, main>>

-----------------------------------------------------------------------------
(* Kernel::run on the main thread *)

\* init() -> load_module_dir(): a loader for each conf file, by file name
LoadModuleDir ==
  /\ main.pc = "init" /\ \A i \in 1 .. Len(Files) : IsFresh(i)
  /\ LET new == [i \in 1 .. Len(Files) |-> Fresh(i)] IN
       /\ name' = [l \in Loaders |-> IF \E i \in DOMAIN new : new[i] = l
                     THEN Files[CHOOSE i \in DOMAIN new : new[i] = l] ELSE name[l]]
       /\ mod' = [l \in Loaders |-> IF \E i \in DOMAIN new : new[i] = l
                     THEN "none" ELSE mod[l]]
       /\ modules' = [modules EXCEPT ![Kernel] = @ \o new]
       /\ confs' = confs \cup Range(new)
  /\ main' = [main EXCEPT !.pc = "scan", !.i = 1, !.loaded = 0, !.prev = 0, !.errors = {}]
  /\ UNCHANGED <<local, held, uses, owner, stack, ret>>

Scanned == modules[Kernel][main.i]

Loadable(l) == \A d \in Depends[name[l]] :
                 LET dl == find_module(Kernel, d) IN dl # Kernel /\ Loaded(dl)

\* One loader of the loop that loads what has its dependencies
ScanModule ==
  LET l == Scanned IN
  /\ main.pc = "scan" /\ Free(Main) /\ main.i <= Len(modules[Kernel])
  /\ IF ~Loaded(l) /\ Loadable(l)
     THEN /\ GetModule(Main, l)
          /\ main' = [main EXCEPT !.pc = "loading"]
     ELSE /\ main' = [main EXCEPT !.i = @ + 1,
                        !.errors = IF Loaded(l) THEN @ ELSE @ \cup {name[l]}]
          /\ UNCHANGED stack
  /\ UNCHANGED <<name, confs, mod, local, modules, held, uses, owner, ret>>

ScanLoaded ==
  LET ok == ret[Main].v = "ref"
      n == name[Scanned]
  IN
  /\ main.pc = "loading" /\ stack[Main] = <<>> /\ ret[Main] # Nothing
  /\ main' = [main EXCEPT !.pc = "scan", !.i = @ + 1,
                !.loaded = IF ok THEN @ + 1 ELSE @,
                !.errors = IF ok THEN @ \ {n} ELSE @ \cup {n}]
  /\ ret' = [ret EXCEPT ![Main] = Nothing]
  /\ UNCHANGED <<name, confs, mod, local, modules, held, uses, owner, stack>>

(* Slip: one round over the loaders. *)
ScanOnce ==
  /\ main.pc = "scan" /\ Free(Main) /\ main.i > Len(modules[Kernel])
  /\ main' = [main EXCEPT !.pc = "conf"]
  /\ stack' = [stack EXCEPT ![Main] =
       <<[k |-> "conf", l |-> Kernel, rest |-> Conf[Kernel]]>>]
  /\ UNCHANGED <<name, confs, mod, local, modules, held, uses, owner, ret>>

\* Another round while the last one loaded something; then the summary, and
\* what is left of the kernel's own configuration.
ScanEnd ==
  /\ main.pc = "scan" /\ Free(Main) /\ main.i > Len(modules[Kernel])
  /\ IF main.loaded > main.prev
     THEN /\ main' = [main EXCEPT !.i = 1, !.prev = main.loaded]
          /\ UNCHANGED stack
     ELSE /\ main' = [main EXCEPT !.pc = "conf"]
          /\ stack' = [stack EXCEPT ![Main] =
               <<[k |-> "conf", l |-> Kernel, rest |-> Conf[Kernel]]>>]
  /\ UNCHANGED <<name, confs, mod, local, modules, held, uses, owner, ret>>

EnterRun ==
  /\ main.pc = "conf" /\ Free(Main)
  /\ main' = [main EXCEPT !.pc = "run"]
  /\ UNCHANGED <<name, confs, mod, local, modules, held, uses, owner, stack, ret>>

\* Kernel::close(): Multiplexer::close() waits for the jobs that run, stops
\* the threads and deletes the jobs; then the modules, attempt after attempt.
StopThreads ==
  /\ main.pc = "run" /\ \A p \in Pool : Free(p)
  /\ uses' = [p \in Pool |-> {}]
  /\ \E again \in BOOLEAN :
       main' = [main EXCEPT !.pc = "close", !.retry = 0, !.again = again]
  /\ UNCHANGED <<name, confs, mod, local, modules, held, owner, stack, ret>>

(* Slip: what the first attempt cannot unload is given up. *)
CloseAttemptOnce ==
  /\ main.pc = "close" /\ Free(Main)
  /\ IF main.retry = 0
     THEN /\ main' = [main EXCEPT !.retry = @ + 1, !.pc = "closing"]
          /\ stack' = [stack EXCEPT ![Main] = <<CloseFrame(Kernel)>>]
     ELSE /\ main' = [main EXCEPT !.pc = "returned"]
          /\ UNCHANGED stack
  /\ UNCHANGED <<name, confs, mod, local, modules, held, uses, owner, ret>>
CloseAttempt ==
  /\ main.pc = "close" /\ Free(Main)
  /\ IF main.retry + 1 <= MaxRetries
     THEN /\ main' = [main EXCEPT !.retry = @ + 1, !.pc = "closing"]
          /\ stack' = [stack EXCEPT ![Main] = <<CloseFrame(Kernel)>>]
     ELSE /\ main' = [main EXCEPT !.pc = "returned"]     \* could not unload all
          /\ UNCHANGED stack
  /\ UNCHANGED <<name, confs, mod, local, modules, held, uses, owner, ret>>

CloseAttempted ==
  /\ main.pc = "closing" /\ stack[Main] = <<>> /\ ret[Main] # Nothing
  /\ main' = [main EXCEPT !.pc = IF ret[Main] = Bool(TRUE) THEN "returned" ELSE "close"]
  /\ ret' = [ret EXCEPT ![Main] = Nothing]
  /\ UNCHANGED <<name, confs, mod, local, modules, held, uses, owner, stack>>

MayRestart == main.restarts < MaxRestarts /\ Cardinality(Unused) > Len(Files)

\* main.cpp: a restart calls Kernel::run() again, whatever close() returned
Again ==
  /\ main.pc = "returned" /\ main.again /\ MayRestart
  /\ main' = [main EXCEPT !.pc = "init", !.restarts = @ + 1]
  /\ UNCHANGED <<name, confs, mod, local, modules, held, uses, owner, stack, ret>>

Stopped == /\ main.pc = "returned" /\ (main.again => ~MayRestart)
           /\ UNCHANGED vars

-----------------------------------------------------------------------------
(* Jobs that the threads of the pool run *)

Running == main.pc = "run"

\* Assumed: one administrator at a time.
AdminBusy == \E p \in Pool : \E i \in DOMAIN stack[p] : stack[p][i].k \in {"insmod", "rmmod"}

\* Kernel::get_module(n): a job wants the module (http for a client, mime ...)
Lookup(p, n) ==
  LET l == find_module(Kernel, n) IN
  /\ Running /\ Free(p) /\ l # Kernel
  /\ GetModule(p, l)
  /\ UNCHANGED <<name, confs, mod, local, modules, held, uses, owner, ret, main>>

\* The job keeps the reference, as the streams of a connection do.
LookupDone(p) ==
  /\ stack[p] = <<>> /\ ret[p] # Nothing
  /\ uses' = IF ret[p].v = "ref" THEN [uses EXCEPT ![p] = @ \cup {ret[p].l}] ELSE uses
  /\ ret' = [ret EXCEPT ![p] = Nothing]
  /\ UNCHANGED <<name, confs, mod, local, modules, held, owner, stack, main>>

\* The stream is deleted.
Drop(p, l) ==
  /\ l \in uses[p] /\ Free(p)
  /\ uses' = [uses EXCEPT ![p] = @ \ {l}]
  /\ UNCHANGED <<name, confs, mod, local, modules, held, owner, stack, ret, main>>

Administer(p, n) ==
  /\ Running /\ Free(p) /\ ~AdminBusy
  /\ \/ Unused # {} /\ stack' = [stack EXCEPT ![p] =
          <<[k |-> "insmod", o |-> Kernel, name |-> n, l |-> Kernel]>>]
     \/ find_module(Kernel, n) # Kernel /\ stack' = [stack EXCEPT ![p] = <<RmmodFrame(n)>>]
  /\ UNCHANGED <<name, confs, mod, local, modules, held, uses, owner, ret, main>>

-----------------------------------------------------------------------------
Init ==
  /\ name = [l \in Loaders |-> CHOOSE n \in Names : TRUE] /\ confs = {}
  /\ mod = [l \in Loaders |-> "gone"]
  /\ local = [p \in Procs |-> Kernel]
  /\ modules = [o \in Owners |-> <<>>]
  /\ held = [o \in Owners |-> {}]
  /\ uses = [p \in Pool |-> {}]
  /\ owner = [l \in Loaders |-> NoProc]
  /\ stack = [p \in Procs |-> <<>>]
  /\ ret = [p \in Procs |-> Nothing]
  /\ main = [pc |-> "init", i |-> 1, loaded |-> 0, prev |-> 0, errors |-> {},
             retry |-> 0, again |-> FALSE, restarts |-> 0]

Call(p) ==
  \/ GetLoaded(p) \/ LoadFails(p) \/ LoadModule(p)
  \/ ConfLookup(p) \/ ConfGotRef(p) \/ ConfInsmod(p) \/ ConfEnd(p)
  \/ CloseSub(p) \/ CloseSubDone(p) \/ CloseEnd(p) \/ UnloadStart(p) \/ UnloadRefs(p)
  \/ Insmod(p) \/ InsmodDone(p)
  \/ RmmodFind(p) \/ RmmodClose(p) \/ RmmodCheck(p) \/ RmmodRemove(p) \/ RmmodDone(p)

Run ==
  \/ LoadModuleDir \/ ScanModule \/ ScanLoaded \/ ScanEnd \/ EnterRun
  \/ CloseAttempt \/ CloseAttempted \/ Again

Job(p) ==
  \/ LookupDone(p)
  \/ \E n \in Wanted : Lookup(p, n)
  \/ \E n \in Admin : Administer(p, n)
  \/ \E l \in Loaders : Drop(p, l)

Next ==
  \/ Run \/ StopThreads \/ Stopped
  \/ \E p \in Procs : Call(p)
  \/ \E p \in Pool : Job(p)

Spec == Init /\ [][Next]_vars

-----------------------------------------------------------------------------
\* Nobody holds a reference to a module that has been deleted and its library
\* closed, whatever order jobs drop and take references in while the module is
\* being removed (unload_module and its count, rmmod, the destructor).
NeverFreedInUse == \A l \in Loaders : Referenced(l) => Alive(l)

\* What a job works with has run its configuration to the end, although the
\* module is found in m_modules, loaded, long before that (m_mutex).
ConfiguredBeforeUse ==
  \A p \in Pool : \A l \in uses[p] : mod[l] # "new"

\* Least set of files that load_module_dir() must load: those whose
\* dependencies are loaded, and those that the scripts of loaded ones look up.
InFiles == {Files[i] : i \in 1 .. Len(Files)} \ Broken
UsedBy(n) == {Conf[n][i].name : i \in {j \in 1 .. Len(Conf[n]) : Conf[n][j].op = "use"}}
Closed(S) == \A n \in InFiles :
  (Depends[n] \subseteq S \/ \E m \in S : n \in UsedBy(m)) => n \in S
MustLoad == {n \in InFiles : \A S \in SUBSET InFiles : Closed(S) => n \in S}

\* The loop stops only when nothing is left that it could load, whatever the
\* order of the file names and whatever the scripts load on the way.
DirLoadsAll ==
  (main.pc = "conf" /\ main.restarts = 0) =>
    \A n \in InFiles : n \in MustLoad <=> Loaded(find_module(Kernel, n))

\* The module of an object that still refers to l has not let go of it: its
\* close() releases nothing, and it has not come to its destructor either.
StillReferenced(l) == \E o \in InObjects(l) : o # Kernel /\ Alive(o) /\ name[o] \in Keepers

\* Kernel::close() gives up after its last attempt only on modules that such an
\* object refers to.  All others are gone, whatever jobs and the administrator
\* did before and whatever an earlier close() has left to a restart; and when
\* nothing is kept the second attempt at the latest succeeds.
ClosesAll ==
  main.pc = "returned" =>
    /\ \A l \in Range(modules[Kernel]) : Loaded(l) /\ StillReferenced(l)
    /\ modules[Kernel] # <<>> <=> main.retry > 2
=============================================================================
