------------------------ MODULE ModuleLifecycleProofs ------------------------
(* No module is deleted while something refers to it, and no job works with  *)
(* a module whose configuration still runs: for any number of modules,       *)
(* threads and references, any configuration and any restarts.               *)
EXTENDS ModuleLifecycle, FiniteSetTheorems, SequenceTheorems, TLAPS

\* Each variable that the argument is about is a function on its domain.
Functions == /\ mod = [l \in Loaders |-> mod[l]]
             /\ held = [o \in Owners |-> held[o]]
             /\ uses = [p \in Pool |-> uses[p]]
             /\ ret = [p \in Procs |-> [v |-> ret[p].v, l |-> ret[p].l]]
             /\ local = [p \in Procs |-> local[p]]

\* NeverFreedInUse is inductive with no more than that: references are only
\* made of references and of loaded modules, and are counted before a deletion.
IInv == Functions /\ NeverFreedInUse

(* A reference count of one means that only the loader refers to the module. *)
LEMMA CountedAll ==
  ASSUME NEW l, ~(num_refs(l) > 1) PROVE ~Referenced(l)
<1>1. IsFiniteSet(Owners) /\ IsFiniteSet(Procs) /\ IsFiniteSet(Pool)
  BY ModuleAssumption, FS_AddElement DEF Owners, Procs
<1>2. /\ IsFiniteSet(InObjects(l)) /\ IsFiniteSet(InJobs(l))
      /\ IsFiniteSet(InValues(l)) /\ IsFiniteSet(InLocals(l))
  BY <1>1, FS_Subset DEF InObjects, InJobs, InValues, InLocals
<1>3. /\ Cardinality(InObjects(l)) \in Nat /\ Cardinality(InJobs(l)) \in Nat
      /\ Cardinality(InValues(l)) \in Nat /\ Cardinality(InLocals(l)) \in Nat
  BY <1>2, FS_CardinalityType
<1>4. /\ Cardinality(InObjects(l)) = 0 /\ Cardinality(InJobs(l)) = 0
      /\ Cardinality(InValues(l)) = 0 /\ Cardinality(InLocals(l)) = 0
  BY <1>3 DEF num_refs, CountOf
<1> QED BY <1>2, <1>4, FS_EmptySet DEF Referenced

(* A step preserves the invariant when whatever it makes refer to l referred  *)
(* to l before or l is loaded, and l dies only when nothing refers to it.     *)
LEMMA KeepsAlive ==
  ASSUME IInv, Functions',
         \A l \in Loaders : Referenced(l)' => Referenced(l) \/ Alive(l)',
         \A l \in Loaders : Referenced(l)' /\ Alive(l) => Alive(l)'
  PROVE  IInv'
  BY DEF IInv, NeverFreedInUse

LEMMA InitIInv == Init => IInv
  BY ModuleAssumption DEF Init, IInv, Functions, NeverFreedInUse, Referenced, InObjects, InJobs,
     InValues, InLocals, Ref, Nothing, Owners, Procs

(* The calls that neither delete a module nor make a reference.              *)
Plain(p) == LoadFails(p) \/ ConfLookup(p) \/ ConfInsmod(p) \/ CloseSub(p) \/ UnloadStart(p)
            \/ RmmodFind(p) \/ RmmodCheck(p) \/ RmmodRemove(p)

LEMMA PlainStep == ASSUME IInv, NEW p \in Procs, Plain(p) PROVE IInv'
<1>1. mod' = mod /\ held' = held /\ uses' = uses
  BY DEF Plain, LoadFails, ConfLookup, ConfInsmod, CloseSub, UnloadStart, RmmodFind, RmmodCheck,
     RmmodRemove, GetModule
<1>2. ret' = ret \/ \E r \in {NoRef, Nothing, Bool(TRUE)} : ret' = [ret EXCEPT ![p] = r]
  BY DEF Plain, LoadFails, ConfLookup, ConfInsmod, CloseSub, UnloadStart, RmmodFind, RmmodCheck,
     RmmodRemove, GetModule
<1>3. local' = local \/ local' = [local EXCEPT ![p] = Kernel]
  BY DEF Plain, LoadFails, ConfLookup, ConfInsmod, CloseSub, UnloadStart, RmmodFind, RmmodCheck,
     RmmodRemove, GetModule
<1>4. Functions'
  BY <1>1, <1>2, <1>3 DEF IInv, Functions, NoRef, Nothing, Bool
<1>5. \A l \in Loaders : Referenced(l)' => Referenced(l)
  <2> SUFFICES ASSUME NEW l \in Loaders, Referenced(l)' PROVE Referenced(l)
    OBVIOUS
  <2>1. InObjects(l)' = InObjects(l) /\ InJobs(l)' = InJobs(l)
    BY <1>1 DEF InObjects, InJobs
  <2>2. InValues(l)' \subseteq InValues(l)
    BY <1>2 DEF InValues, Ref, IInv, Functions, NoRef, Nothing, Bool
  <2>3. InLocals(l)' \subseteq InLocals(l)
    BY <1>3, ModuleAssumption DEF InLocals, IInv, Functions
  <2> QED BY <2>1, <2>2, <2>3 DEF Referenced
<1> QED BY <1>1, <1>4, <1>5, KeepsAlive DEF Alive

(* The calls that make a reference of a reference or of a loaded module.      *)
LEMMA GetLoadedStep == ASSUME IInv, NEW p \in Procs, GetLoaded(p) PROVE IInv'
<1>1. Functions'
  BY DEF GetLoaded, IInv, Functions, Ref
<1>2. ASSUME NEW l \in Loaders, Referenced(l)' PROVE Referenced(l) \/ Alive(l)
  BY <1>2 DEF GetLoaded, IInv, Functions, Referenced, InObjects, InJobs, InValues, InLocals,
     Ref, Loaded, Alive
<1> QED BY <1>1, <1>2, KeepsAlive DEF GetLoaded, Alive

LEMMA LoadModuleStep == ASSUME IInv, NEW p \in Procs, LoadModule(p) PROVE IInv'
  BY KeepsAlive DEF LoadModule, IInv, Functions, Referenced, InObjects, InJobs, InValues,
     InLocals, Alive

LEMMA ConfGotRefStep == ASSUME IInv, NEW p \in Procs, ConfGotRef(p) PROVE IInv'
<1>1. Functions'
  BY DEF ConfGotRef, IInv, Functions, Nothing
<1>2. ASSUME NEW l \in Loaders, Referenced(l)' PROVE Referenced(l) \/ Alive(l)
  <2>1. InJobs(l)' = InJobs(l) /\ InLocals(l)' = InLocals(l) /\ InValues(l)' \subseteq InValues(l)
    BY DEF ConfGotRef, InJobs, InLocals, InValues, IInv, Functions, Nothing, Ref
  <2>2. l \in Loaders /\ ret[p].v = "ref" /\ l = ret[p].l => l \in Loaders /\ InValues(l) # {}
    BY DEF InValues, IInv, Functions, Ref
  <2>3. InObjects(l)' \subseteq InObjects(l) \/ (ret[p].v = "ref" /\ l = ret[p].l)
    BY DEF ConfGotRef, InObjects, IInv, Functions
  <2> QED BY <1>2, <2>1, <2>2, <2>3 DEF Referenced
<1> QED BY <1>1, <1>2, KeepsAlive DEF ConfGotRef, Alive

LEMMA ConfEndStep == ASSUME IInv, NEW p \in Procs, ConfEnd(p) PROVE IInv'
<1>1. Functions'
  <2>1. mod' = mod \/ mod' = [mod EXCEPT ![Top(p).l] = "open"]
    BY DEF ConfEnd
  <2>2. ret' = ret \/ (Top(p).l # Kernel /\ ret' = [ret EXCEPT ![p] = Ref(Top(p).l)])
    BY DEF ConfEnd
  <2>3. name' = name /\ local' = local /\ held' = held /\ uses' = uses
    BY DEF ConfEnd
  <2> QED BY <2>1, <2>2, <2>3 DEF IInv, Functions, Ref
<1>2. ASSUME NEW l \in Loaders, Referenced(l)' PROVE Referenced(l) \/ mod'[l] = "open"
  <2>1. InJobs(l)' = InJobs(l) /\ InLocals(l)' = InLocals(l) /\ InObjects(l)' = InObjects(l)
    BY DEF ConfEnd, InJobs, InLocals, InObjects
  <2>2. InValues(l)' \subseteq InValues(l) \/ mod'[l] = "open"
    BY ModuleAssumption DEF ConfEnd, InValues, IInv, Functions, Ref
  <2> QED BY <1>2, <2>1, <2>2 DEF Referenced
<1>3. ASSUME NEW l \in Loaders, Alive(l) PROVE Alive(l)'
  BY <1>3 DEF ConfEnd, IInv, Functions, Alive
<1> QED BY <1>1, <1>2, <1>3 DEF IInv, NeverFreedInUse, Alive

(* The calls that close modules and delete loaders.                           *)
LEMMA CloseSubDoneStep == ASSUME IInv, NEW p \in Procs, CloseSubDone(p) PROVE IInv'
  BY KeepsAlive DEF CloseSubDone, IInv, Functions, Referenced, InObjects, InJobs, InValues,
     InLocals, Alive, Deleted, Nothing, Ref

LEMMA CloseEndStep == ASSUME IInv, NEW p \in Procs, CloseEnd(p) PROVE IInv'
  BY KeepsAlive DEF CloseEnd, IInv, Functions, Referenced, InObjects, InJobs, InValues,
     InLocals, Alive, Bool, Ref

LEMMA UnloadRefsStep == ASSUME IInv, NEW p \in Procs, UnloadRefs(p) PROVE IInv'
<1>1. Functions'
  BY DEF UnloadRefs, IInv, Functions, Bool
<1>2. ASSUME NEW l \in Loaders, Referenced(l)' PROVE Referenced(l)
  BY <1>2 DEF UnloadRefs, IInv, Functions, Referenced, InObjects, InJobs, InValues, InLocals,
     Bool, Ref
<1>3. ASSUME NEW l \in Loaders, Referenced(l)', Alive(l) PROVE Alive(l)'
  BY <1>2, <1>3, CountedAll DEF UnloadRefs, IInv, Functions, Alive
<1> QED BY <1>1, <1>2, <1>3, KeepsAlive

(* The loader that is created is one that is not in use.                      *)
LEMMA FreshIs ==
  ASSUME NEW i, IsFresh(i)
  PROVE  Fresh(i) \in Unused /\ Cardinality({x \in Unused : x < Fresh(i)}) = i - 1
  BY DEF IsFresh, Fresh

LEMMA InsmodStep == ASSUME IInv, NEW p \in Procs, Insmod(p) PROVE IInv'
<1>1. Functions'
  BY DEF Insmod, IInv, Functions
<1>2. ASSUME NEW l \in Loaders, Referenced(l)' PROVE Referenced(l)
  BY <1>2 DEF Insmod, Referenced, InObjects, InJobs, InValues, InLocals
<1>3. ASSUME NEW l \in Loaders, Referenced(l)', Alive(l) PROVE Alive(l)'
  BY <1>2, <1>3, FreshIs DEF Insmod, IInv, Functions, Alive, Deleted, Unused
<1> QED BY <1>1, <1>2, <1>3, KeepsAlive

LEMMA InsmodDoneStep == ASSUME IInv, NEW p \in Procs, InsmodDone(p) PROVE IInv'
  BY KeepsAlive DEF InsmodDone, IInv, Functions, Referenced, InObjects, InJobs, InValues,
     InLocals, Alive, Deleted, Nothing, Ref

LEMMA RmmodCloseStep == ASSUME IInv, NEW p \in Procs, RmmodClose(p) PROVE IInv'
<1>1. Functions'
  BY DEF RmmodClose, IInv, Functions, Nothing
<1>2. ASSUME NEW l \in Loaders, Referenced(l)' PROVE Referenced(l) \/ Alive(l)
  BY <1>2 DEF RmmodClose, IInv, Functions, Referenced, InObjects, InJobs, InValues, InLocals,
     Nothing, Ref
<1> QED BY <1>1, <1>2, KeepsAlive DEF RmmodClose, Alive

LEMMA RmmodDoneStep == ASSUME IInv, NEW p \in Procs, RmmodDone(p) PROVE IInv'
  BY KeepsAlive DEF RmmodDone, IInv, Functions, Referenced, InObjects, InJobs, InValues,
     InLocals, Alive, Deleted, Nothing, Ref

(* Kernel::run, and the jobs. *)
LEMMA LoadModuleDirStep == ASSUME IInv, LoadModuleDir PROVE IInv'
<1>1. Functions'
  BY DEF LoadModuleDir, IInv, Functions
<1>2. ASSUME NEW l \in Loaders, Referenced(l)' PROVE Referenced(l)
  BY <1>2 DEF LoadModuleDir, Referenced, InObjects, InJobs, InValues, InLocals
<1>3. ASSUME NEW l \in Loaders, Referenced(l)', Alive(l) PROVE Alive(l)'
  BY <1>2, <1>3, FreshIs DEF LoadModuleDir, Alive, Unused
<1> QED BY <1>1, <1>2, <1>3, KeepsAlive

LEMMA RunStep == ASSUME IInv, Run \/ StopThreads PROVE IInv'
<1>1. CASE ScanModule \/ ScanEnd \/ EnterRun \/ CloseAttempt \/ Again
  BY <1>1, KeepsAlive DEF ScanModule, ScanEnd, EnterRun, CloseAttempt, Again, GetModule, IInv,
     Functions, Referenced, InObjects, InJobs, InValues, InLocals, Alive
<1>2. CASE ScanLoaded \/ CloseAttempted
  <2>1. /\ mod' = mod /\ held' = held /\ uses' = uses /\ local' = local
        /\ ret' = [ret EXCEPT ![Main] = Nothing]
    BY <1>2 DEF ScanLoaded, CloseAttempted
  <2> QED BY <2>1, KeepsAlive DEF IInv, Functions, Nothing, Ref, Referenced, InObjects, InJobs,
          InValues, InLocals, Alive
<1>3. CASE StopThreads
  BY <1>3, KeepsAlive DEF StopThreads, IInv, Functions, Referenced, InObjects, InJobs, InValues,
     InLocals, Alive
<1> QED BY <1>1, <1>2, <1>3, LoadModuleDirStep DEF Run

LEMMA JobStep == ASSUME IInv, NEW p \in Pool, Job(p) PROVE IInv'
<1>1. CASE LookupDone(p)
  <2>1. Functions'
    BY <1>1 DEF LookupDone, IInv, Functions, Nothing
  <2>2. ASSUME NEW l \in Loaders, Referenced(l)' PROVE Referenced(l)
    <3>1. InObjects(l)' = InObjects(l) /\ InLocals(l)' = InLocals(l)
      BY <1>1 DEF LookupDone, InObjects, InLocals
    <3>2. InValues(l)' \subseteq InValues(l)
      BY <1>1 DEF LookupDone, InValues, IInv, Functions, Nothing, Ref
    <3>3. InJobs(l)' \subseteq InJobs(l) \/ (ret[p].v = "ref" /\ l = ret[p].l)
      BY <1>1 DEF LookupDone, InJobs, IInv, Functions
    <3>4. ret[p].v = "ref" /\ l = ret[p].l => InValues(l) # {}
      BY DEF InValues, IInv, Functions, Ref, Procs
    <3> QED BY <2>2, <3>1, <3>2, <3>3, <3>4 DEF Referenced
  <2> QED BY <1>1, <2>1, <2>2, KeepsAlive DEF LookupDone, Alive
<1>2. CASE (\E n \in Wanted : Lookup(p, n)) \/ (\E n \in Admin : Administer(p, n))
  BY <1>2, KeepsAlive DEF Lookup, Administer, GetModule, IInv, Functions, Referenced, InObjects,
     InJobs, InValues, InLocals, Alive
<1>3. CASE \E l \in Loaders : Drop(p, l)
  <2>1. PICK d \in Loaders : Drop(p, d)
    BY <1>3
  <2> QED BY <2>1, KeepsAlive DEF Drop, IInv, Functions, Referenced, InObjects, InJobs, InValues,
          InLocals, Alive
<1> QED BY <1>1, <1>2, <1>3 DEF Job

LEMMA NextIInv == IInv /\ [Next]_vars => IInv'
<1> SUFFICES ASSUME IInv, [Next]_vars PROVE IInv'
  OBVIOUS
<1>1. ASSUME NEW p \in Procs, Call(p) PROVE IInv'
  BY <1>1, PlainStep, GetLoadedStep, LoadModuleStep, ConfGotRefStep, ConfEndStep,
     CloseSubDoneStep, CloseEndStep, UnloadRefsStep, InsmodStep, InsmodDoneStep, RmmodCloseStep,
     RmmodDoneStep DEF Call, Plain
<1>2. CASE UNCHANGED vars
  BY <1>2, KeepsAlive DEF vars, IInv, Functions, Referenced, InObjects, InJobs, InValues,
     InLocals, Alive
<1> QED BY <1>1, <1>2, RunStep, JobStep DEF Next, Stopped

(* Whatever the scripts keep, the jobs look up and drop and an administrator  *)
(* inserts and removes, nobody is left with a reference to a deleted module.  *)
THEOREM NeverFreed == Spec => []NeverFreedInUse
<1>1. IInv => NeverFreedInUse
  BY DEF IInv
<1> QED BY <1>1, InitIInv, NextIInv, PTL DEF Spec
-----------------------------------------------------------------------------
(* Nobody works with a module whose configuration still runs.  The calls of  *)
(* a process are numbered from the bottom of its stack, so that a call keeps *)
(* its number while others are on top of it.                                 *)
Height(p)   == Len(stack[p])
Frames(p)   == 1 .. Height(p)
Frame(p, h) == stack[p][Height(p) + 1 - h]

\* The calls that load modules, and those that close them.
Loading == {"get", "conf", "insmod"}
Ending  == {"close", "unload", "refs"}

\* The loaders of a list are in it once.
Once(s) == \A i, j \in DOMAIN s : s[i] = s[j] => i = j
Among(s, l) == \E i \in DOMAIN s : s[i] = l
Listed(l, o) == Among(modules[o], l)

Shape(f) ==
  \/ f.k \in {"get", "unload", "refs"} /\ f = [k |-> f.k, l |-> f.l] /\ f.l \in Loaders
  \/ f.k = "conf" /\ f = [k |-> f.k, l |-> f.l, rest |-> f.rest] /\ f.l \in Owners
  \/ /\ f.k = "insmod" /\ f = [k |-> f.k, o |-> f.o, name |-> f.name, l |-> f.l]
     /\ f.o \in Owners /\ f.l \in Owners
  \/ /\ f.k = "close" /\ f = [k |-> f.k, o |-> f.o, rest |-> f.rest, done |-> f.done]
     /\ f.o \in Owners /\ f.rest \in Seq(Loaders)
  \/ f.k = "rmmod" /\ f = [k |-> f.k, pc |-> f.pc, l |-> f.l] /\ f.l \in Loaders

\* What a process begins with: Kernel::run, or a job.
Bottom(p, f) ==
  /\ p = Main => f.k \in {"get", "conf", "close"} /\ (f.k = "close" => f.o = Kernel)
  /\ p \in Pool => /\ f.k \in Loading \cup {"rmmod"}
                   /\ f.k = "conf" => f.l # Kernel
                   /\ f.k = "insmod" => f.o = Kernel

\* Which call may be on top of which.
Gets(b, l) == \/ b.k = "conf"
              \/ b.k = "insmod" /\ b.l = l
              \/ b.k = "rmmod" /\ b.pc = "got" /\ b.l = l
Unloads(b, l) == \/ b.k = "close" /\ b.rest # <<>> /\ Head(b.rest) = l
                 \/ b.k = "rmmod" /\ b.pc = "deleted" /\ b.l = l
Closes(b, o) == \/ b.k = "refs" /\ b.l = o
                \/ b.k = "rmmod" /\ b.pc = "closed" /\ b.l = o
Under(f, b) ==
  /\ f.k # "rmmod" /\ b.k # "get"
  /\ f.k = "get" => Gets(b, f.l)
  /\ f.k = "conf" => f.l # Kernel /\ Gets(b, f.l)
  /\ f.k = "insmod" => b.k = "conf" /\ b.l = f.o
  /\ f.k = "close" => Closes(b, f.o)
  /\ f.k \in {"unload", "refs"} => Unloads(b, f.l)

Stacks == /\ stack = [p \in Procs |-> stack[p]]
          /\ \A p \in Procs : stack[p] \in Seq(Range(stack[p]))
Calling == /\ \A p \in Procs : \A h \in Frames(p) : Shape(Frame(p, h))
           /\ \A p \in Procs : Height(p) > 0 => Bottom(p, Frame(p, 1))
           /\ \A p \in Procs : \A h \in Frames(p) : h > 1 => Under(Frame(p, h), Frame(p, h - 1))
           /\ \A p \in Procs : \A g, h \in Frames(p) :
                Frame(p, g).k \in Loading => Frame(p, h).k \notin Ending

\* The main thread makes calls when the pool does not, and one administrator.
Phases == /\ main = [pc |-> main.pc, i |-> main.i, loaded |-> main.loaded, prev |-> main.prev,
                     errors |-> main.errors, retry |-> main.retry, again |-> main.again,
                     restarts |-> main.restarts]
          /\ main.i \in Nat \ {0}
          /\ main.pc # "run" => \A p \in Pool : Height(p) = 0
          /\ main.pc \in {"init", "run", "returned"} => Height(Main) = 0
Administers(p) == Height(p) > 0 /\ Frame(p, 1).k \in {"insmod", "rmmod"}
OneAdmin == \A p, q \in Pool : Administers(p) /\ Administers(q) => p = q
OneConf == \A p \in Procs : \A g, h \in Frames(p) :
  Frame(p, g).k = "conf" /\ Frame(p, h).k = "conf" /\ Frame(p, g).l = Frame(p, h).l => g = h
OneClose == \A p \in Procs : \A g, h \in Frames(p) :
  Frame(p, g).k = "close" /\ Frame(p, h).k = "close" /\ Frame(p, g).o = Frame(p, h).o => g = h

Typed == /\ mod \in [Loaders -> {"none", "new", "open", "closed", "leaked", "gone"}]
         /\ owner \in [Loaders -> Procs \cup {NoProc}]
         /\ modules \in [Owners -> Seq(Loaders)]
         /\ name = [l \in Loaders |-> name[l]]
         /\ \A q \in Pool : \A l \in uses[q] : l \in Loaders
         /\ \A q \in Procs : ret[q].v = "ref" => ret[q].l \in Loaders

Lists == /\ \A o \in Owners : Once(modules[o])
         /\ \A l \in Loaders : \A o, x \in Owners : Listed(l, o) /\ Listed(l, x) => o = x
         /\ \A l \in Loaders : \A o \in Owners : Listed(l, o) => mod[l] \notin {"gone", "leaked"}

\* A module is new exactly as long as the thread that holds the mutex of its
\* loader runs its configuration.
Configured == \A l \in Loaders : mod[l] = "new" =>
  /\ name[l] \notin Broken
  /\ owner[l] \in Procs
  /\ \E h \in Frames(owner[l]) : Frame(owner[l], h).k = "conf" /\ Frame(owner[l], h).l = l

Inserted(p, h) == h > 1 /\ Frame(p, h - 1).k = "insmod" /\ Frame(p, h - 1).o # Kernel

\* What a call relies on.
ConfOk(p, h) == LET l == Frame(p, h).l IN
  l \in Loaders => /\ mod[l] = "new" /\ owner[l] = p
                   /\ Listed(l, Kernel) \/ Inserted(p, h) \/ \A o \in Owners : ~Listed(l, o)
GetOk(p, h) == Listed(Frame(p, h).l, Kernel) \/ Inserted(p, h)
InsmodOk(f) == f.l # Kernel => Listed(f.l, f.o)
CloseOk(f) == /\ f.o \in Loaders => mod[f.o] # "new"
              /\ \A l \in Loaders : Among(f.rest, l) => Listed(l, f.o)
              /\ Once(f.rest)
RefsOk(p, f) == mod[f.l] # "new" /\ owner[f.l] = p
RmmodOk(p, f) == /\ IF f.pc = "deleted"
                    THEN mod[f.l] # "gone" /\ \A o \in Owners : ~Listed(f.l, o)
                    ELSE Listed(f.l, Kernel)
                 /\ f.pc = "closed" => local[p] = f.l
Sound(p, h) == LET f == Frame(p, h) IN
  /\ f.k = "conf" => ConfOk(p, h)
  /\ f.k = "get" => GetOk(p, h)
  /\ f.k = "insmod" => InsmodOk(f)
  /\ f.k = "close" => CloseOk(f)
  /\ f.k = "refs" => RefsOk(p, f)
  /\ f.k = "rmmod" => RmmodOk(p, f)
Relies == \A p \in Procs : \A h \in Frames(p) : Sound(p, h)

\* What a call that has just been answered, or is about to go on, relies on.
Answers(p, f) ==
  /\ f.k = "insmod" /\ f.l # Kernel /\ ret[p] = NoRef => name[f.l] \in Broken
  /\ f.k = "rmmod" /\ f.pc = "got" /\ ret[p].v = "ref" => ret[p].l = f.l
  /\ f.k = "rmmod" /\ f.pc = "deleted" => mod[f.l] # "new"
  /\ \/ f.k = "unload"
     \/ f.k = "insmod" /\ f.l = Kernel
     \/ f.k = "rmmod" /\ f.pc \in {"find", "remove"}
     \/ f.k = "close" /\ f.rest = <<>>
     => ret[p] = Nothing
Answered ==
  /\ \A p \in Procs : Height(p) > 0 => Answers(p, Frame(p, Height(p)))
  /\ \A p \in Procs : \A l \in Loaders : ret[p] = Ref(l) /\ mod[l] = "new" => owner[l] = p

Works == /\ ConfiguredBeforeUse
         /\ \A p \in Procs : local[p] \in Loaders => mod[local[p]] # "new"

CInv == /\ Stacks /\ Calling /\ Phases /\ OneAdmin /\ OneConf /\ OneClose /\ Typed
        /\ Lists /\ Configured /\ Relies /\ Answered /\ Works

(* Taking a loader out of a list, and finding one in it.                     *)
LEMMA WithoutList ==
  ASSUME NEW s \in Seq(Loaders), NEW l, Once(s)
  PROVE  /\ Without(s, l) \in Seq(Loaders) /\ Once(Without(s, l))
         /\ \A x : Among(Without(s, l), x) <=> Among(s, x) /\ x # l
<1>1. CASE l \notin Range(s)
  BY <1>1 DEF Without, Range, Among
<1>2. CASE l \in Range(s)
  <2> DEFINE i == CHOOSE i \in DOMAIN s : s[i] = l
             n == Len(s)
             t == Without(s, l)
  <2>1. n \in Nat /\ DOMAIN s = 1 .. n /\ i \in 1 .. n /\ s[i] = l /\ \A j \in 1 .. n : s[j] \in Loaders
    BY <1>2, LenProperties DEF Range
  <2>2. t = SubSeq(s, 1, i - 1) \o SubSeq(s, i + 1, n)
    BY <1>2 DEF Without, RemoveAt
  <2> HIDE DEF i, n
  <2>3. /\ SubSeq(s, 1, i - 1) \in Seq(Loaders) /\ Len(SubSeq(s, 1, i - 1)) = i - 1
        /\ \A j \in 1 .. i - 1 : SubSeq(s, 1, i - 1)[j] = s[j]
    <3>1. \A j \in 1 .. i - 1 : s[j] \in Loaders
      BY <2>1
    <3>2. /\ SubSeq(s, 1, i - 1) \in Seq(Loaders)
          /\ Len(SubSeq(s, 1, i - 1)) = IF 1 <= i - 1 THEN i - 1 - 1 + 1 ELSE 0
          /\ \A j \in 1 .. i - 1 - 1 + 1 : SubSeq(s, 1, i - 1)[j] = s[1 + j - 1]
      BY <2>1, <3>1, SubSeqProperties
    <3> QED BY <2>1, <3>2
  <2>4. /\ SubSeq(s, i + 1, n) \in Seq(Loaders) /\ Len(SubSeq(s, i + 1, n)) = n - i
        /\ \A j \in 1 .. n - i : SubSeq(s, i + 1, n)[j] = s[i + j]
    <3>1. \A j \in i + 1 .. n : s[j] \in Loaders
      BY <2>1
    <3>2. /\ SubSeq(s, i + 1, n) \in Seq(Loaders)
          /\ Len(SubSeq(s, i + 1, n)) = IF i + 1 <= n THEN n - (i + 1) + 1 ELSE 0
          /\ \A j \in 1 .. n - (i + 1) + 1 : SubSeq(s, i + 1, n)[j] = s[i + 1 + j - 1]
      BY <2>1, <3>1, SubSeqProperties
    <3> QED BY <2>1, <3>2
  <2>5. /\ t \in Seq(Loaders) /\ Len(t) = n - 1
        /\ \A j \in 1 .. n - 1 : t[j] = IF j <= i - 1 THEN s[j] ELSE s[j + 1]
    <3>1. /\ t \in Seq(Loaders) /\ Len(t) = i - 1 + (n - i)
          /\ \A j \in 1 .. i - 1 + (n - i) : t[j] =
               IF j <= i - 1 THEN SubSeq(s, 1, i - 1)[j] ELSE SubSeq(s, i + 1, n)[j - (i - 1)]
      BY <2>2, <2>3, <2>4, ConcatProperties, SMTT(30)
    <3>2. ASSUME NEW j \in 1 .. n - 1 PROVE t[j] = IF j <= i - 1 THEN s[j] ELSE s[j + 1]
      <4>1. CASE j <= i - 1
        BY <2>1, <2>3, <3>1, <4>1
      <4>2. CASE ~(j <= i - 1)
        <5>1. j - (i - 1) \in 1 .. n - i /\ i + (j - (i - 1)) = j + 1
          BY <2>1, <4>2
        <5> QED BY <2>1, <2>4, <3>1, <4>2, <5>1
      <4> QED BY <4>1, <4>2
    <3> QED BY <2>1, <3>1, <3>2
  <2>6. DOMAIN t = 1 .. n - 1
    BY <2>5, LenProperties
  <2> HIDE DEF t
  <2> DEFINE from(j) == IF j <= i - 1 THEN j ELSE j + 1
  <2>f. ASSUME NEW j \in 1 .. n - 1 PROVE from(j) \in 1 .. n /\ from(j) # i /\ t[j] = s[from(j)]
    BY <2>1, <2>5
  <2>g. \A j, k \in 1 .. n - 1 : from(j) = from(k) => j = k
    BY <2>1
  <2> HIDE DEF from
  <2>7. Once(t)
    BY <2>1, <2>6, <2>f, <2>g DEF Once
  <2>8. ASSUME NEW x, Among(t, x) PROVE Among(s, x) /\ x # l
    <3>1. PICK j \in 1 .. n - 1 : t[j] = x
      BY <2>6, <2>8 DEF Among
    <3> QED BY <2>1, <2>f, <3>1 DEF Once, Among
  <2>9. ASSUME NEW x, Among(s, x), x # l PROVE Among(t, x)
    <3>1. PICK j \in 1 .. n : s[j] = x
      BY <2>1, <2>9 DEF Among
    <3>2. CASE j < i
      <4>1. j \in 1 .. n - 1 /\ t[j] = x
        BY <2>1, <2>5, <3>1, <3>2
      <4> QED BY <2>6, <4>1 DEF Among
    <3>3. CASE j > i
      <4>1. j - 1 \in 1 .. n - 1 /\ t[j - 1] = x
        BY <2>1, <2>5, <3>1, <3>3
      <4> QED BY <2>6, <4>1 DEF Among
    <3> QED BY <2>1, <2>9, <3>1, <3>2, <3>3
  <2> QED BY <2>5, <2>7, <2>8, <2>9 DEF t
<1> QED BY <1>1, <1>2

LEMMA AppendList ==
  ASSUME NEW s \in Seq(Loaders), NEW l \in Loaders, Once(s), ~Among(s, l)
  PROVE  /\ Append(s, l) \in Seq(Loaders) /\ Once(Append(s, l))
         /\ \A x : Among(Append(s, l), x) <=> Among(s, x) \/ x = l
<1>1. /\ Len(s) \in Nat /\ DOMAIN s = 1 .. Len(s)
      /\ Append(s, l) \in Seq(Loaders) /\ DOMAIN Append(s, l) = 1 .. Len(s) + 1
      /\ \A i \in 1 .. Len(s) : Append(s, l)[i] = s[i]
      /\ Append(s, l)[Len(s) + 1] = l
  BY LenProperties
<1> QED BY <1>1 DEF Once, Among

LEMMA ReverseList ==
  ASSUME NEW s \in Seq(Loaders), Once(s)
  PROVE  /\ Reverse(s) \in Seq(Loaders) /\ Once(Reverse(s))
         /\ \A x : Among(Reverse(s), x) <=> Among(s, x)
<1> DEFINE n == Len(s)
           t == Reverse(s)
<1>1. n \in Nat /\ DOMAIN s = 1 .. n /\ \A i \in 1 .. n : s[i] \in Loaders
  BY LenProperties
<1>2. t = [i \in 1 .. n |-> s[(n - i) + 1]]
  BY DEF Reverse
<1> HIDE DEF n, t
<1>3. \A i \in 1 .. n : (n - i) + 1 \in 1 .. n
  BY <1>1
<1>4. t \in Seq(Loaders) /\ DOMAIN t = 1 .. n
  BY <1>1, <1>2, <1>3
<1>5. Once(t)
  BY <1>1, <1>2, <1>3, <1>4 DEF Once
<1>6. ASSUME NEW x, Among(s, x) PROVE Among(t, x)
  <2>1. PICK i \in 1 .. n : s[i] = x
    BY <1>1, <1>6 DEF Among
  <2>2. (n - i) + 1 \in 1 .. n /\ t[(n - i) + 1] = x
    BY <1>1, <1>2, <2>1
  <2> QED BY <1>4, <2>2 DEF Among
<1>7. ASSUME NEW x, Among(t, x) PROVE Among(s, x)
  BY <1>1, <1>2, <1>3, <1>4, <1>7 DEF Among
<1> QED BY <1>4, <1>5, <1>6, <1>7 DEF t

LEMMA TailList ==
  ASSUME NEW s \in Seq(Loaders), Once(s), s # <<>>
  PROVE  /\ Tail(s) \in Seq(Loaders) /\ Once(Tail(s)) /\ Head(s) \in Loaders
         /\ \A x : Among(Tail(s), x) <=> Among(s, x) /\ x # Head(s)
         /\ Among(s, Head(s))
<1> DEFINE n == Len(s)
           t == Tail(s)
<1>1. /\ t \in Seq(Loaders) /\ Head(s) \in Loaders /\ Len(t) = n - 1
      /\ \A i \in 1 .. n - 1 : t[i] = s[i + 1]
  BY HeadTailProperties
<1>2. n \in Nat \ {0} /\ DOMAIN s = 1 .. n /\ DOMAIN t = 1 .. n - 1 /\ Head(s) = s[1]
  BY <1>1, LenProperties, EmptySeq
<1> HIDE DEF n, t
<1>3. Once(t)
  <2> SUFFICES ASSUME NEW i \in DOMAIN t, NEW j \in DOMAIN t, t[i] = t[j] PROVE i = j
    BY DEF Once
  <2>1. i + 1 \in DOMAIN s /\ j + 1 \in DOMAIN s /\ s[i + 1] = s[j + 1]
    BY <1>1, <1>2
  <2>2. i + 1 = j + 1
    BY <2>1 DEF Once
  <2> QED BY <1>2, <2>2
<1>4. ASSUME NEW x, Among(t, x) PROVE Among(s, x) /\ x # Head(s)
  <2>1. PICK i \in 1 .. n - 1 : t[i] = x
    BY <1>2, <1>4 DEF Among
  <2>2. i + 1 \in 1 .. n /\ s[i + 1] = x /\ i + 1 # 1 /\ 1 \in 1 .. n
    BY <1>1, <1>2, <2>1
  <2> QED BY <1>2, <2>2 DEF Among, Once
<1>5. ASSUME NEW x, Among(s, x), x # Head(s) PROVE Among(t, x)
  <2>1. PICK i \in 1 .. n : s[i] = x
    BY <1>2, <1>5 DEF Among
  <2>2. i - 1 \in 1 .. n - 1 /\ t[i - 1] = x
    BY <1>1, <1>2, <1>5, <2>1
  <2> QED BY <1>2, <2>2 DEF Among
<1>6. Among(s, Head(s))
  BY <1>2 DEF Among
<1> QED BY <1>1, <1>3, <1>4, <1>5, <1>6 DEF t

LEMMA FindModule ==
  ASSUME NEW o \in Owners, NEW n, modules[o] \in Seq(Loaders), find_module(o, n) # Kernel
  PROVE  find_module(o, n) \in Loaders /\ Listed(find_module(o, n), o)
<1> DEFINE hits == {i \in DOMAIN modules[o] : name[modules[o][i]] = n}
<1>1. DOMAIN modules[o] = 1 .. Len(modules[o]) /\ Len(modules[o]) \in Nat
      /\ \A i \in 1 .. Len(modules[o]) : modules[o][i] \in Loaders
  BY LenProperties
<1>2. hits # {} /\ hits \subseteq Nat
  BY <1>1 DEF find_module
<1>3. \E i \in hits : \A j \in hits : i <= j
  <2> DEFINE R == {ss \in Nat \X Nat : ss[1] < ss[2]}
  <2>1. IsWellFoundedOn(R, Nat)
    BY NatLessThanWellFounded DEF OpToRel
  <2> HIDE DEF hits
  <2>2. \E i \in hits : \A j \in hits : ~(<<j, i>> \in R)
    <3> HIDE DEF R
    <3> QED BY <1>2, <2>1, WFMin
  <2>3. PICK i \in hits : \A j \in hits : ~(<<j, i>> \in R)
    BY <2>2
  <2>4. ASSUME NEW j \in hits PROVE i <= j
    <3>1. i \in Nat /\ j \in Nat /\ <<j, i>> \notin R
      BY <1>2, <2>3
    <3>2. ~(j < i)
      BY <3>1
    <3> QED BY <3>1, <3>2
  <2> QED BY <2>4
<1>4. PICK i \in DOMAIN modules[o] : find_module(o, n) = modules[o][i]
  BY <1>2, <1>3 DEF find_module
<1> QED BY <1>1, <1>4 DEF Listed, Among

(* What a step does to the stacks: those of the other processes stay, and so *)
(* do the calls below the top of its own.                                    *)
Kept(p) ==
  /\ Stacks'
  /\ \A q \in Procs \ {p} : Height(q)' = Height(q) /\ \A h \in Frames(q) : Frame(q, h)' = Frame(q, h)
  /\ \A h \in 1 .. Height(p) - 1 : Frame(p, h)' = Frame(p, h)

Pops(p) == Kept(p) /\ Height(p) > 0 /\ Height(p)' = Height(p) - 1
Swaps(p, b) == /\ Kept(p) /\ Height(p) > 0 /\ Height(p)' = Height(p)
               /\ \A h : h = Height(p) => Frame(p, h)' = b
Calls2(p, b, a) == /\ Kept(p) /\ Height(p) > 0 /\ Height(p)' = Height(p) + 1
                   /\ \A h : h = Height(p) => Frame(p, h)' = b /\ Frame(p, h + 1)' = a
Enters(p, a) == Kept(p) /\ Height(p) = 0 /\ Height(p)' = 1 /\ Frame(p, 1)' = a

LEMMA Heights ==
  ASSUME Stacks, NEW p \in Procs
  PROVE  /\ Height(p) \in Nat /\ (stack[p] = <<>> <=> Height(p) = 0)
         /\ Height(p) > 0 => Top(p) = Frame(p, Height(p)) /\ DOMAIN stack[p] = 1 .. Height(p)
<1>1. stack[p] \in Seq(Range(stack[p]))
  BY DEF Stacks
<1>2. Height(p) \in Nat /\ (stack[p] = <<>> <=> Height(p) = 0) /\ DOMAIN stack[p] = 1 .. Height(p)
  BY <1>1, LenProperties, EmptySeq DEF Height
<1>3. Height(p) > 0 => Head(stack[p]) = stack[p][1]
  BY <1>1, <1>2
<1> QED BY <1>2, <1>3 DEF Top, Frame

LEMMA SeqRange == ASSUME NEW S, NEW s \in Seq(S) PROVE s \in Seq(Range(s))
<1>1. Len(s) \in Nat /\ DOMAIN s = 1 .. Len(s) /\ s \in [1 .. Len(s) -> S]
  BY LenProperties
<1>2. s \in [1 .. Len(s) -> Range(s)]
  BY <1>1 DEF Range
<1> QED BY <1>1, <1>2

LEMMA Replaced ==
  ASSUME Stacks, NEW p \in Procs, NEW S, NEW s \in Seq(S), stack' = [stack EXCEPT ![p] = s],
         \A h \in 1 .. Height(p) - 1 : h <= Len(s) /\ s[Len(s) + 1 - h] = Frame(p, h)
  PROVE  Kept(p) /\ Height(p)' = Len(s) /\ \A h \in 1 .. Len(s) : Frame(p, h)' = s[Len(s) + 1 - h]
<1>1. stack'[p] = s /\ \A q \in Procs \ {p} : stack'[q] = stack[q]
  BY DEF Stacks
<1>2. Stacks'
  <2>1. stack' = [q \in Procs |-> stack'[q]]
    BY DEF Stacks
  <2>2. s \in Seq(Range(s))
    BY SeqRange
  <2>3. \A q \in Procs : stack'[q] \in Seq(Range(stack'[q]))
    BY <1>1, <2>2 DEF Stacks
  <2> QED BY <2>1, <2>3 DEF Stacks
<1>3. Height(p)' = Len(s) /\ \A h : Frame(p, h)' = s[Len(s) + 1 - h]
  BY <1>1 DEF Height, Frame
<1>4. \A q \in Procs \ {p} : Height(q)' = Height(q) /\ \A h : Frame(q, h)' = Frame(q, h)
  BY <1>1 DEF Height, Frame
<1> QED BY <1>2, <1>3, <1>4 DEF Kept

LEMMA PopsTop ==
  ASSUME Stacks, NEW p \in Procs, stack[p] # <<>>, stack' = [stack EXCEPT ![p] = Tail(@)]
  PROVE  Pops(p)
<1> DEFINE S == Range(stack[p])
           s == Tail(stack[p])
<1>1. stack[p] \in Seq(S) /\ Height(p) \in Nat /\ Height(p) > 0
  BY Heights DEF Stacks
<1>2. s \in Seq(S) /\ Len(s) = Height(p) - 1 /\ \A i \in 1 .. Len(s) : s[i] = stack[p][i + 1]
  BY <1>1, HeadTailProperties DEF Height
<1>3. stack' = [stack EXCEPT ![p] = s]
  OBVIOUS
<1> HIDE DEF S, s
<1>4. ASSUME NEW h \in 1 .. Height(p) - 1 PROVE h <= Len(s) /\ s[Len(s) + 1 - h] = Frame(p, h)
  <2>1. Len(s) + 1 - h \in 1 .. Len(s) /\ Len(s) + 1 - h + 1 = Height(p) + 1 - h
    BY <1>1, <1>2
  <2>2. s[Len(s) + 1 - h] = stack[p][Height(p) + 1 - h]
    BY <1>2, <2>1
  <2> QED BY <1>1, <1>2, <2>2 DEF Frame
<1>5. Kept(p) /\ Height(p)' = Len(s)
  BY <1>2, <1>3, <1>4, Replaced
<1> QED BY <1>1, <1>2, <1>5 DEF Pops

LEMMA SwapsTop ==
  ASSUME Stacks, NEW p \in Procs, stack[p] # <<>>, NEW b, stack' = [stack EXCEPT ![p] = <<b>> \o Tail(@)]
  PROVE  Swaps(p, b)
<1> DEFINE S == Range(stack[p]) \cup {b}
           t == Tail(stack[p])
           s == <<b>> \o t
<1>1. stack[p] \in Seq(S) /\ Height(p) \in Nat /\ Height(p) > 0
  BY Heights, SeqMonotonic, Range(stack[p]) \subseteq S DEF Stacks
<1>2. t \in Seq(S) /\ Len(t) = Height(p) - 1 /\ \A i \in 1 .. Len(t) : t[i] = stack[p][i + 1]
  BY <1>1, HeadTailProperties DEF Height
<1>3. stack' = [stack EXCEPT ![p] = s]
  OBVIOUS
<1>4. <<b>> \in Seq(S) /\ Len(<<b>>) = 1 /\ <<b>>[1] = b
  OBVIOUS
<1> HIDE DEF S, t
<1>5. s \in Seq(S) /\ Len(s) = Height(p) /\ s[1] = b /\ \A i \in 2 .. Len(s) : s[i] = stack[p][i]
  <2>1. s \in Seq(S) /\ Len(s) = 1 + Len(t)
        /\ \A i \in 1 .. 1 + Len(t) : s[i] = IF i <= 1 THEN <<b>>[i] ELSE t[i - 1]
    BY <1>2, <1>4, ConcatProperties
  <2>2. ASSUME NEW i \in 2 .. Height(p) PROVE s[i] = stack[p][i]
    <3>1. i - 1 \in 1 .. Len(t) /\ i - 1 + 1 = i
      BY <1>1, <1>2
    <3>2. t[i - 1] = stack[p][i]
      BY <1>2, <3>1
    <3>3. i \in 1 .. 1 + Len(t) /\ ~(i <= 1)
      BY <1>1, <1>2
    <3> QED BY <2>1, <3>2, <3>3
  <2> QED BY <1>1, <1>2, <1>4, <2>1, <2>2
<1> HIDE DEF s
<1>6. \A h \in 1 .. Height(p) - 1 : h <= Len(s) /\ s[Len(s) + 1 - h] = Frame(p, h)
  BY <1>1, <1>5 DEF Frame
<1>s. s \in Seq(S)
  BY <1>5
<1>7. Kept(p) /\ Height(p)' = Len(s) /\ \A h \in 1 .. Len(s) : Frame(p, h)' = s[Len(s) + 1 - h]
  BY <1>3, <1>s, <1>6, Replaced
<1>8. ASSUME NEW h, h = Height(p) PROVE Frame(p, h)' = b
  <2>1. h \in 1 .. Len(s) /\ Len(s) + 1 - h = 1
    BY <1>1, <1>5, <1>8
  <2> QED BY <1>5, <1>7, <2>1
<1> QED BY <1>1, <1>5, <1>7, <1>8 DEF Swaps

LEMMA CallsFrom ==
  ASSUME Stacks, NEW p \in Procs, stack[p] # <<>>, NEW a, NEW b,
         stack' = [stack EXCEPT ![p] = <<a, b>> \o Tail(@)]
  PROVE  Calls2(p, b, a)
<1> DEFINE S == Range(stack[p]) \cup {a, b}
           t == Tail(stack[p])
           s == <<a, b>> \o t
<1>1. stack[p] \in Seq(S) /\ Height(p) \in Nat /\ Height(p) > 0
  BY Heights, SeqMonotonic, Range(stack[p]) \subseteq S DEF Stacks
<1>2. t \in Seq(S) /\ Len(t) = Height(p) - 1 /\ \A i \in 1 .. Len(t) : t[i] = stack[p][i + 1]
  BY <1>1, HeadTailProperties DEF Height
<1>3. stack' = [stack EXCEPT ![p] = s]
  OBVIOUS
<1>4. <<a, b>> \in Seq(S) /\ Len(<<a, b>>) = 2 /\ <<a, b>>[1] = a /\ <<a, b>>[2] = b
  OBVIOUS
<1> HIDE DEF S, t
<1>5. /\ s \in Seq(S) /\ Len(s) = Height(p) + 1 /\ s[1] = a /\ s[2] = b
      /\ \A i \in 3 .. Len(s) : s[i] = stack[p][i - 1]
  <2>1. s \in Seq(S) /\ Len(s) = 2 + Len(t)
        /\ \A i \in 1 .. 2 + Len(t) : s[i] = IF i <= 2 THEN <<a, b>>[i] ELSE t[i - 2]
    BY <1>2, <1>4, ConcatProperties
  <2>2. ASSUME NEW i \in 3 .. Height(p) + 1 PROVE s[i] = stack[p][i - 1]
    <3>1. i - 2 \in 1 .. Len(t) /\ i - 2 + 1 = i - 1
      BY <1>1, <1>2
    <3>2. t[i - 2] = stack[p][i - 1]
      BY <1>2, <3>1
    <3>3. i \in 1 .. 2 + Len(t) /\ ~(i <= 2)
      BY <1>1, <1>2
    <3> QED BY <2>1, <3>2, <3>3
  <2>3. 1 \in 1 .. 2 + Len(t) /\ 2 \in 1 .. 2 + Len(t) /\ 2 + Len(t) = Height(p) + 1
    BY <1>1, <1>2
  <2>4. s[1] = a /\ s[2] = b
    BY <1>4, <2>1, <2>3
  <2> QED BY <2>1, <2>2, <2>3, <2>4
<1> HIDE DEF s
<1>6. \A h \in 1 .. Height(p) - 1 : h <= Len(s) /\ s[Len(s) + 1 - h] = Frame(p, h)
  <2> SUFFICES ASSUME NEW h \in 1 .. Height(p) - 1 PROVE h <= Len(s) /\ s[Len(s) + 1 - h] = Frame(p, h)
    OBVIOUS
  <2>1. Len(s) + 1 - h \in 3 .. Len(s) /\ Len(s) + 1 - h - 1 = Height(p) + 1 - h
    BY <1>1, <1>5
  <2> QED BY <1>1, <1>5, <2>1 DEF Frame
<1>7. Kept(p) /\ Height(p)' = Len(s) /\ \A h \in 1 .. Len(s) : Frame(p, h)' = s[Len(s) + 1 - h]
  BY <1>3, <1>5, <1>6, Replaced
<1>8. ASSUME NEW h, h = Height(p) PROVE Frame(p, h)' = b /\ Frame(p, h + 1)' = a
  <2>1. /\ h \in 1 .. Len(s) /\ Len(s) + 1 - h = 2
        /\ h + 1 \in 1 .. Len(s) /\ Len(s) + 1 - (h + 1) = 1
    BY <1>1, <1>5, <1>8
  <2>2. \A i \in 1 .. Len(s) : \A k : Len(s) + 1 - i = k => Frame(p, i)' = s[k]
    BY <1>7
  <2> QED BY <1>5, <2>1, <2>2
<1> QED BY <1>1, <1>5, <1>7, <1>8 DEF Calls2

LEMMA SwapsIn ==
  ASSUME Stacks, NEW p \in Procs, stack[p] # <<>>, NEW b, stack' = [stack EXCEPT ![p] = [@ EXCEPT ![1] = b]]
  PROVE  Swaps(p, b)
<1> DEFINE S == Range(stack[p]) \cup {b}
           s == [stack[p] EXCEPT ![1] = b]
<1>1. stack[p] \in Seq(S) /\ Height(p) \in Nat /\ Height(p) > 0
  BY Heights, SeqMonotonic, Range(stack[p]) \subseteq S DEF Stacks
<1>2. stack' = [stack EXCEPT ![p] = s]
  OBVIOUS
<1>3. 1 \in 1 .. Len(stack[p]) /\ b \in S
  BY <1>1 DEF Height
<1> HIDE DEF S
<1>4. /\ s \in Seq(S) /\ Len(s) = Len(stack[p])
      /\ \A j \in 1 .. Len(stack[p]) : s[j] = IF j = 1 THEN b ELSE stack[p][j]
  BY <1>1, <1>3, ExceptSeq
<1> HIDE DEF s
<1>5. s \in Seq(S) /\ Len(s) = Height(p)
  BY <1>4 DEF Height
<1>6. ASSUME NEW h \in 1 .. Height(p) - 1 PROVE h <= Len(s) /\ s[Len(s) + 1 - h] = Frame(p, h)
  <2>1. /\ h <= Len(s) /\ Height(p) + 1 - h \in 1 .. Len(stack[p]) /\ Height(p) + 1 - h # 1
        /\ Len(s) + 1 - h = Height(p) + 1 - h
    BY <1>1, <1>4, <1>5
  <2> QED BY <1>4, <2>1 DEF Frame
<1>7. Kept(p) /\ Height(p)' = Len(s) /\ \A h \in 1 .. Len(s) : Frame(p, h)' = s[Len(s) + 1 - h]
  BY <1>2, <1>5, <1>6, Replaced
<1>8. ASSUME NEW h, h = Height(p) PROVE Frame(p, h)' = b
  <2>1. h \in 1 .. Len(s) /\ Len(s) + 1 - h = 1
    BY <1>1, <1>5, <1>8
  <2>2. s[1] = b
    BY <1>3, <1>4
  <2> QED BY <1>7, <2>1, <2>2
<1> QED BY <1>1, <1>5, <1>7, <1>8 DEF Swaps

LEMMA Pushes ==
  ASSUME Stacks, NEW p \in Procs, stack[p] # <<>>, NEW a, stack' = [stack EXCEPT ![p] = <<a>> \o @]
  PROVE  Calls2(p, Top(p), a)
<1> DEFINE S == Range(stack[p]) \cup {a}
<1>1. stack[p] \in Seq(S)
  BY SeqMonotonic, Range(stack[p]) \subseteq S DEF Stacks
<1> HIDE DEF S
<1>2. <<a>> \o stack[p] = <<a, Top(p)>> \o Tail(stack[p])
  <2> DEFINE T == S \cup {a, Top(p)}
  <2>1. stack[p] \in Seq(T) /\ <<a>> \in Seq(T) /\ <<a, Top(p)>> \in Seq(T)
    BY <1>1, SeqMonotonic
  <2>2. /\ Tail(stack[p]) \in Seq(T) /\ Len(Tail(stack[p])) = Len(stack[p]) - 1
        /\ \A i \in 1 .. Len(Tail(stack[p])) : Tail(stack[p])[i] = stack[p][i + 1]
        /\ Len(stack[p]) \in Nat /\ Top(p) = stack[p][1]
    BY <2>1, HeadTailProperties DEF Top
  <2> HIDE DEF T
  <2>3. /\ <<a>> \o stack[p] \in Seq(T) /\ Len(<<a>> \o stack[p]) = 1 + Len(stack[p])
        /\ \A i \in 1 .. 1 + Len(stack[p]) :
             (<<a>> \o stack[p])[i] = IF i <= 1 THEN <<a>>[i] ELSE stack[p][i - 1]
    <3>1. Len(<<a>>) = 1
      OBVIOUS
    <3> QED BY <2>1, <3>1, ConcatProperties
  <2>4. /\ <<a, Top(p)>> \o Tail(stack[p]) \in Seq(T)
        /\ Len(<<a, Top(p)>> \o Tail(stack[p])) = 1 + Len(stack[p])
        /\ \A i \in 1 .. 1 + Len(stack[p]) : (<<a, Top(p)>> \o Tail(stack[p]))[i] =
             IF i <= 2 THEN <<a, Top(p)>>[i] ELSE Tail(stack[p])[i - 2]
    <3>1. Len(<<a, Top(p)>>) = 2 /\ 2 + Len(Tail(stack[p])) = 1 + Len(stack[p])
      BY <2>2
    <3> QED BY <2>1, <2>2, <3>1, ConcatProperties
  <2>5. ASSUME NEW i \in 1 .. 1 + Len(stack[p])
        PROVE  (<<a>> \o stack[p])[i] = (<<a, Top(p)>> \o Tail(stack[p]))[i]
    <3>1. CASE i = 1
      BY <2>3, <2>4, <3>1
    <3>2. CASE i = 2
      BY <2>2, <2>3, <2>4, <3>2
    <3>3. CASE i > 2
      <4>1. i - 2 \in 1 .. Len(Tail(stack[p])) /\ i - 2 + 1 = i - 1
        BY <2>2, <3>3
      <4>2. Tail(stack[p])[i - 2] = stack[p][i - 1]
        BY <2>2, <4>1
      <4>3. ~(i <= 1) /\ ~(i <= 2)
        BY <2>2, <3>3
      <4> QED BY <2>3, <2>4, <4>2, <4>3
    <3> QED BY <2>2, <3>1, <3>2, <3>3
  <2> QED BY <2>3, <2>4, <2>5, SeqEqual
<1> QED BY <1>2, CallsFrom

LEMMA EntersCall ==
  ASSUME Stacks, NEW p \in Procs, stack[p] = <<>>, NEW a,
         stack' = [stack EXCEPT ![p] = <<a>>] \/ stack' = [stack EXCEPT ![p] = <<a>> \o @]
  PROVE  Enters(p, a)
<1>1. <<a>> \in Seq({a}) /\ Len(<<a>>) = 1 /\ <<a>>[1] = a
  OBVIOUS
<1>2. stack' = [stack EXCEPT ![p] = <<a>>]
  <2>1. <<a>> \o <<>> = <<a>>
    BY <1>1, ConcatEmptySeq
  <2> QED BY <2>1
<1>3. Height(p) = 0
  BY Heights
<1>4. Kept(p) /\ Height(p)' = 1 /\ \A h \in 1 .. 1 : Frame(p, h)' = <<a>>[1 + 1 - h]
  <2> DEFINE S == {a}
             s == <<a>>
  <2>1. s \in Seq(S) /\ Len(s) = 1 /\ stack' = [stack EXCEPT ![p] = s]
    BY <1>1, <1>2
  <2> HIDE DEF s, S
  <2>2. \A h \in 1 .. Height(p) - 1 : h <= Len(s) /\ s[Len(s) + 1 - h] = Frame(p, h)
    BY <1>3
  <2>3. Kept(p) /\ Height(p)' = Len(s) /\ \A h \in 1 .. Len(s) : Frame(p, h)' = s[Len(s) + 1 - h]
    BY <2>1, <2>2, Replaced
  <2> QED BY <2>1, <2>3 DEF s
<1> QED BY <1>1, <1>3, <1>4 DEF Enters

(* The order of the calls stays when those on top of the ones that stay fit. *)
Fits(p) ==
  /\ Kept(p) /\ Height(p)' >= Height(p) - 1
  /\ \A h \in 1 .. Height(p)' : h >= Height(p) =>
       /\ Shape(Frame(p, h)')
       /\ h = 1 => Bottom(p, Frame(p, h)')
       /\ h > 1 => Under(Frame(p, h)', Frame(p, h - 1)')
       /\ Height(p) > 1 => \A b : b = Frame(p, Height(p)) =>
            /\ Frame(p, h)'.k \in Loading => b.k \in Loading
            /\ Frame(p, h)'.k \in Ending => b.k \in Ending
  /\ \A g, h \in 1 .. Height(p)' : g >= Height(p) /\ h >= Height(p) =>
       (Frame(p, g)'.k \in Loading => Frame(p, h)'.k \notin Ending)

LEMMA FitsCalling ==
  ASSUME Stacks, Calling, NEW p \in Procs, Fits(p)
  PROVE  Stacks' /\ Calling'
<1>1. Stacks'
  BY DEF Fits, Kept
<1>2. Height(p) \in Nat /\ Height(p)' \in Nat
  <2>1. \A q \in Procs : Height(q) \in Nat
    BY Heights
  <2>2. \A q \in Procs : Height(q)' \in Nat
    BY <1>1, LenProperties DEF Stacks, Height
  <2> QED BY <2>1, <2>2
<1>3. \A q \in Procs \ {p} : Height(q)' = Height(q) /\ \A h \in 1 .. Height(q) : Frame(q, h)' = Frame(q, h)
  BY DEF Fits, Kept, Frames
<1>4. \A h \in 1 .. Height(p) - 1 : Frame(p, h)' = Frame(p, h) /\ h \in 1 .. Height(p) /\ h \in 1 .. Height(p)'
  BY <1>2 DEF Fits, Kept
<1>5. ASSUME NEW q \in Procs, NEW h \in 1 .. Height(q)' PROVE Shape(Frame(q, h)')
  BY <1>2, <1>3, <1>4, <1>5 DEF Fits, Calling, Frames
<1>6. ASSUME NEW q \in Procs, Height(q)' > 0 PROVE Bottom(q, Frame(q, 1)')
  <2>1. CASE q # p
    BY <1>3, <1>6, <2>1, Heights DEF Calling
  <2>2. CASE q = p /\ Height(p) > 1
    BY <1>2, <1>4, <2>2 DEF Calling
  <2>3. CASE q = p /\ ~(Height(p) > 1)
    <3>1. 1 \in 1 .. Height(p)' /\ 1 >= Height(p)
      BY <1>2, <1>6, <2>3
    <3> QED BY <2>3, <3>1 DEF Fits
  <2> QED BY <2>1, <2>2, <2>3
<1>7. ASSUME NEW q \in Procs, NEW h \in 1 .. Height(q)', h > 1 PROVE Under(Frame(q, h)', Frame(q, h - 1)')
  <2>1. CASE q # p
    <3>1. h - 1 \in 1 .. Height(q) /\ h \in 1 .. Height(q)
      BY <1>3, <1>7, <2>1, Heights
    <3> QED BY <1>3, <1>7, <2>1, <3>1 DEF Calling, Frames
  <2>2. CASE q = p /\ h < Height(p)
    <3>1. h - 1 \in 1 .. Height(p) - 1 /\ h \in 1 .. Height(p) - 1
      BY <1>2, <1>7, <2>2
    <3> QED BY <1>4, <1>7, <2>2, <3>1 DEF Calling, Frames
  <2>3. CASE q = p /\ ~(h < Height(p))
    BY <1>2, <1>7, <2>3 DEF Fits
  <2> QED BY <2>1, <2>2, <2>3
<1>8. ASSUME NEW q \in Procs, NEW g \in 1 .. Height(q)', NEW h \in 1 .. Height(q)',
             Frame(q, g)'.k \in Loading, Frame(q, h)'.k \in Ending
      PROVE  FALSE
  <2>1. CASE q # p
    BY <1>3, <1>8, <2>1 DEF Calling, Frames
  <2>2. CASE q = p /\ g < Height(p) /\ h < Height(p)
    BY <1>2, <1>4, <1>8, <2>2 DEF Calling, Frames
  <2>3. CASE q = p /\ g >= Height(p) /\ h >= Height(p)
    BY <1>8, <2>3 DEF Fits
  <2>4. CASE q = p /\ g >= Height(p) /\ h < Height(p)
    <3>1. Frame(p, Height(p)).k \in Loading
      BY <1>2, <1>8, <2>4 DEF Fits
    <3>2. Frame(p, h).k \in Ending /\ h \in 1 .. Height(p) /\ Height(p) \in 1 .. Height(p)
      BY <1>2, <1>4, <1>8, <2>4
    <3> QED BY <3>1, <3>2 DEF Calling, Frames
  <2>5. CASE q = p /\ g < Height(p) /\ h >= Height(p)
    <3>1. Frame(p, Height(p)).k \in Ending
      BY <1>2, <1>8, <2>5 DEF Fits
    <3>2. Frame(p, g).k \in Loading /\ g \in 1 .. Height(p) /\ Height(p) \in 1 .. Height(p)
      BY <1>2, <1>4, <1>8, <2>5
    <3> QED BY <3>1, <3>2 DEF Calling, Frames
  <2> QED BY <1>2, <2>1, <2>2, <2>3, <2>4, <2>5
<1>9. Calling'
  BY <1>5, <1>6, <1>7, <1>8 DEF Calling, Frames
<1> QED BY <1>1, <1>9

LEMMA PopsCalling == ASSUME Stacks, Calling, NEW p \in Procs, Pops(p) PROVE Stacks' /\ Calling'
<1>1. Height(p) \in Nat
  BY Heights
<1> QED BY <1>1, FitsCalling DEF Pops, Fits

LEMMA SwapsCalling ==
  ASSUME Stacks, Calling, NEW p \in Procs, NEW b, Swaps(p, b), Shape(b),
         Height(p) = 1 => Bottom(p, b),
         Height(p) > 1 => Under(b, Frame(p, Height(p) - 1)),
         Height(p) > 1 => \A t : t = Frame(p, Height(p)) =>
           (b.k \in Loading => t.k \in Loading) /\ (b.k \in Ending => t.k \in Ending)
  PROVE  Stacks' /\ Calling'
<1>1. Height(p) \in Nat /\ Height(p) > 0 /\ Height(p)' = Height(p)
  BY Heights DEF Swaps
<1>2. ASSUME NEW h \in 1 .. Height(p)', h >= Height(p) PROVE h = Height(p) /\ Frame(p, h)' = b
  BY <1>1, <1>2 DEF Swaps
<1>3. Height(p) > 1 => \A h : h = Height(p) => Frame(p, h - 1)' = Frame(p, Height(p) - 1)
  BY <1>1 DEF Swaps, Kept
<1>4. b.k \in Loading => b.k \notin Ending
  BY DEF Loading, Ending
<1>5. Fits(p)
  BY <1>1, <1>2, <1>3, <1>4 DEF Fits, Swaps
<1> QED BY <1>5, FitsCalling

LEMMA CallsCalling ==
  ASSUME Stacks, Calling, NEW p \in Procs, NEW a, NEW b, Calls2(p, b, a), Shape(a), Shape(b), Under(a, b),
         Height(p) = 1 => Bottom(p, b),
         Height(p) > 1 => Under(b, Frame(p, Height(p) - 1)),
         Height(p) > 1 => \A t : t = Frame(p, Height(p)) =>
           /\ b.k \in Loading => t.k \in Loading
           /\ b.k \in Ending => t.k \in Ending
           /\ a.k \in Loading => t.k \in Loading
           /\ a.k \in Ending => t.k \in Ending,
         b.k \in Loading => a.k \notin Ending,
         b.k \in Ending => a.k \notin Loading
  PROVE  Stacks' /\ Calling'
<1>1. Height(p) \in Nat /\ Height(p) > 0 /\ Height(p)' = Height(p) + 1
  BY Heights DEF Calls2
<1>2. ASSUME NEW h \in 1 .. Height(p)', h >= Height(p)
      PROVE  (h = Height(p) /\ Frame(p, h)' = b) \/ (h = Height(p) + 1 /\ Frame(p, h)' = a /\ Frame(p, h - 1)' = b)
  <2>1. h = Height(p) \/ h - 1 = Height(p)
    BY <1>1, <1>2
  <2>2. \A g : g = Height(p) => Frame(p, g)' = b /\ Frame(p, g + 1)' = a
    BY DEF Calls2
  <2>3. CASE h = Height(p)
    BY <2>2, <2>3
  <2>4. CASE h - 1 = Height(p)
    <3>1. h - 1 + 1 = h
      OBVIOUS
    <3>2. Frame(p, h - 1)' = b /\ Frame(p, h)' = a
      BY <2>2, <2>4, <3>1
    <3> QED BY <1>1, <2>4, <3>2
  <2> QED BY <2>1, <2>3, <2>4
<1>3. Height(p) > 1 => \A h : h = Height(p) => Frame(p, h - 1)' = Frame(p, Height(p) - 1)
  BY <1>1 DEF Calls2, Kept
<1>4. (b.k \in Loading => b.k \notin Ending) /\ (a.k \in Loading => a.k \notin Ending)
  BY DEF Loading, Ending
<1>5. Fits(p)
  <2>1. ASSUME NEW h \in 1 .. Height(p)', h >= Height(p)
        PROVE  /\ Shape(Frame(p, h)')
               /\ h = 1 => Bottom(p, Frame(p, h)')
               /\ h > 1 => Under(Frame(p, h)', Frame(p, h - 1)')
               /\ Height(p) > 1 => \A t : t = Frame(p, Height(p)) =>
                    /\ Frame(p, h)'.k \in Loading => t.k \in Loading
                    /\ Frame(p, h)'.k \in Ending => t.k \in Ending
    BY <1>1, <1>2, <1>3, <2>1
  <2>2. ASSUME NEW g \in 1 .. Height(p)', NEW h \in 1 .. Height(p)', g >= Height(p), h >= Height(p),
               Frame(p, g)'.k \in Loading
        PROVE  Frame(p, h)'.k \notin Ending
    BY <1>2, <1>4, <2>2
  <2> QED BY <1>1, <2>1, <2>2 DEF Fits, Calls2
<1> QED BY <1>5, FitsCalling

LEMMA EntersCalling ==
  ASSUME Stacks, Calling, NEW p \in Procs, NEW a, Enters(p, a), Shape(a), Bottom(p, a)
  PROVE  Stacks' /\ Calling'
<1>1. \A h \in 1 .. Height(p)' : h = 1 /\ Frame(p, h)' = a
  BY DEF Enters
<1>2. a.k \in Loading => a.k \notin Ending
  BY DEF Loading, Ending
<1>3. Fits(p)
  BY <1>1, <1>2 DEF Fits, Enters
<1> QED BY <1>3, FitsCalling

(* The calls that stay, and the others that there are after the step.        *)
Stays(p, q, h) == h \in 1 .. Height(q) /\ (q # p \/ h < Height(p))
Steps(p) == Stacks /\ Stacks' /\ Calling /\ Calling' /\ Kept(p) /\ Height(p)' >= Height(p) - 1

LEMMA StayingCalls ==
  ASSUME NEW p \in Procs, Steps(p)
  PROVE  /\ \A q \in Procs : Height(q) \in Nat /\ Height(q)' \in Nat
         /\ \A q \in Procs : \A h : Stays(p, q, h) =>
              /\ h \in 1 .. Height(q) /\ h \in 1 .. Height(q)' /\ Frame(q, h)' = Frame(q, h)
              /\ h > 1 => h - 1 \in 1 .. Height(q) /\ Frame(q, h - 1)' = Frame(q, h - 1)
              /\ Inserted(q, h)' <=> Inserted(q, h)
         /\ \A q \in Procs : \A h \in 1 .. Height(q)' : Stays(p, q, h) \/ (q = p /\ h >= Height(p))
<1>1. \A q \in Procs : Height(q) \in Nat
  BY Heights DEF Steps
<1>2. \A q \in Procs : Height(q)' \in Nat
  BY LenProperties DEF Stacks, Height, Steps
<1>3. ASSUME NEW q \in Procs, NEW h, Stays(p, q, h)
      PROVE  /\ h \in 1 .. Height(q) /\ h \in 1 .. Height(q)' /\ Frame(q, h)' = Frame(q, h)
             /\ h > 1 => h - 1 \in 1 .. Height(q) /\ Frame(q, h - 1)' = Frame(q, h - 1)
             /\ Inserted(q, h)' <=> Inserted(q, h)
  <2>1. CASE q # p
    <3>1. Height(q)' = Height(q) /\ \A i \in 1 .. Height(q) : Frame(q, i)' = Frame(q, i)
      BY <2>1 DEF Steps, Kept, Frames
    <3>2. h \in 1 .. Height(q) /\ (h > 1 => h - 1 \in 1 .. Height(q))
      BY <1>1, <1>3 DEF Stays
    <3> QED BY <3>1, <3>2 DEF Inserted
  <2>2. CASE q = p
    <3>1. \A i \in 1 .. Height(p) - 1 : Frame(p, i)' = Frame(p, i)
      BY DEF Steps, Kept
    <3>2. /\ h \in 1 .. Height(p) - 1 /\ h \in 1 .. Height(p) /\ h \in 1 .. Height(p)'
          /\ h > 1 => h - 1 \in 1 .. Height(p) - 1 /\ h - 1 \in 1 .. Height(p)
      BY <1>1, <1>2, <1>3, <2>2 DEF Stays, Steps
    <3> QED BY <2>2, <3>1, <3>2 DEF Inserted
  <2> QED BY <2>1, <2>2
<1>4. ASSUME NEW q \in Procs, NEW h \in 1 .. Height(q)' PROVE Stays(p, q, h) \/ (q = p /\ h >= Height(p))
  BY <1>1, <1>2, <1>4 DEF Stays, Steps, Kept
<1> QED BY <1>1, <1>2, <1>3, <1>4

LEMMA OneConfKept ==
  ASSUME CInv, NEW p \in Procs, Steps(p),
         \A h \in 1 .. Height(p)' : h >= Height(p) /\ Frame(p, h)'.k = "conf" =>
           \/ Height(p) = 0
           \/ \A t : t = Frame(p, Height(p)) => t.k = "conf" /\ t.l = Frame(p, h)'.l
           \/ \A l : l = Frame(p, h)'.l => l \in Loaders /\ mod[l] # "new",
         \A g, h \in 1 .. Height(p)' : g >= Height(p) /\ h >= Height(p)
           /\ Frame(p, g)'.k = "conf" /\ Frame(p, h)'.k = "conf" => g = h
  PROVE  OneConf'
<1> SUFFICES ASSUME NEW q \in Procs, NEW g \in 1 .. Height(q)', NEW h \in 1 .. Height(q)',
                    Frame(q, g)'.k = "conf", Frame(q, h)'.k = "conf", Frame(q, g)'.l = Frame(q, h)'.l
             PROVE  g = h
  BY DEF OneConf, Frames
<1>1. ASSUME NEW i \in 1 .. Height(p)', NEW j, Stays(p, p, j), i >= Height(p),
             Frame(p, i)'.k = "conf", Frame(p, j).k = "conf", Frame(p, i)'.l = Frame(p, j).l
      PROVE  FALSE
  <2>1. Height(p) \in Nat /\ j \in 1 .. Height(p) /\ j < Height(p) /\ Height(p) \in 1 .. Height(p)
    BY <1>1, StayingCalls DEF Stays
  <2>2. CASE \A t : t = Frame(p, Height(p)) => t.k = "conf" /\ t.l = Frame(p, i)'.l
    <3>1. Frame(p, Height(p)).k = "conf" /\ Frame(p, Height(p)).l = Frame(p, j).l
      BY <1>1, <2>2
    <3> QED BY <1>1, <2>1, <3>1 DEF CInv, OneConf, Frames
  <2>3. CASE \A l : l = Frame(p, i)'.l => l \in Loaders /\ mod[l] # "new"
    <3>1. Sound(p, j)
      BY <2>1 DEF CInv, Relies, Frames
    <3> QED BY <1>1, <2>3, <3>1 DEF Sound, ConfOk
  <2> QED BY <1>1, <2>1, <2>2, <2>3
<1>2. CASE Stays(p, q, g) /\ Stays(p, q, h)
  BY <1>2, StayingCalls DEF CInv, OneConf, Frames
<1>3. CASE Stays(p, q, g) /\ q = p /\ h >= Height(p)
  <2>1. Frame(p, g)' = Frame(p, g)
    BY <1>3, StayingCalls
  <2> QED BY <1>1, <1>3, <2>1
<1>4. CASE Stays(p, q, h) /\ q = p /\ g >= Height(p)
  <2>1. Frame(p, h)' = Frame(p, h)
    BY <1>4, StayingCalls
  <2> QED BY <1>1, <1>4, <2>1
<1>5. CASE q = p /\ g >= Height(p) /\ h >= Height(p)
  BY <1>5
<1> QED BY <1>2, <1>3, <1>4, <1>5, StayingCalls

LEMMA OneCloseKept ==
  ASSUME CInv, NEW p \in Procs, Steps(p),
         \A h \in 1 .. Height(p)' : h >= Height(p) /\ Frame(p, h)'.k = "close" =>
           \/ Height(p) = 0
           \/ \A t : t = Frame(p, Height(p)) => t.k = "close" /\ t.o = Frame(p, h)'.o
           \/ \A g \in 1 .. Height(p) : Frame(p, g).k = "close" => Frame(p, g).o # Frame(p, h)'.o,
         \A g, h \in 1 .. Height(p)' : g >= Height(p) /\ h >= Height(p)
           /\ Frame(p, g)'.k = "close" /\ Frame(p, h)'.k = "close" => g = h
  PROVE  OneClose'
<1> SUFFICES ASSUME NEW q \in Procs, NEW g \in 1 .. Height(q)', NEW h \in 1 .. Height(q)',
                    Frame(q, g)'.k = "close", Frame(q, h)'.k = "close", Frame(q, g)'.o = Frame(q, h)'.o
             PROVE  g = h
  BY DEF OneClose, Frames
<1>1. ASSUME NEW i \in 1 .. Height(p)', NEW j, Stays(p, p, j), i >= Height(p),
             Frame(p, i)'.k = "close", Frame(p, j).k = "close", Frame(p, i)'.o = Frame(p, j).o
      PROVE  FALSE
  <2>1. Height(p) \in Nat /\ j \in 1 .. Height(p) /\ j < Height(p) /\ Height(p) \in 1 .. Height(p)
    BY <1>1, StayingCalls DEF Stays
  <2>2. CASE \A t : t = Frame(p, Height(p)) => t.k = "close" /\ t.o = Frame(p, i)'.o
    <3>1. Frame(p, Height(p)).k = "close" /\ Frame(p, Height(p)).o = Frame(p, j).o
      BY <1>1, <2>2
    <3> QED BY <1>1, <2>1, <3>1 DEF CInv, OneClose, Frames
  <2> QED BY <1>1, <2>1, <2>2
<1>2. CASE Stays(p, q, g) /\ Stays(p, q, h)
  BY <1>2, StayingCalls DEF CInv, OneClose, Frames
<1>3. CASE Stays(p, q, g) /\ q = p /\ h >= Height(p)
  <2>1. Frame(p, g)' = Frame(p, g)
    BY <1>3, StayingCalls
  <2> QED BY <1>1, <1>3, <2>1
<1>4. CASE Stays(p, q, h) /\ q = p /\ g >= Height(p)
  <2>1. Frame(p, h)' = Frame(p, h)
    BY <1>4, StayingCalls
  <2> QED BY <1>1, <1>4, <2>1
<1>5. CASE q = p /\ g >= Height(p) /\ h >= Height(p)
  BY <1>5
<1> QED BY <1>2, <1>3, <1>4, <1>5, StayingCalls

\* No administrator appears but where there was one.
LEMMA OneAdminKept ==
  ASSUME CInv, NEW p \in Procs, Steps(p),
         Height(p) <= 1 /\ Height(p)' > 0 /\ Frame(p, 1)'.k \in {"insmod", "rmmod"} /\ p \in Pool => Administers(p)
  PROVE  OneAdmin'
<1>1. ASSUME NEW q \in Pool, Administers(q)' PROVE Administers(q)
  <2>1. q \in Procs
    BY DEF Procs
  <2>2. CASE Stays(p, q, 1)
    <3>1. Frame(q, 1)' = Frame(q, 1) /\ 1 \in 1 .. Height(q) /\ Height(q) \in Nat
      BY <2>1, <2>2, StayingCalls
    <3> QED BY <1>1, <3>1 DEF Administers
  <2>3. CASE q = p /\ 1 >= Height(p)
    BY <1>1, <2>3, StayingCalls DEF Administers
  <2>4. 1 \in 1 .. Height(q)'
    BY <1>1, <2>1, StayingCalls DEF Administers
  <2> QED BY <2>1, <2>2, <2>3, <2>4, StayingCalls
<1> QED BY <1>1 DEF CInv, OneAdmin

LEMMA PhasesKept ==
  ASSUME CInv, NEW p \in Procs, Steps(p), Height(p) > 0, main' = main
  PROVE  Phases'
<1>1. \A q \in Procs \ {p} : Height(q)' = Height(q)
  BY DEF Steps, Kept
<1>2. Main \in Procs /\ Pool \subseteq Procs /\ Main \notin Pool
  BY ModuleAssumption DEF Procs
<1>3. p = Main \/ p \in Pool
  BY DEF Procs
<1>4. CASE p = Main
  <2>1. main.pc # "run"
    BY <1>4 DEF CInv, Phases
  <2> QED BY <1>1, <1>2, <1>4, <2>1 DEF CInv, Phases
<1>5. CASE p \in Pool
  <2>1. main.pc = "run"
    BY <1>5 DEF CInv, Phases
  <2> QED BY <1>1, <1>2, <1>5, <2>1 DEF CInv, Phases
<1> QED BY <1>3, <1>4, <1>5

\* A module that is new has been so, and its configuration still runs.
LEMMA ConfiguredKept ==
  ASSUME CInv, NEW p \in Procs, Steps(p),
         \A l \in Loaders : mod'[l] = "new" =>
           \/ /\ name'[l] \notin Broken /\ owner'[l] \in Procs
              /\ \E h \in 1 .. Height(p)' : owner'[l] = p /\ Frame(p, h)'.k = "conf" /\ Frame(p, h)'.l = l
           \/ /\ mod[l] = "new" /\ owner'[l] = owner[l] /\ name'[l] = name[l]
              /\ \A h : h = Height(p) /\ h > 0 /\ Frame(p, h).k = "conf" /\ Frame(p, h).l = l =>
                   h <= Height(p)' /\ Frame(p, h)'.k = "conf" /\ Frame(p, h)'.l = l
  PROVE  Configured'
<1> SUFFICES ASSUME NEW l \in Loaders, mod'[l] = "new"
             PROVE  /\ name'[l] \notin Broken /\ owner'[l] \in Procs
                    /\ \E h \in 1 .. Height(owner[l])' : Frame(owner[l], h)'.k = "conf" /\ Frame(owner[l], h)'.l = l
  BY DEF Configured, Frames
<1>1. CASE /\ name'[l] \notin Broken /\ owner'[l] \in Procs
           /\ \E h \in 1 .. Height(p)' : owner'[l] = p /\ Frame(p, h)'.k = "conf" /\ Frame(p, h)'.l = l
  <2>1. \A q : q = p => \E h \in 1 .. Height(q)' : Frame(q, h)'.k = "conf" /\ Frame(q, h)'.l = l
    BY <1>1
  <2> QED BY <1>1 DEF Height, Frame
<1>2. CASE /\ mod[l] = "new" /\ owner'[l] = owner[l] /\ name'[l] = name[l]
           /\ \A h : h = Height(p) /\ h > 0 /\ Frame(p, h).k = "conf" /\ Frame(p, h).l = l =>
                h <= Height(p)' /\ Frame(p, h)'.k = "conf" /\ Frame(p, h)'.l = l
  <2>1. PICK q \in Procs : q = owner[l] /\ \E h \in 1 .. Height(q) : Frame(q, h).k = "conf" /\ Frame(q, h).l = l
    BY <1>2 DEF CInv, Configured, Frames
  <2>2. PICK h \in 1 .. Height(q) : Frame(q, h).k = "conf" /\ Frame(q, h).l = l
    BY <2>1
  <2>3. h \in 1 .. Height(q)' /\ Frame(q, h)'.k = "conf" /\ Frame(q, h)'.l = l
    <3>1. CASE Stays(p, q, h)
      BY <2>2, <3>1, StayingCalls
    <3>2. CASE ~Stays(p, q, h)
      <4>1. q = p /\ h = Height(p)
        BY <2>2, <3>2, StayingCalls DEF Stays
      <4> QED BY <1>2, <2>2, <4>1, StayingCalls
    <3> QED BY <3>1, <3>2
  <2>4. name'[l] \notin Broken /\ owner'[l] = q
    BY <1>2, <2>1 DEF CInv, Configured
  <2>5. \E i \in 1 .. Height(q)' : Frame(q, i)'.k = "conf" /\ Frame(q, i)'.l = l
    BY <2>3
  <2> QED BY <2>4, <2>5 DEF Height, Frame
<1> QED BY <1>1, <1>2

(* Where the calls that involve the kernel can be.                           *)
LEMMA CallFacts ==
  ASSUME CInv, NEW p \in Procs, NEW h \in 1 .. Height(p)
  PROVE  /\ Shape(Frame(p, h)) /\ Sound(p, h)
         /\ Height(p) \in Nat /\ Height(p) > 0 /\ 1 \in 1 .. Height(p)
         /\ h = 1 => Bottom(p, Frame(p, h))
         /\ h > 1 => /\ Under(Frame(p, h), Frame(p, h - 1)) /\ h - 1 \in 1 .. Height(p)
                     /\ Shape(Frame(p, h - 1)) /\ Sound(p, h - 1)
<1>1. Height(p) \in Nat
  BY Heights DEF CInv
<1>2. h > 1 => h - 1 \in 1 .. Height(p)
  BY <1>1
<1> QED BY <1>1, <1>2 DEF CInv, Calling, Relies, Frames

LEMMA Exclusive == ASSUME CInv, Height(Main) > 0, NEW p \in Pool PROVE Height(p) = 0
  BY DEF CInv, Phases

LEMMA RmmodCalls ==
  ASSUME CInv, NEW p \in Procs, NEW h \in 1 .. Height(p), Frame(p, h).k = "rmmod"
  PROVE  h = 1 /\ p \in Pool /\ Administers(p)
<1>1. h = 1
  BY CallFacts DEF Under
<1>2. Bottom(p, Frame(p, 1))
  BY <1>1, CallFacts
<1> QED BY <1>1, <1>2, CallFacts DEF Bottom, Procs, Administers

LEMMA KernelConf ==
  ASSUME CInv, NEW p \in Procs, NEW h \in 1 .. Height(p), Frame(p, h).k = "conf", Frame(p, h).l = Kernel
  PROVE  h = 1 /\ p = Main
<1>1. h = 1
  BY CallFacts DEF Under
<1> QED BY <1>1, CallFacts DEF Bottom, Procs

LEMMA KernelClose ==
  ASSUME CInv, NEW p \in Procs, NEW h \in 1 .. Height(p), Frame(p, h).k = "close", Frame(p, h).o = Kernel
  PROVE  h = 1 /\ p = Main
<1>1. h = 1
  <2> SUFFICES ASSUME h > 1 PROVE FALSE
    OBVIOUS
  <2>1. Closes(Frame(p, h - 1), Kernel) /\ Shape(Frame(p, h - 1))
    BY CallFacts DEF Under
  <2> QED BY <2>1, ModuleAssumption DEF Closes, Shape
<1> QED BY <1>1, CallFacts DEF Bottom, Procs, Loading

LEMMA KernelInsmod ==
  ASSUME CInv, NEW p \in Procs, NEW h \in 1 .. Height(p), Frame(p, h).k = "insmod"
  PROVE  /\ Frame(p, h).o = Kernel /\ p \in Pool => h = 1 /\ Administers(p)
         /\ Frame(p, h).o = Kernel /\ p = Main => h = 2 /\ Frame(p, 1).k = "conf"
         /\ Frame(p, h).o # Kernel =>
              h > 1 /\ h - 1 \in 1 .. Height(p) /\ Frame(p, h - 1).k = "conf" /\ Frame(p, h - 1).l = Frame(p, h).o
<1>1. CASE h = 1
  BY <1>1, CallFacts DEF Bottom, Procs, Administers
<1>2. CASE h > 1
  <2>1. h - 1 \in 1 .. Height(p) /\ Frame(p, h - 1).k = "conf" /\ Frame(p, h - 1).l = Frame(p, h).o
    BY <1>2, CallFacts DEF Under
  <2>2. ASSUME Frame(p, h).o = Kernel PROVE p = Main /\ h - 1 = 1
    BY <2>1, <2>2, KernelConf
  <2>3. Frame(p, h).o = Kernel => p = Main /\ h = 2
    BY <2>2
  <2> QED BY <1>2, <2>1, <2>3, ModuleAssumption
<1> QED BY <1>1, <1>2

(* Only one process closes modules at a time, and in the pool that is rmmod.  *)
LEMMA EndingCalls ==
  ASSUME CInv, NEW p \in Procs, NEW h \in 1 .. Height(p), Frame(p, h).k \in Ending
  PROVE  p \in Pool => Frame(p, 1).k = "rmmod" /\ Administers(p)
<1> SUFFICES ASSUME p \in Pool PROVE Frame(p, 1).k = "rmmod" /\ Administers(p)
  OBVIOUS
<1>1. 1 \in 1 .. Height(p) /\ Height(p) > 0
  BY CallFacts
<1>2. Frame(p, 1).k \notin Loading
  BY <1>1 DEF CInv, Calling, Frames
<1>3. Bottom(p, Frame(p, 1))
  BY <1>1, CallFacts
<1> QED BY <1>1, <1>2, <1>3 DEF Bottom, Administers

LEMMA OneCloses ==
  ASSUME CInv, NEW p \in Procs, NEW h \in 1 .. Height(p), Frame(p, h).k \in Ending,
         NEW q \in Procs, NEW g \in 1 .. Height(q), Frame(q, g).k \in Ending
  PROVE  p = q
<1>1. Height(p) > 0 /\ Height(q) > 0
  BY CallFacts
<1>2. CASE p \in Pool /\ q \in Pool
  BY <1>2, EndingCalls DEF CInv, OneAdmin
<1> QED BY <1>1, <1>2, Exclusive DEF Procs

(* One call at a time inserts modules into the list of an owner.              *)
LEMMA ConfsDiffer ==
  ASSUME CInv, NEW p \in Procs, NEW h \in 1 .. Height(p), NEW q \in Procs, NEW g \in 1 .. Height(q),
         Frame(p, h).k = "conf", Frame(q, g).k = "conf", Frame(p, h).l = Frame(q, g).l
  PROVE  p = q /\ h = g
<1>1. CASE Frame(p, h).l = Kernel
  BY <1>1, KernelConf
<1>2. CASE Frame(p, h).l # Kernel
  <2>1. Frame(p, h).l \in Loaders
    BY <1>2, CallFacts DEF Shape, Owners
  <2>2. p = q
    <3>1. Sound(p, h)
      BY CallFacts
    <3>2. Sound(q, g)
      BY CallFacts
    <3>3. owner[Frame(p, h).l] = p
      BY <2>1, <3>1 DEF Sound, ConfOk
    <3>4. owner[Frame(p, h).l] = q
      BY <2>1, <3>2 DEF Sound, ConfOk
    <3> QED BY <3>3, <3>4
  <2> QED BY <2>2 DEF CInv, OneConf, Frames
<1> QED BY <1>1, <1>2

LEMMA InsmodsDiffer ==
  ASSUME CInv, NEW p \in Procs, NEW h \in 1 .. Height(p), NEW q \in Procs, NEW g \in 1 .. Height(q),
         Frame(p, h).k = "insmod", Frame(q, g).k = "insmod", Frame(p, h).o = Frame(q, g).o
  PROVE  p = q /\ h = g
<1>1. CASE Frame(p, h).o = Kernel
  <2>a. p \in Pool => h = 1 /\ Administers(p)
    BY <1>1, KernelInsmod
  <2>b. q \in Pool => g = 1 /\ Administers(q)
    BY <1>1, KernelInsmod
  <2>c. p = Main => h = 2
    BY <1>1, KernelInsmod
  <2>d. q = Main => g = 2
    BY <1>1, KernelInsmod
  <2>1. CASE p \in Pool /\ q \in Pool
    BY <2>1, <2>a, <2>b DEF CInv, OneAdmin
  <2>2. CASE p = Main /\ q = Main
    BY <2>2, <2>c, <2>d
  <2> QED BY <2>1, <2>2, Exclusive, CallFacts DEF Procs
<1>2. CASE Frame(p, h).o # Kernel
  <2>1. p = q /\ h - 1 = g - 1
    BY <1>2, KernelInsmod, ConfsDiffer
  <2> QED BY <2>1
<1> QED BY <1>1, <1>2

\* ... and none while rmmod takes one out of it, or while it is closed.
LEMMA InsmodNoRmmod ==
  ASSUME CInv, NEW p \in Procs, NEW h \in 1 .. Height(p), NEW q \in Procs, NEW g \in 1 .. Height(q),
         Frame(p, h).k = "insmod", Frame(p, h).o = Kernel, Frame(q, g).k = "rmmod"
  PROVE  FALSE
<1>1. g = 1 /\ q \in Pool /\ Administers(q) /\ Height(q) > 0
  BY RmmodCalls, CallFacts
<1>2. CASE p = Main
  BY <1>1, <1>2, Exclusive, CallFacts
<1>3. CASE p \in Pool
  BY <1>1, <1>3, KernelInsmod DEF CInv, OneAdmin
<1> QED BY <1>2, <1>3 DEF Procs

LEMMA ConfNoClose ==
  ASSUME CInv, NEW p \in Procs, NEW h \in 1 .. Height(p), NEW q \in Procs, NEW g \in 1 .. Height(q),
         Frame(p, h).k = "conf", Frame(q, g).k = "close", Frame(p, h).l = Frame(q, g).o
  PROVE  FALSE
<1>1. CASE Frame(p, h).l = Kernel
  <2>1. p = Main /\ q = Main /\ h = 1 /\ g = 1
    BY <1>1, KernelConf, KernelClose
  <2> QED BY <2>1
<1>2. CASE Frame(p, h).l # Kernel
  <2>1. Frame(p, h).l \in Loaders
    BY <1>2, CallFacts DEF Shape, Owners
  <2> QED BY <2>1, CallFacts DEF Sound, ConfOk, CloseOk
<1> QED BY <1>1, <1>2

LEMMA InsmodNoClose ==
  ASSUME CInv, NEW p \in Procs, NEW h \in 1 .. Height(p), NEW q \in Procs, NEW g \in 1 .. Height(q),
         Frame(p, h).k = "insmod", Frame(q, g).k = "close", Frame(p, h).o = Frame(q, g).o
  PROVE  FALSE
<1>1. CASE Frame(p, h).o = Kernel
  <2>1. q = Main /\ g = 1 /\ Height(Main) > 0
    BY <1>1, KernelClose, CallFacts
  <2>2. p = Main
    BY <2>1, Exclusive, CallFacts DEF Procs
  <2>3. Frame(p, h).k \in Loading /\ Frame(p, g).k \in Ending
    BY <2>1, <2>2 DEF Loading, Ending
  <2> QED BY <2>1, <2>2, <2>3 DEF CInv, Calling, Frames
<1>2. CASE Frame(p, h).o # Kernel
  BY <1>2, KernelInsmod, ConfNoClose
<1> QED BY <1>1, <1>2

LEMMA RmmodNoKernelClose ==
  ASSUME CInv, NEW p \in Procs, NEW h \in 1 .. Height(p), NEW q \in Procs, NEW g \in 1 .. Height(q),
         Frame(p, h).k = "rmmod", Frame(q, g).k = "close", Frame(q, g).o = Kernel
  PROVE  FALSE
  BY RmmodCalls, KernelClose, Exclusive, CallFacts

\* The loader that insmod has made is in the list of the module it is for.
LEMMA InsertedListed ==
  ASSUME CInv, NEW p \in Procs, NEW h \in 1 .. Height(p), Inserted(p, h), Frame(p, h).k \in {"get", "conf"},
         Frame(p, h).l \in Loaders
  PROVE  /\ h - 1 \in 1 .. Height(p) /\ Frame(p, h - 1).k = "insmod" /\ Frame(p, h - 1).l = Frame(p, h).l
         /\ Frame(p, h - 1).o \in Loaders /\ Listed(Frame(p, h).l, Frame(p, h - 1).o)
<1>1. /\ h > 1 /\ h - 1 \in 1 .. Height(p) /\ Frame(p, h - 1).k = "insmod" /\ Frame(p, h - 1).o # Kernel
      /\ Gets(Frame(p, h - 1), Frame(p, h).l) /\ Shape(Frame(p, h - 1)) /\ Sound(p, h - 1)
  BY CallFacts DEF Inserted, Under
<1>2. Frame(p, h - 1).l = Frame(p, h).l /\ Frame(p, h - 1).o \in Loaders
  BY <1>1 DEF Gets, Shape, Owners
<1> QED BY <1>1, <1>2, ModuleAssumption DEF Sound, InsmodOk

\* get_module() is called on loaders that are in a list.
LEMMA GetListed ==
  ASSUME CInv, NEW p \in Procs, NEW h \in 1 .. Height(p), Frame(p, h).k = "get"
  PROVE  /\ Frame(p, h).l \in Loaders /\ mod[Frame(p, h).l] \notin {"gone", "leaked"}
         /\ \E o \in Owners : Listed(Frame(p, h).l, o)
<1>1. Frame(p, h).l \in Loaders /\ GetOk(p, h)
  BY CallFacts DEF Shape, Sound
<1>2. \E o \in Owners : Listed(Frame(p, h).l, o)
  BY <1>1, InsertedListed DEF GetOk, Owners
<1> QED BY <1>1, <1>2 DEF CInv, Lists

\* A call of get_module() is the innermost of its process.
LEMMA GetOnTop ==
  ASSUME CInv, NEW p \in Procs, NEW h \in 1 .. Height(p), Frame(p, h).k = "get"
  PROVE  h = Height(p)
<1> SUFFICES ASSUME h # Height(p) PROVE FALSE
  OBVIOUS
<1>1. h + 1 \in 1 .. Height(p) /\ h + 1 > 1 /\ h + 1 - 1 = h
  BY CallFacts
<1>2. Under(Frame(p, h + 1), Frame(p, h + 1 - 1))
  BY <1>1 DEF CInv, Calling, Frames
<1>3. Under(Frame(p, h + 1), Frame(p, h))
  BY <1>1, <1>2
<1> QED BY <1>3 DEF Under

LEMMA NotAwaited ==
  ASSUME CInv, NEW p, NEW l, ~Awaited(p, l), NEW q \in Procs \ {p}, NEW h \in 1 .. Height(q),
         Frame(q, h).k = "get"
  PROVE  Frame(q, h).l # l
<1>1. Height(q) \in Nat /\ DOMAIN stack[q] = 1 .. Height(q)
  BY Heights, CallFacts DEF CInv
<1>2. Height(q) + 1 - h \in DOMAIN stack[q]
  BY <1>1
<1> QED BY <1>2 DEF Awaited, Frame

(* What the other calls rely on and the other answers.                       *)
LEMMA ReliesKept ==
  ASSUME CInv, NEW p \in Procs, Steps(p),
         \A q \in Procs : \A h : Stays(p, q, h) => Sound(q, h)',
         \A h \in 1 .. Height(p)' : h >= Height(p) => Sound(p, h)'
  PROVE  Relies'
<1>1. ASSUME NEW q \in Procs, NEW h \in 1 .. Height(q)' PROVE Sound(q, h)'
  <2>1. CASE Stays(p, q, h)
    BY <2>1
  <2>2. CASE q = p /\ h >= Height(p)
    BY <2>2
  <2> QED BY <2>1, <2>2, StayingCalls
<1> QED BY <1>1 DEF Relies, Frames

LEMMA SoundKept ==
  ASSUME CInv, NEW p \in Procs, Steps(p),
         \A l \in Loaders : \A o \in Owners : Listed(l, o)' => Listed(l, o) \/ mod[l] = "gone",
         \A q \in Procs \ {p} : local'[q] = local[q],
         Height(p) > 1 => local'[p] = local[p],
         NEW q \in Procs, NEW h, Stays(p, q, h), NEW f, f = Frame(q, h),
         f.k = "conf" /\ f.l \in Loaders => mod'[f.l] = "new" /\ owner'[f.l] = q,
         f.k = "get" => \A o \in Owners : Listed(f.l, o) => Listed(f.l, o)',
         f.k = "insmod" /\ f.l # Kernel => Listed(f.l, f.o)',
         f.k = "close" => /\ f.o \in Loaders => mod'[f.o] # "new"
                          /\ \A l \in Loaders : Among(f.rest, l) => Listed(l, f.o)',
         f.k = "refs" => mod'[f.l] # "new" /\ owner'[f.l] = q,
         f.k = "rmmod" => IF f.pc = "deleted" THEN mod'[f.l] # "gone" ELSE Listed(f.l, Kernel)'
  PROVE  Sound(q, h)'
<1>1. /\ h \in 1 .. Height(q) /\ Frame(q, h)' = f
      /\ Inserted(q, h)' <=> Inserted(q, h)
  BY StayingCalls
<1>2. Shape(f) /\ Sound(q, h)
  BY <1>1, CallFacts
<1>3. Kernel \in Owners
  BY DEF Owners
<1>4. CASE f.k = "conf"
  <2>1. ASSUME f.l \in Loaders
        PROVE  Listed(f.l, Kernel)' \/ Inserted(q, h)' \/ \A o \in Owners : ~Listed(f.l, o)'
    <3>1. mod[f.l] = "new" /\ (Listed(f.l, Kernel) \/ Inserted(q, h) \/ \A o \in Owners : ~Listed(f.l, o))
      BY <1>2, <1>4, <2>1 DEF Sound, ConfOk
    <3>2. \A o \in Owners : Listed(f.l, o)' => Listed(f.l, o)
      BY <2>1, <3>1
    <3>3. Listed(f.l, Kernel) => \A o \in Owners : Listed(f.l, o) => o = Kernel
      BY <1>3, <2>1 DEF CInv, Lists
    <3> QED BY <1>1, <3>1, <3>2, <3>3
  <2> QED BY <1>1, <1>4, <2>1 DEF Sound, ConfOk
<1>5. CASE f.k = "get"
  BY <1>1, <1>2, <1>3, <1>5 DEF Sound, GetOk
<1>6. CASE f.k = "insmod"
  BY <1>1, <1>6 DEF Sound, InsmodOk
<1>7. CASE f.k = "close"
  BY <1>1, <1>2, <1>7 DEF Sound, CloseOk
<1>8. CASE f.k = "refs"
  BY <1>1, <1>8 DEF Sound, RefsOk
<1>9. CASE f.k = "rmmod"
  <2>1. f.pc = "closed" => local'[q] = f.l
    <3>1. f.pc = "closed" => local[q] = f.l
      BY <1>2, <1>9 DEF Sound, RmmodOk
    <3>2. q = p => Height(p) > 1
      BY <1>1, StayingCalls DEF Stays
    <3> QED BY <3>1, <3>2
  <2>2. f.pc = "deleted" => \A o \in Owners : ~Listed(f.l, o)'
    BY <1>2, <1>9 DEF Sound, RmmodOk, Shape
  <2> QED BY <1>1, <1>9, <2>1, <2>2 DEF Sound, RmmodOk
<1>10. CASE f.k = "unload"
  BY <1>1, <1>10 DEF Sound
<1> QED BY <1>2, <1>4, <1>5, <1>6, <1>7, <1>8, <1>9, <1>10 DEF Shape

LEMMA AnsweredKept ==
  ASSUME CInv, NEW p \in Procs, Steps(p),
         \A l \in Loaders : name'[l] = name[l] \/ mod[l] = "gone",
         \A l \in Loaders : mod'[l] = "new" => mod[l] = "new" \/ \E o \in Owners : Listed(l, o),
         \A q \in Procs \ {p} : ret'[q] = ret[q],
         \A h \in 1 .. Height(p)' : h = Height(p)' => Answers(p, Frame(p, h))',
         \A q \in Procs : \A l \in Loaders : ret'[q] = Ref(l) /\ mod'[l] = "new" => owner'[l] = q
  PROVE  Answered'
<1>1. ASSUME NEW q \in Procs \ {p}, Height(q)' > 0 PROVE Answers(q, Frame(q, Height(q)))'
  <2>1. Height(q)' = Height(q) /\ Height(q) \in Nat /\ \A h \in 1 .. Height(q) : Frame(q, h)' = Frame(q, h)
    BY <1>1, StayingCalls DEF Steps, Kept, Frames
  <2>2. PICK h \in 1 .. Height(q) : h = Height(q)
    BY <1>1, <2>1
  <2>3. PICK f : f = Frame(q, h) /\ f = Frame(q, h)'
    BY <2>1, <2>2
  <2>4. Answers(q, f) /\ Shape(f) /\ Sound(q, h)
    BY <1>1, <2>1, <2>2, <2>3, CallFacts DEF CInv, Answered
  <2>5. f.k = "insmod" /\ f.l # Kernel => name'[f.l] = name[f.l]
    <3>1. f.k = "insmod" /\ f.l # Kernel => f.l \in Loaders /\ f.o \in Owners /\ Listed(f.l, f.o)
      BY <2>3, <2>4 DEF Shape, Sound, InsmodOk, Owners
    <3> QED BY <3>1 DEF CInv, Lists
  <2>6. f.k = "rmmod" /\ f.pc = "deleted" => mod'[f.l] # "new"
    BY <2>3, <2>4 DEF Shape, Sound, RmmodOk, Answers
  <2>7. ret'[q] = ret[q]
    OBVIOUS
  <2>8. Answers(q, f)'
    BY <2>4, <2>5, <2>6, <2>7 DEF Answers
  <2>9. Frame(q, Height(q))' = f
    <3>1. \A i : i = Height(q)' => Frame(q, Height(q))' = Frame(q, i)'
      BY DEF Frame, Height
    <3> QED BY <2>1, <2>2, <2>3, <3>1
  <2> QED BY <2>8, <2>9 DEF Answers
<1>2. ASSUME Height(p)' > 0 PROVE Answers(p, Frame(p, Height(p)))'
  <2>1. PICK h \in 1 .. Height(p)' : h = Height(p)'
    BY <1>2, StayingCalls
  <2>2. \A i : i = Height(p)' => Frame(p, Height(p))' = Frame(p, i)'
    BY DEF Frame, Height
  <2>3. Frame(p, Height(p))' = Frame(p, h)' /\ Answers(p, Frame(p, h))'
    BY <2>1, <2>2
  <2> QED BY <2>3 DEF Answers
<1> QED BY <1>1, <1>2 DEF Answered

LEMMA WorksKept ==
  ASSUME CInv, uses' = uses,
         \A l \in Loaders : mod'[l] = "new" => mod[l] = "new" \/ ~Referenced(l),
         \A q \in Procs : local'[q] = local[q] \/ local'[q] \notin Loaders \/ mod'[local'[q]] # "new",
         \A q \in Pool : \A l \in uses[q] : l \in Loaders
  PROVE  Works'
<1>1. \A q \in Pool : \A l \in uses[q] : mod'[l] # "new"
  BY DEF CInv, Works, ConfiguredBeforeUse, Referenced, InJobs
<1>2. \A q \in Procs : local'[q] \in Loaders => mod'[local'[q]] # "new"
  BY DEF CInv, Works, Referenced, InLocals
<1> QED BY <1>1, <1>2 DEF Works, ConfiguredBeforeUse

(* The calls that leave the modules, their loaders and the lists alone.      *)
Leaves == /\ mod' = mod /\ modules' = modules /\ owner' = owner /\ name' = name /\ uses' = uses
          /\ main' = main

LEMMA PlainCalls ==
  ASSUME CInv, Functions', NEW p \in Procs, Steps(p), Leaves, Height(p) > 0,
         \A q \in Procs \ {p} : ret'[q] = ret[q] /\ local'[q] = local[q],
         Height(p) > 1 => local'[p] = local[p],
         local'[p] \in Loaders => mod[local'[p]] # "new",
         \A l \in Loaders : ret'[p] = Ref(l) /\ mod[l] = "new" => owner[l] = p,
         ret'[p].v = "ref" => ret'[p].l \in Loaders,
         \A h \in 1 .. Height(p)' : h >= Height(p) => Sound(p, h)',
         \A h \in 1 .. Height(p)' : h = Height(p)' => Answers(p, Frame(p, h))',
         \A h \in 1 .. Height(p)' : h >= Height(p) /\ Frame(p, h)'.k = "conf" =>
           \A t : t = Frame(p, Height(p)) => t.k = "conf" /\ t.l = Frame(p, h)'.l,
         \A g, h \in 1 .. Height(p)' : g >= Height(p) /\ h >= Height(p)
           /\ Frame(p, g)'.k = "conf" /\ Frame(p, h)'.k = "conf" => g = h,
         \A h : h = Height(p) /\ Frame(p, h).k = "conf" /\ Frame(p, h).l \in Loaders =>
           h <= Height(p)' /\ Frame(p, h)'.k = "conf" /\ Frame(p, h)'.l = Frame(p, h).l,
         \A h \in 1 .. Height(p)' : h >= Height(p) /\ Frame(p, h)'.k = "close" =>
           \/ \A t : t = Frame(p, Height(p)) => t.k = "close" /\ t.o = Frame(p, h)'.o
           \/ \A g \in 1 .. Height(p) : Frame(p, g).k = "close" => Frame(p, g).o # Frame(p, h)'.o,
         \A g, h \in 1 .. Height(p)' : g >= Height(p) /\ h >= Height(p)
           /\ Frame(p, g)'.k = "close" /\ Frame(p, h)'.k = "close" => g = h,
         Height(p) = 1 /\ Height(p)' > 0 /\ Frame(p, 1)'.k \in {"insmod", "rmmod"} =>
           Frame(p, 1).k \in {"insmod", "rmmod"}
  PROVE  CInv'
<1>0. Height(p) \in Nat /\ Height(p)' \in Nat
  BY StayingCalls
<1>1. Stacks' /\ Calling'
  BY DEF Steps
<1>2. Phases'
  BY PhasesKept DEF Leaves
<1>3. OneAdmin'
  <2>1. Height(p) <= 1 => Height(p) = 1
    BY <1>0
  <2> QED BY <2>1, OneAdminKept DEF Administers
<1>4. OneConf'
  BY OneConfKept
<1>5. OneClose'
  BY OneCloseKept
<1>6. \A l \in Loaders : \A o \in Owners : Listed(l, o)' <=> Listed(l, o)
  BY DEF Leaves, Listed
<1>7. Typed' /\ Lists'
  <2>1. \A q \in Procs : ret'[q].v = "ref" => ret'[q].l \in Loaders
    BY DEF CInv, Typed
  <2>2. Typed'
    BY <2>1 DEF CInv, Typed, Leaves
  <2>3. Lists'
    BY <1>6 DEF CInv, Lists, Leaves
  <2> QED BY <2>2, <2>3
<1>8. Configured'
  BY <1>0, ConfiguredKept DEF Leaves
<1>9. Relies'
  <2>1. ASSUME NEW q \in Procs, NEW h, Stays(p, q, h) PROVE Sound(q, h)'
    <3>1. PICK f : f = Frame(q, h)
      OBVIOUS
    <3>2. h \in 1 .. Height(q)
      BY <2>1, StayingCalls
    <3>3. Sound(q, h) /\ Shape(f)
      BY <3>1, <3>2, CallFacts
    <3>4. /\ f.k = "conf" /\ f.l \in Loaders => mod'[f.l] = "new" /\ owner'[f.l] = q
          /\ f.k = "refs" => mod'[f.l] # "new" /\ owner'[f.l] = q
      BY <3>1, <3>3 DEF Leaves, Sound, ConfOk, RefsOk
    <3>5. /\ f.k = "get" => \A o \in Owners : Listed(f.l, o) => Listed(f.l, o)'
          /\ f.k = "insmod" /\ f.l # Kernel => Listed(f.l, f.o)'
      BY <1>6, <3>1, <3>3 DEF Sound, InsmodOk, Shape, Owners
    <3>6. /\ f.k = "close" => /\ f.o \in Loaders => mod'[f.o] # "new"
                              /\ \A l \in Loaders : Among(f.rest, l) => Listed(l, f.o)'
          /\ f.k = "rmmod" => IF f.pc = "deleted" THEN mod'[f.l] # "gone" ELSE Listed(f.l, Kernel)'
      BY <1>6, <3>1, <3>3 DEF Leaves, Sound, CloseOk, RmmodOk, Shape, Owners
    <3> QED BY <1>6, <2>1, <3>1, <3>4, <3>5, <3>6, SoundKept
  <2> QED BY <2>1, ReliesKept
<1>10. Answered'
  <2>1. \A q \in Procs : \A l \in Loaders : ret'[q] = Ref(l) /\ mod'[l] = "new" => owner'[l] = q
    BY DEF CInv, Answered, Leaves
  <2>2. /\ \A l \in Loaders : name'[l] = name[l] \/ mod[l] = "gone"
        /\ \A l \in Loaders : mod'[l] = "new" => mod[l] = "new" \/ \E o \in Owners : Listed(l, o)
    BY DEF Leaves
  <2> QED BY <2>1, <2>2, AnsweredKept
<1>11. Works'
  <2>1. uses' = uses /\ mod' = mod /\ \A q \in Pool : \A l \in uses[q] : l \in Loaders
    BY DEF CInv, Typed, Leaves
  <2>2. \A q \in Procs : local'[q] = local[q] \/ local'[q] \notin Loaders \/ mod'[local'[q]] # "new"
    BY <2>1
  <2> QED BY <2>1, <2>2, WorksKept
<1> QED BY <1>1, <1>2, <1>3, <1>4, <1>5, <1>7, <1>8, <1>9, <1>10, <1>11 DEF CInv

\* A call that ends, other than the configuration of a module.
LEMMA PlainPop ==
  ASSUME CInv, Functions', NEW p \in Procs, Pops(p), Leaves,
         ~(Top(p).k = "conf" /\ Top(p).l \in Loaders),
         \A q \in Procs \ {p} : ret'[q] = ret[q] /\ local'[q] = local[q],
         Height(p) > 1 => local'[p] = local[p],
         local'[p] \in Loaders => mod[local'[p]] # "new",
         \A l \in Loaders : ret'[p] = Ref(l) /\ mod[l] = "new" => owner[l] = p,
         ret'[p].v = "ref" => ret'[p].l \in Loaders,
         \A h \in 1 .. Height(p) - 1 : h = Height(p) - 1 => Answers(p, Frame(p, h))'
  PROVE  CInv'
<1>1. Steps(p) /\ Height(p) > 0
  <2>1. Height(p) \in Nat /\ Stacks /\ Calling
    BY Heights DEF CInv
  <2> QED BY <2>1, PopsCalling DEF Pops, Steps
<1>2. Height(p) \in Nat /\ Height(p)' = Height(p) - 1
  BY <1>1, StayingCalls DEF Pops
<1>3. \A h \in 1 .. Height(p)' : ~(h >= Height(p))
  BY <1>2
<1>4. \A h : h = Height(p) => ~(Frame(p, h).k = "conf" /\ Frame(p, h).l \in Loaders)
  BY <1>1, Heights DEF CInv
<1>5. \A h \in 1 .. Height(p)' : h = Height(p)' => Answers(p, Frame(p, h))'
  BY <1>2
<1>6. ~(Height(p) = 1 /\ Height(p)' > 0)
  BY <1>2
<1> QED BY <1>1, <1>3, <1>4, <1>5, <1>6, PlainCalls

\* A call that goes on.
LEMMA PlainSwap ==
  ASSUME CInv, Functions', NEW p \in Procs, NEW b, Swaps(p, b), Leaves, Shape(b), b.k = Top(p).k,
         b.k = "conf" => b.l = Top(p).l,
         b.k = "close" => b.o = Top(p).o,
         Height(p) = 1 => Bottom(p, b),
         Height(p) > 1 => Under(b, Frame(p, Height(p) - 1)),
         \A q \in Procs \ {p} : ret'[q] = ret[q] /\ local'[q] = local[q],
         Height(p) > 1 => local'[p] = local[p],
         local'[p] \in Loaders => mod[local'[p]] # "new",
         \A l \in Loaders : ret'[p] = Ref(l) /\ mod[l] = "new" => owner[l] = p,
         ret'[p].v = "ref" => ret'[p].l \in Loaders,
         \A h : h = Height(p) => Sound(p, h)',
         Answers(p, b)'
  PROVE  CInv'
<1>0. Height(p) \in Nat /\ Height(p) > 0 /\ Height(p)' = Height(p) /\ Stacks /\ Calling
  BY Heights DEF CInv, Swaps
<1>1. Steps(p)
  <2>1. Top(p) = Frame(p, Height(p))
    BY <1>0, Heights
  <2>2. Stacks' /\ Calling'
    BY <1>0, <2>1, SwapsCalling
  <2> QED BY <1>0, <2>2 DEF Swaps, Steps
<1>2. \A h \in 1 .. Height(p)' : h >= Height(p) => h = Height(p) /\ Frame(p, h)' = b
  BY <1>0 DEF Swaps
<1>3. /\ \A t : t = Frame(p, Height(p)) => t = Top(p)
      /\ \A h : h = Height(p) => Frame(p, h) = Top(p) /\ Frame(p, h)' = b
  BY <1>0, Heights DEF Swaps
<1>4. \A h \in 1 .. Height(p)' : h = Height(p)' => Answers(p, Frame(p, h))'
  <2> SUFFICES ASSUME NEW h \in 1 .. Height(p)', h = Height(p)' PROVE Answers(p, Frame(p, h))'
    OBVIOUS
  <2>1. Frame(p, h)' = b
    BY <1>0, <1>3
  <2> QED BY <2>1 DEF Answers
<1> QED BY <1>0, <1>1, <1>2, <1>3, <1>4, PlainCalls

\* A call that calls another.
LEMMA PlainCall ==
  ASSUME CInv, Functions', NEW p \in Procs, NEW a, NEW b, Calls2(p, b, a), Leaves,
         Shape(a), Shape(b), Under(a, b), b.k = Top(p).k, b.k = "conf" => b.l = Top(p).l,
         b.k = "close" => b.o = Top(p).o /\ a.k # "close",
         a.k # "conf",
         a.k = "close" => \A g \in 1 .. Height(p) : Frame(p, g).k = "close" => Frame(p, g).o # a.o,
         Height(p) = 1 => Bottom(p, b),
         Height(p) > 1 => Under(b, Frame(p, Height(p) - 1)),
         a.k \in Loading => b.k \in Loading \cup {"rmmod"},
         a.k \in Ending => b.k \in Ending \cup {"rmmod"},
         \A q \in Procs \ {p} : ret'[q] = ret[q] /\ local'[q] = local[q],
         Height(p) > 1 => local'[p] = local[p],
         local'[p] \in Loaders => mod[local'[p]] # "new",
         \A l \in Loaders : ret'[p] = Ref(l) /\ mod[l] = "new" => owner[l] = p,
         ret'[p].v = "ref" => ret'[p].l \in Loaders,
         \A h : h = Height(p) => Sound(p, h)' /\ Sound(p, h + 1)',
         Answers(p, a)'
  PROVE  CInv'
<1>0. Height(p) \in Nat /\ Height(p) > 0 /\ Height(p)' = Height(p) + 1 /\ Stacks /\ Calling
  BY Heights DEF CInv, Calls2
<1>a. Height(p) \in 1 .. Height(p) /\ Top(p) = Frame(p, Height(p))
  BY <1>0, Heights
<1>b. Height(p) > 1 => b.k # "rmmod"
  BY <1>a, RmmodCalls
<1>1. Steps(p)
  <2>1. /\ b.k \in Loading => a.k \notin Ending
        /\ b.k \in Ending => a.k \notin Loading
    BY DEF Loading, Ending
  <2>2. Stacks' /\ Calling'
    BY <1>0, <1>a, <1>b, <2>1, CallsCalling
  <2> QED BY <1>0, <2>2 DEF Calls2, Steps
<1>2. \A h : h = Height(p) => Frame(p, h)' = b /\ Frame(p, h + 1)' = a
  BY DEF Calls2
<1>3. ASSUME NEW h \in 1 .. Height(p)', h >= Height(p)
      PROVE  \/ h = Height(p) /\ Frame(p, h)' = b
             \/ h = Height(p) + 1 /\ Frame(p, h)' = a /\ h - 1 = Height(p) /\ h - 1 + 1 = h
  BY <1>0, <1>2, <1>3
<1>4. /\ \A t : t = Frame(p, Height(p)) => t = Top(p)
      /\ \A h : h = Height(p) => Frame(p, h) = Top(p) /\ Frame(p, h)' = b
  BY <1>2, <1>a
<1>5. \A h \in 1 .. Height(p)' : h = Height(p)' => Answers(p, Frame(p, h))'
  <2> SUFFICES ASSUME NEW h \in 1 .. Height(p)', h = Height(p)' PROVE Answers(p, Frame(p, h))'
    OBVIOUS
  <2>1. Frame(p, h)' = a
    BY <1>0, <1>3
  <2> QED BY <2>1 DEF Answers
<1>6. \A h \in 1 .. Height(p)' : h >= Height(p) => Sound(p, h)'
  <2> SUFFICES ASSUME NEW h \in 1 .. Height(p)', h >= Height(p) PROVE Sound(p, h)'
    OBVIOUS
  <2>1. CASE h = Height(p)
    BY <2>1
  <2>2. CASE h - 1 = Height(p) /\ h - 1 + 1 = h
    <3>1. Sound(p, h - 1 + 1)'
      BY <2>2
    <3> QED BY <2>2, <3>1
  <2> QED BY <1>3, <2>1, <2>2
<1>7. \A h \in 1 .. Height(p)' : h >= Height(p) /\ Frame(p, h)'.k = "conf" =>
        \A t : t = Frame(p, Height(p)) => t.k = "conf" /\ t.l = Frame(p, h)'.l
  BY <1>3, <1>4
<1>8. \A g, h \in 1 .. Height(p)' : g >= Height(p) /\ h >= Height(p)
           /\ Frame(p, g)'.k = "conf" /\ Frame(p, h)'.k = "conf" => g = h
  BY <1>3
<1>9. \A h : h = Height(p) /\ Frame(p, h).k = "conf" /\ Frame(p, h).l \in Loaders =>
           h <= Height(p)' /\ Frame(p, h)'.k = "conf" /\ Frame(p, h)'.l = Frame(p, h).l
  BY <1>0, <1>4
<1>10. \A h \in 1 .. Height(p)' : h >= Height(p) /\ Frame(p, h)'.k = "close" =>
           \/ \A t : t = Frame(p, Height(p)) => t.k = "close" /\ t.o = Frame(p, h)'.o
           \/ \A g \in 1 .. Height(p) : Frame(p, g).k = "close" => Frame(p, g).o # Frame(p, h)'.o
  BY <1>3, <1>4
<1>11. \A g, h \in 1 .. Height(p)' : g >= Height(p) /\ h >= Height(p)
           /\ Frame(p, g)'.k = "close" /\ Frame(p, h)'.k = "close" => g = h
  BY <1>3
<1>12. Height(p) = 1 /\ Height(p)' > 0 /\ Frame(p, 1)'.k \in {"insmod", "rmmod"} =>
           Frame(p, 1).k \in {"insmod", "rmmod"}
  BY <1>4
<1> QED BY <1>0, <1>1, <1>5, <1>6, <1>7, <1>8, <1>9, <1>10, <1>11, <1>12, PlainCalls

-----------------------------------------------------------------------------
LEMMA TopCall ==
  ASSUME CInv, NEW p \in Procs, stack[p] # <<>>
  PROVE  /\ Height(p) \in Nat /\ Height(p) > 0 /\ Height(p) \in 1 .. Height(p)
         /\ Top(p) = Frame(p, Height(p)) /\ Shape(Top(p)) /\ Sound(p, Height(p))
         /\ Height(p) = 1 => Bottom(p, Top(p))
         /\ Height(p) > 1 => /\ Under(Top(p), Frame(p, Height(p) - 1)) /\ Shape(Frame(p, Height(p) - 1))
                             /\ Height(p) - 1 \in 1 .. Height(p)
         /\ stack[p][1] = Top(p)
         /\ Answers(p, Top(p))
<1>1. Height(p) \in Nat /\ Height(p) > 0 /\ Height(p) \in 1 .. Height(p) /\ Top(p) = Frame(p, Height(p))
  BY Heights DEF CInv
<1>2. stack[p][1] = Top(p)
  BY <1>1 DEF Frame
<1>3. Answers(p, Top(p))
  BY <1>1 DEF CInv, Answered
<1> QED BY <1>1, <1>2, <1>3, CallFacts

\* A call relies on the same when it goes on.
LEMMA SameSound ==
  ASSUME CInv, NEW p \in Procs, stack[p] # <<>>, Kept(p), Leaves, NEW h, h = Height(p),
         Frame(p, h)' = Top(p) \/ (Frame(p, h)'.k = "conf" /\ Top(p).k = "conf" /\ Frame(p, h)'.l = Top(p).l),
         Top(p).k # "rmmod"
  PROVE  Sound(p, h)'
<1>1. Sound(p, h) /\ Top(p) = Frame(p, h) /\ h \in Nat /\ h > 0
  BY TopCall
<1>2. Inserted(p, h)' <=> Inserted(p, h)
  <2>1. h > 1 => h - 1 \in 1 .. Height(p) - 1
    BY <1>1
  <2>2. h > 1 => Frame(p, h - 1)' = Frame(p, h - 1)
    BY <2>1 DEF Kept
  <2> QED BY <2>2 DEF Inserted
<1>3. \A l, o : Listed(l, o)' <=> Listed(l, o)
  BY DEF Leaves, Listed
<1> QED BY <1>1, <1>2, <1>3 DEF Sound, ConfOk, GetOk, InsmodOk, CloseOk, RefsOk, Leaves

LEMMA GetLoadedCalls ==
  ASSUME CInv, Functions', NEW p \in Procs, GetLoaded(p) PROVE CInv'
<1> DEFINE l == Top(p).l
<1>1. stack[p] # <<>> /\ Top(p).k = "get" /\ Lockable(p, l) /\ ret' = [ret EXCEPT ![p] = Ref(l)]
  BY DEF GetLoaded, Calls
<1>2. Pops(p)
  BY <1>1, PopsTop DEF GetLoaded, CInv
<1>3. Leaves /\ local' = local
  BY DEF GetLoaded, Leaves
<1>4. l \in Loaders
  BY <1>1, TopCall DEF Shape
<1>5. ret'[p] = Ref(l) /\ \A q \in Procs \ {p} : ret'[q] = ret[q]
  <2>1. ret'[p] = [v |-> ret'[p].v, l |-> ret'[p].l] /\ ret' = [q \in Procs |-> [v |-> ret'[q].v, l |-> ret'[q].l]]
    BY DEF Functions
  <2> QED BY <1>1, <2>1
<1>6. mod[l] = "new" => owner[l] = p
  BY <1>1, <1>4, ModuleAssumption DEF CInv, Configured, Lockable, Procs
<1>7. ASSUME NEW h \in 1 .. Height(p) - 1, h = Height(p) - 1 PROVE Answers(p, Frame(p, h))'
  <2>1. Frame(p, h)' = Frame(p, h)
    BY <1>2, <1>7 DEF Pops, Kept
  <2>2. Gets(Frame(p, h), l)
    BY <1>1, <1>7, TopCall DEF Under
  <2> QED BY <1>4, <1>5, <2>1, <2>2, ModuleAssumption DEF Answers, Gets, Ref, NoRef
<1>8. local'[p] \in Loaders => mod[local'[p]] # "new"
  BY <1>3 DEF CInv, Works
<1>9. /\ \A x \in Loaders : ret'[p] = Ref(x) /\ mod[x] = "new" => owner[x] = p
      /\ ret'[p].v = "ref" => ret'[p].l \in Loaders
  BY <1>4, <1>5, <1>6 DEF Ref
<1> HIDE DEF l
<1> QED BY <1>1, <1>2, <1>3, <1>5, <1>7, <1>8, <1>9, PlainPop

LEMMA LoadFailsCalls ==
  ASSUME CInv, Functions', NEW p \in Procs, LoadFails(p) PROVE CInv'
<1> DEFINE l == Top(p).l
<1>1. stack[p] # <<>> /\ Top(p).k = "get" /\ name[l] \in Broken /\ ret' = [ret EXCEPT ![p] = NoRef]
  BY DEF LoadFails, Calls
<1>2. Pops(p)
  BY <1>1, PopsTop DEF LoadFails, CInv
<1>3. Leaves /\ local' = local
  BY DEF LoadFails, Leaves
<1>5. ret'[p] = NoRef /\ \A q \in Procs \ {p} : ret'[q] = ret[q]
  <2>1. ret' = [q \in Procs |-> [v |-> ret'[q].v, l |-> ret'[q].l]]
    BY DEF Functions
  <2> QED BY <1>1, <2>1
<1>7. ASSUME NEW h \in 1 .. Height(p) - 1, h = Height(p) - 1 PROVE Answers(p, Frame(p, h))'
  <2>1. Frame(p, h)' = Frame(p, h)
    BY <1>2, <1>7 DEF Pops, Kept
  <2>2. Gets(Frame(p, h), l)
    BY <1>1, <1>7, TopCall DEF Under
  <2>3. l # Kernel
    BY <1>1, TopCall, ModuleAssumption DEF Shape
  <2> QED BY <1>1, <1>3, <1>5, <2>1, <2>2, <2>3 DEF Answers, Gets, NoRef, Leaves
<1>8. local'[p] \in Loaders => mod[local'[p]] # "new"
  BY <1>3 DEF CInv, Works
<1>9. /\ \A x \in Loaders : ret'[p] = Ref(x) /\ mod[x] = "new" => owner[x] = p
      /\ ret'[p].v = "ref" => ret'[p].l \in Loaders
  BY <1>5 DEF Ref, NoRef
<1> HIDE DEF l
<1> QED BY <1>1, <1>2, <1>3, <1>5, <1>7, <1>8, <1>9, PlainPop

\* The fields of a call that goes on.
LEMMA RestOf ==
  ASSUME NEW f, NEW w, f = [k |-> f.k, l |-> f.l, rest |-> f.rest]
  PROVE  [f EXCEPT !.rest = w] = [k |-> f.k, l |-> f.l, rest |-> w]
<1> DEFINE g == [f EXCEPT !.rest = w]
<1>1. DOMAIN f = {"k", "l", "rest"}
  OBVIOUS
<1>2. g = [x \in DOMAIN f |-> IF x = "rest" THEN w ELSE f[x]]
  OBVIOUS
<1>3. DOMAIN g = {"k", "l", "rest"} /\ g.k = f.k /\ g.l = f.l /\ g.rest = w
  BY <1>1
<1> QED BY <1>1, <1>2, <1>3

LEMMA PcOf ==
  ASSUME NEW f, NEW w, f = [k |-> f.k, pc |-> f.pc, l |-> f.l]
  PROVE  [f EXCEPT !.pc = w] = [k |-> f.k, pc |-> w, l |-> f.l]
<1> DEFINE g == [f EXCEPT !.pc = w]
<1>1. DOMAIN f = {"k", "pc", "l"}
  OBVIOUS
<1>2. g = [x \in DOMAIN f |-> IF x = "pc" THEN w ELSE f[x]]
  OBVIOUS
<1>3. DOMAIN g = {"k", "pc", "l"} /\ g.k = f.k /\ g.pc = w /\ g.l = f.l
  BY <1>1
<1> QED BY <1>1, <1>2, <1>3

LEMMA LoaderOf ==
  ASSUME NEW f, NEW w, f = [k |-> f.k, o |-> f.o, name |-> f.name, l |-> f.l]
  PROVE  [f EXCEPT !.l = w] = [k |-> f.k, o |-> f.o, name |-> f.name, l |-> w]
<1> DEFINE g == [f EXCEPT !.l = w]
<1>1. DOMAIN f = {"k", "o", "name", "l"}
  OBVIOUS
<1>2. g = [x \in DOMAIN f |-> IF x = "l" THEN w ELSE f[x]]
  OBVIOUS
<1>3. DOMAIN g = {"k", "o", "name", "l"} /\ g.k = f.k /\ g.o = f.o /\ g.name = f.name /\ g.l = w
  BY <1>1
<1> QED BY <1>1, <1>2, <1>3

LEMMA RestDoneOf ==
  ASSUME NEW f, NEW v, NEW w, f = [k |-> f.k, o |-> f.o, rest |-> f.rest, done |-> f.done]
  PROVE  [f EXCEPT !.rest = v, !.done = w] = [k |-> f.k, o |-> f.o, rest |-> v, done |-> w]
<1> DEFINE g == [f EXCEPT !.rest = v, !.done = w]
<1>1. DOMAIN f = {"k", "o", "rest", "done"}
  OBVIOUS
<1>2. g = [x \in DOMAIN f |-> IF x = "rest" THEN v ELSE IF x = "done" THEN w ELSE f[x]]
  OBVIOUS
<1>3. DOMAIN g = {"k", "o", "rest", "done"} /\ g.k = f.k /\ g.o = f.o /\ g.rest = v /\ g.done = w
  BY <1>1
<1> QED BY <1>1, <1>2, <1>3

\* The next statement of a configuration.
LEMMA NextStatement ==
  ASSUME CInv, Functions', NEW p \in Procs, stack[p] # <<>>, Top(p).k = "conf", Leaves, local' = local,
         stack' = [stack EXCEPT ![p][1].rest = Tail(@)],
         ret' = ret \/ ret' = [ret EXCEPT ![p] = Nothing]
  PROVE  CInv'
<1>b. PICK b : b = [Top(p) EXCEPT !.rest = Tail(@)]
  OBVIOUS
<1>1. stack[p][1] = Top(p) /\ Top(p) = [k |-> Top(p).k, l |-> Top(p).l, rest |-> Top(p).rest] /\ Top(p).l \in Owners
  BY TopCall DEF Shape
<1>2. stack' = [stack EXCEPT ![p] = [@ EXCEPT ![1] = b]]
  BY <1>1, <1>b
<1>3. b = [k |-> b.k, l |-> b.l, rest |-> b.rest] /\ b.k = "conf" /\ b.l = Top(p).l
  <2>1. b = [k |-> Top(p).k, l |-> Top(p).l, rest |-> Tail(Top(p).rest)]
    BY <1>1, <1>b, RestOf
  <2> QED BY <2>1
<1>4. Swaps(p, b)
  BY <1>2, SwapsIn DEF CInv
<1>5. Shape(b) /\ (Height(p) = 1 => Bottom(p, b)) /\ (Height(p) > 1 => Under(b, Frame(p, Height(p) - 1)))
  <2>1. /\ Height(p) = 1 => Bottom(p, Top(p))
        /\ Height(p) > 1 => Under(Top(p), Frame(p, Height(p) - 1))
    BY TopCall
  <2> QED BY <1>1, <1>3, <2>1 DEF Shape, Bottom, Under
<1>6. ret'[p] \in {ret[p], Nothing} /\ \A q \in Procs \ {p} : ret'[q] = ret[q]
  <2>1. ret' = [q \in Procs |-> [v |-> ret'[q].v, l |-> ret'[q].l]]
    BY DEF Functions
  <2> QED BY <2>1
<1>7. ASSUME NEW h, h = Height(p) PROVE Sound(p, h)'
  <2>1. Frame(p, h)' = b
    BY <1>4, <1>7 DEF Swaps
  <2> QED BY <1>3, <1>4, <1>7, <2>1, SameSound DEF Swaps
<1>8. Answers(p, b)'
  BY <1>3 DEF Answers
<1>9. local'[p] \in Loaders => mod[local'[p]] # "new"
  BY DEF CInv, Works
<1>10. /\ \A x \in Loaders : ret'[p] = Ref(x) /\ mod[x] = "new" => owner[x] = p
       /\ ret'[p].v = "ref" => ret'[p].l \in Loaders
  BY <1>6 DEF Ref, Nothing, CInv, Typed, Answered
<1> QED BY <1>3, <1>4, <1>5, <1>6, <1>7, <1>8, <1>9, <1>10, PlainSwap

LEMMA ConfGotRefCalls ==
  ASSUME CInv, Functions', NEW p \in Procs, ConfGotRef(p) PROVE CInv'
  BY NextStatement DEF ConfGotRef, Calls, Leaves

\* get_module() on a loader that find_module() has found among the kernel's.
LEMMA GetFound ==
  ASSUME CInv, Functions', NEW p \in Procs, stack[p] # <<>>, Top(p).k = "conf", Leaves, local' = local, ret' = ret,
         NEW l \in Loaders, Listed(l, Kernel), GetModule(p, l)
  PROVE  CInv'
<1> DEFINE a == [k |-> "get", l |-> l]
<1>1. Calls2(p, Top(p), a)
  BY Pushes DEF GetModule, CInv
<1>2. a.k = "get" /\ a.l = l /\ Shape(a) /\ Under(a, Top(p))
  BY DEF Shape, Under, Gets
<1> HIDE DEF a
<1>3. ASSUME NEW h, h = Height(p) PROVE Sound(p, h)' /\ Sound(p, h + 1)'
  <2>1. Frame(p, h)' = Top(p) /\ Frame(p, h + 1)' = a
    BY <1>1, <1>3 DEF Calls2
  <2>2. Sound(p, h)'
    BY <1>1, <1>3, <2>1, SameSound DEF Calls2
  <2>3. Listed(l, Kernel)'
    BY DEF Leaves, Listed
  <2> QED BY <1>2, <2>1, <2>2, <2>3 DEF Sound, GetOk
<1>4. Answers(p, a)'
  BY <1>2 DEF Answers
<1>5. local'[p] \in Loaders => mod[local'[p]] # "new"
  BY DEF CInv, Works
<1>6. /\ \A x \in Loaders : ret'[p] = Ref(x) /\ mod[x] = "new" => owner[x] = p
      /\ ret'[p].v = "ref" => ret'[p].l \in Loaders
  BY DEF CInv, Typed, Answered
<1>7. /\ Shape(Top(p)) /\ Height(p) = 1 => Bottom(p, Top(p))
      /\ Height(p) > 1 => Under(Top(p), Frame(p, Height(p) - 1))
  BY TopCall
<1>8. Shape(Top(p)) /\ a.k # "conf" /\ a.k # "close" /\ a.k \notin Ending /\ Top(p).k \in Loading
  BY <1>2, TopCall DEF Ending, Loading
<1> QED BY <1>1, <1>2, <1>3, <1>4, <1>5, <1>6, <1>7, <1>8, PlainCall

LEMMA ConfLookupCalls ==
  ASSUME CInv, Functions', NEW p \in Procs, ConfLookup(p) PROVE CInv'
<1> DEFINE l == find_module(Kernel, Head(Top(p).rest).name)
<1>1. stack[p] # <<>> /\ Top(p).k = "conf" /\ Leaves /\ local' = local /\ ret' = ret
  BY DEF ConfLookup, Calls, Leaves
<1>2. CASE l = Kernel
  <2>1. stack' = [stack EXCEPT ![p][1].rest = Tail(@)]
    BY <1>2 DEF ConfLookup
  <2> QED BY <1>1, <2>1, NextStatement
<1>3. CASE l # Kernel
  <2>1. GetModule(p, l)
    BY <1>3 DEF ConfLookup
  <2>2. Kernel \in Owners /\ modules[Kernel] \in Seq(Loaders)
    BY DEF Owners, CInv, Typed
  <2>3. l \in Loaders /\ Listed(l, Kernel)
    BY <1>3, <2>2, FindModule
  <2> QED BY <1>1, <2>1, <2>3, GetFound
<1> QED BY <1>2, <1>3

LEMMA ConfInsmodCalls ==
  ASSUME CInv, Functions', NEW p \in Procs, ConfInsmod(p) PROVE CInv'
<1>1. /\ stack[p] # <<>> /\ Top(p).k = "conf" /\ Leaves /\ local' = local /\ ret' = ret
  BY DEF ConfInsmod, Calls, Leaves
<1>a. PICK a : a = [k |-> "insmod", o |-> Top(p).l, name |-> Head(Top(p).rest).name, l |-> Kernel]
  OBVIOUS
<1>b. PICK b : b = [Top(p) EXCEPT !.rest = Tail(Top(p).rest)]
  OBVIOUS
<1>2. Top(p) = [k |-> Top(p).k, l |-> Top(p).l, rest |-> Top(p).rest] /\ Top(p).l \in Owners
  BY <1>1, TopCall DEF Shape
<1>3. b = [k |-> Top(p).k, l |-> Top(p).l, rest |-> Tail(Top(p).rest)]
  BY <1>2, <1>b, RestOf
<1>4. Calls2(p, b, a)
  <2>3. stack' = [stack EXCEPT ![p] = <<a, b>> \o Tail(@)]
    BY <1>a, <1>b DEF ConfInsmod
  <2> QED BY <1>1, <2>3, CallsFrom DEF CInv
<1>5. /\ a.k = "insmod" /\ a.o = Top(p).l /\ a.l = Kernel
      /\ a = [k |-> a.k, o |-> a.o, name |-> a.name, l |-> a.l]
  BY <1>a
<1>6. b.k = "conf" /\ b.l = Top(p).l /\ b = [k |-> b.k, l |-> b.l, rest |-> b.rest]
  BY <1>1, <1>3
<1>7. Shape(a) /\ Shape(b) /\ Under(a, b)
  BY <1>2, <1>5, <1>6 DEF Shape, Under, Owners
<1>8. (Height(p) = 1 => Bottom(p, b)) /\ (Height(p) > 1 => Under(b, Frame(p, Height(p) - 1)))
  <2>1. /\ Height(p) = 1 => Bottom(p, Top(p))
        /\ Height(p) > 1 => Under(Top(p), Frame(p, Height(p) - 1))
    BY <1>1, TopCall
  <2> QED BY <1>1, <1>6, <2>1 DEF Bottom, Under
<1>9. ASSUME NEW h, h = Height(p) PROVE Sound(p, h)' /\ Sound(p, h + 1)'
  <2>1. Frame(p, h)' = b /\ Frame(p, h + 1)' = a
    BY <1>4, <1>9 DEF Calls2
  <2>2. Sound(p, h)'
    BY <1>1, <1>4, <1>6, <1>9, <2>1, SameSound DEF Calls2
  <2> QED BY <1>5, <2>1, <2>2 DEF Sound, InsmodOk
<1>10. Answers(p, a)'
  BY <1>1, <1>5 DEF Answers, ConfInsmod
<1>11. local'[p] \in Loaders => mod[local'[p]] # "new"
  BY <1>1 DEF CInv, Works
<1>12. /\ \A x \in Loaders : ret'[p] = Ref(x) /\ mod[x] = "new" => owner[x] = p
       /\ ret'[p].v = "ref" => ret'[p].l \in Loaders
  BY <1>1 DEF CInv, Typed, Answered
<1>13. a.k # "conf" /\ a.k # "close" /\ a.k \notin Ending /\ b.k \in Loading /\ b.k # "close"
  BY <1>5, <1>6 DEF Ending, Loading
<1> QED BY <1>1, <1>4, <1>6, <1>7, <1>8, <1>9, <1>10, <1>11, <1>12, <1>13, PlainCall

LEMMA CloseSubCalls ==
  ASSUME CInv, Functions', NEW p \in Procs, CloseSub(p) PROVE CInv'
<1>1. /\ stack[p] # <<>> /\ Top(p).k = "close" /\ Leaves /\ local' = local /\ ret' = ret
      /\ Top(p).rest # <<>>
  BY DEF CloseSub, Calls, Leaves
<1>a. PICK a : a = [k |-> "unload", l |-> Head(Top(p).rest)]
  OBVIOUS
<1>b. PICK b : b = Top(p)
  OBVIOUS
<1>2. Calls2(p, b, a)
  BY <1>1, <1>a, <1>b, Pushes DEF CloseSub, CInv
<1>3. a.k = "unload" /\ a.l = Head(b.rest) /\ a = [k |-> a.k, l |-> a.l] /\ b.k = "close"
  BY <1>1, <1>a, <1>b
<1>4. Shape(b) /\ b.rest \in Seq(Loaders) /\ b.rest # <<>>
  BY <1>1, <1>b, TopCall DEF Shape
<1>5. Head(b.rest) \in Loaders
  BY <1>4, HeadTailProperties
<1>6. Shape(a) /\ Under(a, b)
  BY <1>3, <1>4, <1>5 DEF Shape, Under, Unloads
<1>8. (Height(p) = 1 => Bottom(p, b)) /\ (Height(p) > 1 => Under(b, Frame(p, Height(p) - 1)))
  BY <1>1, <1>b, TopCall
<1>9. ASSUME NEW h, h = Height(p) PROVE Sound(p, h)' /\ Sound(p, h + 1)'
  <2>1. Frame(p, h)' = b /\ Frame(p, h + 1)' = a
    BY <1>2, <1>9 DEF Calls2
  <2>2. Sound(p, h)'
    BY <1>1, <1>2, <1>b, <1>9, <2>1, SameSound DEF Calls2
  <2> QED BY <1>3, <2>1, <2>2 DEF Sound
<1>10. Answers(p, a)'
  BY <1>1, <1>3 DEF Answers, CloseSub
<1>11. local'[p] \in Loaders => mod[local'[p]] # "new"
  BY <1>1 DEF CInv, Works
<1>12. /\ \A x \in Loaders : ret'[p] = Ref(x) /\ mod[x] = "new" => owner[x] = p
       /\ ret'[p].v = "ref" => ret'[p].l \in Loaders
  BY <1>1 DEF CInv, Typed, Answered
<1>13. a.k # "conf" /\ a.k # "close" /\ a.k \notin Loading /\ b.k \in Ending /\ b.k # "conf" /\ b.o = Top(p).o
       /\ b.k = Top(p).k
  BY <1>3, <1>b DEF Ending, Loading
<1> QED BY <1>1, <1>2, <1>4, <1>6, <1>8, <1>9, <1>10, <1>11, <1>12, <1>13, PlainCall

\* What rmmod relies on when it goes on.
LEMMA RmmodTop ==
  ASSUME CInv, NEW p \in Procs, stack[p] # <<>>, Top(p).k = "rmmod"
  PROVE  /\ Height(p) = 1 /\ p \in Pool /\ RmmodOk(p, Top(p)) /\ Top(p).l \in Loaders
         /\ Top(p) = [k |-> "rmmod", pc |-> Top(p).pc, l |-> Top(p).l]
<1>1. Height(p) = 1 /\ p \in Pool
  <2>1. Height(p) \in 1 .. Height(p) /\ Frame(p, Height(p)).k = "rmmod"
    BY TopCall
  <2> QED BY <2>1, RmmodCalls
<1>2. Sound(p, Height(p)) /\ Top(p) = Frame(p, Height(p)) /\ Shape(Top(p))
  BY TopCall
<1> QED BY <1>1, <1>2 DEF Sound, Shape

LEMMA RmmodGoesOn ==
  ASSUME CInv, Functions', NEW p \in Procs, stack[p] # <<>>, Top(p).k = "rmmod", Leaves,
         Top(p).pc # "deleted", stack' = [stack EXCEPT ![p][1].pc = "remove"],
         (ret' = ret /\ ret[p] = Nothing) \/ ret' = [ret EXCEPT ![p] = Nothing],
         local' = local \/ local' = [local EXCEPT ![p] = Kernel]
  PROVE  CInv'
<1>b. PICK b : b = [Top(p) EXCEPT !.pc = "remove"]
  OBVIOUS
<1>1. Height(p) = 1 /\ p \in Pool /\ Listed(Top(p).l, Kernel) /\ Top(p).l \in Loaders
      /\ Top(p) = [k |-> Top(p).k, pc |-> Top(p).pc, l |-> Top(p).l]
  BY RmmodTop DEF RmmodOk
<1>2. b = [k |-> Top(p).k, pc |-> "remove", l |-> Top(p).l]
  BY <1>1, <1>b, PcOf
<1>3. b.k = "rmmod" /\ b.pc = "remove" /\ b.l = Top(p).l /\ b = [k |-> b.k, pc |-> b.pc, l |-> b.l]
  BY <1>2
<1>4. Swaps(p, b)
  <2>1. stack[p][1] = Top(p)
    BY TopCall
  <2>2. stack' = [stack EXCEPT ![p] = [@ EXCEPT ![1] = b]]
    BY <1>b, <2>1
  <2> QED BY <2>2, SwapsIn DEF CInv
<1>5. Shape(b) /\ Bottom(p, b)
  BY <1>1, <1>3, ModuleAssumption DEF Shape, Bottom
<1>6. ret'[p] = Nothing /\ \A q \in Procs \ {p} : ret'[q] = ret[q]
  <2>1. ret' = [q \in Procs |-> [v |-> ret'[q].v, l |-> ret'[q].l]]
    BY DEF Functions
  <2> QED BY <2>1
<1>7. local'[p] \in {local[p], Kernel} /\ \A q \in Procs \ {p} : local'[q] = local[q]
  <2>1. local' = [q \in Procs |-> local'[q]]
    BY DEF Functions
  <2> QED BY <2>1
<1>8. ASSUME NEW h, h = Height(p) PROVE Sound(p, h)'
  <2>1. Frame(p, h)' = b
    BY <1>4, <1>8 DEF Swaps
  <2>2. Listed(b.l, Kernel)'
    BY <1>1, <1>3 DEF Leaves, Listed
  <2> QED BY <1>3, <2>1, <2>2 DEF Sound, RmmodOk
<1>9. Answers(p, b)'
  BY <1>3, <1>6 DEF Answers
<1>10. local'[p] \in Loaders => mod[local'[p]] # "new"
  BY <1>7, ModuleAssumption DEF CInv, Works
<1>11. /\ \A x \in Loaders : ret'[p] = Ref(x) /\ mod[x] = "new" => owner[x] = p
       /\ ret'[p].v = "ref" => ret'[p].l \in Loaders
  BY <1>6 DEF Ref, Nothing, CInv, Typed, Answered
<1>12. b.k # "conf" /\ b.k # "close" /\ ~(Height(p) > 1)
  BY <1>1, <1>3
<1> QED BY <1>3, <1>4, <1>5, <1>6, <1>7, <1>8, <1>9, <1>10, <1>11, <1>12, PlainSwap

LEMMA RmmodFindCalls ==
  ASSUME CInv, Functions', NEW p \in Procs, RmmodFind(p) PROVE CInv'
<1>1. /\ stack[p] # <<>> /\ Top(p).k = "rmmod" /\ Top(p).pc = "find" /\ Leaves /\ local' = local /\ ret' = ret
  BY DEF RmmodFind, Calls, Leaves
<1>2. CASE ~Loaded(Top(p).l)
  <2>1. stack' = [stack EXCEPT ![p][1].pc = "remove"]
    BY <1>2 DEF RmmodFind
  <2>2. ret[p] = Nothing
    BY <1>1, TopCall DEF Answers
  <2> QED BY <1>1, <2>1, <2>2, RmmodGoesOn
<1>3. CASE Loaded(Top(p).l)
  <2>a. PICK a : a = [k |-> "get", l |-> Top(p).l]
    OBVIOUS
  <2>b. PICK b : b = [Top(p) EXCEPT !.pc = "got"]
    OBVIOUS
  <2>1. Height(p) = 1 /\ p \in Pool /\ Listed(Top(p).l, Kernel) /\ Top(p).l \in Loaders
        /\ Top(p) = [k |-> Top(p).k, pc |-> Top(p).pc, l |-> Top(p).l]
    BY <1>1, RmmodTop DEF RmmodOk
  <2>2. b = [k |-> Top(p).k, pc |-> "got", l |-> Top(p).l]
    BY <2>1, <2>b, PcOf
  <2>3. /\ b.k = "rmmod" /\ b.pc = "got" /\ b.l = Top(p).l /\ b = [k |-> b.k, pc |-> b.pc, l |-> b.l]
        /\ a.k = "get" /\ a.l = Top(p).l /\ a = [k |-> a.k, l |-> a.l]
    BY <1>1, <2>2, <2>a
  <2>4. Calls2(p, b, a)
    <3>1. stack' = [stack EXCEPT ![p] = <<a, b>> \o Tail(@)]
      BY <1>3, <2>a, <2>b DEF RmmodFind
    <3> QED BY <1>1, <3>1, CallsFrom DEF CInv
  <2>5. Shape(a) /\ Shape(b) /\ Under(a, b) /\ Bottom(p, b)
    BY <2>1, <2>3, ModuleAssumption DEF Shape, Under, Gets, Bottom
  <2>6. ASSUME NEW h, h = Height(p) PROVE Sound(p, h)' /\ Sound(p, h + 1)'
    <3>1. Frame(p, h)' = b /\ Frame(p, h + 1)' = a
      BY <2>4, <2>6 DEF Calls2
    <3>2. Listed(Top(p).l, Kernel) /\ modules' = modules
      BY <1>1, <2>1 DEF Leaves
    <3>3. \A l : l = Top(p).l => Listed(l, Kernel)'
      BY <3>2 DEF Listed
    <3>4. Listed(b.l, Kernel)' /\ Listed(a.l, Kernel)'
      BY <2>3, <3>3
    <3> QED BY <2>3, <3>1, <3>4 DEF Sound, RmmodOk, GetOk
  <2>7. Answers(p, a)'
    BY <2>3 DEF Answers
  <2>8. local'[p] \in Loaders => mod[local'[p]] # "new"
    BY <1>1 DEF CInv, Works
  <2>9. /\ \A x \in Loaders : ret'[p] = Ref(x) /\ mod[x] = "new" => owner[x] = p
        /\ ret'[p].v = "ref" => ret'[p].l \in Loaders
    BY <1>1 DEF CInv, Typed, Answered
  <2>10. a.k # "conf" /\ a.k # "close" /\ a.k \notin Ending /\ b.k # "close" /\ b.k # "conf" /\ ~(Height(p) > 1)
    BY <2>1, <2>3 DEF Ending
  <2> QED BY <1>1, <2>3, <2>4, <2>5, <2>6, <2>7, <2>8, <2>9, <2>10, PlainCall
<1> QED BY <1>2, <1>3

LEMMA CloseFrames ==
  ASSUME CInv, NEW o \in Owners, NEW a, a = CloseFrame(o)
  PROVE  /\ a.k = "close" /\ a.o = o /\ Shape(a) /\ Once(a.rest)
         /\ \A l : Among(a.rest, l) <=> Listed(l, o)
<1>1. a.k = "close" /\ a.o = o /\ a.rest = Reverse(modules[o]) /\ a = [k |-> a.k, o |-> a.o, rest |-> a.rest, done |-> a.done]
  BY DEF CloseFrame
<1>2. modules[o] \in Seq(Loaders) /\ Once(modules[o])
  BY DEF CInv, Typed, Lists
<1>3. Once(a.rest) /\ a.rest \in Seq(Loaders) /\ \A l : Among(a.rest, l) <=> Listed(l, o)
  BY <1>1, <1>2, ReverseList DEF Listed
<1> QED BY <1>1, <1>3 DEF Shape

LEMMA RetIs == ASSUME Functions', NEW p \in Procs, NEW v, NEW l, ret' = [ret EXCEPT ![p] = [v |-> v, l |-> l]]
  PROVE ret'[p] = [v |-> v, l |-> l] /\ \A q \in Procs \ {p} : ret'[q] = ret[q]
<1>1. ret' = [q \in Procs |-> [v |-> ret'[q].v, l |-> ret'[q].l]]
  BY DEF Functions
<1> QED BY <1>1

LEMMA LocalIs == ASSUME Functions', NEW p \in Procs, NEW l, local' = [local EXCEPT ![p] = l]
  PROVE local'[p] = l /\ \A q \in Procs \ {p} : local'[q] = local[q]
<1>1. local' = [q \in Procs |-> local'[q]]
  BY DEF Functions
<1> QED BY <1>1

LEMMA RmmodCloseCalls ==
  ASSUME CInv, Functions, Functions', NEW p \in Procs, RmmodClose(p) PROVE CInv'
<1> DEFINE l == Top(p).l
<1>1. /\ stack[p] # <<>> /\ Top(p).k = "rmmod" /\ Top(p).pc = "got" /\ Leaves /\ ret[p].v = "ref"
      /\ local' = [local EXCEPT ![p] = ret[p].l] /\ ret' = [ret EXCEPT ![p] = Nothing]
  BY DEF RmmodClose, Calls, Leaves
<1>2. Height(p) = 1 /\ p \in Pool /\ Listed(l, Kernel) /\ l \in Loaders
      /\ Top(p) = [k |-> Top(p).k, pc |-> Top(p).pc, l |-> Top(p).l]
  BY <1>1, RmmodTop DEF RmmodOk
<1>3. ret[p].l = l /\ ret[p] = Ref(l)
  <2>1. ret[p].l = l
    BY <1>1, TopCall DEF Answers
  <2>2. ret[p] = [v |-> ret[p].v, l |-> ret[p].l]
    BY DEF Functions
  <2> QED BY <1>1, <2>1, <2>2 DEF Ref
<1>4. mod[l] # "new"
  <2> SUFFICES ASSUME mod[l] = "new" PROVE FALSE
    OBVIOUS
  <2>1. owner[l] = p
    BY <1>2, <1>3 DEF CInv, Answered
  <2>2. PICK h \in 1 .. Height(p) : Frame(p, h).k = "conf"
    BY <1>2, <2>1 DEF CInv, Configured, Frames
  <2>3. h = 1 /\ Frame(p, 1) = Top(p)
    BY <1>1, <1>2, <2>2, TopCall
  <2> QED BY <1>1, <2>2, <2>3
<1>5. ret'[p] = Nothing /\ \A q \in Procs \ {p} : ret'[q] = ret[q]
  BY <1>1, RetIs DEF Nothing
<1>6. local'[p] = l /\ \A q \in Procs \ {p} : local'[q] = local[q]
  BY <1>1, <1>3, LocalIs
<1>a. PICK a : a = CloseFrame(l)
  OBVIOUS
<1>b. PICK b : b = [Top(p) EXCEPT !.pc = "closed"]
  OBVIOUS
<1>7. a.k = "close" /\ a.o = l /\ Shape(a) /\ Once(a.rest) /\ \A x : Among(a.rest, x) <=> Listed(x, l)
  BY <1>2, <1>a, CloseFrames DEF Owners
<1>8. b.k = "rmmod" /\ b.pc = "closed" /\ b.l = l /\ b = [k |-> b.k, pc |-> b.pc, l |-> b.l]
  <2>1. b = [k |-> Top(p).k, pc |-> "closed", l |-> Top(p).l]
    BY <1>2, <1>b, PcOf
  <2> QED BY <1>1, <2>1
<1>9. Calls2(p, b, a)
  <2>1. stack' = [stack EXCEPT ![p] = <<a, b>> \o Tail(@)]
    BY <1>a, <1>b DEF RmmodClose
  <2> QED BY <1>1, <2>1, CallsFrom DEF CInv
<1>10. Shape(b) /\ Under(a, b) /\ Bottom(p, b)
  BY <1>2, <1>7, <1>8, ModuleAssumption DEF Shape, Under, Closes, Bottom
<1>11. ASSUME NEW h, h = Height(p) PROVE Sound(p, h)' /\ Sound(p, h + 1)'
  <2>1. Frame(p, h)' = b /\ Frame(p, h + 1)' = a
    BY <1>9, <1>11 DEF Calls2
  <2>2. mod' = mod /\ modules' = modules
    BY <1>1 DEF Leaves
  <2>3. \A x, o : Listed(x, o)' <=> Listed(x, o)
    BY <2>2 DEF Listed
  <2>4. RmmodOk(p, b)'
    BY <1>2, <1>6, <1>8, <2>3 DEF RmmodOk
  <2>5. CloseOk(a)'
    BY <1>4, <1>7, <2>2, <2>3 DEF CloseOk
  <2> QED BY <1>7, <1>8, <2>1, <2>4, <2>5 DEF Sound
<1>12. Answers(p, a)'
  BY <1>5, <1>7 DEF Answers
<1>13. local'[p] \in Loaders => mod[local'[p]] # "new"
  BY <1>4, <1>6
<1>14. /\ \A x \in Loaders : ret'[p] = Ref(x) /\ mod[x] = "new" => owner[x] = p
       /\ ret'[p].v = "ref" => ret'[p].l \in Loaders
  BY <1>5 DEF Ref, Nothing
<1>15. \A g \in 1 .. Height(p) : Frame(p, g).k = "close" => Frame(p, g).o # a.o
  <2>1. \A g \in 1 .. Height(p) : g = 1 /\ Frame(p, g) = Top(p)
    BY <1>1, <1>2, TopCall
  <2> QED BY <1>1, <2>1
<1>16. a.k # "conf" /\ a.k \notin Loading /\ b.k # "conf" /\ b.k # "close" /\ ~(Height(p) > 1)
  BY <1>2, <1>7, <1>8 DEF Loading
<1> HIDE DEF l
<1> QED BY <1>1, <1>5, <1>6, <1>7, <1>8, <1>9, <1>10, <1>11, <1>12, <1>13, <1>14, <1>15, <1>16, PlainCall

LEMMA RmmodCheckCalls ==
  ASSUME CInv, Functions', NEW p \in Procs, RmmodCheck(p) PROVE CInv'
<1>1. /\ stack[p] # <<>> /\ Top(p).k = "rmmod" /\ Top(p).pc = "closed" /\ Leaves
      /\ local' = [local EXCEPT ![p] = Kernel] /\ ret' = [ret EXCEPT ![p] = Nothing]
  BY DEF RmmodCheck, Calls, Leaves
<1>2. CASE ~InUse(p)
  <2>1. stack' = [stack EXCEPT ![p][1].pc = "remove"]
    BY <1>2 DEF RmmodCheck
  <2> QED BY <1>1, <2>1, RmmodGoesOn
<1>3. CASE InUse(p)
  <2>1. Pops(p)
    BY <1>1, <1>3, PopsTop DEF RmmodCheck, CInv
  <2>2. Height(p) = 1
    BY <1>1, RmmodTop
  <2>3. ret'[p] = Nothing /\ \A q \in Procs \ {p} : ret'[q] = ret[q]
    BY <1>1, RetIs DEF Nothing
  <2>4. local'[p] = Kernel /\ \A q \in Procs \ {p} : local'[q] = local[q]
    BY <1>1, LocalIs
  <2>5. /\ \A x \in Loaders : ret'[p] = Ref(x) /\ mod[x] = "new" => owner[x] = p
        /\ ret'[p].v = "ref" => ret'[p].l \in Loaders
    BY <2>3 DEF Ref, Nothing
  <2>6. ~(Height(p) > 1) /\ ~(local'[p] \in Loaders) /\ \A h \in 1 .. Height(p) - 1 : FALSE
    BY <2>2, <2>4, ModuleAssumption
  <2> QED BY <1>1, <2>1, <2>3, <2>4, <2>5, <2>6, PlainPop
<1> QED BY <1>2, <1>3

\* A call ends without a reference.
LEMMA EndsPlainly ==
  ASSUME CInv, Functions', NEW p \in Procs, stack[p] # <<>>, Leaves, local' = local,
         stack' = [stack EXCEPT ![p] = Tail(@)],
         ~(Top(p).k = "conf" /\ Top(p).l \in Loaders),
         ret' = ret \/ \E v \in {"nothing", "true", "false", "noref"} : ret' = [ret EXCEPT ![p] = [v |-> v, l |-> Kernel]],
         \A h \in 1 .. Height(p) - 1 : h = Height(p) - 1 => Answers(p, Frame(p, h))'
  PROVE  CInv'
<1>1. Pops(p)
  BY PopsTop DEF CInv
<1>2. /\ \A q \in Procs \ {p} : ret'[q] = ret[q]
      /\ ret'[p] = ret[p] \/ ret'[p].v # "ref"
  <2>1. CASE ret' = ret
    BY <2>1
  <2>2. ASSUME NEW v \in {"nothing", "true", "false", "noref"}, ret' = [ret EXCEPT ![p] = [v |-> v, l |-> Kernel]]
        PROVE  /\ \A q \in Procs \ {p} : ret'[q] = ret[q]
               /\ ret'[p].v # "ref"
    <3>1. ret'[p] = [v |-> v, l |-> Kernel] /\ \A q \in Procs \ {p} : ret'[q] = ret[q]
      BY <2>2, RetIs
    <3> QED BY <3>1
  <2> QED BY <2>1, <2>2
<1>3. /\ \A x \in Loaders : ret'[p] = Ref(x) /\ mod[x] = "new" => owner[x] = p
      /\ ret'[p].v = "ref" => ret'[p].l \in Loaders
  BY <1>2 DEF Ref, CInv, Typed, Answered
<1>4. local'[p] \in Loaders => mod[local'[p]] # "new"
  BY DEF CInv, Works
<1> QED BY <1>1, <1>2, <1>3, <1>4, PlainPop

LEMMA NothingToUnload ==
  ASSUME CInv, Functions', NEW p \in Procs, UnloadStart(p), ~Loaded(Top(p).l) PROVE CInv'
<1>1. /\ stack[p] # <<>> /\ Top(p).k = "unload" /\ Leaves /\ local' = local /\ mod' = mod
      /\ ret' = [ret EXCEPT ![p] = [v |-> "true", l |-> Kernel]] /\ stack' = [stack EXCEPT ![p] = Tail(@)]
  BY DEF UnloadStart, Calls, Leaves, Bool
<1>2. ASSUME NEW h \in 1 .. Height(p) - 1, h = Height(p) - 1 PROVE Answers(p, Frame(p, h))'
  <2>1. Pops(p)
    BY <1>1, PopsTop DEF CInv
  <2>2. Frame(p, h)' = Frame(p, h)
    BY <1>2, <2>1 DEF Pops, Kept
  <2>3. Unloads(Frame(p, h), Top(p).l)
    BY <1>1, <1>2, TopCall DEF Under
  <2> QED BY <1>1, <2>2, <2>3 DEF Answers, Unloads, Loaded
<1> QED BY <1>1, <1>2, EndsPlainly

LEMMA AlreadyInserted ==
  ASSUME CInv, Functions', NEW p \in Procs, stack[p] # <<>>, Top(p).k = "insmod",
         Leaves, local' = local, stack' = [stack EXCEPT ![p] = Tail(@)],
         ret' = ret \/ ret' = [ret EXCEPT ![p] = Nothing]
  PROVE  CInv'
<1>1. ASSUME NEW h \in 1 .. Height(p) - 1, h = Height(p) - 1 PROVE Answers(p, Frame(p, h))'
  <2>1. Pops(p)
    BY PopsTop DEF CInv
  <2>2. Frame(p, h)' = Frame(p, h)
    BY <1>1, <2>1 DEF Pops, Kept
  <2>3. Frame(p, h).k = "conf"
    BY <1>1, TopCall DEF Under
  <2> QED BY <2>2, <2>3 DEF Answers
<1> QED BY <1>1, EndsPlainly DEF Nothing

LEMMA KernelConfEnds ==
  ASSUME CInv, Functions', NEW p \in Procs, ConfEnd(p), Top(p).l = Kernel PROVE CInv'
<1>1. /\ stack[p] # <<>> /\ Top(p).k = "conf" /\ Leaves /\ local' = local /\ ret' = ret
      /\ stack' = [stack EXCEPT ![p] = Tail(@)]
  BY DEF ConfEnd, Calls, Leaves
<1>2. Height(p) = 1
  BY <1>1, TopCall, KernelConf
<1>3. \A h \in 1 .. Height(p) - 1 : FALSE
  BY <1>2
<1> QED BY <1>1, <1>3, EndsPlainly, ModuleAssumption

(* The calls that load a module, and those that end its configuration.       *)
LEMMA LoadModuleCalls ==
  ASSUME CInv, IInv, Functions', NEW p \in Procs, LoadModule(p) PROVE CInv'
<1> DEFINE l == Top(p).l
<1>1. /\ stack[p] # <<>> /\ Top(p).k = "get" /\ Lockable(p, l) /\ ~Loaded(l) /\ name[l] \notin Broken
      /\ mod' = [mod EXCEPT ![l] = "new"] /\ owner' = [owner EXCEPT ![l] = p]
      /\ name' = name /\ local' = local /\ modules' = modules /\ uses' = uses /\ ret' = ret /\ main' = main
  BY DEF LoadModule, Calls
<1>a. PICK a : a = [k |-> "conf", l |-> l, rest |-> Script(l)]
  OBVIOUS
<1>2. a.k = "conf" /\ a.l = l /\ a = [k |-> a.k, l |-> a.l, rest |-> a.rest]
  BY <1>a
<1>3. Swaps(p, a)
  <2>1. stack' = [stack EXCEPT ![p] = <<a>> \o Tail(@)]
    BY <1>a DEF LoadModule
  <2> QED BY <1>1, <2>1, SwapsTop DEF CInv
<1>4. /\ Height(p) \in Nat /\ Height(p) > 0 /\ Height(p)' = Height(p) /\ Height(p) \in 1 .. Height(p)
      /\ Top(p) = Frame(p, Height(p)) /\ l \in Loaders /\ GetOk(p, Height(p))
      /\ mod[l] = "none" /\ \E o \in Owners : Listed(l, o)
  <2>1. mod[l] \notin {"gone", "leaked"} /\ (\E o \in Owners : Listed(l, o)) /\ l \in Loaders
    BY <1>1, TopCall, GetListed
  <2>2. mod[l] = "none"
    BY <1>1, <2>1 DEF CInv, Typed, Loaded
  <2> QED BY <1>1, <1>3, <2>1, <2>2, TopCall DEF Swaps, Sound
<1>5. /\ mod'[l] = "new" /\ \A x \in Loaders \ {l} : mod'[x] = mod[x]
      /\ owner'[l] = p /\ \A x \in Loaders \ {l} : owner'[x] = owner[x]
  BY <1>1, <1>4 DEF CInv, Typed
<1>6. ~Referenced(l)
  BY <1>4 DEF IInv, NeverFreedInUse, Alive
<1>7. l # Kernel /\ Shape(a)
  BY <1>2, <1>4, ModuleAssumption DEF Shape, Owners
<1>8. Steps(p)
  <2>1. Height(p) = 1 => Bottom(p, Top(p))
    BY <1>1, TopCall
  <2>2. Height(p) = 1 => Bottom(p, a)
    BY <1>1, <1>2, <1>7, <2>1 DEF Bottom, Loading
  <2>3. Height(p) > 1 => Under(Top(p), Frame(p, Height(p) - 1))
    BY <1>1, TopCall
  <2>4. Height(p) > 1 => Under(a, Frame(p, Height(p) - 1))
    BY <1>1, <1>2, <1>7, <2>3 DEF Under
  <2>5. /\ a.k \in Loading => Top(p).k \in Loading
        /\ a.k \notin Ending
    BY <1>1, <1>2 DEF Loading, Ending
  <2>6. Stacks' /\ Calling'
    BY <1>3, <1>4, <1>7, <2>2, <2>4, <2>5, SwapsCalling DEF CInv
  <2> QED BY <1>3, <1>4, <2>6 DEF Swaps, Steps, CInv
<1>9. \A h \in 1 .. Height(p)' : h >= Height(p) => h = Height(p) /\ Frame(p, h)' = a
  BY <1>3, <1>4 DEF Swaps
<1>b. \A x \in Loaders : \A o \in Owners : Listed(x, o)' <=> Listed(x, o)
  BY <1>1 DEF Listed
<1>10. ASSUME NEW q \in Procs, NEW h, Stays(p, q, h) PROVE Sound(q, h)'
  <2>1. PICK f : f = Frame(q, h)
    OBVIOUS
  <2>2. h \in 1 .. Height(q) /\ Sound(q, h) /\ Shape(f)
    BY <1>10, <2>1, StayingCalls, <1>8, CallFacts
  <2>3. f.k = "conf" /\ f.l \in Loaders => mod'[f.l] = "new" /\ owner'[f.l] = q
    BY <1>4, <1>5, <2>1, <2>2 DEF Sound, ConfOk
  <2>4. ASSUME f.k = "refs" PROVE mod'[f.l] # "new" /\ owner'[f.l] = q
    <3>1. mod[f.l] # "new" /\ owner[f.l] = q /\ f.l \in Loaders
      BY <2>1, <2>2, <2>4 DEF Sound, RefsOk, Shape
    <3>2. f.l # l
      <4> SUFFICES ASSUME f.l = l PROVE FALSE
        OBVIOUS
      <4>1. q = p
        BY <1>1, <3>1, ModuleAssumption DEF Lockable, Procs
      <4>2. Frame(p, Height(p)).k \in Loading /\ Frame(p, h).k \in Ending
        BY <1>1, <1>4, <2>1, <2>4, <4>1 DEF Loading, Ending
      <4> QED BY <1>4, <2>2, <4>1, <4>2 DEF CInv, Calling, Frames
    <3> QED BY <1>5, <3>1, <3>2
  <2>5. ASSUME f.k = "close", f.o = l PROVE FALSE
    <3>1. h > 1 /\ h - 1 \in 1 .. Height(q)
      <4>1. h = 1 => FALSE
        <5>1. h = 1 => Bottom(q, f)
          BY <2>1, <2>2, CallFacts
        <5> QED BY <1>7, <2>5, <5>1 DEF Bottom, Procs, Loading
      <4> QED BY <2>2, <4>1, CallFacts
    <3>2. PICK g : g = Frame(q, h - 1)
      OBVIOUS
    <3>3. Closes(g, l) /\ Sound(q, h - 1)
      BY <2>1, <2>2, <2>5, <3>1, <3>2, CallFacts DEF Under
    <3>4. CASE g.k = "refs" /\ g.l = l
      <4>1. owner[l] = q
        BY <3>2, <3>3, <3>4 DEF Sound, RefsOk
      <4>2. q = p
        BY <1>1, <4>1, ModuleAssumption DEF Lockable, Procs
      <4>3. Frame(p, Height(p)).k \in Loading /\ Frame(p, h).k \in Ending
        BY <1>1, <1>4, <2>1, <2>5, <4>2 DEF Loading, Ending
      <4> QED BY <1>4, <2>2, <4>2, <4>3 DEF CInv, Calling, Frames
    <3>5. CASE g.k = "rmmod" /\ g.pc = "closed" /\ g.l = l
      <4>1. local[q] = l
        BY <3>2, <3>3, <3>5 DEF Sound, RmmodOk
      <4> QED BY <1>6, <4>1 DEF Referenced, InLocals
    <3> QED BY <3>3, <3>4, <3>5 DEF Closes
  <2>6. f.k = "close" => /\ f.o \in Loaders => mod'[f.o] # "new"
                         /\ \A x \in Loaders : Among(f.rest, x) => Listed(x, f.o)'
    BY <1>5, <1>b, <2>1, <2>2, <2>5 DEF Sound, CloseOk, Shape
  <2>7. f.k = "rmmod" => IF f.pc = "deleted" THEN mod'[f.l] # "gone" ELSE Listed(f.l, Kernel)'
    BY <1>5, <1>b, <2>1, <2>2 DEF Sound, RmmodOk, Shape, Owners
  <2>8. /\ f.k = "get" => \A o \in Owners : Listed(f.l, o) => Listed(f.l, o)'
        /\ f.k = "insmod" /\ f.l # Kernel => Listed(f.l, f.o)'
    BY <1>b, <2>1, <2>2 DEF Sound, InsmodOk, Shape, Owners
  <2> QED BY <1>1, <1>8, <1>b, <1>10, <2>1, <2>3, <2>4, <2>6, <2>7, <2>8, SoundKept
<1>11. ASSUME NEW h \in 1 .. Height(p)', h >= Height(p) PROVE Sound(p, h)'
  <2>1. h = Height(p) /\ Frame(p, h)' = a
    BY <1>9, <1>11
  <2>2. Inserted(p, h) => Inserted(p, h)'
    <3>1. h > 1 => h - 1 \in 1 .. Height(p) - 1
      BY <1>4, <2>1
    <3>2. h > 1 => Frame(p, h - 1)' = Frame(p, h - 1)
      BY <1>3, <3>1 DEF Swaps, Kept
    <3> QED BY <3>2 DEF Inserted
  <2>3. Listed(l, Kernel) \/ Inserted(p, h)'
    BY <1>4, <2>1, <2>2 DEF GetOk
  <2>4. \A x : x = l => Listed(x, Kernel)' \/ Inserted(p, h)'
    BY <1>4, <1>b, <2>3 DEF Owners
  <2>5. mod'[a.l] = "new" /\ owner'[a.l] = p /\ (Listed(a.l, Kernel)' \/ Inserted(p, h)')
    BY <1>2, <1>5, <2>4
  <2> QED BY <1>2, <2>1, <2>5 DEF Sound, ConfOk
<1>12. Relies'
  BY <1>8, <1>10, <1>11, ReliesKept
<1>13. OneConf' /\ OneClose'
  <2>1. \A h \in 1 .. Height(p)' : h >= Height(p) /\ Frame(p, h)'.k = "conf" =>
           \A x : x = Frame(p, h)'.l => x \in Loaders /\ mod[x] # "new"
    BY <1>2, <1>4, <1>9
  <2>2. \A g, h \in 1 .. Height(p)' : g >= Height(p) /\ h >= Height(p) => g = h
    BY <1>9
  <2>3. \A h \in 1 .. Height(p)' : h >= Height(p) => Frame(p, h)'.k # "close"
    BY <1>2, <1>9
  <2> QED BY <1>8, <2>1, <2>2, <2>3, OneConfKept, OneCloseKept
<1>14. OneAdmin'
  <2>1. Height(p) <= 1 => Frame(p, 1)'.k = "conf"
    BY <1>2, <1>4, <1>9
  <2> QED BY <1>8, <2>1, OneAdminKept
<1>15. Phases'
  BY <1>1, <1>4, <1>8, PhasesKept
<1>16. Configured'
  <2>1. ASSUME NEW x \in Loaders, mod'[x] = "new", x = l
        PROVE  /\ name'[x] \notin Broken /\ owner'[x] \in Procs
               /\ \E h \in 1 .. Height(p)' : owner'[x] = p /\ Frame(p, h)'.k = "conf" /\ Frame(p, h)'.l = x
    <3>1. \E h \in 1 .. Height(p)' : h = Height(p)
      BY <1>4
    <3>2. \E h \in 1 .. Height(p)' : owner'[x] = p /\ Frame(p, h)'.k = "conf" /\ Frame(p, h)'.l = x
      BY <1>2, <1>5, <1>9, <2>1, <3>1
    <3> QED BY <1>1, <1>5, <2>1, <3>2
  <2>2. ASSUME NEW x \in Loaders, mod'[x] = "new", x # l
        PROVE  /\ mod[x] = "new" /\ owner'[x] = owner[x] /\ name'[x] = name[x]
               /\ \A h : h = Height(p) /\ h > 0 /\ Frame(p, h).k = "conf" /\ Frame(p, h).l = x =>
                    h <= Height(p)' /\ Frame(p, h)'.k = "conf" /\ Frame(p, h)'.l = x
    BY <1>1, <1>4, <1>5, <2>2
  <2> QED BY <1>8, <2>1, <2>2, ConfiguredKept
<1>17. Typed' /\ Lists'
  <2>1. mod' \in [Loaders -> {"none", "new", "open", "closed", "leaked", "gone"}]
    BY <1>1, <1>4 DEF CInv, Typed
  <2>2. owner' \in [Loaders -> Procs \cup {NoProc}]
    BY <1>1, <1>4 DEF CInv, Typed
  <2>3. Typed'
    BY <1>1, <2>1, <2>2 DEF CInv, Typed
  <2>4. \A x \in Loaders : \A o \in Owners : Listed(x, o) => mod'[x] \notin {"gone", "leaked"}
    BY <1>5 DEF CInv, Lists
  <2>5. Lists'
    BY <1>1, <1>b, <2>4 DEF CInv, Lists
  <2> QED BY <2>3, <2>5
<1>18. Answered'
  <2>1. \A q \in Procs : \A x \in Loaders : ret'[q] = Ref(x) /\ mod'[x] = "new" => owner'[x] = q
    <3>1. \A q \in Procs : ret'[q] # Ref(l)
      BY <1>1, <1>6 DEF Referenced, InValues
    <3> QED BY <1>1, <1>5, <3>1 DEF CInv, Answered
  <2>2. \A h \in 1 .. Height(p)' : h = Height(p)' => Answers(p, Frame(p, h))'
    <3> SUFFICES ASSUME NEW h \in 1 .. Height(p)', h = Height(p)' PROVE Answers(p, Frame(p, h))'
      OBVIOUS
    <3>1. Frame(p, h)' = a
      BY <1>4, <1>9
    <3> QED BY <1>2, <3>1 DEF Answers
  <2>3. \A x \in Loaders : mod'[x] = "new" => mod[x] = "new" \/ \E o \in Owners : Listed(x, o)
    BY <1>4, <1>5
  <2> QED BY <1>1, <1>8, <2>1, <2>2, <2>3, AnsweredKept
<1>19. Works'
  <2>1. \A x \in Loaders : mod'[x] = "new" => mod[x] = "new" \/ ~Referenced(x)
    BY <1>5, <1>6
  <2>2. \A q \in Pool : \A x \in uses[q] : x \in Loaders
    BY DEF CInv, Typed
  <2> QED BY <1>1, <2>1, <2>2, WorksKept
<1> QED BY <1>8, <1>12, <1>13, <1>14, <1>15, <1>16, <1>17, <1>18, <1>19 DEF CInv, Steps

\* What holds of every step that ends a call.
LEMMA PoppedTop ==
  ASSUME CInv, NEW p \in Procs, stack[p] # <<>>, stack' = [stack EXCEPT ![p] = Tail(@)], main' = main
  PROVE  /\ Pops(p) /\ Steps(p) /\ Height(p) \in Nat /\ Height(p) > 0 /\ Height(p) \in 1 .. Height(p)
         /\ Height(p)' = Height(p) - 1
         /\ \A h \in 1 .. Height(p)' : h < Height(p) /\ h \in 1 .. Height(p) /\ Stays(p, p, h)
         /\ \A h \in 1 .. Height(p)' : h = Height(p)' => h = Height(p) - 1
         /\ Phases' /\ OneAdmin' /\ OneConf' /\ OneClose'
<1>1. Pops(p) /\ Stacks /\ Calling
  BY PopsTop DEF CInv
<1>2. Height(p) \in Nat /\ Height(p) > 0 /\ Height(p) \in 1 .. Height(p) /\ Height(p)' = Height(p) - 1
  BY <1>1, TopCall DEF Pops
<1>3. Steps(p)
  BY <1>1, <1>2, PopsCalling DEF Pops, Steps
<1>4. \A h \in 1 .. Height(p)' : ~(h >= Height(p)) /\ h < Height(p) /\ h \in 1 .. Height(p)
  BY <1>2
<1>5. Phases'
  BY <1>2, <1>3, PhasesKept
<1>6. OneAdmin'
  <2>1. ~(Height(p) <= 1 /\ Height(p)' > 0)
    BY <1>2
  <2> QED BY <1>3, <2>1, OneAdminKept
<1>7. OneConf'
  BY <1>3, <1>4, OneConfKept
<1>8. OneClose'
  BY <1>3, <1>4, OneCloseKept
<1> QED BY <1>1, <1>2, <1>3, <1>4, <1>5, <1>6, <1>7, <1>8 DEF Stays

LEMMA ConfEndCalls ==
  ASSUME CInv, IInv, Functions', NEW p \in Procs, ConfEnd(p), Top(p).l # Kernel PROVE CInv'
<1>l. PICK l : l = Top(p).l
  OBVIOUS
<1>1. /\ stack[p] # <<>> /\ Top(p).k = "conf" /\ stack' = [stack EXCEPT ![p] = Tail(@)]
      /\ mod' = [mod EXCEPT ![l] = "open"] /\ owner' = [owner EXCEPT ![l] = NoProc]
      /\ ret' = [ret EXCEPT ![p] = Ref(l)]
      /\ name' = name /\ local' = local /\ modules' = modules /\ uses' = uses /\ main' = main
  BY <1>l DEF ConfEnd, Calls
<1>2. /\ Pops(p) /\ Steps(p) /\ Height(p) \in Nat /\ Height(p) > 0 /\ Height(p) \in 1 .. Height(p)
      /\ Height(p)' = Height(p) - 1
      /\ \A h \in 1 .. Height(p)' : h < Height(p)
      /\ \A h \in 1 .. Height(p)' : h = Height(p)' => h = Height(p) - 1
      /\ Phases' /\ OneAdmin' /\ OneConf' /\ OneClose'
  BY <1>1, PoppedTop
<1>3. /\ l \in Loaders /\ mod[l] = "new" /\ owner[l] = p /\ Frame(p, Height(p)) = Top(p)
  BY <1>1, <1>l, TopCall DEF Shape, Owners, Sound, ConfOk
<1>4. /\ mod'[l] = "open" /\ \A x \in Loaders \ {l} : mod'[x] = mod[x]
      /\ owner'[l] = NoProc /\ \A x \in Loaders \ {l} : owner'[x] = owner[x]
  BY <1>1, <1>3 DEF CInv, Typed
<1>5. ret'[p] = Ref(l) /\ \A q \in Procs \ {p} : ret'[q] = ret[q]
  BY <1>1, RetIs DEF Ref
<1>6. \A x \in Loaders : \A o \in Owners : Listed(x, o)' <=> Listed(x, o)
  BY <1>1 DEF Listed
<1>7. ASSUME NEW q \in Procs, NEW h, Stays(p, q, h) PROVE Sound(q, h)'
  <2>1. PICK f : f = Frame(q, h)
    OBVIOUS
  <2>2. h \in 1 .. Height(q) /\ Sound(q, h) /\ Shape(f)
    BY <1>2, <1>7, <2>1, StayingCalls, CallFacts
  <2>3. ASSUME f.k = "conf", f.l \in Loaders PROVE mod'[f.l] = "new" /\ owner'[f.l] = q
    <3>1. mod[f.l] = "new" /\ owner[f.l] = q
      BY <2>1, <2>2, <2>3 DEF Sound, ConfOk
    <3>2. f.l # l
      <4>1. f.l = l => q = p /\ h = Height(p)
        BY <1>1, <1>2, <1>3, <1>l, <2>1, <2>2, <2>3, ConfsDiffer
      <4> QED BY <1>7, <4>1, <1>2 DEF Stays
    <3> QED BY <1>4, <2>3, <3>1, <3>2
  <2>4. f.k = "refs" => mod'[f.l] # "new" /\ owner'[f.l] = q
    BY <1>3, <1>4, <2>1, <2>2 DEF Sound, RefsOk, Shape
  <2>6. f.k = "close" => /\ f.o \in Loaders => mod'[f.o] # "new"
                         /\ \A x \in Loaders : Among(f.rest, x) => Listed(x, f.o)'
    BY <1>4, <1>6, <2>1, <2>2 DEF Sound, CloseOk, Shape
  <2>7. f.k = "rmmod" => IF f.pc = "deleted" THEN mod'[f.l] # "gone" ELSE Listed(f.l, Kernel)'
    BY <1>4, <1>6, <2>1, <2>2 DEF Sound, RmmodOk, Shape, Owners
  <2>8. /\ f.k = "get" => \A o \in Owners : Listed(f.l, o) => Listed(f.l, o)'
        /\ f.k = "insmod" /\ f.l # Kernel => Listed(f.l, f.o)'
    BY <1>6, <2>1, <2>2 DEF Sound, InsmodOk, Shape, Owners
  <2> QED BY <1>1, <1>2, <1>6, <1>7, <2>1, <2>3, <2>4, <2>6, <2>7, <2>8, SoundKept
<1>8. Relies'
  <2>1. \A h \in 1 .. Height(p)' : ~(h >= Height(p))
    BY <1>2
  <2> QED BY <1>2, <1>7, <2>1, ReliesKept
<1>9. Configured'
  <2>1. ASSUME NEW x \in Loaders, mod'[x] = "new"
        PROVE  /\ mod[x] = "new" /\ owner'[x] = owner[x] /\ name'[x] = name[x]
               /\ \A h : h = Height(p) /\ h > 0 /\ Frame(p, h).k = "conf" /\ Frame(p, h).l = x =>
                    h <= Height(p)' /\ Frame(p, h)'.k = "conf" /\ Frame(p, h)'.l = x
    <3>1. x # l
      BY <1>4, <2>1
    <3> QED BY <1>1, <1>3, <1>4, <1>l, <2>1, <3>1
  <2> QED BY <1>2, <2>1, ConfiguredKept
<1>10. Typed' /\ Lists'
  <2>1. mod' \in [Loaders -> {"none", "new", "open", "closed", "leaked", "gone"}]
    BY <1>1, <1>3 DEF CInv, Typed
  <2>2. owner' \in [Loaders -> Procs \cup {NoProc}]
    BY <1>1, <1>3 DEF CInv, Typed
  <2>3. \A q \in Procs : ret'[q].v = "ref" => ret'[q].l \in Loaders
    BY <1>3, <1>5 DEF CInv, Typed, Ref
  <2>4. Typed'
    BY <1>1, <2>1, <2>2, <2>3 DEF CInv, Typed
  <2>5. \A x \in Loaders : \A o \in Owners : Listed(x, o) => mod'[x] \notin {"gone", "leaked"}
    BY <1>4 DEF CInv, Lists
  <2>6. Lists'
    BY <1>1, <1>6, <2>5 DEF CInv, Lists
  <2> QED BY <2>4, <2>6
<1>11. Answered'
  <2>1. ASSUME NEW q \in Procs, NEW x \in Loaders, ret'[q] = Ref(x), mod'[x] = "new" PROVE owner'[x] = q
    <3>1. x # l
      BY <1>4, <2>1
    <3>2. q # p
      BY <1>5, <2>1, <3>1 DEF Ref
    <3> QED BY <1>4, <1>5, <2>1, <3>1, <3>2 DEF CInv, Answered
  <2>2. ASSUME NEW h \in 1 .. Height(p)', h = Height(p)' PROVE Answers(p, Frame(p, h))'
    <3>1. PICK b : b = Frame(p, h)
      OBVIOUS
    <3>2. h = Height(p) - 1 /\ Height(p) > 1 /\ h \in 1 .. Height(p) - 1
      BY <1>2, <2>2
    <3>3. Frame(p, h)' = b
      BY <1>2, <3>1, <3>2 DEF Pops, Kept
    <3>4. Gets(b, l)
      BY <1>1, <1>l, <3>1, <3>2, TopCall DEF Under
    <3>5. Answers(p, b)'
      BY <1>3, <1>5, <3>4, ModuleAssumption DEF Answers, Gets, Ref, NoRef
    <3> QED BY <3>3, <3>5 DEF Answers
  <2>3. \A x \in Loaders : mod'[x] = "new" => mod[x] = "new"
    BY <1>4
  <2> QED BY <1>1, <1>2, <1>5, <2>1, <2>2, <2>3, AnsweredKept
<1>12. Works'
  <2>1. \A x \in Loaders : mod'[x] = "new" => mod[x] = "new"
    BY <1>4
  <2>2. \A q \in Pool : \A x \in uses[q] : x \in Loaders
    BY DEF CInv, Typed
  <2> QED BY <1>1, <2>1, <2>2, WorksKept
<1> QED BY <1>2, <1>8, <1>9, <1>10, <1>11, <1>12 DEF CInv, Steps

LEMMA CloseEndCalls ==
  ASSUME CInv, IInv, Functions', NEW p \in Procs, CloseEnd(p) PROVE CInv'
<1>o. PICK o : o = Top(p).o
  OBVIOUS
<1>1. /\ stack[p] # <<>> /\ Top(p).k = "close" /\ stack' = [stack EXCEPT ![p] = Tail(@)]
      /\ mod' = mod \/ (o # Kernel /\ mod' = [mod EXCEPT ![o] = "closed"])
      /\ ret' = [ret EXCEPT ![p] = Bool(Top(p).done)]
      /\ owner' = owner /\ name' = name /\ local' = local /\ modules' = modules /\ uses' = uses /\ main' = main
  BY <1>o DEF CloseEnd, Calls
<1>2. /\ Pops(p) /\ Steps(p) /\ Height(p) \in Nat /\ Height(p) > 0 /\ Height(p) \in 1 .. Height(p)
      /\ Height(p)' = Height(p) - 1
      /\ \A h \in 1 .. Height(p)' : h < Height(p)
      /\ \A h \in 1 .. Height(p)' : h = Height(p)' => h = Height(p) - 1
      /\ Phases' /\ OneAdmin' /\ OneConf' /\ OneClose'
  BY <1>1, PoppedTop
<1>3. o \in Owners
  BY <1>1, <1>o, TopCall DEF Shape
<1>4. /\ \A x \in Loaders : mod'[x] = mod[x] \/ (mod'[x] = "closed" /\ mod[x] # "new")
      /\ mod' \in [Loaders -> {"none", "new", "open", "closed", "leaked", "gone"}]
  <2>1. o # Kernel => o \in Loaders /\ mod[o] # "new"
    BY <1>1, <1>3, <1>o, TopCall DEF Sound, CloseOk, Owners
  <2> QED BY <1>1, <2>1 DEF CInv, Typed
<1>5. /\ \A q \in Procs \ {p} : ret'[q] = ret[q]
      /\ ret'[p].v # "ref"
  <2>1. PICK v : v = (IF Top(p).done THEN "true" ELSE "false")
    OBVIOUS
  <2>2. ret' = [ret EXCEPT ![p] = [v |-> v, l |-> Kernel]]
    BY <1>1, <2>1 DEF Bool
  <2>3. ret'[p] = [v |-> v, l |-> Kernel] /\ \A q \in Procs \ {p} : ret'[q] = ret[q]
    BY <2>2, RetIs
  <2> QED BY <2>1, <2>3
<1>6. \A x \in Loaders : \A y \in Owners : Listed(x, y)' <=> Listed(x, y)
  BY <1>1 DEF Listed
<1>7. ASSUME NEW q \in Procs, NEW h, Stays(p, q, h) PROVE Sound(q, h)'
  <2>1. PICK f : f = Frame(q, h)
    OBVIOUS
  <2>2. h \in 1 .. Height(q) /\ Sound(q, h) /\ Shape(f)
    BY <1>2, <1>7, <2>1, StayingCalls, CallFacts
  <2>3. f.k = "conf" /\ f.l \in Loaders => mod'[f.l] = "new" /\ owner'[f.l] = q
    BY <1>1, <1>4, <2>1, <2>2 DEF Sound, ConfOk
  <2>4. f.k = "refs" => mod'[f.l] # "new" /\ owner'[f.l] = q
    BY <1>1, <1>4, <2>1, <2>2 DEF Sound, RefsOk, Shape
  <2>6. f.k = "close" => /\ f.o \in Loaders => mod'[f.o] # "new"
                         /\ \A x \in Loaders : Among(f.rest, x) => Listed(x, f.o)'
    BY <1>4, <1>6, <2>1, <2>2 DEF Sound, CloseOk, Shape
  <2>7. f.k = "rmmod" => IF f.pc = "deleted" THEN mod'[f.l] # "gone" ELSE Listed(f.l, Kernel)'
    BY <1>4, <1>6, <2>1, <2>2 DEF Sound, RmmodOk, Shape, Owners
  <2>8. /\ f.k = "get" => \A y \in Owners : Listed(f.l, y) => Listed(f.l, y)'
        /\ f.k = "insmod" /\ f.l # Kernel => Listed(f.l, f.o)'
    BY <1>6, <2>1, <2>2 DEF Sound, InsmodOk, Shape, Owners
  <2> QED BY <1>1, <1>2, <1>6, <1>7, <2>1, <2>3, <2>4, <2>6, <2>7, <2>8, SoundKept
<1>8. Relies'
  <2>1. \A h \in 1 .. Height(p)' : ~(h >= Height(p))
    BY <1>2
  <2> QED BY <1>2, <1>7, <2>1, ReliesKept
<1>9. Configured'
  <2>1. ASSUME NEW x \in Loaders, mod'[x] = "new"
        PROVE  /\ mod[x] = "new" /\ owner'[x] = owner[x] /\ name'[x] = name[x]
               /\ \A h : h = Height(p) /\ h > 0 /\ Frame(p, h).k = "conf" /\ Frame(p, h).l = x =>
                    h <= Height(p)' /\ Frame(p, h)'.k = "conf" /\ Frame(p, h)'.l = x
    <3>1. Frame(p, Height(p)).k = "close"
      BY <1>1, TopCall
    <3> QED BY <1>1, <1>4, <2>1, <3>1
  <2> QED BY <1>2, <2>1, ConfiguredKept
<1>10. Typed' /\ Lists'
  <2>3. \A q \in Procs : ret'[q].v = "ref" => ret'[q].l \in Loaders
    BY <1>5 DEF CInv, Typed
  <2>4. Typed'
    BY <1>1, <1>4, <2>3 DEF CInv, Typed
  <2>5. \A x \in Loaders : \A y \in Owners : Listed(x, y) => mod'[x] \notin {"gone", "leaked"}
    BY <1>4 DEF CInv, Lists
  <2>6. Lists'
    BY <1>1, <1>6, <2>5 DEF CInv, Lists
  <2> QED BY <2>4, <2>6
<1>11. Answered'
  <2>1. ASSUME NEW q \in Procs, NEW x \in Loaders, ret'[q] = Ref(x), mod'[x] = "new" PROVE owner'[x] = q
    <3>1. q # p
      BY <1>5, <2>1 DEF Ref
    <3> QED BY <1>1, <1>4, <1>5, <2>1, <3>1 DEF CInv, Answered
  <2>2. ASSUME NEW h \in 1 .. Height(p)', h = Height(p)' PROVE Answers(p, Frame(p, h))'
    <3>1. PICK b : b = Frame(p, h)
      OBVIOUS
    <3>2. h = Height(p) - 1 /\ Height(p) > 1 /\ h \in 1 .. Height(p) - 1
      BY <1>2, <2>2
    <3>3. Frame(p, h)' = b
      BY <1>2, <3>1, <3>2 DEF Pops, Kept
    <3>4. Closes(b, o)
      BY <1>1, <1>o, <3>1, <3>2, TopCall DEF Under
    <3>5. Answers(p, b)'
      BY <3>4 DEF Answers, Closes
    <3> QED BY <3>3, <3>5 DEF Answers
  <2>3. \A x \in Loaders : mod'[x] = "new" => mod[x] = "new"
    BY <1>4
  <2> QED BY <1>1, <1>2, <1>5, <2>1, <2>2, <2>3, AnsweredKept
<1>12. Works'
  <2>1. \A x \in Loaders : mod'[x] = "new" => mod[x] = "new"
    BY <1>4
  <2>2. \A q \in Pool : \A x \in uses[q] : x \in Loaders
    BY DEF CInv, Typed
  <2> QED BY <1>1, <2>1, <2>2, WorksKept
<1> QED BY <1>2, <1>8, <1>9, <1>10, <1>11, <1>12 DEF CInv, Steps

(* The calls that unload a module.  A process unloads a loader once at a     *)
(* time, since it comes to it from the list that has it.                     *)
LEMMA UnloadFrom ==
  ASSUME CInv, NEW p \in Procs, NEW h \in 1 .. Height(p), Frame(p, h).k \in {"unload", "refs"}
  PROVE  /\ h > 1 /\ h - 1 \in 1 .. Height(p) /\ Frame(p, h).l \in Loaders
         /\ \/ Frame(p, h - 1).k = "rmmod" /\ h - 1 = 1 /\ \A o \in Owners : ~Listed(Frame(p, h).l, o)
            \/ /\ Frame(p, h - 1).k = "close" /\ Frame(p, h - 1).o \in Owners
               /\ Listed(Frame(p, h).l, Frame(p, h - 1).o)
<1>1. h > 1 /\ h - 1 \in 1 .. Height(p)
  <2>1. h = 1 => Bottom(p, Frame(p, h))
    BY CallFacts
  <2>2. h # 1
    BY <2>1 DEF Bottom, Procs, Loading
  <2> QED BY <2>2, CallFacts
<1>2. PICK l : l = Frame(p, h).l
  OBVIOUS
<1>3. PICK b : b = Frame(p, h - 1)
  OBVIOUS
<1>4. Unloads(b, l) /\ Shape(b) /\ Sound(p, h - 1) /\ l \in Loaders
  <2>1. Shape(Frame(p, h)) /\ Under(Frame(p, h), b) /\ Shape(b) /\ Sound(p, h - 1)
    BY <1>1, <1>3, CallFacts
  <2>2. l \in Loaders
    BY <1>2, <2>1 DEF Shape
  <2>3. Unloads(b, l)
    BY <1>2, <2>1 DEF Under
  <2> QED BY <2>1, <2>2, <2>3
<1>5. CASE b.k = "rmmod" /\ b.pc = "deleted" /\ b.l = l
  <2>1. h - 1 = 1
    BY <1>1, <1>3, <1>5, RmmodCalls
  <2>2. \A o \in Owners : ~Listed(l, o)
    BY <1>3, <1>4, <1>5 DEF Sound, RmmodOk
  <2> QED BY <1>1, <1>2, <1>3, <1>4, <1>5, <2>1, <2>2
<1>6. CASE b.k = "close" /\ b.rest # <<>> /\ Head(b.rest) = l
  <2>1. b.o \in Owners /\ b.rest \in Seq(Loaders) /\ CloseOk(b)
    BY <1>3, <1>4, <1>6 DEF Sound, Shape
  <2>2. Among(b.rest, l)
    BY <1>6, <2>1, TailList DEF CloseOk
  <2> QED BY <1>1, <1>2, <1>3, <1>4, <1>6, <2>1, <2>2 DEF CloseOk
<1> QED BY <1>4, <1>5, <1>6 DEF Unloads

LEMMA OneUnload ==
  ASSUME CInv, NEW p \in Procs, NEW h \in 1 .. Height(p), NEW g \in 1 .. Height(p),
         Frame(p, h).k \in {"unload", "refs"}, Frame(p, g).k \in {"unload", "refs"}, Frame(p, h).l = Frame(p, g).l
  PROVE  h = g
<1>1. PICK l : l = Frame(p, h).l
  OBVIOUS
<1>2. /\ h - 1 \in 1 .. Height(p) /\ l \in Loaders
      /\ \/ Frame(p, h - 1).k = "rmmod" /\ h - 1 = 1 /\ \A o \in Owners : ~Listed(l, o)
         \/ Frame(p, h - 1).k = "close" /\ Frame(p, h - 1).o \in Owners /\ Listed(l, Frame(p, h - 1).o)
  BY <1>1, UnloadFrom
<1>3. /\ g - 1 \in 1 .. Height(p)
      /\ \/ Frame(p, g - 1).k = "rmmod" /\ g - 1 = 1 /\ \A o \in Owners : ~Listed(l, o)
         \/ Frame(p, g - 1).k = "close" /\ Frame(p, g - 1).o \in Owners /\ Listed(l, Frame(p, g - 1).o)
  BY <1>1, UnloadFrom
<1>4. h - 1 = g - 1
  <2>1. CASE Frame(p, h - 1).k = "close" /\ Frame(p, g - 1).k = "close"
    <3>1. Frame(p, h - 1).o = Frame(p, g - 1).o
      BY <1>2, <1>3, <2>1 DEF CInv, Lists
    <3> QED BY <1>2, <1>3, <2>1, <3>1 DEF CInv, OneClose, Frames
  <2> QED BY <1>2, <1>3, <2>1
<1> QED BY <1>4

\* close() of a module is called by unload_module(), or by rmmod.
LEMMA CloseFrom ==
  ASSUME CInv, NEW p \in Procs, NEW h \in 1 .. Height(p), Frame(p, h).k = "close", Frame(p, h).o \in Loaders
  PROVE  /\ h > 1 /\ h - 1 \in 1 .. Height(p) /\ Frame(p, h - 1).l = Frame(p, h).o
         /\ \/ Frame(p, h - 1).k = "refs"
            \/ Frame(p, h - 1).k = "rmmod" /\ Frame(p, h - 1).pc = "closed" /\ Listed(Frame(p, h).o, Kernel)
<1>1. h > 1 /\ h - 1 \in 1 .. Height(p)
  <2>1. h = 1 => Bottom(p, Frame(p, h))
    BY CallFacts
  <2>2. h # 1
    BY <2>1, ModuleAssumption DEF Bottom, Procs, Loading
  <2> QED BY <2>2, CallFacts
<1>2. Closes(Frame(p, h - 1), Frame(p, h).o) /\ Sound(p, h - 1)
  BY <1>1, CallFacts DEF Under
<1> QED BY <1>1, <1>2 DEF Closes, Sound, RmmodOk

LEMMA UnloadStartCalls ==
  ASSUME CInv, Functions', NEW p \in Procs, UnloadStart(p), Loaded(Top(p).l) PROVE CInv'
<1>l. PICK l : l = Top(p).l
  OBVIOUS
<1>a. PICK a : a = CloseFrame(l)
  OBVIOUS
<1>b. PICK b : b = [k |-> "refs", l |-> l]
  OBVIOUS
<1>1. /\ stack[p] # <<>> /\ Top(p).k = "unload" /\ Lockable(p, l)
      /\ stack' = [stack EXCEPT ![p] = <<a, b>> \o Tail(@)]
      /\ owner' = [owner EXCEPT ![l] = p]
      /\ ret' = ret /\ mod' = mod /\ name' = name /\ local' = local /\ modules' = modules /\ uses' = uses
      /\ main' = main
  BY <1>l, <1>a, <1>b DEF UnloadStart, Calls
<1>2. Calls2(p, b, a) /\ Stacks /\ Calling
  BY <1>1, CallsFrom DEF CInv
<1>3. /\ Height(p) \in Nat /\ Height(p) > 0 /\ Height(p) \in 1 .. Height(p) /\ Height(p)' = Height(p) + 1
      /\ Frame(p, Height(p)) = Top(p) /\ l \in Loaders /\ ret[p] = Nothing /\ Height(p) > 1
      /\ Under(Top(p), Frame(p, Height(p) - 1)) /\ Height(p) - 1 \in 1 .. Height(p)
  <2>1. /\ Height(p) \in Nat /\ Height(p) > 0 /\ Height(p) \in 1 .. Height(p)
        /\ Frame(p, Height(p)) = Top(p) /\ l \in Loaders /\ ret[p] = Nothing
    BY <1>1, <1>l, TopCall DEF Answers, Shape
  <2>2. Height(p) > 1
    BY <1>1, <2>1, UnloadFrom
  <2> QED BY <1>1, <1>2, <2>1, <2>2, TopCall DEF Calls2
<1>4. mod[l] # "new"
  <2> SUFFICES ASSUME mod[l] = "new" PROVE FALSE
    OBVIOUS
  <2>1. owner[l] = p
    BY <1>1, <1>3, ModuleAssumption DEF CInv, Configured, Lockable, Procs
  <2>2. PICK h \in 1 .. Height(p) : Frame(p, h).k = "conf"
    BY <1>3, <2>1 DEF CInv, Configured, Frames
  <2>3. Frame(p, h).k \in Loading /\ Frame(p, Height(p)).k \in Ending
    BY <1>1, <1>3, <2>2 DEF Loading, Ending
  <2> QED BY <1>3, <2>3 DEF CInv, Calling, Frames
<1>5. owner'[l] = p /\ (\A x \in Loaders \ {l} : owner'[x] = owner[x]) /\ owner' \in [Loaders -> Procs \cup {NoProc}]
  BY <1>1, <1>3 DEF CInv, Typed
<1>6. a.k = "close" /\ a.o = l /\ Shape(a) /\ Once(a.rest) /\ \A x : Among(a.rest, x) <=> Listed(x, l)
  BY <1>3, <1>a, CloseFrames DEF Owners
<1>7. b.k = "refs" /\ b.l = l /\ b = [k |-> b.k, l |-> b.l]
  BY <1>b
<1>8. Shape(b) /\ Under(a, b) /\ Under(b, Frame(p, Height(p) - 1))
  BY <1>1, <1>3, <1>6, <1>7, <1>l DEF Shape, Under, Closes
<1>9. Steps(p)
  <2>1. /\ b.k \in Loading => a.k \notin Ending
        /\ b.k \in Ending => a.k \notin Loading
        /\ b.k \notin Loading /\ a.k \notin Loading /\ Top(p).k \in Ending
    BY <1>1, <1>6, <1>7 DEF Loading, Ending
  <2>2. Stacks' /\ Calling'
    BY <1>2, <1>3, <1>6, <1>8, <2>1, CallsCalling
  <2> QED BY <1>2, <1>3, <2>2 DEF Calls2, Steps
<1>10. ASSUME NEW h \in 1 .. Height(p)', h >= Height(p)
       PROVE  (h = Height(p) /\ Frame(p, h)' = b) \/ (h = Height(p)' /\ h = Height(p) + 1 /\ Frame(p, h)' = a)
  BY <1>2, <1>3, <1>10 DEF Calls2
<1>11. \A x \in Loaders : \A y \in Owners : Listed(x, y)' <=> Listed(x, y)
  BY <1>1 DEF Listed
<1>12. ASSUME NEW q \in Procs, NEW h, Stays(p, q, h) PROVE Sound(q, h)'
  <2>1. PICK f : f = Frame(q, h)
    OBVIOUS
  <2>2. h \in 1 .. Height(q) /\ Sound(q, h) /\ Shape(f)
    BY <1>9, <1>12, <2>1, StayingCalls, CallFacts
  <2>3. f.k = "conf" /\ f.l \in Loaders => mod'[f.l] = "new" /\ owner'[f.l] = q
    BY <1>1, <1>4, <1>5, <2>1, <2>2 DEF Sound, ConfOk
  <2>4. ASSUME f.k = "refs" PROVE mod'[f.l] # "new" /\ owner'[f.l] = q
    <3>1. mod[f.l] # "new" /\ owner[f.l] = q /\ f.l \in Loaders
      BY <2>1, <2>2, <2>4 DEF Sound, RefsOk, Shape
    <3>2. f.l = l => q = p
      BY <1>1, <3>1, ModuleAssumption DEF Lockable, Procs
    <3> QED BY <1>1, <1>5, <3>1, <3>2
  <2>6. f.k = "close" => /\ f.o \in Loaders => mod'[f.o] # "new"
                         /\ \A x \in Loaders : Among(f.rest, x) => Listed(x, f.o)'
    BY <1>1, <1>11, <2>1, <2>2 DEF Sound, CloseOk, Shape
  <2>7. f.k = "rmmod" => IF f.pc = "deleted" THEN mod'[f.l] # "gone" ELSE Listed(f.l, Kernel)'
    BY <1>1, <1>11, <2>1, <2>2 DEF Sound, RmmodOk, Shape, Owners
  <2>8. /\ f.k = "get" => \A y \in Owners : Listed(f.l, y) => Listed(f.l, y)'
        /\ f.k = "insmod" /\ f.l # Kernel => Listed(f.l, f.o)'
    BY <1>11, <2>1, <2>2 DEF Sound, InsmodOk, Shape, Owners
  <2> QED BY <1>1, <1>9, <1>11, <1>12, <2>1, <2>3, <2>4, <2>6, <2>7, <2>8, SoundKept
<1>13. ASSUME NEW h \in 1 .. Height(p)', h >= Height(p) PROVE Sound(p, h)'
  <2>1. CASE Frame(p, h)' = a
    <3>1. CloseOk(a)'
      BY <1>1, <1>3, <1>4, <1>6, <1>11 DEF CloseOk, Owners
    <3> QED BY <1>6, <2>1, <3>1 DEF Sound
  <2>2. CASE Frame(p, h)' = b
    BY <1>1, <1>4, <1>5, <1>7, <2>2 DEF Sound, RefsOk
  <2> QED BY <1>10, <1>13, <2>1, <2>2
<1>14. Relies'
  BY <1>9, <1>12, <1>13, ReliesKept
<1>15. OneConf' /\ OneClose'
  <2>1. \A h \in 1 .. Height(p)' : h >= Height(p) => Frame(p, h)'.k # "conf"
    BY <1>6, <1>7, <1>10
  <2>2. \A g, h \in 1 .. Height(p)' : g >= Height(p) /\ h >= Height(p)
          /\ Frame(p, g)'.k = "close" /\ Frame(p, h)'.k = "close" => g = h
    BY <1>6, <1>7, <1>10
  <2>3. ASSUME NEW g \in 1 .. Height(p), Frame(p, g).k = "close", Frame(p, g).o = l PROVE FALSE
    <3>1. /\ g > 1 /\ g - 1 \in 1 .. Height(p) /\ Frame(p, g - 1).l = l
          /\ \/ Frame(p, g - 1).k = "refs"
             \/ Frame(p, g - 1).k = "rmmod" /\ Frame(p, g - 1).pc = "closed" /\ Listed(l, Kernel)
      BY <1>3, <2>3, CloseFrom
    <3>2. CASE Frame(p, g - 1).k = "refs"
      <4>1. g - 1 = Height(p)
        BY <1>1, <1>3, <1>l, <3>1, <3>2, OneUnload
      <4> QED BY <1>3, <4>1
    <3>3. CASE Frame(p, g - 1).k = "rmmod" /\ Frame(p, g - 1).pc = "closed" /\ Listed(l, Kernel)
      <4>1. /\ \/ Frame(p, Height(p) - 1).k = "rmmod" /\ \A o \in Owners : ~Listed(l, o)
               \/ /\ Frame(p, Height(p) - 1).k = "close" /\ Frame(p, Height(p) - 1).o \in Owners
                  /\ Listed(l, Frame(p, Height(p) - 1).o)
        BY <1>1, <1>3, <1>l, UnloadFrom
      <4>2. Frame(p, Height(p) - 1).k = "close" /\ Frame(p, Height(p) - 1).o = Kernel
        BY <1>3, <3>3, <4>1 DEF Owners, CInv, Lists
      <4> QED BY <1>3, <3>1, <3>3, <4>2, RmmodNoKernelClose
    <3> QED BY <3>1, <3>2, <3>3
  <2>4. \A h \in 1 .. Height(p)' : h >= Height(p) /\ Frame(p, h)'.k = "close" =>
          \A g \in 1 .. Height(p) : Frame(p, g).k = "close" => Frame(p, g).o # Frame(p, h)'.o
    BY <1>6, <1>7, <1>10, <2>3
  <2> QED BY <1>9, <2>1, <2>2, <2>4, OneConfKept, OneCloseKept
<1>16. OneAdmin' /\ Phases'
  <2>1. ~(Height(p) <= 1)
    BY <1>3
  <2>2. OneAdmin'
    BY <1>9, <2>1, OneAdminKept
  <2>3. Phases'
    BY <1>1, <1>3, <1>9, PhasesKept
  <2> QED BY <2>2, <2>3
<1>17. Configured'
  <2>1. ASSUME NEW x \in Loaders, mod'[x] = "new"
        PROVE  /\ mod[x] = "new" /\ owner'[x] = owner[x] /\ name'[x] = name[x]
               /\ \A h : h = Height(p) /\ h > 0 /\ Frame(p, h).k = "conf" /\ Frame(p, h).l = x =>
                    h <= Height(p)' /\ Frame(p, h)'.k = "conf" /\ Frame(p, h)'.l = x
    BY <1>1, <1>3, <1>4, <1>5, <2>1
  <2> QED BY <1>9, <2>1, ConfiguredKept
<1>18. Typed' /\ Lists'
  BY <1>1, <1>5, <1>11 DEF CInv, Typed, Lists
<1>19. Answered'
  <2>1. \A q \in Procs : \A x \in Loaders : ret'[q] = Ref(x) /\ mod'[x] = "new" => owner'[x] = q
    BY <1>1, <1>4, <1>5 DEF CInv, Answered
  <2>2. ASSUME NEW h \in 1 .. Height(p)', h = Height(p)' PROVE Answers(p, Frame(p, h))'
    <3>1. Frame(p, h)' = a
      BY <1>3, <1>10, <2>2
    <3>2. Answers(p, a)'
      BY <1>1, <1>3, <1>6 DEF Answers
    <3> QED BY <3>1, <3>2 DEF Answers
  <2> QED BY <1>1, <1>9, <2>1, <2>2, AnsweredKept
<1>20. Works'
  <2>1. \A q \in Pool : \A x \in uses[q] : x \in Loaders
    BY DEF CInv, Typed
  <2> QED BY <1>1, <2>1, WorksKept
<1> QED BY <1>9, <1>14, <1>15, <1>16, <1>17, <1>18, <1>19, <1>20 DEF CInv, Steps

LEMMA UnloadRefsCalls ==
  ASSUME CInv, Functions', NEW p \in Procs, UnloadRefs(p) PROVE CInv'
<1>l. PICK l : l = Top(p).l
  OBVIOUS
<1>1. /\ stack[p] # <<>> /\ Top(p).k = "refs" /\ stack' = [stack EXCEPT ![p] = Tail(@)]
      /\ mod' = mod \/ mod' = [mod EXCEPT ![l] = "none"]
      /\ owner' = [owner EXCEPT ![l] = NoProc]
      /\ \E v \in {"true", "false"} : ret' = [ret EXCEPT ![p] = [v |-> v, l |-> Kernel]]
      /\ name' = name /\ local' = local /\ modules' = modules /\ uses' = uses /\ main' = main
  BY <1>l DEF UnloadRefs, Calls, Bool
<1>2. /\ Pops(p) /\ Steps(p) /\ Height(p) \in Nat /\ Height(p) > 0 /\ Height(p) \in 1 .. Height(p)
      /\ Height(p)' = Height(p) - 1
      /\ \A h \in 1 .. Height(p)' : h < Height(p)
      /\ \A h \in 1 .. Height(p)' : h = Height(p)' => h = Height(p) - 1
      /\ Phases' /\ OneAdmin' /\ OneConf' /\ OneClose'
  BY <1>1, PoppedTop
<1>3. /\ l \in Loaders /\ mod[l] # "new" /\ owner[l] = p /\ Frame(p, Height(p)) = Top(p)
  BY <1>1, <1>l, TopCall DEF Shape, Owners, Sound, RefsOk
<1>4. /\ \A x \in Loaders : mod'[x] = mod[x] \/ (x = l /\ mod'[x] = "none")
      /\ mod' \in [Loaders -> {"none", "new", "open", "closed", "leaked", "gone"}]
      /\ mod'[l] # "new"
      /\ \A x \in Loaders \ {l} : owner'[x] = owner[x]
      /\ owner' \in [Loaders -> Procs \cup {NoProc}]
  BY <1>1, <1>3 DEF CInv, Typed
<1>5. /\ \A q \in Procs \ {p} : ret'[q] = ret[q]
      /\ ret'[p].v # "ref"
  <2>1. PICK v \in {"true", "false"} : ret' = [ret EXCEPT ![p] = [v |-> v, l |-> Kernel]]
    BY <1>1
  <2>3. ret'[p] = [v |-> v, l |-> Kernel] /\ \A q \in Procs \ {p} : ret'[q] = ret[q]
    BY <2>1, RetIs
  <2> QED BY <2>3
<1>6. \A x \in Loaders : \A y \in Owners : Listed(x, y)' <=> Listed(x, y)
  BY <1>1 DEF Listed
<1>7. ASSUME NEW q \in Procs, NEW h, Stays(p, q, h) PROVE Sound(q, h)'
  <2>1. PICK f : f = Frame(q, h)
    OBVIOUS
  <2>2. h \in 1 .. Height(q) /\ Sound(q, h) /\ Shape(f)
    BY <1>2, <1>7, <2>1, StayingCalls, CallFacts
  <2>3. f.k = "conf" /\ f.l \in Loaders => mod'[f.l] = "new" /\ owner'[f.l] = q
    BY <1>3, <1>4, <2>1, <2>2 DEF Sound, ConfOk
  <2>4. ASSUME f.k = "refs" PROVE mod'[f.l] # "new" /\ owner'[f.l] = q
    <3>1. mod[f.l] # "new" /\ owner[f.l] = q /\ f.l \in Loaders
      BY <2>1, <2>2, <2>4 DEF Sound, RefsOk, Shape
    <3>2. f.l # l
      <4>1. f.l = l => q = p
        BY <1>3, <3>1
      <4>2. f.l = l => h = Height(p)
        BY <1>1, <1>2, <1>3, <1>l, <2>1, <2>2, <2>4, <4>1, OneUnload
      <4> QED BY <1>2, <1>7, <4>1, <4>2 DEF Stays
    <3> QED BY <1>3, <1>4, <3>1, <3>2
  <2>6. f.k = "close" => /\ f.o \in Loaders => mod'[f.o] # "new"
                         /\ \A x \in Loaders : Among(f.rest, x) => Listed(x, f.o)'
    BY <1>4, <1>6, <2>1, <2>2 DEF Sound, CloseOk, Shape
  <2>7. f.k = "rmmod" => IF f.pc = "deleted" THEN mod'[f.l] # "gone" ELSE Listed(f.l, Kernel)'
    BY <1>4, <1>6, <2>1, <2>2 DEF Sound, RmmodOk, Shape, Owners
  <2>8. /\ f.k = "get" => \A y \in Owners : Listed(f.l, y) => Listed(f.l, y)'
        /\ f.k = "insmod" /\ f.l # Kernel => Listed(f.l, f.o)'
    BY <1>6, <2>1, <2>2 DEF Sound, InsmodOk, Shape, Owners
  <2> QED BY <1>1, <1>2, <1>6, <1>7, <2>1, <2>3, <2>4, <2>6, <2>7, <2>8, SoundKept
<1>8. Relies'
  <2>1. \A h \in 1 .. Height(p)' : ~(h >= Height(p))
    BY <1>2
  <2> QED BY <1>2, <1>7, <2>1, ReliesKept
<1>9. Configured'
  <2>1. ASSUME NEW x \in Loaders, mod'[x] = "new"
        PROVE  /\ mod[x] = "new" /\ owner'[x] = owner[x] /\ name'[x] = name[x]
               /\ \A h : h = Height(p) /\ h > 0 /\ Frame(p, h).k = "conf" /\ Frame(p, h).l = x =>
                    h <= Height(p)' /\ Frame(p, h)'.k = "conf" /\ Frame(p, h)'.l = x
    BY <1>1, <1>3, <1>4, <2>1
  <2> QED BY <1>2, <2>1, ConfiguredKept
<1>10. Typed' /\ Lists'
  <2>3. \A q \in Procs : ret'[q].v = "ref" => ret'[q].l \in Loaders
    BY <1>5 DEF CInv, Typed
  <2>4. Typed'
    BY <1>1, <1>4, <2>3 DEF CInv, Typed
  <2>5. \A x \in Loaders : \A y \in Owners : Listed(x, y) => mod'[x] \notin {"gone", "leaked"}
    BY <1>4 DEF CInv, Lists
  <2>6. Lists'
    BY <1>1, <1>6, <2>5 DEF CInv, Lists
  <2> QED BY <2>4, <2>6
<1>11. Answered'
  <2>1. ASSUME NEW q \in Procs, NEW x \in Loaders, ret'[q] = Ref(x), mod'[x] = "new" PROVE owner'[x] = q
    <3>1. q # p
      BY <1>5, <2>1 DEF Ref
    <3> QED BY <1>4, <1>5, <2>1, <3>1 DEF CInv, Answered
  <2>2. ASSUME NEW h \in 1 .. Height(p)', h = Height(p)' PROVE Answers(p, Frame(p, h))'
    <3>1. PICK b : b = Frame(p, h)
      OBVIOUS
    <3>2. h = Height(p) - 1 /\ Height(p) > 1 /\ h \in 1 .. Height(p) - 1
      BY <1>2, <2>2
    <3>3. Frame(p, h)' = b
      BY <1>2, <3>1, <3>2 DEF Pops, Kept
    <3>4. Unloads(b, l)
      BY <1>1, <1>l, <3>1, <3>2, TopCall DEF Under
    <3>5. Answers(p, b)'
      BY <1>4, <3>4 DEF Answers, Unloads
    <3> QED BY <3>3, <3>5 DEF Answers
  <2>3. \A x \in Loaders : mod'[x] = "new" => mod[x] = "new"
    BY <1>4
  <2> QED BY <1>1, <1>2, <1>5, <2>1, <2>2, <2>3, AnsweredKept
<1>12. Works'
  <2>1. \A x \in Loaders : mod'[x] = "new" => mod[x] = "new"
    BY <1>4
  <2>2. \A q \in Pool : \A x \in uses[q] : x \in Loaders
    BY DEF CInv, Typed
  <2> QED BY <1>1, <2>1, <2>2, WorksKept
<1> QED BY <1>2, <1>8, <1>9, <1>10, <1>11, <1>12 DEF CInv, Steps

(* The calls that delete a loader.  Nobody is in a call on a loader of the   *)
(* list that is being closed.                                                *)
LEMMA ClosedApart ==
  ASSUME CInv, NEW p \in Procs, NEW g \in 1 .. Height(p), Frame(p, g).k = "close",
         NEW x \in Loaders, Listed(x, Frame(p, g).o),
         NEW q \in Procs, NEW h \in 1 .. Height(q), Frame(q, h).k \in {"get", "conf", "insmod", "rmmod"}, Frame(q, h).l = x
  PROVE  FALSE
<1>o. PICK o \in Owners : o = Frame(p, g).o
  BY CallFacts DEF Shape
<1>k. Kernel \in Owners /\ Kernel \notin Loaders
  BY ModuleAssumption DEF Owners
<1>1. Sound(q, h) /\ Shape(Frame(q, h))
  BY CallFacts
<1>2. \A y \in Owners : Listed(x, y) => y = o
  BY <1>o DEF CInv, Lists
<1>3. CASE Frame(q, h).k = "insmod"
  <2>1. Frame(q, h).o = o
    BY <1>1, <1>2, <1>3, <1>k DEF Sound, InsmodOk, Shape
  <2> QED BY <1>3, <1>o, <2>1, InsmodNoClose
<1>4. CASE Frame(q, h).k = "rmmod"
  <2>1. o = Kernel
    BY <1>1, <1>2, <1>4, <1>k, <1>o DEF Sound, RmmodOk
  <2> QED BY <1>4, <1>o, <2>1, RmmodNoKernelClose
<1>5. CASE Frame(q, h).k \in {"get", "conf"}
  <2>1. Listed(x, Kernel) \/ Inserted(q, h)
    BY <1>1, <1>5, <1>o DEF Sound, GetOk, ConfOk
  <2>2. CASE Inserted(q, h)
    <3>1. /\ h - 1 \in 1 .. Height(q) /\ Frame(q, h - 1).k = "insmod"
          /\ Frame(q, h - 1).o \in Loaders /\ Listed(x, Frame(q, h - 1).o)
      BY <1>5, <2>2, InsertedListed
    <3>2. Frame(q, h - 1).o = o
      BY <1>2, <3>1 DEF Owners
    <3> QED BY <1>o, <3>1, <3>2, InsmodNoClose
  <2>3. CASE Listed(x, Kernel)
    <3>1. o = Kernel
      BY <1>2, <1>k, <2>3
    <3>2. p = Main /\ Height(Main) > 0
      BY <1>o, <3>1, KernelClose, CallFacts
    <3>3. Height(q) > 0
      BY CallFacts
    <3>4. q = Main
      BY <3>2, <3>3, Exclusive DEF Procs
    <3>5. Frame(p, h).k \in Loading /\ Frame(p, g).k \in Ending /\ h \in 1 .. Height(p)
      BY <1>5, <3>2, <3>4 DEF Loading, Ending
    <3> QED BY <3>5 DEF CInv, Calling, Frames
  <2> QED BY <2>1, <2>2, <2>3
<1> QED BY <1>3, <1>4, <1>5

LEMMA ClosedNotNew ==
  ASSUME CInv, NEW p \in Procs, NEW g \in 1 .. Height(p), Frame(p, g).k = "close",
         NEW x \in Loaders, Listed(x, Frame(p, g).o)
  PROVE  mod[x] # "new"
<1> SUFFICES ASSUME mod[x] = "new" PROVE FALSE
  OBVIOUS
<1>1. PICK q \in Procs : \E h \in 1 .. Height(q) : Frame(q, h).k = "conf" /\ Frame(q, h).l = x
  BY DEF CInv, Configured, Frames
<1>2. PICK h \in 1 .. Height(q) : Frame(q, h).k = "conf" /\ Frame(q, h).l = x
  BY <1>1
<1> QED BY <1>2, ClosedApart

LEMMA DeletedIs ==
  ASSUME CInv, NEW x \in Loaders, mod' = [mod EXCEPT ![x] = Deleted(x)]
  PROVE  /\ mod'[x] \in {"leaked", "gone"} /\ \A y \in Loaders \ {x} : mod'[y] = mod[y]
         /\ mod' \in [Loaders -> {"none", "new", "open", "closed", "leaked", "gone"}]
  BY DEF CInv, Typed, Deleted

LEMMA TakenOut ==
  ASSUME CInv, NEW o \in Owners, NEW x \in Loaders, modules' = [modules EXCEPT ![o] = Without(@, x)]
  PROVE  /\ modules' \in [Owners -> Seq(Loaders)]
         /\ \A y \in Owners : Once(modules'[y])
         /\ \A l \in Loaders : \A y \in Owners : Listed(l, y)' <=> Listed(l, y) /\ ~(l = x /\ y = o)
<1>1. \A y \in Owners : modules[y] \in Seq(Loaders) /\ Once(modules[y])
  BY DEF CInv, Typed, Lists
<1>w. PICK w : w = Without(modules[o], x)
  OBVIOUS
<1>2. w \in Seq(Loaders) /\ Once(w) /\ \A l : Among(w, l) <=> Among(modules[o], l) /\ l # x
  BY <1>1, <1>w, WithoutList
<1>3. modules' = [modules EXCEPT ![o] = w]
  BY <1>w
<1>4. modules'[o] = w /\ \A y \in Owners \ {o} : modules'[y] = modules[y]
  BY <1>3 DEF CInv, Typed
<1>5. modules' \in [Owners -> Seq(Loaders)]
  BY <1>2, <1>3 DEF CInv, Typed
<1>6. ASSUME NEW l \in Loaders, NEW y \in Owners PROVE Listed(l, y)' <=> Listed(l, y) /\ ~(l = x /\ y = o)
  BY <1>2, <1>4 DEF Listed
<1> QED BY <1>1, <1>2, <1>4, <1>5, <1>6

LEMMA CloseSubDoneCalls ==
  ASSUME CInv, Functions', NEW p \in Procs, CloseSubDone(p) PROVE CInv'
<1>o. PICK o : o = Top(p).o
  OBVIOUS
<1>x. PICK x : x = Head(Top(p).rest)
  OBVIOUS
<1>1. /\ stack[p] # <<>> /\ Top(p).k = "close" /\ ret[p] # Nothing
      /\ \/ modules' = modules /\ mod' = mod
         \/ modules' = [modules EXCEPT ![o] = Without(@, x)] /\ mod' = [mod EXCEPT ![x] = Deleted(x)]
      /\ ret' = [ret EXCEPT ![p] = Nothing]
      /\ owner' = owner /\ name' = name /\ local' = local /\ uses' = uses /\ main' = main
  BY <1>o, <1>x DEF CloseSubDone, Calls
<1>2. /\ Height(p) \in Nat /\ Height(p) > 0 /\ Height(p) \in 1 .. Height(p) /\ Frame(p, Height(p)) = Top(p)
      /\ Shape(Top(p)) /\ CloseOk(Top(p)) /\ o \in Owners /\ Top(p).rest \in Seq(Loaders) /\ Top(p).rest # <<>>
      /\ stack[p][1] = Top(p)
      /\ Top(p) = [k |-> Top(p).k, o |-> Top(p).o, rest |-> Top(p).rest, done |-> Top(p).done]
  BY <1>1, <1>o, TopCall DEF Shape, Sound, Answers
<1>w. PICK w : w = Tail(Top(p).rest)
  OBVIOUS
<1>d. PICK d : d = (Top(p).done /\ ret[p] = Bool(TRUE))
  OBVIOUS
<1>b. PICK b : b = [Top(p) EXCEPT !.rest = w, !.done = d]
  OBVIOUS
<1>3. /\ x \in Loaders /\ Listed(x, o) /\ w \in Seq(Loaders) /\ Once(w)
      /\ \A l : Among(w, l) <=> Among(Top(p).rest, l) /\ l # x
  BY <1>2, <1>o, <1>w, <1>x, TailList DEF CloseOk
<1>4. b.k = "close" /\ b.o = o /\ b.rest = w /\ b = [k |-> b.k, o |-> b.o, rest |-> b.rest, done |-> b.done]
  <2>1. b = [k |-> Top(p).k, o |-> Top(p).o, rest |-> w, done |-> d]
    BY <1>2, <1>b, RestDoneOf
  <2> QED BY <1>1, <1>o, <2>1
<1>5. Swaps(p, b)
  <2>1. stack' = [stack EXCEPT ![p] = [@ EXCEPT ![1] = b]]
    BY <1>2, <1>w, <1>d, <1>b DEF CloseSubDone
  <2> QED BY <1>1, <2>1, SwapsIn DEF CInv
<1>6. ret'[p] = Nothing /\ \A q \in Procs \ {p} : ret'[q] = ret[q]
  BY <1>1, RetIs DEF Nothing
<1>7. mod[x] # "new"
  BY <1>1, <1>2, <1>3, <1>o, ClosedNotNew
<1>8. /\ mod' \in [Loaders -> {"none", "new", "open", "closed", "leaked", "gone"}]
      /\ \A l \in Loaders \ {x} : mod'[l] = mod[l]
      /\ mod'[x] # "new"
      /\ modules' \in [Owners -> Seq(Loaders)]
      /\ \A y \in Owners : Once(modules'[y])
      /\ \A l \in Loaders : \A y \in Owners : l # x => (Listed(l, y)' <=> Listed(l, y))
      /\ \A y \in Owners : Listed(x, y)' => Listed(x, y) /\ mod'[x] = mod[x]
  <2>1. CASE modules' = modules /\ mod' = mod
    BY <1>7, <2>1 DEF CInv, Typed, Lists, Listed
  <2>2. CASE modules' = [modules EXCEPT ![o] = Without(@, x)] /\ mod' = [mod EXCEPT ![x] = Deleted(x)]
    <3>1. /\ mod'[x] \in {"leaked", "gone"} /\ \A y \in Loaders \ {x} : mod'[y] = mod[y]
          /\ mod' \in [Loaders -> {"none", "new", "open", "closed", "leaked", "gone"}]
      BY <1>3, <2>2, DeletedIs
    <3>2. /\ modules' \in [Owners -> Seq(Loaders)]
          /\ \A y \in Owners : Once(modules'[y])
          /\ \A l \in Loaders : \A y \in Owners : Listed(l, y)' <=> Listed(l, y) /\ ~(l = x /\ y = o)
      BY <1>2, <1>3, <2>2, TakenOut
    <3>3. \A y \in Owners : Listed(x, y) => y = o
      BY <1>2, <1>3 DEF CInv, Lists
    <3> QED BY <1>3, <3>1, <3>2, <3>3
  <2> QED BY <1>1, <2>1, <2>2
<1>9. Steps(p)
  <2>1. Shape(b)
    BY <1>2, <1>3, <1>4 DEF Shape
  <2>2. Height(p) = 1 => Bottom(p, b)
    <3>1. Height(p) = 1 => Bottom(p, Top(p))
      BY <1>1, TopCall
    <3> QED BY <1>1, <1>4, <1>o, <3>1 DEF Bottom
  <2>3. Height(p) > 1 => Under(b, Frame(p, Height(p) - 1))
    <3>1. Height(p) > 1 => Under(Top(p), Frame(p, Height(p) - 1))
      BY <1>1, TopCall
    <3> QED BY <1>1, <1>4, <1>o, <3>1 DEF Under
  <2>4. Stacks' /\ Calling'
    BY <1>1, <1>2, <1>4, <1>5, <2>1, <2>2, <2>3, SwapsCalling DEF CInv
  <2> QED BY <1>2, <1>5, <2>4 DEF Swaps, Steps, CInv
<1>10. Height(p)' = Height(p) /\ \A h \in 1 .. Height(p)' : h >= Height(p) => h = Height(p) /\ Frame(p, h)' = b
  BY <1>2, <1>5 DEF Swaps
<1>11. ASSUME NEW q \in Procs, NEW h, Stays(p, q, h) PROVE Sound(q, h)'
  <2>1. PICK f : f = Frame(q, h)
    OBVIOUS
  <2>2. h \in 1 .. Height(q) /\ Sound(q, h) /\ Shape(f)
    BY <1>9, <1>11, <2>1, StayingCalls, CallFacts
  <2>a. f.k \in {"get", "conf", "insmod", "rmmod"} => f.l # x
    BY <1>1, <1>2, <1>3, <1>o, <2>1, <2>2, ClosedApart
  <2>3. f.k = "conf" /\ f.l \in Loaders => mod'[f.l] = "new" /\ owner'[f.l] = q
    BY <1>1, <1>8, <2>1, <2>2, <2>a DEF Sound, ConfOk
  <2>4. f.k = "refs" => mod'[f.l] # "new" /\ owner'[f.l] = q
    BY <1>1, <1>8, <2>1, <2>2 DEF Sound, RefsOk, Shape
  <2>5. ASSUME f.k = "close", NEW l \in Loaders, Among(f.rest, l) PROVE Listed(l, f.o)'
    <3>1. Listed(l, f.o) /\ f.o \in Owners
      BY <2>1, <2>2, <2>5 DEF Sound, CloseOk, Shape
    <3>2. ASSUME l = x PROVE FALSE
      <4>1. f.o = o
        BY <1>2, <1>3, <3>1, <3>2 DEF CInv, Lists
      <4>2. q = p
        BY <1>1, <1>2, <2>1, <2>2, <2>5, OneCloses DEF Ending
      <4>3. h = Height(p)
        BY <1>1, <1>2, <1>o, <2>1, <2>2, <2>5, <4>1, <4>2 DEF CInv, OneClose, Frames
      <4> QED BY <1>2, <1>11, <4>2, <4>3 DEF Stays
    <3> QED BY <1>8, <3>1, <3>2
  <2>6. f.k = "close" /\ f.o \in Loaders => mod'[f.o] # "new"
    BY <1>8, <2>1, <2>2 DEF Sound, CloseOk, Shape
  <2>7. f.k = "rmmod" => IF f.pc = "deleted" THEN mod'[f.l] # "gone" ELSE Listed(f.l, Kernel)'
    BY <1>8, <2>1, <2>2, <2>a DEF Sound, RmmodOk, Shape, Owners
  <2>8. /\ f.k = "get" => \A y \in Owners : Listed(f.l, y) => Listed(f.l, y)'
        /\ f.k = "insmod" /\ f.l # Kernel => Listed(f.l, f.o)'
    BY <1>8, <2>1, <2>2, <2>a DEF Sound, InsmodOk, Shape, Owners
  <2> QED BY <1>1, <1>8, <1>9, <1>11, <2>1, <2>3, <2>4, <2>5, <2>6, <2>7, <2>8, SoundKept
<1>12. ASSUME NEW h \in 1 .. Height(p)', h >= Height(p) PROVE Sound(p, h)'
  <2>1. Frame(p, h)' = b
    BY <1>10, <1>12
  <2>2. o \in Loaders => mod'[o] # "new"
    BY <1>2, <1>8, <1>o DEF CloseOk
  <2>3. \A l \in Loaders : Among(w, l) => Listed(l, o)'
    BY <1>2, <1>3, <1>8, <1>o DEF CloseOk
  <2>4. CloseOk(b)'
    BY <1>3, <1>4, <2>2, <2>3 DEF CloseOk
  <2> QED BY <1>4, <2>1, <2>4 DEF Sound
<1>13. Relies'
  BY <1>9, <1>11, <1>12, ReliesKept
<1>14. OneConf' /\ OneClose'
  <2>1. \A h \in 1 .. Height(p)' : h >= Height(p) => Frame(p, h)'.k # "conf"
    BY <1>4, <1>10
  <2>2. \A g, h \in 1 .. Height(p)' : g >= Height(p) /\ h >= Height(p) => g = h
    BY <1>10
  <2>3. \A h \in 1 .. Height(p)' : h >= Height(p) /\ Frame(p, h)'.k = "close" =>
          \A t : t = Frame(p, Height(p)) => t.k = "close" /\ t.o = Frame(p, h)'.o
    BY <1>1, <1>2, <1>4, <1>10, <1>o
  <2> QED BY <1>9, <2>1, <2>2, <2>3, OneConfKept, OneCloseKept
<1>15. OneAdmin' /\ Phases'
  <2>1. Height(p) <= 1 => Frame(p, 1)'.k = "close"
    BY <1>2, <1>4, <1>10
  <2>2. OneAdmin'
    BY <1>9, <2>1, OneAdminKept
  <2>3. Phases'
    BY <1>1, <1>2, <1>9, PhasesKept
  <2> QED BY <2>2, <2>3
<1>16. Configured'
  <2>1. ASSUME NEW l \in Loaders, mod'[l] = "new"
        PROVE  /\ mod[l] = "new" /\ owner'[l] = owner[l] /\ name'[l] = name[l]
               /\ \A h : h = Height(p) /\ h > 0 /\ Frame(p, h).k = "conf" /\ Frame(p, h).l = l =>
                    h <= Height(p)' /\ Frame(p, h)'.k = "conf" /\ Frame(p, h)'.l = l
    BY <1>1, <1>2, <1>8, <2>1
  <2> QED BY <1>9, <2>1, ConfiguredKept
<1>17. Typed' /\ Lists'
  <2>1. \A q \in Procs : ret'[q].v = "ref" => ret'[q].l \in Loaders
    BY <1>6 DEF CInv, Typed, Nothing
  <2>2. Typed'
    BY <1>1, <1>8, <2>1 DEF CInv, Typed
  <2>3. \A l \in Loaders : \A y \in Owners : Listed(l, y)' => Listed(l, y) /\ mod'[l] = mod[l]
    BY <1>8
  <2>4. Lists'
    BY <1>8, <2>3 DEF CInv, Lists
  <2> QED BY <2>2, <2>4
<1>18. Answered'
  <2>1. \A q \in Procs : \A l \in Loaders : ret'[q] = Ref(l) /\ mod'[l] = "new" => owner'[l] = q
    BY <1>1, <1>6, <1>8 DEF CInv, Answered, Nothing, Ref
  <2>2. ASSUME NEW h \in 1 .. Height(p)', h = Height(p)' PROVE Answers(p, Frame(p, h))'
    <3>1. Frame(p, h)' = b
      BY <1>10, <2>2
    <3>2. Answers(p, b)'
      BY <1>4, <1>6 DEF Answers
    <3> QED BY <3>1, <3>2 DEF Answers
  <2>3. \A l \in Loaders : mod'[l] = "new" => mod[l] = "new"
    BY <1>8
  <2> QED BY <1>1, <1>6, <1>9, <2>1, <2>2, <2>3, AnsweredKept
<1>19. Works'
  <2>1. \A l \in Loaders : mod'[l] = "new" => mod[l] = "new"
    BY <1>8
  <2>2. \A q \in Pool : \A l \in uses[q] : l \in Loaders
    BY DEF CInv, Typed
  <2> QED BY <1>1, <2>1, <2>2, WorksKept
<1> QED BY <1>9, <1>13, <1>14, <1>15, <1>16, <1>17, <1>18, <1>19 DEF CInv, Steps

\* Nobody else relies on a loader of the list that insmod works on.
LEMMA InsertApart ==
  ASSUME CInv, NEW p \in Procs, NEW g \in 1 .. Height(p), Frame(p, g).k = "insmod",
         NEW x \in Loaders, Listed(x, Frame(p, g).o),
         NEW q \in Procs, NEW h \in 1 .. Height(q), ~(q = p /\ h = g),
         NEW f, f = Frame(q, h)
  PROVE  /\ f.k \in {"insmod", "rmmod"} => f.l # x
         /\ f.k = "close" => ~Among(f.rest, x)
<1>o. PICK o \in Owners : o = Frame(p, g).o
  BY CallFacts DEF Shape
<1>k. Kernel \in Owners /\ Kernel \notin Loaders
  BY ModuleAssumption DEF Owners
<1>1. Sound(q, h) /\ Shape(f)
  BY CallFacts
<1>2. \A y \in Owners : Listed(x, y) => y = o
  BY <1>o DEF CInv, Lists
<1>3. ASSUME f.k = "insmod", f.l = x PROVE FALSE
  <2>1. f.o = o
    BY <1>1, <1>2, <1>3, <1>k DEF Sound, InsmodOk, Shape
  <2> QED BY <1>3, <1>o, <2>1, InsmodsDiffer
<1>4. ASSUME f.k = "rmmod", f.l = x PROVE FALSE
  <2>1. o = Kernel
    BY <1>1, <1>2, <1>4, <1>k, <1>o DEF Sound, RmmodOk
  <2> QED BY <1>4, <1>o, <2>1, InsmodNoRmmod
<1>5. ASSUME f.k = "close", Among(f.rest, x) PROVE FALSE
  <2>1. f.o = o
    BY <1>1, <1>2, <1>5 DEF Sound, CloseOk, Shape
  <2> QED BY <1>5, <1>o, <2>1, InsmodNoClose
<1> QED BY <1>3, <1>4, <1>5

\* ... nor on the one that rmmod takes out of the kernel's list.
LEMMA RmmodApart ==
  ASSUME CInv, NEW p \in Procs, NEW g \in 1 .. Height(p), Frame(p, g).k = "rmmod",
         NEW x \in Loaders, Listed(x, Kernel),
         NEW q \in Procs, NEW h \in 1 .. Height(q), ~(q = p /\ h = g),
         NEW f, f = Frame(q, h)
  PROVE  /\ f.k = "insmod" => f.l # x
         /\ f.k # "rmmod"
         /\ f.k = "close" => ~Among(f.rest, x)
<1>k. Kernel \in Owners /\ Kernel \notin Loaders
  BY ModuleAssumption DEF Owners
<1>1. Sound(q, h) /\ Shape(f)
  BY CallFacts
<1>2. \A y \in Owners : Listed(x, y) => y = Kernel
  BY <1>k DEF CInv, Lists
<1>3. ASSUME f.k = "insmod", f.l = x PROVE FALSE
  <2>1. f.o = Kernel
    BY <1>1, <1>2, <1>3, <1>k DEF Sound, InsmodOk, Shape
  <2> QED BY <1>3, <2>1, InsmodNoRmmod
<1>4. ASSUME f.k = "rmmod" PROVE FALSE
  <2>1. p \in Pool /\ Administers(p) /\ g = 1
    BY RmmodCalls
  <2>2. q \in Pool /\ Administers(q) /\ h = 1
    BY <1>4, RmmodCalls
  <2> QED BY <2>1, <2>2 DEF CInv, OneAdmin
<1>5. ASSUME f.k = "close", Among(f.rest, x) PROVE FALSE
  <2>1. f.o = Kernel
    BY <1>1, <1>2, <1>5 DEF Sound, CloseOk, Shape
  <2> QED BY <1>5, <2>1, RmmodNoKernelClose
<1> QED BY <1>3, <1>4, <1>5

LEMMA InsmodDoneCalls ==
  ASSUME CInv, Functions', NEW p \in Procs, InsmodDone(p), ret[p] = NoRef PROVE CInv'
<1>o. PICK o : o = Top(p).o
  OBVIOUS
<1>x. PICK x : x = Top(p).l
  OBVIOUS
<1>1. /\ stack[p] # <<>> /\ Top(p).k = "insmod" /\ ~Awaited(p, x)
      /\ stack' = [stack EXCEPT ![p] = Tail(@)]
      /\ modules' = [modules EXCEPT ![o] = Without(@, x)] /\ mod' = [mod EXCEPT ![x] = Deleted(x)]
      /\ ret' = [ret EXCEPT ![p] = Nothing]
      /\ owner' = owner /\ name' = name /\ local' = local /\ uses' = uses /\ main' = main
  BY <1>o, <1>x DEF InsmodDone, Calls
<1>2. /\ Pops(p) /\ Steps(p) /\ Height(p) \in Nat /\ Height(p) > 0 /\ Height(p) \in 1 .. Height(p)
      /\ Height(p)' = Height(p) - 1
      /\ \A h \in 1 .. Height(p)' : h < Height(p)
      /\ \A h \in 1 .. Height(p)' : h = Height(p)' => h = Height(p) - 1
      /\ Phases' /\ OneAdmin' /\ OneConf' /\ OneClose'
  BY <1>1, PoppedTop
<1>3. /\ Frame(p, Height(p)) = Top(p) /\ o \in Owners /\ x \in Loaders /\ Listed(x, o) /\ name[x] \in Broken
  <2>1. /\ Frame(p, Height(p)) = Top(p) /\ Answers(p, Top(p)) /\ Shape(Top(p)) /\ Sound(p, Height(p))
    BY <1>1, TopCall
  <2>2. x # Kernel
    BY <1>1, <1>x, <2>1 DEF Answers, NoRef, Nothing
  <2>3. o \in Owners /\ x \in Loaders
    BY <1>1, <1>o, <1>x, <2>1, <2>2 DEF Shape, Owners
  <2>4. Listed(x, o)
    BY <1>1, <1>o, <1>x, <2>1, <2>2 DEF Sound, InsmodOk
  <2>5. name[x] \in Broken
    BY <1>1, <1>x, <2>1, <2>2 DEF Answers
  <2> QED BY <2>1, <2>3, <2>4, <2>5
<1>6. ret'[p] = Nothing /\ \A q \in Procs \ {p} : ret'[q] = ret[q]
  BY <1>1, RetIs DEF Nothing
<1>7. mod[x] # "new"
  BY <1>3 DEF CInv, Configured
<1>8. /\ mod' \in [Loaders -> {"none", "new", "open", "closed", "leaked", "gone"}]
      /\ \A l \in Loaders \ {x} : mod'[l] = mod[l]
      /\ mod'[x] # "new"
      /\ modules' \in [Owners -> Seq(Loaders)]
      /\ \A y \in Owners : Once(modules'[y])
      /\ \A l \in Loaders : \A y \in Owners : l # x => (Listed(l, y)' <=> Listed(l, y))
      /\ \A y \in Owners : ~Listed(x, y)'
  <2>1. /\ mod'[x] \in {"leaked", "gone"} /\ \A y \in Loaders \ {x} : mod'[y] = mod[y]
        /\ mod' \in [Loaders -> {"none", "new", "open", "closed", "leaked", "gone"}]
    BY <1>1, <1>3, DeletedIs
  <2>2. /\ modules' \in [Owners -> Seq(Loaders)]
        /\ \A y \in Owners : Once(modules'[y])
        /\ \A l \in Loaders : \A y \in Owners : Listed(l, y)' <=> Listed(l, y) /\ ~(l = x /\ y = o)
    BY <1>1, <1>3, TakenOut
  <2>3. \A y \in Owners : Listed(x, y) => y = o
    BY <1>3 DEF CInv, Lists
  <2> QED BY <1>3, <2>1, <2>2, <2>3
<1>11. ASSUME NEW q \in Procs, NEW h, Stays(p, q, h) PROVE Sound(q, h)'
  <2>1. PICK f : f = Frame(q, h)
    OBVIOUS
  <2>2. h \in 1 .. Height(q) /\ Sound(q, h) /\ Shape(f) /\ ~(q = p /\ h = Height(p))
    BY <1>2, <1>11, <2>1, StayingCalls, CallFacts DEF Stays
  <2>a. /\ f.k \in {"insmod", "rmmod"} => f.l # x
        /\ f.k = "close" => ~Among(f.rest, x)
    BY <1>1, <1>2, <1>3, <1>o, <2>1, <2>2, InsertApart
  <2>b. f.k = "get" => f.l # x
    <3>1. q = p => f.k # "get"
      BY <2>1, <2>2, GetOnTop
    <3> QED BY <1>1, <2>1, <2>2, <3>1, NotAwaited
  <2>3. f.k = "conf" /\ f.l \in Loaders => mod'[f.l] = "new" /\ owner'[f.l] = q
    BY <1>1, <1>7, <1>8, <2>1, <2>2 DEF Sound, ConfOk
  <2>4. f.k = "refs" => mod'[f.l] # "new" /\ owner'[f.l] = q
    BY <1>1, <1>8, <2>1, <2>2 DEF Sound, RefsOk, Shape
  <2>6. f.k = "close" => /\ f.o \in Loaders => mod'[f.o] # "new"
                         /\ \A l \in Loaders : Among(f.rest, l) => Listed(l, f.o)'
    BY <1>8, <2>1, <2>2, <2>a DEF Sound, CloseOk, Shape
  <2>7. f.k = "rmmod" => IF f.pc = "deleted" THEN mod'[f.l] # "gone" ELSE Listed(f.l, Kernel)'
    BY <1>8, <2>1, <2>2, <2>a DEF Sound, RmmodOk, Shape, Owners
  <2>8. /\ f.k = "get" => \A y \in Owners : Listed(f.l, y) => Listed(f.l, y)'
        /\ f.k = "insmod" /\ f.l # Kernel => Listed(f.l, f.o)'
    BY <1>8, <2>1, <2>2, <2>a, <2>b DEF Sound, InsmodOk, Shape, Owners
  <2>9. \A l \in Loaders : \A y \in Owners : Listed(l, y)' => Listed(l, y)
    BY <1>8
  <2> QED BY <1>1, <1>2, <1>11, <2>1, <2>3, <2>4, <2>6, <2>7, <2>8, <2>9, SoundKept
<1>13. Relies'
  <2>1. \A h \in 1 .. Height(p)' : ~(h >= Height(p))
    BY <1>2
  <2> QED BY <1>2, <1>11, <2>1, ReliesKept
<1>16. Configured'
  <2>1. ASSUME NEW l \in Loaders, mod'[l] = "new"
        PROVE  /\ mod[l] = "new" /\ owner'[l] = owner[l] /\ name'[l] = name[l]
               /\ \A h : h = Height(p) /\ h > 0 /\ Frame(p, h).k = "conf" /\ Frame(p, h).l = l =>
                    h <= Height(p)' /\ Frame(p, h)'.k = "conf" /\ Frame(p, h)'.l = l
    BY <1>1, <1>3, <1>8, <2>1
  <2> QED BY <1>2, <2>1, ConfiguredKept
<1>17. Typed' /\ Lists'
  <2>1. \A q \in Procs : ret'[q].v = "ref" => ret'[q].l \in Loaders
    BY <1>6 DEF CInv, Typed, Nothing
  <2>2. Typed'
    BY <1>1, <1>8, <2>1 DEF CInv, Typed
  <2>3. \A l \in Loaders : \A y \in Owners : Listed(l, y)' => Listed(l, y) /\ mod'[l] = mod[l]
    BY <1>8
  <2>4. Lists'
    BY <1>8, <2>3 DEF CInv, Lists
  <2> QED BY <2>2, <2>4
<1>18. Answered'
  <2>1. ASSUME NEW q \in Procs, NEW l \in Loaders, ret'[q] = Ref(l), mod'[l] = "new" PROVE owner'[l] = q
    <3>1. q # p
      BY <1>6, <2>1 DEF Nothing, Ref
    <3>2. ret[q] = Ref(l) /\ mod[l] = "new"
      BY <1>6, <1>8, <2>1, <3>1
    <3> QED BY <1>1, <3>2 DEF CInv, Answered
  <2>2. ASSUME NEW h \in 1 .. Height(p)', h = Height(p)' PROVE Answers(p, Frame(p, h))'
    <3>1. PICK b : b = Frame(p, h)
      OBVIOUS
    <3>2. h = Height(p) - 1 /\ Height(p) > 1 /\ h \in 1 .. Height(p) - 1
      BY <1>2, <2>2
    <3>3. Frame(p, h)' = b
      BY <1>2, <3>1, <3>2 DEF Pops, Kept
    <3>4. b.k = "conf"
      BY <1>1, <3>1, <3>2, TopCall DEF Under
    <3>5. Answers(p, b)'
      BY <3>4 DEF Answers
    <3> QED BY <3>3, <3>5 DEF Answers
  <2>3. \A l \in Loaders : mod'[l] = "new" => mod[l] = "new"
    BY <1>8
  <2> QED BY <1>1, <1>2, <1>6, <2>1, <2>2, <2>3, AnsweredKept
<1>19. Works'
  <2>1. \A l \in Loaders : mod'[l] = "new" => mod[l] = "new"
    BY <1>8
  <2>2. \A q \in Pool : \A l \in uses[q] : l \in Loaders
    BY DEF CInv, Typed
  <2> QED BY <1>1, <2>1, <2>2, WorksKept
<1> QED BY <1>2, <1>13, <1>16, <1>17, <1>18, <1>19 DEF CInv, Steps

LEMMA RmmodDoneCalls ==
  ASSUME CInv, Functions', NEW p \in Procs, RmmodDone(p) PROVE CInv'
<1>x. PICK x : x = Top(p).l
  OBVIOUS
<1>1. /\ stack[p] # <<>> /\ Top(p).k = "rmmod" /\ Top(p).pc = "deleted"
      /\ stack' = [stack EXCEPT ![p] = Tail(@)]
      /\ mod' = [mod EXCEPT ![x] = Deleted(x)]
      /\ ret' = [ret EXCEPT ![p] = Nothing]
      /\ owner' = owner /\ name' = name /\ local' = local /\ uses' = uses /\ main' = main /\ modules' = modules
  BY <1>x DEF RmmodDone, Calls
<1>2. /\ Pops(p) /\ Steps(p) /\ Height(p) \in Nat /\ Height(p) > 0 /\ Height(p) \in 1 .. Height(p)
      /\ Height(p)' = Height(p) - 1
      /\ \A h \in 1 .. Height(p)' : h < Height(p)
      /\ Phases' /\ OneAdmin' /\ OneConf' /\ OneClose'
  BY <1>1, PoppedTop
<1>3. /\ Frame(p, Height(p)) = Top(p) /\ x \in Loaders /\ mod[x] # "new" /\ \A y \in Owners : ~Listed(x, y)
      /\ Height(p) = 1
  <2>1. /\ Frame(p, Height(p)) = Top(p) /\ Answers(p, Top(p)) /\ Shape(Top(p)) /\ Sound(p, Height(p))
    BY <1>1, TopCall
  <2>2. Height(p) = 1 /\ RmmodOk(p, Top(p))
    BY <1>1, RmmodTop
  <2> QED BY <1>1, <1>x, <2>1, <2>2 DEF Answers, Shape, RmmodOk
<1>6. ret'[p] = Nothing /\ \A q \in Procs \ {p} : ret'[q] = ret[q]
  BY <1>1, RetIs DEF Nothing
<1>8. /\ mod'[x] \in {"leaked", "gone"} /\ \A y \in Loaders \ {x} : mod'[y] = mod[y]
      /\ mod' \in [Loaders -> {"none", "new", "open", "closed", "leaked", "gone"}]
  BY <1>1, <1>3, DeletedIs
<1>9. \A l \in Loaders : \A y \in Owners : Listed(l, y)' <=> Listed(l, y)
  BY <1>1 DEF Listed
<1>11. ASSUME NEW q \in Procs, NEW h, Stays(p, q, h) PROVE Sound(q, h)'
  <2>1. PICK f : f = Frame(q, h)
    OBVIOUS
  <2>2. h \in 1 .. Height(q) /\ Sound(q, h) /\ Shape(f) /\ ~(q = p /\ h = Height(p))
    BY <1>2, <1>11, <2>1, StayingCalls, CallFacts DEF Stays
  <2>a. f.k # "rmmod"
    <3> SUFFICES ASSUME f.k = "rmmod" PROVE FALSE
      OBVIOUS
    <3>1. p \in Pool /\ Administers(p) /\ Height(p) = 1
      BY <1>1, <1>2, <1>3, RmmodCalls
    <3>2. q \in Pool /\ Administers(q) /\ h = 1
      BY <2>1, <2>2, RmmodCalls
    <3> QED BY <2>2, <3>1, <3>2 DEF CInv, OneAdmin
  <2>3. f.k = "conf" /\ f.l \in Loaders => mod'[f.l] = "new" /\ owner'[f.l] = q
    BY <1>1, <1>3, <1>8, <2>1, <2>2 DEF Sound, ConfOk
  <2>4. f.k = "refs" => mod'[f.l] # "new" /\ owner'[f.l] = q
    BY <1>1, <1>8, <2>1, <2>2 DEF Sound, RefsOk, Shape
  <2>6. f.k = "close" => /\ f.o \in Loaders => mod'[f.o] # "new"
                         /\ \A l \in Loaders : Among(f.rest, l) => Listed(l, f.o)'
    BY <1>8, <1>9, <2>1, <2>2 DEF Sound, CloseOk, Shape
  <2>8. /\ f.k = "get" => \A y \in Owners : Listed(f.l, y) => Listed(f.l, y)'
        /\ f.k = "insmod" /\ f.l # Kernel => Listed(f.l, f.o)'
    BY <1>9, <2>1, <2>2 DEF Sound, InsmodOk, Shape, Owners
  <2> QED BY <1>1, <1>2, <1>9, <1>11, <2>1, <2>3, <2>4, <2>6, <2>a, <2>8, SoundKept
<1>13. Relies'
  <2>1. \A h \in 1 .. Height(p)' : ~(h >= Height(p))
    BY <1>2
  <2> QED BY <1>2, <1>11, <2>1, ReliesKept
<1>16. Configured'
  <2>1. ASSUME NEW l \in Loaders, mod'[l] = "new"
        PROVE  /\ mod[l] = "new" /\ owner'[l] = owner[l] /\ name'[l] = name[l]
               /\ \A h : h = Height(p) /\ h > 0 /\ Frame(p, h).k = "conf" /\ Frame(p, h).l = l =>
                    h <= Height(p)' /\ Frame(p, h)'.k = "conf" /\ Frame(p, h)'.l = l
    BY <1>1, <1>3, <1>8, <2>1
  <2> QED BY <1>2, <2>1, ConfiguredKept
<1>17. Typed' /\ Lists'
  <2>1. \A q \in Procs : ret'[q].v = "ref" => ret'[q].l \in Loaders
    BY <1>6 DEF CInv, Typed, Nothing
  <2>2. Typed'
    BY <1>1, <1>8, <2>1 DEF CInv, Typed
  <2>3. \A l \in Loaders : \A y \in Owners : Listed(l, y) => l # x
    BY <1>3
  <2>4. Lists'
    BY <1>1, <1>8, <1>9, <2>3 DEF CInv, Lists
  <2> QED BY <2>2, <2>4
<1>18. Answered'
  <2>1. ASSUME NEW q \in Procs, NEW l \in Loaders, ret'[q] = Ref(l), mod'[l] = "new" PROVE owner'[l] = q
    <3>1. q # p
      BY <1>6, <2>1 DEF Nothing, Ref
    <3>2. ret[q] = Ref(l) /\ mod[l] = "new"
      BY <1>6, <1>8, <2>1, <3>1
    <3> QED BY <1>1, <3>2 DEF CInv, Answered
  <2>2. \A h \in 1 .. Height(p)' : FALSE
    BY <1>2, <1>3
  <2>3. \A l \in Loaders : mod'[l] = "new" => mod[l] = "new"
    BY <1>8
  <2> QED BY <1>1, <1>2, <1>6, <2>1, <2>2, <2>3, AnsweredKept
<1>19. Works'
  <2>1. \A l \in Loaders : mod'[l] = "new" => mod[l] = "new"
    BY <1>8
  <2>2. \A q \in Pool : \A l \in uses[q] : l \in Loaders
    BY DEF CInv, Typed
  <2> QED BY <1>1, <2>1, <2>2, WorksKept
<1> QED BY <1>2, <1>13, <1>16, <1>17, <1>18, <1>19 DEF CInv, Steps

LEMMA RmmodRemoveCalls ==
  ASSUME CInv, Functions', NEW p \in Procs, RmmodRemove(p) PROVE CInv'
<1>x. PICK x : x = Top(p).l
  OBVIOUS
<1>a. PICK a : a = [k |-> "unload", l |-> x]
  OBVIOUS
<1>b. PICK b : b = [Top(p) EXCEPT !.pc = "deleted"]
  OBVIOUS
<1>1. /\ stack[p] # <<>> /\ Top(p).k = "rmmod" /\ Top(p).pc = "remove" /\ ~Awaited(p, x)
      /\ modules' = [modules EXCEPT ![Kernel] = Without(@, x)]
      /\ stack' = [stack EXCEPT ![p] = <<a, b>> \o Tail(@)]
      /\ owner' = owner /\ name' = name /\ local' = local /\ uses' = uses /\ main' = main
      /\ mod' = mod /\ ret' = ret
  BY <1>x, <1>a, <1>b DEF RmmodRemove, Calls
<1>2. /\ Height(p) = 1 /\ p \in Pool /\ Listed(x, Kernel) /\ x \in Loaders /\ Frame(p, 1) = Top(p) /\ 1 \in 1 .. Height(p)
      /\ Top(p) = [k |-> Top(p).k, pc |-> Top(p).pc, l |-> Top(p).l]
  BY <1>1, <1>x, RmmodTop, TopCall DEF RmmodOk
<1>3. ret[p] = Nothing
  BY <1>1, TopCall DEF Answers
<1>k. Kernel \in Owners /\ Kernel \notin Loaders
  BY ModuleAssumption DEF Owners
<1>4. /\ b.k = "rmmod" /\ b.pc = "deleted" /\ b.l = x /\ b = [k |-> b.k, pc |-> b.pc, l |-> b.l]
      /\ a.k = "unload" /\ a.l = x /\ a = [k |-> a.k, l |-> a.l]
  <2>1. b = [k |-> Top(p).k, pc |-> "deleted", l |-> Top(p).l]
    BY <1>2, <1>b, PcOf
  <2> QED BY <1>1, <1>x, <1>a, <2>1
<1>5. Calls2(p, b, a) /\ Stacks /\ Calling
  BY <1>1, CallsFrom DEF CInv
<1>6. Steps(p)
  <2>1. Shape(a) /\ Shape(b) /\ Under(a, b) /\ Bottom(p, b)
    BY <1>2, <1>4, ModuleAssumption DEF Shape, Under, Unloads, Bottom, Procs
  <2>2. ~(Height(p) > 1) /\ b.k \notin Loading /\ a.k \notin Loading
    BY <1>2, <1>4 DEF Loading
  <2>3. Stacks' /\ Calling'
    BY <1>5, <2>1, <2>2, CallsCalling
  <2> QED BY <1>2, <1>5, <2>3 DEF Calls2, Steps
<1>7. Height(p)' = 2 /\ Frame(p, 1)' = b /\ Frame(p, 2)' = a
  BY <1>2, <1>5 DEF Calls2
<1>8. /\ modules' \in [Owners -> Seq(Loaders)]
      /\ \A y \in Owners : Once(modules'[y])
      /\ \A l \in Loaders : \A y \in Owners : l # x => (Listed(l, y)' <=> Listed(l, y))
      /\ \A y \in Owners : ~Listed(x, y)'
  <2>1. /\ modules' \in [Owners -> Seq(Loaders)]
        /\ \A y \in Owners : Once(modules'[y])
        /\ \A l \in Loaders : \A y \in Owners : Listed(l, y)' <=> Listed(l, y) /\ ~(l = x /\ y = Kernel)
    BY <1>1, <1>2, <1>k, TakenOut
  <2>2. \A y \in Owners : Listed(x, y) => y = Kernel
    BY <1>2, <1>k DEF CInv, Lists
  <2> QED BY <1>2, <2>1, <2>2
<1>9. mod[x] # "gone"
  BY <1>2, <1>k DEF CInv, Lists
<1>11. ASSUME NEW q \in Procs, NEW h, Stays(p, q, h) PROVE Sound(q, h)'
  <2>1. PICK f : f = Frame(q, h)
    OBVIOUS
  <2>2. h \in 1 .. Height(q) /\ Sound(q, h) /\ Shape(f) /\ ~(q = p /\ h = 1)
    BY <1>2, <1>6, <1>11, <2>1, StayingCalls, CallFacts DEF Stays
  <2>a. /\ f.k = "insmod" => f.l # x
        /\ f.k # "rmmod"
        /\ f.k = "close" => ~Among(f.rest, x)
    BY <1>1, <1>2, <2>1, <2>2, RmmodApart
  <2>b. f.k = "get" => f.l # x
    <3>1. q # p
      BY <1>2, <2>2
    <3> QED BY <1>1, <2>1, <2>2, <3>1, NotAwaited
  <2>3. f.k = "conf" /\ f.l \in Loaders => mod'[f.l] = "new" /\ owner'[f.l] = q
    BY <1>1, <2>1, <2>2 DEF Sound, ConfOk
  <2>4. f.k = "refs" => mod'[f.l] # "new" /\ owner'[f.l] = q
    BY <1>1, <2>1, <2>2 DEF Sound, RefsOk
  <2>6. f.k = "close" => /\ f.o \in Loaders => mod'[f.o] # "new"
                         /\ \A l \in Loaders : Among(f.rest, l) => Listed(l, f.o)'
    BY <1>1, <1>8, <2>1, <2>2, <2>a DEF Sound, CloseOk, Shape
  <2>8. /\ f.k = "get" => \A y \in Owners : Listed(f.l, y) => Listed(f.l, y)'
        /\ f.k = "insmod" /\ f.l # Kernel => Listed(f.l, f.o)'
    BY <1>8, <2>1, <2>2, <2>a, <2>b DEF Sound, InsmodOk, Shape, Owners
  <2>9. \A l \in Loaders : \A y \in Owners : Listed(l, y)' => Listed(l, y)
    BY <1>8
  <2> QED BY <1>1, <1>6, <1>11, <2>1, <2>3, <2>4, <2>6, <2>a, <2>8, <2>9, SoundKept
<1>12. ASSUME NEW h \in 1 .. Height(p)', h >= Height(p) PROVE Sound(p, h)'
  <2>1. h = 1 \/ h = 2
    BY <1>7
  <2>2. Sound(p, 1)'
    <3>1. RmmodOk(p, b)'
      BY <1>1, <1>4, <1>8, <1>9 DEF RmmodOk
    <3> QED BY <1>4, <1>7, <3>1 DEF Sound
  <2>3. Sound(p, 2)'
    BY <1>4, <1>7 DEF Sound
  <2> QED BY <2>1, <2>2, <2>3
<1>13. Relies'
  BY <1>6, <1>11, <1>12, ReliesKept
<1>14. OneConf' /\ OneClose'
  <2>1. \A h \in 1 .. Height(p)' : Frame(p, h)'.k # "conf" /\ Frame(p, h)'.k # "close"
    <3>1. \A h \in 1 .. Height(p)' : h = 1 \/ h = 2
      BY <1>7
    <3> QED BY <1>4, <1>7, <3>1
  <2> QED BY <1>6, <2>1, OneConfKept, OneCloseKept
<1>15. OneAdmin' /\ Phases'
  <2>1. Administers(p)
    BY <1>1, <1>2 DEF Administers
  <2>2. OneAdmin'
    BY <1>6, <2>1, OneAdminKept
  <2>3. Phases'
    BY <1>1, <1>2, <1>6, PhasesKept
  <2> QED BY <2>2, <2>3
<1>16. Configured'
  <2>1. ASSUME NEW l \in Loaders, mod'[l] = "new"
        PROVE  /\ mod[l] = "new" /\ owner'[l] = owner[l] /\ name'[l] = name[l]
               /\ \A h : h = Height(p) /\ h > 0 /\ Frame(p, h).k = "conf" /\ Frame(p, h).l = l =>
                    h <= Height(p)' /\ Frame(p, h)'.k = "conf" /\ Frame(p, h)'.l = l
    BY <1>1, <1>2, <2>1
  <2> QED BY <1>6, <2>1, ConfiguredKept
<1>17. Typed' /\ Lists'
  <2>2. Typed'
    BY <1>1, <1>8 DEF CInv, Typed
  <2>3. \A l \in Loaders : \A y \in Owners : Listed(l, y)' => Listed(l, y)
    BY <1>8
  <2>4. Lists'
    BY <1>1, <1>8, <2>3 DEF CInv, Lists
  <2> QED BY <2>2, <2>4
<1>18. Answered'
  <2>1. \A q \in Procs : \A l \in Loaders : ret'[q] = Ref(l) /\ mod'[l] = "new" => owner'[l] = q
    BY <1>1 DEF CInv, Answered
  <2>2. ASSUME NEW h \in 1 .. Height(p)', h = Height(p)' PROVE Answers(p, Frame(p, h))'
    <3>1. Frame(p, h)' = a
      BY <1>7, <2>2
    <3>2. Answers(p, a)'
      BY <1>1, <1>3, <1>4 DEF Answers
    <3> QED BY <3>1, <3>2 DEF Answers
  <2> QED BY <1>1, <1>6, <2>1, <2>2, AnsweredKept
<1>19. Works'
  <2>2. \A q \in Pool : \A l \in uses[q] : l \in Loaders
    BY DEF CInv, Typed
  <2>3. \A q \in Procs : local'[q] = local[q]
    BY <1>1
  <2> QED BY <1>1, <2>2, <2>3, WorksKept
<1> QED BY <1>6, <1>13, <1>14, <1>15, <1>16, <1>17, <1>18, <1>19 DEF CInv, Steps

LEMMA PutIn ==
  ASSUME CInv, NEW o \in Owners, NEW old, NEW x \in Loaders, mod[x] = "gone",
         modules' = [modules EXCEPT ![o] = Append(Without(@, old), x)]
  PROVE  /\ modules' \in [Owners -> Seq(Loaders)]
         /\ \A y \in Owners : Once(modules'[y])
         /\ \A l \in Loaders : \A y \in Owners :
              Listed(l, y)' <=> (Listed(l, y) /\ ~(l = old /\ y = o)) \/ (l = x /\ y = o)
<1>1. \A y \in Owners : modules[y] \in Seq(Loaders) /\ Once(modules[y])
  BY DEF CInv, Typed, Lists
<1>v. PICK v : v = Without(modules[o], old)
  OBVIOUS
<1>2. v \in Seq(Loaders) /\ Once(v) /\ \A l : Among(v, l) <=> Among(modules[o], l) /\ l # old
  BY <1>1, <1>v, WithoutList
<1>3. ~Among(v, x)
  BY <1>2 DEF CInv, Lists, Listed
<1>w. PICK w : w = Append(v, x)
  OBVIOUS
<1>4. w \in Seq(Loaders) /\ Once(w) /\ \A l : Among(w, l) <=> Among(v, l) \/ l = x
  BY <1>2, <1>3, <1>w, AppendList
<1>5. modules' = [modules EXCEPT ![o] = w]
  BY <1>v, <1>w
<1>6. modules'[o] = w /\ (\A y \in Owners \ {o} : modules'[y] = modules[y]) /\ modules' \in [Owners -> Seq(Loaders)]
  BY <1>4, <1>5 DEF CInv, Typed
<1>7. ASSUME NEW l \in Loaders, NEW y \in Owners
      PROVE  Listed(l, y)' <=> (Listed(l, y) /\ ~(l = old /\ y = o)) \/ (l = x /\ y = o)
  BY <1>2, <1>4, <1>6 DEF Listed
<1> QED BY <1>1, <1>4, <1>6, <1>7

LEMMA InsmodCalls ==
  ASSUME CInv, IInv, Functions', NEW p \in Procs, Insmod(p) PROVE CInv'
<1>1. stack[p] # <<>> /\ Top(p).k = "insmod" /\ Top(p).l = Kernel
  BY DEF Insmod, Calls
<1>o. PICK o : o = Top(p).o
  OBVIOUS
<1>d. PICK old : old = find_module(Top(p).o, Top(p).name)
  OBVIOUS
<1>x. PICK x : x = Fresh(1)
  OBVIOUS
<1>2. CASE old # Kernel /\ Loaded(old)
  <2>1. Leaves /\ local' = local /\ stack' = [stack EXCEPT ![p] = Tail(@)] /\ ret' = ret
    BY <1>2, <1>d DEF Insmod, Leaves
  <2> QED BY <1>1, <2>1, AlreadyInserted
<1>a. PICK a : a = [k |-> "get", l |-> x]
  OBVIOUS
<1>b. PICK b : b = [Top(p) EXCEPT !.l = x]
  OBVIOUS
<1>3. CASE ~(old # Kernel /\ Loaded(old))
  <2>1. /\ IsFresh(1) /\ (old # Kernel => ~Awaited(p, old))
        /\ name' = [name EXCEPT ![x] = Top(p).name]
        /\ mod' = [l \in Loaders |-> IF l = x THEN "none" ELSE IF l = old THEN Deleted(l) ELSE mod[l]]
        /\ modules' = [modules EXCEPT ![o] = Append(Without(@, old), x)]
        /\ stack' = [stack EXCEPT ![p] = <<a, b>> \o Tail(@)]
        /\ local' = local /\ uses' = uses /\ owner' = owner /\ ret' = ret /\ main' = main
    BY <1>3, <1>a, <1>b, <1>o, <1>d, <1>x DEF Insmod
  <2>2. x \in Loaders /\ mod[x] = "gone"
    BY <1>x, <2>1, FreshIs DEF Unused
  <2>3. /\ Height(p) \in Nat /\ Height(p) > 0 /\ Height(p) \in 1 .. Height(p) /\ Frame(p, Height(p)) = Top(p)
        /\ Top(p) = [k |-> Top(p).k, o |-> Top(p).o, name |-> Top(p).name, l |-> Top(p).l] /\ o \in Owners
        /\ Height(p) = 1 => Bottom(p, Top(p))
        /\ Height(p) > 1 => Under(Top(p), Frame(p, Height(p) - 1))
    BY <1>1, <1>o, TopCall DEF Shape
  <2>4. old # Kernel => old \in Loaders /\ Listed(old, o) /\ mod[old] = "none"
    <3>1. modules[o] \in Seq(Loaders)
      BY <2>3 DEF CInv, Typed
    <3>2. old # Kernel => old \in Loaders /\ Listed(old, o)
      BY <1>d, <1>o, <2>3, <3>1, FindModule
    <3>3. old # Kernel => mod[old] \notin {"gone", "leaked"}
      BY <2>3, <3>2 DEF CInv, Lists
    <3> QED BY <1>3, <3>2, <3>3 DEF CInv, Typed, Loaded
  <2>5. /\ mod' \in [Loaders -> {"none", "new", "open", "closed", "leaked", "gone"}]
        /\ mod'[x] = "none" /\ (\A l \in Loaders : l # x /\ l # old => mod'[l] = mod[l])
        /\ \A l \in Loaders : mod'[l] = "new" => mod[l] = "new" /\ l # x
        /\ \A l \in Loaders : mod[l] = "new" => mod'[l] = "new" /\ l # x
    <3>1. old # Kernel => Deleted(old) = "gone"
      BY <2>4 DEF Deleted, Alive
    <3>2. mod \in [Loaders -> {"none", "new", "open", "closed", "leaked", "gone"}]
      BY DEF CInv, Typed
    <3>3. \A l \in Loaders : l = old => l # Kernel
      BY ModuleAssumption
    <3> QED BY <2>1, <2>2, <2>4, <3>1, <3>2, <3>3
  <2>6. /\ modules' \in [Owners -> Seq(Loaders)]
        /\ \A y \in Owners : Once(modules'[y])
        /\ \A l \in Loaders : \A y \in Owners :
             Listed(l, y)' <=> (Listed(l, y) /\ ~(l = old /\ y = o)) \/ (l = x /\ y = o)
    BY <2>1, <2>2, <2>3, PutIn
  <2>7. name' = [l \in Loaders |-> name'[l]] /\ \A l \in Loaders : l # x => name'[l] = name[l]
    BY <2>1, <2>2 DEF CInv, Typed
  <2>8. /\ b.k = "insmod" /\ b.o = o /\ b.l = x /\ b = [k |-> b.k, o |-> b.o, name |-> b.name, l |-> b.l]
        /\ a.k = "get" /\ a.l = x /\ a = [k |-> a.k, l |-> a.l]
    <3>1. b = [k |-> Top(p).k, o |-> Top(p).o, name |-> Top(p).name, l |-> x]
      BY <1>b, <2>3, LoaderOf
    <3> QED BY <1>1, <1>o, <1>a, <3>1
  <2>9. Calls2(p, b, a) /\ Stacks /\ Calling
    BY <1>1, <2>1, CallsFrom DEF CInv
  <2>10. Steps(p)
    <3>1. Shape(a) /\ Shape(b) /\ Under(a, b) /\ (Height(p) = 1 => Bottom(p, b))
          /\ (Height(p) > 1 => Under(b, Frame(p, Height(p) - 1)))
      BY <1>1, <1>o, <2>2, <2>3, <2>8 DEF Shape, Under, Gets, Bottom, Owners
    <3>2. Top(p).k \in Loading /\ b.k \notin Ending /\ a.k \notin Ending
      BY <1>1, <2>8 DEF Loading, Ending
    <3>3. Stacks' /\ Calling'
      BY <2>3, <2>9, <3>1, <3>2, CallsCalling
    <3> QED BY <2>3, <2>9, <3>3 DEF Calls2, Steps
  <2>11. Height(p)' = Height(p) + 1 /\ \A h \in 1 .. Height(p)' : h >= Height(p) =>
           (h = Height(p) /\ Frame(p, h)' = b) \/ (h = Height(p)' /\ h > 1 /\ Frame(p, h - 1)' = b /\ Frame(p, h)' = a)
    <3>1. Height(p)' = Height(p) + 1 /\ \A h : h = Height(p) => Frame(p, h)' = b /\ Frame(p, h + 1)' = a
      BY <2>9 DEF Calls2
    <3>2. ASSUME NEW h \in 1 .. Height(p)', h >= Height(p), h # Height(p)
          PROVE h = Height(p)' /\ h > 1 /\ Frame(p, h - 1)' = b /\ Frame(p, h)' = a
      <4>1. h - 1 = Height(p) /\ h - 1 + 1 = h /\ h > 1 /\ h = Height(p) + 1
        BY <2>3, <3>1, <3>2
      <4>2. PICK g : g = h - 1
        OBVIOUS
      <4>3. Frame(p, g)' = b /\ Frame(p, g + 1)' = a
        BY <3>1, <4>1, <4>2
      <4> QED BY <3>1, <4>1, <4>2, <4>3
    <3> QED BY <3>1, <3>2
  <2>12. ASSUME NEW q \in Procs, NEW h, Stays(p, q, h) PROVE Sound(q, h)'
    <3>1. PICK f : f = Frame(q, h)
      OBVIOUS
    <3>c. h \in 1 .. Height(q) /\ ~(q = p /\ h = Height(p))
      BY <2>3, <2>12 DEF Stays
    <3>2. h \in 1 .. Height(q) /\ Sound(q, h) /\ Shape(f) /\ ~(q = p /\ h = Height(p))
      BY <3>1, <3>c, CallFacts
    <3>a. old # Kernel => /\ f.k \in {"insmod", "rmmod"} => f.l # old
                          /\ f.k = "close" => ~Among(f.rest, old)
      BY <1>1, <1>o, <2>3, <2>4, <3>1, <3>2, InsertApart
    <3>b. old # Kernel /\ f.k = "get" => f.l # old
      <4>1. q = p => f.k # "get"
        BY <3>1, <3>2, GetOnTop
      <4> QED BY <2>1, <3>1, <3>2, <4>1, NotAwaited
    <3>k. \A l \in Loaders : l # Kernel
      BY ModuleAssumption
    <3>3. f.k = "conf" /\ f.l \in Loaders => mod'[f.l] = "new" /\ owner'[f.l] = q
      BY <2>1, <2>5, <3>1, <3>2 DEF Sound, ConfOk
    <3>4. f.k = "refs" => mod'[f.l] # "new" /\ owner'[f.l] = q
      BY <2>1, <2>5, <3>1, <3>2 DEF Sound, RefsOk, Shape
    <3>6. f.k = "close" => /\ f.o \in Loaders => mod'[f.o] # "new"
                           /\ \A l \in Loaders : Among(f.rest, l) => Listed(l, f.o)'
      BY <2>5, <2>6, <3>1, <3>2, <3>a, <3>k DEF Sound, CloseOk, Shape
    <3>7. f.k = "rmmod" => IF f.pc = "deleted" THEN mod'[f.l] # "gone" ELSE Listed(f.l, Kernel)'
      <4>1. CASE f.k = "rmmod" /\ f.pc = "deleted"
        <5>1. f.l \in Loaders /\ mod[f.l] # "gone" /\ \A y \in Owners : ~Listed(f.l, y)
          BY <3>1, <3>2, <4>1 DEF Sound, RmmodOk, Shape
        <5>2. f.l # x /\ f.l # old
          BY <2>2, <2>3, <2>4, <3>k, <5>1
        <5> QED BY <2>5, <4>1, <5>1, <5>2
      <4>2. CASE f.k = "rmmod" /\ f.pc # "deleted"
        <5>1. f.l \in Loaders /\ Listed(f.l, Kernel) /\ Kernel \in Owners
          BY <3>1, <3>2, <4>2 DEF Sound, RmmodOk, Shape, Owners
        <5>2. f.l # old
          BY <3>a, <3>k, <4>2, <5>1
        <5> QED BY <2>6, <4>2, <5>1, <5>2
      <4> QED BY <4>1, <4>2
    <3>8. f.k = "get" => \A y \in Owners : Listed(f.l, y) => Listed(f.l, y)'
      BY <2>6, <3>2, <3>b, <3>k DEF Shape
    <3>9. f.k = "insmod" /\ f.l # Kernel => Listed(f.l, f.o)'
      BY <2>6, <3>1, <3>2, <3>a, <3>k DEF Sound, InsmodOk, Shape, Owners
    <3>10. \A l \in Loaders : \A y \in Owners : Listed(l, y)' => Listed(l, y) \/ mod[l] = "gone"
      BY <2>2, <2>6
    <3> QED BY <2>1, <2>10, <2>12, <3>1, <3>3, <3>4, <3>6, <3>7, <3>8, <3>9, <3>10, SoundKept
  <2>13. ASSUME NEW h \in 1 .. Height(p)', h >= Height(p) PROVE Sound(p, h)'
    <3>1. Listed(x, o)'
      BY <2>2, <2>3, <2>6
    <3>2. CASE Frame(p, h)' = b
      <4>1. InsmodOk(b)'
        BY <2>8, <3>1 DEF InsmodOk
      <4> QED BY <2>8, <3>2, <4>1 DEF Sound
    <3>3. CASE h > 1 /\ Frame(p, h - 1)' = b /\ Frame(p, h)' = a
      <4>1. o # Kernel => Inserted(p, h)'
        BY <2>8, <3>3 DEF Inserted
      <4>2. GetOk(p, h)'
        BY <2>8, <3>1, <3>3, <4>1 DEF GetOk
      <4> QED BY <2>8, <3>3, <4>2 DEF Sound
    <3> QED BY <2>11, <2>13, <3>2, <3>3
  <2>14. Relies'
    BY <2>10, <2>12, <2>13, ReliesKept
  <2>15. OneConf' /\ OneClose'
    <3>1. \A h \in 1 .. Height(p)' : h >= Height(p) => Frame(p, h)'.k # "conf" /\ Frame(p, h)'.k # "close"
      BY <2>8, <2>11
    <3> QED BY <2>10, <3>1, OneConfKept, OneCloseKept
  <2>16. OneAdmin' /\ Phases'
    <3>1. Height(p) <= 1 => Administers(p)
      <4>1. Height(p) <= 1 => Height(p) = 1
        BY <2>3
      <4> QED BY <1>1, <2>3, <4>1 DEF Administers
    <3>2. OneAdmin'
      BY <2>10, <3>1, OneAdminKept
    <3>3. Phases'
      BY <2>1, <2>3, <2>10, PhasesKept
    <3> QED BY <3>2, <3>3
  <2>17. Configured'
    <3>1. ASSUME NEW l \in Loaders, mod'[l] = "new"
          PROVE  /\ mod[l] = "new" /\ owner'[l] = owner[l] /\ name'[l] = name[l]
                 /\ \A h : h = Height(p) /\ h > 0 /\ Frame(p, h).k = "conf" /\ Frame(p, h).l = l =>
                      h <= Height(p)' /\ Frame(p, h)'.k = "conf" /\ Frame(p, h)'.l = l
      BY <1>1, <2>1, <2>3, <2>5, <2>7, <3>1
    <3> QED BY <2>10, <3>1, ConfiguredKept
  <2>18. Typed' /\ Lists'
    <3>1. Typed'
      BY <2>1, <2>5, <2>6, <2>7 DEF CInv, Typed
    <3>2. ASSUME NEW l \in Loaders, NEW y \in Owners, Listed(l, y)'
          PROVE  (l = x /\ y = o) \/ (l # x /\ Listed(l, y) /\ mod'[l] \notin {"gone", "leaked"})
      <4>1. \A z \in Owners : ~Listed(x, z)
        BY <2>2 DEF CInv, Lists
      <4>2. Listed(l, y) /\ l = old => y = o
        BY <2>3, <2>4, ModuleAssumption DEF CInv, Lists
      <4>3. Listed(l, y) => mod[l] \notin {"gone", "leaked"}
        BY DEF CInv, Lists
      <4> QED BY <2>5, <2>6, <3>2, <4>1, <4>2, <4>3
    <3>3. mod'[x] \notin {"gone", "leaked"}
      BY <2>5
    <3>4. Lists'
      BY <2>6, <3>2, <3>3 DEF CInv, Lists
    <3> QED BY <3>1, <3>4
  <2>19. Answered'
    <3>1. \A q \in Procs : \A l \in Loaders : ret'[q] = Ref(l) /\ mod'[l] = "new" => owner'[l] = q
      BY <2>1, <2>5 DEF CInv, Answered
    <3>2. ASSUME NEW h \in 1 .. Height(p)', h = Height(p)' PROVE Answers(p, Frame(p, h))'
      <4>1. h >= Height(p) /\ h # Height(p)
        BY <2>3, <2>11, <3>2
      <4>2. Frame(p, h)' = a
        BY <2>11, <4>1
      <4>3. Answers(p, a)'
        BY <2>8 DEF Answers
      <4> QED BY <4>2, <4>3 DEF Answers
    <3>3. \A l \in Loaders : name'[l] = name[l] \/ mod[l] = "gone"
      BY <2>2, <2>7
    <3>4. \A l \in Loaders : mod'[l] = "new" => mod[l] = "new"
      BY <2>5
    <3> QED BY <2>1, <2>10, <3>1, <3>2, <3>3, <3>4, AnsweredKept
  <2>20. Works'
    <3>1. \A l \in Loaders : mod'[l] = "new" => mod[l] = "new"
      BY <2>5
    <3>2. \A q \in Pool : \A l \in uses[q] : l \in Loaders
      BY DEF CInv, Typed
    <3>3. \A q \in Procs : local'[q] = local[q]
      BY <2>1
    <3> QED BY <2>1, <3>1, <3>2, <3>3, WorksKept
  <2> QED BY <2>10, <2>14, <2>15, <2>16, <2>17, <2>18, <2>19, <2>20 DEF CInv, Steps
<1> QED BY <1>2, <1>3

(* The steps of a process that is in no call: those that leave the stacks    *)
(* alone, and those that begin a call.                                       *)
LEMMA QuietSteps ==
  ASSUME CInv, stack' = stack, mod' = mod, modules' = modules, owner' = owner, name' = name, local' = local,
         \A q \in Procs : ret'[q] = ret[q] \/ ret'[q] = Nothing,
         \A q \in Pool : \A l \in uses'[q] : l \in Loaders /\ mod[l] # "new",
         Phases'
  PROVE  CInv'
<1>1. /\ \A q : Height(q)' = Height(q) /\ Frames(q)' = Frames(q)
      /\ \A q, h : Frame(q, h)' = Frame(q, h)
      /\ \A l, o : Listed(l, o)' <=> Listed(l, o)
      /\ \A q, h : Inserted(q, h)' <=> Inserted(q, h)
  BY DEF Height, Frames, Frame, Listed, Inserted
<1>2. Stacks' /\ Calling'
  BY <1>1 DEF CInv, Stacks, Calling
<1>3. OneAdmin' /\ OneConf' /\ OneClose'
  <2>1. \A q : Administers(q)' <=> Administers(q)
    BY <1>1 DEF Administers
  <2> QED BY <1>1, <2>1 DEF CInv, OneAdmin, OneConf, OneClose
<1>4. Typed'
  BY DEF CInv, Typed, Nothing
<1>5. Lists'
  BY <1>1 DEF CInv, Lists
<1>6. Configured'
  <2> SUFFICES ASSUME NEW l \in Loaders, mod[l] = "new"
               PROVE  /\ name[l] \notin Broken /\ owner[l] \in Procs
                      /\ \E h \in Frames(owner[l])' : Frame(owner[l], h)'.k = "conf" /\ Frame(owner[l], h)'.l = l
    BY DEF Configured
  <2>1. PICK q : q = owner[l]
    OBVIOUS
  <2>2. \E h \in Frames(q) : Frame(q, h).k = "conf" /\ Frame(q, h).l = l
    BY <2>1 DEF CInv, Configured
  <2>3. owner'[l] = q
    BY <2>1
  <2>4. name[l] \notin Broken /\ owner[l] \in Procs
    BY DEF CInv, Configured
  <2> QED BY <2>1, <2>2, <2>3, <2>4 DEF Frames, Frame, Height
<1>7. Relies'
  <2>1. ASSUME NEW q \in Procs, NEW h \in Frames(q) PROVE Sound(q, h)'
    <3>1. PICK f : f = Frame(q, h)
      OBVIOUS
    <3>2. Sound(q, h) /\ Frame(q, h)' = f
      BY <1>1, <3>1 DEF CInv, Relies
    <3>3. ConfOk(q, h) => ConfOk(q, h)'
      BY <1>1 DEF ConfOk
    <3>4. GetOk(q, h) => GetOk(q, h)'
      BY <1>1 DEF GetOk
    <3>5. /\ InsmodOk(f) => InsmodOk(f)'
          /\ CloseOk(f) => CloseOk(f)'
          /\ RefsOk(q, f) => RefsOk(q, f)'
          /\ RmmodOk(q, f) => RmmodOk(q, f)'
      BY <1>1 DEF InsmodOk, CloseOk, RefsOk, RmmodOk
    <3> QED BY <3>1, <3>2, <3>3, <3>4, <3>5 DEF Sound
  <2> QED BY <1>1, <2>1 DEF Relies
<1>8. Answered'
  <2>1. ASSUME NEW q \in Procs, Height(q) > 0 PROVE Answers(q, Frame(q, Height(q)))'
    <3>1. PICK f : f = Frame(q, Height(q))
      OBVIOUS
    <3>2. Answers(q, f) /\ Frame(q, Height(q))' = f
      BY <1>1, <2>1, <3>1 DEF CInv, Answered, Frame, Height
    <3>3. Answers(q, f)'
      BY <3>2 DEF Answers, Nothing, NoRef
    <3> QED BY <3>2, <3>3 DEF Answers
  <2>2. \A q \in Procs : \A l \in Loaders : ret'[q] = Ref(l) /\ mod'[l] = "new" => owner'[l] = q
    BY DEF CInv, Answered, Ref, Nothing
  <2> QED BY <1>1, <2>1, <2>2 DEF Answered
<1>9. Works'
  BY DEF CInv, Works, ConfiguredBeforeUse
<1> QED BY <1>2, <1>3, <1>4, <1>5, <1>6, <1>7, <1>8, <1>9 DEF CInv

LEMMA NotBusy ==
  ASSUME Stacks, ~AdminBusy, NEW q \in Pool PROVE ~Administers(q)
<1>1. q \in Procs
  BY DEF Procs
<1>2. Height(q) > 0 => Height(q) \in DOMAIN stack[q] /\ Height(q) + 1 - 1 = Height(q)
  BY <1>1, Heights
<1> QED BY <1>2 DEF AdminBusy, Administers, Frame

LEMMA EntersSteps ==
  ASSUME CInv, NEW p \in Procs, NEW a, Enters(p, a), Shape(a), Bottom(p, a),
         mod' = mod, modules' = modules, owner' = owner, name' = name, local' = local, uses' = uses, ret' = ret,
         Phases', p \in Pool /\ a.k \in {"insmod", "rmmod"} => ~AdminBusy,
         Sound(p, 1)', Answers(p, a)'
  PROVE  CInv'
<1>1. Steps(p) /\ Height(p) = 0 /\ Height(p)' = 1 /\ Frame(p, 1)' = a /\ \A h \in 1 .. Height(p)' : h = 1
  <2>1. Stacks' /\ Calling'
    BY EntersCalling DEF CInv
  <2> QED BY <2>1 DEF CInv, Enters, Steps
<1>2. \A l \in Loaders : \A o \in Owners : Listed(l, o)' <=> Listed(l, o)
  BY DEF Listed
<1>3. ASSUME NEW q \in Procs, NEW h, Stays(p, q, h) PROVE Sound(q, h)'
  <2>1. PICK f : f = Frame(q, h)
    OBVIOUS
  <2>2. h \in 1 .. Height(q) /\ Sound(q, h) /\ Shape(f)
    BY <1>1, <1>3, <2>1, StayingCalls, CallFacts
  <2>3. f.k = "conf" /\ f.l \in Loaders => mod'[f.l] = "new" /\ owner'[f.l] = q
    BY <2>1, <2>2 DEF Sound, ConfOk
  <2>4. f.k = "refs" => mod'[f.l] # "new" /\ owner'[f.l] = q
    BY <2>1, <2>2 DEF Sound, RefsOk
  <2>5. f.k = "close" => /\ f.o \in Loaders => mod'[f.o] # "new"
                         /\ \A l \in Loaders : Among(f.rest, l) => Listed(l, f.o)'
    BY <1>2, <2>1, <2>2 DEF Sound, CloseOk, Shape
  <2>6. f.k = "rmmod" => IF f.pc = "deleted" THEN mod'[f.l] # "gone" ELSE Listed(f.l, Kernel)'
    BY <1>2, <2>1, <2>2 DEF Sound, RmmodOk, Shape, Owners
  <2>7. /\ f.k = "get" => \A y \in Owners : Listed(f.l, y) => Listed(f.l, y)'
        /\ f.k = "insmod" /\ f.l # Kernel => Listed(f.l, f.o)'
    BY <1>2, <2>1, <2>2 DEF Sound, InsmodOk, Shape, Owners
  <2> QED BY <1>1, <1>2, <1>3, <2>1, <2>3, <2>4, <2>5, <2>6, <2>7, SoundKept
<1>4. Relies'
  BY <1>1, <1>3, ReliesKept
<1>5. OneConf'
  BY <1>1, OneConfKept
<1>c. OneClose'
  BY <1>1, OneCloseKept
<1>6. OneAdmin'
  <2>1. ASSUME NEW q \in Pool, q # p, Administers(q)' PROVE Administers(q)
    <3>1. q \in Procs \ {p} /\ Height(q)' = Height(q) /\ Height(q) \in Nat
      BY <1>1, <2>1, StayingCalls DEF Steps, Kept, Procs
    <3>2. Height(q) > 0 => Frame(q, 1)' = Frame(q, 1)
      BY <1>1, <3>1 DEF Steps, Kept, Frames
    <3> QED BY <2>1, <3>1, <3>2 DEF Administers
  <2>2. p \in Pool /\ Administers(p)' => a.k \in {"insmod", "rmmod"}
    BY <1>1 DEF Administers
  <2>3. p \in Pool /\ Administers(p)' => \A q \in Pool : ~Administers(q)
    BY <2>2, NotBusy DEF CInv
  <2>4. ASSUME NEW q \in Pool, NEW r \in Pool, Administers(q)', Administers(r)' PROVE q = r
    BY <2>1, <2>3, <2>4 DEF CInv, OneAdmin
  <2> QED BY <2>4 DEF OneAdmin
<1>7. Configured'
  BY <1>1, ConfiguredKept
<1>8. Typed' /\ Lists'
  BY <1>2 DEF CInv, Typed, Lists
<1>9. Answered'
  <2>1. \A q \in Procs : \A l \in Loaders : ret'[q] = Ref(l) /\ mod'[l] = "new" => owner'[l] = q
    BY DEF CInv, Answered
  <2>2. ASSUME NEW h \in 1 .. Height(p)', h = Height(p)' PROVE Answers(p, Frame(p, h))'
    <3>1. Frame(p, h)' = a
      BY <1>1
    <3> QED BY <3>1 DEF Answers
  <2> QED BY <1>1, <2>1, <2>2, AnsweredKept
<1>10. Works'
  BY DEF CInv, Works, ConfiguredBeforeUse
<1> QED BY <1>1, <1>4, <1>5, <1>c, <1>6, <1>7, <1>8, <1>9, <1>10 DEF CInv, Steps

\* The main thread makes its calls while the pool makes none, and a job while
\* the main thread is in its loop.
Fields(m) == m = [pc |-> m.pc, i |-> m.i, loaded |-> m.loaded, prev |-> m.prev, errors |-> m.errors,
                  retry |-> m.retry, again |-> m.again, restarts |-> m.restarts]

LEMMA MainEnters ==
  ASSUME CInv, NEW a, Enters(Main, a), main.pc # "run", Fields(main'), main'.i \in Nat \ {0},
         main'.pc \notin {"init", "run", "returned"}
  PROVE  Phases'
<1>1. \A q \in Pool : Height(q)' = Height(q)
  BY ModuleAssumption DEF Enters, Kept, Procs
<1> QED BY <1>1 DEF CInv, Phases, Fields

LEMMA PoolEnters ==
  ASSUME CInv, NEW p \in Pool, NEW a, Enters(p, a), main.pc = "run", main' = main
  PROVE  Phases'
<1>1. Height(Main)' = Height(Main)
  BY ModuleAssumption DEF Enters, Kept, Procs
<1> QED BY <1>1 DEF CInv, Phases

LEMMA MainGoesOn ==
  ASSUME CInv, stack' = stack, Fields(main'), main'.i \in Nat \ {0},
         main'.pc # "run" => \A p \in Pool : Height(p) = 0,
         main'.pc \in {"init", "run", "returned"} => Height(Main) = 0
  PROVE  Phases'
  BY DEF CInv, Phases, Fields, Height

LEMMA Idle ==
  ASSUME CInv, NEW p \in Procs, stack[p] = <<>> PROVE Height(p) = 0
  BY Heights DEF CInv

LEMMA ScanModuleCalls ==
  ASSUME CInv, ScanModule PROVE CInv'
<1> DEFINE l == Scanned
<1>1. /\ main.pc = "scan" /\ stack[Main] = <<>> /\ ret[Main] = Nothing /\ main.i <= Len(modules[Kernel])
      /\ name' = name /\ mod' = mod /\ local' = local /\ modules' = modules /\ uses' = uses /\ owner' = owner /\ ret' = ret
  BY DEF ScanModule, Free
<1>p. Main \in Procs /\ Kernel \in Owners
  BY DEF Procs, Owners
<1>m. Fields(main) /\ main.i \in Nat \ {0}
  BY DEF CInv, Phases, Fields
<1>2. \A q \in Pool : \A x \in uses'[q] : x \in Loaders /\ mod[x] # "new"
  BY <1>1 DEF CInv, Typed, Works, ConfiguredBeforeUse
<1>3. CASE ~Loaded(l) /\ Loadable(l)
  <2>a. PICK a : a = [k |-> "get", l |-> l]
    OBVIOUS
  <2>1. stack' = [stack EXCEPT ![Main] = <<a>> \o @] /\ main' = [main EXCEPT !.pc = "loading"]
    BY <1>3, <2>a DEF ScanModule, GetModule
  <2>2. l \in Loaders /\ Listed(l, Kernel)
    <3>1. modules[Kernel] \in Seq(Loaders) /\ main.i \in 1 .. Len(modules[Kernel])
      BY <1>1, <1>p, <1>m, LenProperties DEF CInv, Typed
    <3> QED BY <3>1, LenProperties DEF Scanned, Listed, Among
  <2>3. Enters(Main, a)
    BY <1>1, <1>p, <2>1, EntersCall DEF CInv
  <2>4. /\ a.k = "get" /\ a.l = l /\ a = [k |-> a.k, l |-> a.l] /\ Shape(a)
    BY <2>a, <2>2 DEF Shape
  <2>5. Bottom(Main, a)
    BY <2>4, ModuleAssumption DEF Bottom
  <2>6. Phases'
    <3>1. Fields(main') /\ main'.i = main.i /\ main'.pc = "loading"
      BY <1>m, <2>1 DEF Fields
    <3> QED BY <1>1, <1>m, <2>3, <3>1, MainEnters
  <2>7. Sound(Main, 1)' /\ Answers(Main, a)'
    <3>1. Frame(Main, 1)' = a
      BY <2>3 DEF Enters
    <3>2. Listed(a.l, Kernel)'
      BY <1>1, <2>2, <2>4 DEF Listed
    <3> QED BY <2>4, <3>1, <3>2 DEF Sound, GetOk, Answers
  <2> QED BY <1>1, <1>p, <2>3, <2>4, <2>5, <2>6, <2>7, EntersSteps
<1>4. CASE ~(~Loaded(l) /\ Loadable(l))
  <2>1. stack' = stack /\ main' = [main EXCEPT !.i = @ + 1,
          !.errors = IF Loaded(l) THEN @ ELSE @ \cup {name[l]}]
    BY <1>4 DEF ScanModule
  <2>2. Fields(main') /\ main'.i = main.i + 1 /\ main'.pc = main.pc
    BY <1>m, <2>1 DEF Fields
  <2>3. Phases'
    BY <1>1, <1>m, <2>1, <2>2, MainGoesOn DEF CInv, Phases
  <2> QED BY <1>1, <1>2, <2>1, <2>3, QuietSteps
<1> QED BY <1>3, <1>4

LEMMA ScanEndCalls ==
  ASSUME CInv, ScanEnd PROVE CInv'
<1>1. /\ main.pc = "scan" /\ stack[Main] = <<>> /\ ret[Main] = Nothing
      /\ name' = name /\ mod' = mod /\ local' = local /\ modules' = modules /\ uses' = uses /\ owner' = owner /\ ret' = ret
  BY DEF ScanEnd, Free
<1>p. Main \in Procs /\ Kernel \in Owners
  BY DEF Procs, Owners
<1>m. Fields(main) /\ main.i \in Nat \ {0}
  BY DEF CInv, Phases, Fields
<1>2. \A q \in Pool : \A x \in uses'[q] : x \in Loaders /\ mod[x] # "new"
  BY <1>1 DEF CInv, Typed, Works, ConfiguredBeforeUse
<1>3. CASE ~(main.loaded > main.prev)
  <2>a. PICK a : a = [k |-> "conf", l |-> Kernel, rest |-> Conf[Kernel]]
    OBVIOUS
  <2>1. stack' = [stack EXCEPT ![Main] = <<a>>] /\ main' = [main EXCEPT !.pc = "conf"]
    BY <1>3, <2>a DEF ScanEnd
  <2>3. Enters(Main, a)
    BY <1>1, <1>p, <2>1, EntersCall DEF CInv
  <2>4. /\ a.k = "conf" /\ a.l = Kernel /\ a = [k |-> a.k, l |-> a.l, rest |-> a.rest] /\ Shape(a)
    BY <1>p, <2>a DEF Shape
  <2>5. Bottom(Main, a)
    BY <2>4, ModuleAssumption DEF Bottom
  <2>6. Phases'
    <3>1. Fields(main') /\ main'.i = main.i /\ main'.pc = "conf"
      BY <1>m, <2>1 DEF Fields
    <3> QED BY <1>1, <1>m, <2>3, <3>1, MainEnters
  <2>7. Sound(Main, 1)' /\ Answers(Main, a)'
    <3>1. Frame(Main, 1)' = a
      BY <2>3 DEF Enters
    <3> QED BY <2>4, <3>1, ModuleAssumption DEF Sound, ConfOk, Answers
  <2> QED BY <1>1, <1>p, <2>3, <2>4, <2>5, <2>6, <2>7, EntersSteps
<1>4. CASE main.loaded > main.prev
  <2>1. stack' = stack /\ main' = [main EXCEPT !.i = 1, !.prev = main.loaded]
    BY <1>4 DEF ScanEnd
  <2>2. Fields(main') /\ main'.i = 1 /\ main'.pc = main.pc
    BY <1>m, <2>1 DEF Fields
  <2>3. Phases'
    BY <1>1, <1>m, <2>1, <2>2, MainGoesOn DEF CInv, Phases
  <2> QED BY <1>1, <1>2, <2>1, <2>3, QuietSteps
<1> QED BY <1>3, <1>4

LEMMA CloseAttemptCalls ==
  ASSUME CInv, CloseAttempt PROVE CInv'
<1>1. /\ main.pc = "close" /\ stack[Main] = <<>> /\ ret[Main] = Nothing
      /\ name' = name /\ mod' = mod /\ local' = local /\ modules' = modules /\ uses' = uses /\ owner' = owner /\ ret' = ret
  BY DEF CloseAttempt, Free
<1>p. Main \in Procs /\ Kernel \in Owners /\ Kernel \notin Loaders
  BY ModuleAssumption DEF Procs, Owners
<1>m. Fields(main) /\ main.i \in Nat \ {0}
  BY DEF CInv, Phases, Fields
<1>2. \A q \in Pool : \A x \in uses'[q] : x \in Loaders /\ mod[x] # "new"
  BY <1>1 DEF CInv, Typed, Works, ConfiguredBeforeUse
<1>3. CASE main.retry + 1 <= MaxRetries
  <2>a. PICK a : a = CloseFrame(Kernel)
    OBVIOUS
  <2>1. stack' = [stack EXCEPT ![Main] = <<a>>] /\ main' = [main EXCEPT !.retry = @ + 1, !.pc = "closing"]
    BY <1>3, <2>a DEF CloseAttempt
  <2>3. Enters(Main, a)
    BY <1>1, <1>p, <2>1, EntersCall DEF CInv
  <2>4. a.k = "close" /\ a.o = Kernel /\ Shape(a) /\ Once(a.rest) /\ \A x : Among(a.rest, x) <=> Listed(x, Kernel)
    BY <1>p, <2>a, CloseFrames
  <2>5. Bottom(Main, a)
    BY <2>4, ModuleAssumption DEF Bottom
  <2>6. Phases'
    <3>1. Fields(main') /\ main'.i = main.i /\ main'.pc = "closing"
      BY <1>m, <2>1 DEF Fields
    <3> QED BY <1>1, <1>m, <2>3, <3>1, MainEnters
  <2>7. Sound(Main, 1)' /\ Answers(Main, a)'
    <3>1. Frame(Main, 1)' = a
      BY <2>3 DEF Enters
    <3>2. \A x : Among(a.rest, x) => Listed(x, Kernel)'
      BY <1>1, <2>4 DEF Listed
    <3>3. CloseOk(a)'
      BY <1>p, <2>4, <3>2 DEF CloseOk
    <3>4. Answers(Main, a)'
      BY <1>1, <2>4 DEF Answers
    <3> QED BY <2>4, <3>1, <3>3, <3>4 DEF Sound
  <2> QED BY <1>1, <1>p, <2>3, <2>4, <2>5, <2>6, <2>7, EntersSteps
<1>4. CASE ~(main.retry + 1 <= MaxRetries)
  <2>1. stack' = stack /\ main' = [main EXCEPT !.pc = "returned"]
    BY <1>4 DEF CloseAttempt
  <2>2. Fields(main') /\ main'.i = main.i /\ main'.pc = "returned"
    BY <1>m, <2>1 DEF Fields
  <2>3. Phases'
    BY <1>1, <1>m, <1>p, <2>1, <2>2, Idle, MainGoesOn DEF CInv, Phases
  <2> QED BY <1>1, <1>2, <2>1, <2>3, QuietSteps
<1> QED BY <1>3, <1>4

LEMMA MainCalls ==
  ASSUME CInv, Functions', ScanLoaded \/ EnterRun \/ StopThreads \/ CloseAttempted \/ Again PROVE CInv'
<1>1. stack' = stack /\ mod' = mod /\ modules' = modules /\ owner' = owner /\ name' = name /\ local' = local
  BY DEF ScanLoaded, EnterRun, StopThreads, CloseAttempted, Again
<1>p. Main \in Procs
  BY DEF Procs
<1>m. Fields(main) /\ main.i \in Nat \ {0} /\ main.i + 1 \in Nat \ {0}
  BY DEF CInv, Phases, Fields
<1>2. \A q \in Procs : ret'[q] = ret[q] \/ ret'[q] = Nothing
  <2>1. CASE ScanLoaded \/ CloseAttempted
    <3>1. ret' = [ret EXCEPT ![Main] = Nothing]
      BY <2>1 DEF ScanLoaded, CloseAttempted
    <3> QED BY <1>p, <3>1, RetIs DEF Nothing
  <2>2. CASE EnterRun \/ StopThreads \/ Again
    BY <2>2 DEF EnterRun, StopThreads, Again
  <2> QED BY <2>1, <2>2
<1>3. \A q \in Pool : \A x \in uses'[q] : x \in Loaders /\ mod[x] # "new"
  <2>1. uses' = uses \/ uses' = [q \in Pool |-> {}]
    BY DEF ScanLoaded, EnterRun, StopThreads, CloseAttempted, Again
  <2> QED BY <2>1 DEF CInv, Typed, Works, ConfiguredBeforeUse
<1>4. Phases'
  <2>1. CASE ScanLoaded
    <3>1. Fields(main') /\ main'.i = main.i + 1 /\ main'.pc = "scan" /\ main.pc = "loading"
      BY <1>m, <2>1 DEF ScanLoaded, Fields
    <3> QED BY <1>1, <1>m, <3>1, MainGoesOn DEF CInv, Phases
  <2>2. CASE EnterRun
    <3>1. Fields(main') /\ main'.i = main.i /\ main'.pc = "run" /\ stack[Main] = <<>>
      BY <1>m, <2>2 DEF EnterRun, Fields, Free
    <3> QED BY <1>1, <1>m, <1>p, <3>1, Idle, MainGoesOn
  <2>3. CASE StopThreads
    <3>1. Fields(main') /\ main'.i = main.i /\ main'.pc = "close" /\ \A p \in Pool : stack[p] = <<>>
      BY <1>m, <2>3 DEF StopThreads, Fields, Free
    <3> QED BY <1>1, <1>m, <3>1, Idle, MainGoesOn DEF Procs
  <2>4. CASE CloseAttempted
    <3>1. Fields(main') /\ main'.i = main.i /\ main.pc = "closing" /\ stack[Main] = <<>>
      BY <1>m, <2>4 DEF CloseAttempted, Fields
    <3> QED BY <1>1, <1>m, <1>p, <3>1, Idle, MainGoesOn DEF CInv, Phases
  <2>5. CASE Again
    <3>1. Fields(main') /\ main'.i = main.i /\ main'.pc = "init" /\ main.pc = "returned"
      BY <1>m, <2>5 DEF Again, Fields
    <3> QED BY <1>1, <1>m, <3>1, MainGoesOn DEF CInv, Phases
  <2> QED BY <2>1, <2>2, <2>3, <2>4, <2>5
<1> QED BY <1>1, <1>2, <1>3, <1>4, QuietSteps

(* load_module_dir() makes the loaders of the conf files.                    *)
LEMMA ConcatList ==
  ASSUME NEW s \in Seq(Loaders), NEW t \in Seq(Loaders), Once(s), Once(t),
         \A l : ~(Among(s, l) /\ Among(t, l))
  PROVE  /\ s \o t \in Seq(Loaders) /\ Once(s \o t)
         /\ \A x : Among(s \o t, x) <=> Among(s, x) \/ Among(t, x)
<1>u. PICK u : u = s \o t
  OBVIOUS
<1>1. /\ Len(s) \in Nat /\ DOMAIN s = 1 .. Len(s) /\ Len(t) \in Nat /\ DOMAIN t = 1 .. Len(t)
      /\ u \in Seq(Loaders) /\ Len(u) = Len(s) + Len(t) /\ DOMAIN u = 1 .. Len(s) + Len(t)
      /\ \A i \in 1 .. Len(s) + Len(t) : u[i] = IF i <= Len(s) THEN s[i] ELSE t[i - Len(s)]
  BY <1>u, LenProperties, ConcatProperties
<1>2. ASSUME NEW i \in 1 .. Len(s) + Len(t)
      PROVE  \/ i \in 1 .. Len(s) /\ u[i] = s[i]
             \/ i - Len(s) \in 1 .. Len(t) /\ u[i] = t[i - Len(s)]
  BY <1>1
<1>3. Once(u)
  <2> SUFFICES ASSUME NEW i \in 1 .. Len(s) + Len(t), NEW j \in 1 .. Len(s) + Len(t), u[i] = u[j] PROVE i = j
    BY <1>1 DEF Once
  <2>1. CASE i \in 1 .. Len(s) /\ u[i] = s[i] /\ j \in 1 .. Len(s) /\ u[j] = s[j]
    BY <1>1, <2>1 DEF Once
  <2>2. CASE i - Len(s) \in 1 .. Len(t) /\ u[i] = t[i - Len(s)] /\ j - Len(s) \in 1 .. Len(t) /\ u[j] = t[j - Len(s)]
    <3>1. i - Len(s) = j - Len(s)
      BY <1>1, <2>2 DEF Once
    <3> QED BY <1>1, <3>1
  <2>3. CASE i \in 1 .. Len(s) /\ u[i] = s[i] /\ j - Len(s) \in 1 .. Len(t) /\ u[j] = t[j - Len(s)]
    BY <1>1, <2>3 DEF Among
  <2>4. CASE j \in 1 .. Len(s) /\ u[j] = s[j] /\ i - Len(s) \in 1 .. Len(t) /\ u[i] = t[i - Len(s)]
    BY <1>1, <2>4 DEF Among
  <2> QED BY <1>2, <2>1, <2>2, <2>3, <2>4
<1>4. ASSUME NEW x PROVE Among(u, x) <=> Among(s, x) \/ Among(t, x)
  <2>1. ASSUME Among(u, x) PROVE Among(s, x) \/ Among(t, x)
    BY <1>1, <1>2, <2>1 DEF Among
  <2>2. ASSUME Among(s, x) PROVE Among(u, x)
    <3>1. PICK i \in 1 .. Len(s) : s[i] = x
      BY <1>1, <2>2 DEF Among
    <3>2. i \in 1 .. Len(s) + Len(t) /\ u[i] = x
      BY <1>1, <3>1
    <3> QED BY <1>1, <3>2 DEF Among
  <2>3. ASSUME Among(t, x) PROVE Among(u, x)
    <3>1. PICK i \in 1 .. Len(t) : t[i] = x
      BY <1>1, <2>3 DEF Among
    <3>2. i + Len(s) \in 1 .. Len(s) + Len(t) /\ ~(i + Len(s) <= Len(s)) /\ i + Len(s) - Len(s) = i
      BY <1>1
    <3>3. u[i + Len(s)] = x
      BY <1>1, <3>1, <3>2
    <3> QED BY <1>1, <3>2, <3>3 DEF Among
  <2> QED BY <2>1, <2>2, <2>3
<1> QED BY <1>u, <1>1, <1>3, <1>4

LEMMA NewLoaders ==
  ASSUME NEW new, new = [i \in 1 .. Len(Files) |-> Fresh(i)], \A i \in 1 .. Len(Files) : IsFresh(i)
  PROVE  /\ new \in Seq(Loaders) /\ Once(new) /\ DOMAIN new = 1 .. Len(Files)
         /\ \A l : Among(new, l) => l \in Loaders /\ mod[l] = "gone"
<1>1. Len(Files) \in Nat
  BY ModuleAssumption, LenProperties
<1>2. ASSUME NEW i \in 1 .. Len(Files)
      PROVE  /\ new[i] = Fresh(i) /\ Fresh(i) \in Unused
             /\ Cardinality({x \in Unused : x < Fresh(i)}) = i - 1
  BY <1>2, FreshIs
<1>3. ASSUME NEW i \in 1 .. Len(Files), NEW j \in 1 .. Len(Files), new[i] = new[j] PROVE i = j
  <2>1. i - 1 = j - 1
    BY <1>2, <1>3
  <2> QED BY <1>1, <2>1
<1>4. \A i \in 1 .. Len(Files) : new[i] \in Loaders /\ mod[new[i]] = "gone"
  BY <1>2 DEF Unused
<1>5. new \in [1 .. Len(Files) -> Loaders]
  BY <1>4
<1>6. new \in Seq(Loaders)
  BY <1>1, <1>5
<1> QED BY <1>3, <1>4, <1>5, <1>6 DEF Once, Among

LEMMA LoadModuleDirCalls ==
  ASSUME CInv, LoadModuleDir PROVE CInv'
<1>n. PICK new : new = [i \in 1 .. Len(Files) |-> Fresh(i)]
  OBVIOUS
<1>1. /\ main.pc = "init" /\ \A i \in 1 .. Len(Files) : IsFresh(i)
      /\ name' = [l \in Loaders |-> IF \E i \in DOMAIN new : new[i] = l
                    THEN Files[CHOOSE i \in DOMAIN new : new[i] = l] ELSE name[l]]
      /\ mod' = [l \in Loaders |-> IF \E i \in DOMAIN new : new[i] = l THEN "none" ELSE mod[l]]
      /\ modules' = [modules EXCEPT ![Kernel] = @ \o new]
      /\ main' = [main EXCEPT !.pc = "scan", !.i = 1, !.loaded = 0, !.prev = 0, !.errors = {}]
      /\ local' = local /\ uses' = uses /\ owner' = owner /\ stack' = stack /\ ret' = ret
  BY <1>n DEF LoadModuleDir
<1>2. new \in Seq(Loaders) /\ Once(new) /\ \A l : Among(new, l) => l \in Loaders /\ mod[l] = "gone"
  BY <1>n, <1>1, NewLoaders
<1>p. Main \in Procs /\ Kernel \in Owners
  BY DEF Procs, Owners
<1>3. /\ mod' \in [Loaders -> {"none", "new", "open", "closed", "leaked", "gone"}]
      /\ \A l \in Loaders : ~Among(new, l) => mod'[l] = mod[l] /\ name'[l] = name[l]
      /\ \A l \in Loaders : Among(new, l) => mod'[l] = "none"
      /\ name' = [l \in Loaders |-> name'[l]]
  <2>1. mod \in [Loaders -> {"none", "new", "open", "closed", "leaked", "gone"}]
    BY DEF CInv, Typed
  <2> QED BY <1>1, <2>1 DEF Among
<1>4. /\ modules' \in [Owners -> Seq(Loaders)]
      /\ \A y \in Owners : Once(modules'[y])
      /\ \A l \in Loaders : \A y \in Owners : Listed(l, y)' <=> Listed(l, y) \/ (y = Kernel /\ Among(new, l))
  <2>s. PICK s : s = modules[Kernel]
    OBVIOUS
  <2>1. s \in Seq(Loaders) /\ Once(s)
    BY <1>p, <2>s DEF CInv, Typed, Lists
  <2>2. \A l : ~(Among(s, l) /\ Among(new, l))
    BY <1>2, <1>p, <2>s DEF CInv, Lists, Listed
  <2>u. PICK u : u = s \o new
    OBVIOUS
  <2>3. u \in Seq(Loaders) /\ Once(u) /\ \A x : Among(u, x) <=> Among(s, x) \/ Among(new, x)
    BY <1>2, <2>1, <2>2, <2>u, ConcatList
  <2>4. modules' = [modules EXCEPT ![Kernel] = u]
    BY <1>1, <2>s, <2>u
  <2>5. /\ modules'[Kernel] = u /\ \A y \in Owners \ {Kernel} : modules'[y] = modules[y]
        /\ modules' \in [Owners -> Seq(Loaders)]
    BY <1>p, <2>3, <2>4 DEF CInv, Typed
  <2>6. \A y \in Owners : Once(modules'[y])
    BY <2>3, <2>5 DEF CInv, Lists
  <2>7. ASSUME NEW l \in Loaders, NEW y \in Owners
        PROVE  Listed(l, y)' <=> Listed(l, y) \/ (y = Kernel /\ Among(new, l))
    BY <2>s, <2>3, <2>5 DEF Listed
  <2> QED BY <2>5, <2>6, <2>7
<1>5. Height(Main) = 0 /\ Height(Main)' = 0
  BY <1>1 DEF CInv, Phases, Height
<1>6. Steps(Main)
  <2>1. Stacks' /\ Calling' /\ Kept(Main)
    BY <1>1 DEF CInv, Stacks, Calling, Kept, Height, Frame, Frames
  <2> QED BY <1>5, <2>1 DEF CInv, Steps
<1>7. ASSUME NEW q \in Procs, NEW h, Stays(Main, q, h) PROVE Sound(q, h)'
  <2>1. PICK f : f = Frame(q, h)
    OBVIOUS
  <2>2. h \in 1 .. Height(q) /\ Sound(q, h) /\ Shape(f)
    BY <1>6, <1>7, <1>p, <2>1, StayingCalls, CallFacts
  <2>3. f.k = "conf" /\ f.l \in Loaders => mod'[f.l] = "new" /\ owner'[f.l] = q
    BY <1>1, <1>2, <1>3, <2>1, <2>2 DEF Sound, ConfOk
  <2>4. f.k = "refs" => mod'[f.l] # "new" /\ owner'[f.l] = q
    BY <1>1, <1>3, <2>1, <2>2 DEF Sound, RefsOk, Shape
  <2>5. f.k = "close" => /\ f.o \in Loaders => mod'[f.o] # "new"
                         /\ \A l \in Loaders : Among(f.rest, l) => Listed(l, f.o)'
    BY <1>3, <1>4, <2>1, <2>2 DEF Sound, CloseOk, Shape
  <2>6. f.k = "rmmod" => IF f.pc = "deleted" THEN mod'[f.l] # "gone" ELSE Listed(f.l, Kernel)'
    BY <1>2, <1>3, <1>4, <2>1, <2>2 DEF Sound, RmmodOk, Shape, Owners
  <2>7. /\ f.k = "get" => \A y \in Owners : Listed(f.l, y) => Listed(f.l, y)'
        /\ f.k = "insmod" /\ f.l # Kernel => Listed(f.l, f.o)'
    BY <1>4, <2>1, <2>2 DEF Sound, InsmodOk, Shape, Owners
  <2>8. \A l \in Loaders : \A o \in Owners : Listed(l, o)' => Listed(l, o) \/ mod[l] = "gone"
    BY <1>2, <1>4
  <2> QED BY <1>1, <1>6, <1>7, <1>p, <2>1, <2>3, <2>4, <2>5, <2>6, <2>7, <2>8, SoundKept
<1>8. \A h \in 1 .. Height(Main)' : FALSE
  BY <1>5
<1>9. Relies'
  BY <1>6, <1>7, <1>8, <1>p, ReliesKept
<1>10. OneConf' /\ OneClose'
  BY <1>6, <1>8, <1>p, OneConfKept, OneCloseKept
<1>11. OneAdmin'
  BY <1>5, <1>6, <1>p, OneAdminKept
<1>12. Phases'
  <2>1. Fields(main)
    BY DEF CInv, Phases, Fields
  <2>2. Fields(main') /\ main'.i = 1 /\ main'.pc = "scan"
    BY <1>1, <2>1 DEF Fields
  <2> QED BY <1>1, <2>2, MainGoesOn DEF CInv, Phases
<1>13. Configured'
  <2>1. ASSUME NEW l \in Loaders, mod'[l] = "new"
        PROVE  mod[l] = "new" /\ owner'[l] = owner[l] /\ name'[l] = name[l]
    BY <1>1, <1>3, <2>1
  <2> QED BY <1>5, <1>6, <1>p, <2>1, ConfiguredKept
<1>14. Typed' /\ Lists'
  <2>1. Typed'
    BY <1>1, <1>3, <1>4 DEF CInv, Typed
  <2>2. ASSUME NEW l \in Loaders, NEW y \in Owners, Listed(l, y)'
        PROVE  /\ mod'[l] \notin {"gone", "leaked"}
               /\ \A z \in Owners : Listed(l, z)' => z = y
    <3>1. Among(new, l) => \A z \in Owners : ~Listed(l, z)
      BY <1>2 DEF CInv, Lists
    <3> QED BY <1>3, <1>4, <2>2, <3>1 DEF CInv, Lists
  <2>3. Lists'
    BY <1>4, <2>2 DEF Lists
  <2> QED BY <2>1, <2>3
<1>15. Answered'
  <2>1. \A l \in Loaders : mod'[l] = "new" => mod[l] = "new"
    BY <1>3
  <2>2. \A q \in Procs : \A l \in Loaders : ret'[q] = Ref(l) /\ mod'[l] = "new" => owner'[l] = q
    BY <1>1, <2>1 DEF CInv, Answered
  <2>3. \A l \in Loaders : name'[l] = name[l] \/ mod[l] = "gone"
    BY <1>2, <1>3
  <2> QED BY <1>1, <1>6, <1>8, <1>p, <2>1, <2>2, <2>3, AnsweredKept
<1>16. Works'
  <2>1. \A l \in Loaders : mod'[l] = "new" => mod[l] = "new"
    BY <1>3
  <2>2. \A q \in Pool : \A l \in uses[q] : l \in Loaders
    BY DEF CInv, Typed
  <2>3. \A q \in Procs : local'[q] = local[q]
    BY <1>1
  <2> QED BY <1>1, <2>1, <2>2, <2>3, WorksKept
<1> QED BY <1>6, <1>9, <1>10, <1>11, <1>12, <1>13, <1>14, <1>15, <1>16 DEF CInv, Steps

(* The jobs.                                                                 *)
LEMMA LookupCalls ==
  ASSUME CInv, NEW p \in Pool, NEW n, Lookup(p, n) PROVE CInv'
<1>a. PICK a : a = [k |-> "get", l |-> find_module(Kernel, n)]
  OBVIOUS
<1>1. /\ main.pc = "run" /\ stack[p] = <<>> /\ find_module(Kernel, n) # Kernel
      /\ stack' = [stack EXCEPT ![p] = <<a>> \o @]
      /\ name' = name /\ mod' = mod /\ local' = local /\ modules' = modules /\ uses' = uses /\ owner' = owner
      /\ ret' = ret /\ main' = main
  BY <1>a DEF Lookup, Running, Free, GetModule
<1>p. p \in Procs /\ Kernel \in Owners
  BY DEF Procs, Owners
<1>2. find_module(Kernel, n) \in Loaders /\ Listed(find_module(Kernel, n), Kernel)
  <2>1. modules[Kernel] \in Seq(Loaders)
    BY <1>p DEF CInv, Typed
  <2> QED BY <1>1, <1>p, <2>1, FindModule
<1>3. Enters(p, a)
  BY <1>1, <1>p, EntersCall DEF CInv
<1>4. /\ a.k = "get" /\ a.l \in Loaders /\ Listed(a.l, Kernel) /\ a = [k |-> a.k, l |-> a.l]
  BY <1>a, <1>2
<1>5. Shape(a) /\ Bottom(p, a)
  BY <1>4, ModuleAssumption DEF Shape, Bottom, Loading
<1>6. Phases'
  BY <1>1, <1>3, PoolEnters
<1>7. Sound(p, 1)' /\ Answers(p, a)'
  <2>1. Frame(p, 1)' = a
    BY <1>3 DEF Enters
  <2>2. Listed(a.l, Kernel)'
    BY <1>1, <1>4 DEF Listed
  <2> QED BY <1>4, <2>1, <2>2 DEF Sound, GetOk, Answers
<1> QED BY <1>1, <1>p, <1>3, <1>4, <1>5, <1>6, <1>7, EntersSteps

LEMMA AdministerCalls ==
  ASSUME CInv, NEW p \in Pool, NEW n, Administer(p, n) PROVE CInv'
<1>1. /\ main.pc = "run" /\ stack[p] = <<>> /\ ret[p] = Nothing /\ ~AdminBusy
      /\ name' = name /\ mod' = mod /\ local' = local /\ modules' = modules /\ uses' = uses /\ owner' = owner
      /\ ret' = ret /\ main' = main
  BY DEF Administer, Running, Free
<1>p. p \in Procs /\ Kernel \in Owners /\ Kernel \notin Loaders /\ p # Main
  BY ModuleAssumption DEF Procs, Owners
<1>2. CASE stack' = [stack EXCEPT ![p] = <<[k |-> "insmod", o |-> Kernel, name |-> n, l |-> Kernel]>>]
  <2>a. PICK a : a = [k |-> "insmod", o |-> Kernel, name |-> n, l |-> Kernel]
    OBVIOUS
  <2>1. Enters(p, a)
    BY <1>1, <1>2, <1>p, <2>a, EntersCall DEF CInv
  <2>2. a.k = "insmod" /\ a.o = Kernel /\ a.l = Kernel /\ a = [k |-> a.k, o |-> a.o, name |-> a.name, l |-> a.l]
    BY <2>a
  <2>3. Shape(a) /\ Bottom(p, a)
    BY <1>p, <2>2 DEF Shape, Bottom, Loading
  <2>4. Phases'
    BY <1>1, <2>1, PoolEnters
  <2>5. Frame(p, 1)' = a
    BY <2>1 DEF Enters
  <2>6. Sound(p, 1)'
    BY <2>2, <2>5 DEF Sound, InsmodOk
  <2>7. Answers(p, a)'
    BY <1>1, <2>2 DEF Answers
  <2> QED BY <1>1, <1>p, <2>1, <2>3, <2>4, <2>6, <2>7, EntersSteps
<1>3. CASE find_module(Kernel, n) # Kernel /\ stack' = [stack EXCEPT ![p] = <<RmmodFrame(n)>>]
  <2>a. PICK a : a = RmmodFrame(n)
    OBVIOUS
  <2>1. Enters(p, a)
    BY <1>1, <1>3, <1>p, <2>a, EntersCall DEF CInv
  <2>2. find_module(Kernel, n) \in Loaders /\ Listed(find_module(Kernel, n), Kernel)
    <3>1. modules[Kernel] \in Seq(Loaders)
      BY <1>p DEF CInv, Typed
    <3> QED BY <1>3, <1>p, <3>1, FindModule
  <2>3. a.k = "rmmod" /\ a.pc = "find" /\ a.l \in Loaders /\ Listed(a.l, Kernel) /\ a = [k |-> a.k, pc |-> a.pc, l |-> a.l]
    BY <2>a, <2>2 DEF RmmodFrame
  <2>4. Shape(a) /\ Bottom(p, a)
    BY <1>p, <2>3 DEF Shape, Bottom
  <2>5. Phases'
    BY <1>1, <2>1, PoolEnters
  <2>6. Sound(p, 1)'
    <3>1. Frame(p, 1)' = a
      BY <2>1 DEF Enters
    <3>2. Listed(a.l, Kernel)'
      BY <1>1, <2>3 DEF Listed
    <3> QED BY <2>3, <3>1, <3>2 DEF Sound, RmmodOk
  <2>7. Answers(p, a)'
    BY <1>1, <2>3 DEF Answers
  <2> QED BY <1>1, <1>p, <2>1, <2>4, <2>5, <2>6, <2>7, EntersSteps
<1> QED BY <1>2, <1>3 DEF Administer

\* The reference that a job keeps is to a module that is not new: its thread
\* would still run the configuration of the module otherwise.
LEMMA LookupDoneCalls ==
  ASSUME CInv, Functions, Functions', NEW p \in Pool, LookupDone(p) PROVE CInv'
<1>p. p \in Procs
  BY DEF Procs
<1>1. /\ stack[p] = <<>> /\ stack' = stack
      /\ name' = name /\ mod' = mod /\ local' = local /\ modules' = modules /\ owner' = owner /\ main' = main
      /\ ret' = [ret EXCEPT ![p] = Nothing]
      /\ uses' = IF ret[p].v = "ref" THEN [uses EXCEPT ![p] = @ \cup {ret[p].l}] ELSE uses
  BY DEF LookupDone
<1>2. \A q \in Procs : ret'[q] = ret[q] \/ ret'[q] = Nothing
  BY <1>1, <1>p, RetIs DEF Nothing
<1>3. ret[p].v = "ref" => ret[p].l \in Loaders /\ mod[ret[p].l] # "new"
  <2> SUFFICES ASSUME ret[p].v = "ref" PROVE ret[p].l \in Loaders /\ mod[ret[p].l] # "new"
    OBVIOUS
  <2>l. PICK l : l = ret[p].l
    OBVIOUS
  <2>1. l \in Loaders
    BY <1>p, <2>l DEF CInv, Typed
  <2>2. ret[p] = Ref(l)
    <3>1. ret[p] = [v |-> ret[p].v, l |-> ret[p].l]
      BY <1>p DEF Functions
    <3> QED BY <2>l, <3>1 DEF Ref
  <2>3. mod[l] = "new" => owner[l] = p
    BY <1>p, <2>1, <2>2 DEF CInv, Answered
  <2>4. mod[l] = "new" => \E h \in Frames(p) : TRUE
    BY <2>1, <2>3 DEF CInv, Configured
  <2>5. Frames(p) = {}
    BY <1>1, <1>p, Idle DEF Frames
  <2> QED BY <2>l, <2>1, <2>4, <2>5
<1>4. \A q \in Pool : \A x \in uses'[q] : x \in uses[q] \/ (ret[p].v = "ref" /\ x = ret[p].l)
  <2>1. uses = [q \in Pool |-> uses[q]]
    BY DEF Functions
  <2> QED BY <1>1, <2>1
<1>5. \A q \in Pool : \A x \in uses'[q] : x \in Loaders /\ mod[x] # "new"
  BY <1>3, <1>4 DEF CInv, Typed, Works, ConfiguredBeforeUse
<1>6. Phases'
  BY <1>1 DEF CInv, Phases, Height
<1> QED BY <1>1, <1>2, <1>5, <1>6, QuietSteps

LEMMA DropCalls ==
  ASSUME CInv, Functions, NEW p \in Pool, NEW l, Drop(p, l) PROVE CInv'
<1>1. /\ stack' = stack /\ name' = name /\ mod' = mod /\ local' = local /\ modules' = modules /\ owner' = owner
      /\ main' = main /\ ret' = ret
      /\ uses' = [uses EXCEPT ![p] = @ \ {l}]
  BY DEF Drop
<1>2. \A q \in Pool : \A x \in uses'[q] : x \in uses[q]
  <2>1. uses = [q \in Pool |-> uses[q]]
    BY DEF Functions
  <2> QED BY <1>1, <2>1
<1>3. \A q \in Pool : \A x \in uses'[q] : x \in Loaders /\ mod[x] # "new"
  BY <1>2 DEF CInv, Typed, Works, ConfiguredBeforeUse
<1>4. Phases'
  BY <1>1 DEF CInv, Phases, Height
<1> QED BY <1>1, <1>3, <1>4, QuietSteps

LEMMA StutterCalls == ASSUME CInv, UNCHANGED vars PROVE CInv'
<1>1. /\ stack' = stack /\ name' = name /\ mod' = mod /\ local' = local /\ modules' = modules /\ owner' = owner
      /\ main' = main /\ ret' = ret /\ uses' = uses
  BY DEF vars
<1>2. \A q \in Pool : \A x \in uses'[q] : x \in Loaders /\ mod[x] # "new"
  BY <1>1 DEF CInv, Typed, Works, ConfiguredBeforeUse
<1>3. Phases'
  BY <1>1 DEF CInv, Phases, Height
<1> QED BY <1>1, <1>2, <1>3, QuietSteps

LEMMA InitCInv == Init => CInv
<1> SUFFICES ASSUME Init PROVE CInv
  OBVIOUS
<1>p. /\ \A p \in Pool : p \in Procs
      /\ Main \in Procs /\ Kernel \notin Loaders
  BY ModuleAssumption DEF Procs
<1>1. \A p \in Procs : stack[p] = <<>> /\ Height(p) = 0 /\ Frames(p) = {}
  BY DEF Init, Height, Frames
<1>2. Stacks
  <2>1. \A S : <<>> \in Seq(S)
    OBVIOUS
  <2> QED BY <1>1, <2>1 DEF Stacks, Init
<1>3. Calling /\ OneAdmin /\ OneConf /\ OneClose /\ Relies
  BY <1>1, <1>p DEF Calling, OneAdmin, OneConf, OneClose, Relies, Administers
<1>4. Phases
  BY <1>1, <1>p DEF Phases, Init
<1>5. Typed
  <2>1. <<>> \in Seq(Loaders)
    OBVIOUS
  <2>2. name = [l \in Loaders |-> name[l]]
    BY DEF Init
  <2>3. ret = [q \in Procs |-> Nothing] /\ uses = [q \in Pool |-> {}] /\ mod = [l \in Loaders |-> "gone"]
        /\ owner = [l \in Loaders |-> NoProc] /\ modules = [o \in Owners |-> <<>>]
    BY DEF Init
  <2> QED BY <2>1, <2>2, <2>3 DEF Typed, Nothing
<1>6. Lists
  <2>1. \A o \in Owners : modules[o] = <<>> /\ DOMAIN modules[o] = {}
    BY DEF Init
  <2> QED BY <2>1 DEF Lists, Once, Listed, Among
<1>7. \A l \in Loaders : mod[l] # "new"
  BY DEF Init
<1>8. Configured /\ Answered
  BY <1>1, <1>7 DEF Configured, Answered
<1>9. Works
  BY <1>p DEF Works, ConfiguredBeforeUse, Init
<1> QED BY <1>2, <1>3, <1>4, <1>5, <1>6, <1>8, <1>9 DEF CInv

LEMMA CallCInv == ASSUME IInv, CInv, Functions', NEW p \in Procs, Call(p) PROVE CInv'
<1>f. Functions
  BY DEF IInv
<1>1. CASE GetLoaded(p) \/ LoadFails(p) \/ LoadModule(p)
  BY <1>1, <1>f, GetLoadedCalls, LoadFailsCalls, LoadModuleCalls
<1>2. CASE ConfLookup(p) \/ ConfGotRef(p) \/ ConfInsmod(p)
  BY <1>2, <1>f, ConfLookupCalls, ConfGotRefCalls, ConfInsmodCalls
<1>3. CASE ConfEnd(p)
  BY <1>3, KernelConfEnds, ConfEndCalls
<1>4. CASE CloseSub(p) \/ CloseSubDone(p) \/ CloseEnd(p)
  BY <1>4, <1>f, CloseSubCalls, CloseSubDoneCalls, CloseEndCalls
<1>5. CASE UnloadStart(p) \/ UnloadRefs(p)
  BY <1>5, NothingToUnload, UnloadStartCalls, UnloadRefsCalls
<1>6. CASE Insmod(p)
  BY <1>6, InsmodCalls
<1>7. CASE InsmodDone(p)
  <2>1. CASE ret[p] = NoRef
    BY <1>7, <2>1, InsmodDoneCalls
  <2>2. CASE ret[p] # NoRef
    <3>1. stack[p] # <<>> /\ Top(p).k = "insmod" /\ Leaves /\ local' = local
          /\ stack' = [stack EXCEPT ![p] = Tail(@)] /\ ret' = [ret EXCEPT ![p] = Nothing]
      BY <1>7, <2>2 DEF InsmodDone, Calls, Leaves
    <3> QED BY <3>1, AlreadyInserted
  <2> QED BY <2>1, <2>2
<1>8. CASE RmmodFind(p) \/ RmmodClose(p) \/ RmmodCheck(p)
  BY <1>8, <1>f, RmmodFindCalls, RmmodCloseCalls, RmmodCheckCalls
<1>9. CASE RmmodRemove(p) \/ RmmodDone(p)
  BY <1>9, RmmodRemoveCalls, RmmodDoneCalls
<1> QED BY <1>1, <1>2, <1>3, <1>4, <1>5, <1>6, <1>7, <1>8, <1>9 DEF Call

LEMMA NextCInv == IInv /\ CInv /\ [Next]_vars => CInv'
<1> SUFFICES ASSUME IInv, CInv, [Next]_vars PROVE CInv'
  OBVIOUS
<1>f. Functions /\ Functions'
  BY NextIInv DEF IInv
<1>1. CASE UNCHANGED vars
  BY <1>1, StutterCalls
<1>2. CASE Run
  BY <1>2, <1>f, LoadModuleDirCalls, ScanModuleCalls, ScanEndCalls, CloseAttemptCalls, MainCalls DEF Run
<1>3. CASE StopThreads
  BY <1>3, <1>f, MainCalls
<1>4. ASSUME NEW p \in Procs, Call(p) PROVE CInv'
  BY <1>4, <1>f, CallCInv
<1>5. ASSUME NEW p \in Pool, Job(p) PROVE CInv'
  BY <1>5, <1>f, LookupDoneCalls, LookupCalls, AdministerCalls, DropCalls DEF Job
<1> QED BY <1>1, <1>2, <1>3, <1>4, <1>5 DEF Next, Stopped

\* The references that jobs keep are to modules whose configuration has ended,
\* although find_module() and m_module show a module long before that: whoever
\* comes for it waits for m_mutex, and the thread that holds it has no job to go
\* back to while it runs the configuration (ModuleLoader::get_module).
THEOREM ConfiguredFirst == Spec => []ConfiguredBeforeUse
<1>1. Init => IInv /\ CInv
  BY InitIInv, InitCInv
<1>2. IInv /\ CInv /\ [Next]_vars => (IInv /\ CInv)'
  BY NextIInv, NextCInv
<1>3. CInv => ConfiguredBeforeUse
  BY DEF CInv, Works
<1> QED BY <1>1, <1>2, <1>3, PTL DEF Spec
=============================================================================
