------------------------------ MODULE ProcessProxy ------------------------------
(* The programs that the server starts (sconex/Process.cpp).  A multithreaded    *)
(* server must not fork, so Process::init() forks a proxy before any thread      *)
(* exists and every Process object talks to it over one socket pair: a request   *)
(* of one or more packets, sent and answered under s_proxy_mutex.  The proxy     *)
(* forks and execs, keeps what it knows of its children in m_stats, and learns   *)
(* of their end in its SIGCHLD handler, which interrupts whatever the proxy is   *)
(* doing.                                                                        *)
(*                                                                               *)
(* The data of a packet is the client that sent it: a child was started with     *)
(* the program of one client, the arguments of others and the user of a last     *)
(* one, and the properties tell them apart.                                      *)
EXTENDS Integers, Sequences

CONSTANTS
  Procs,          \* the Process objects
  Refused,        \* those whose user or group is below MIN_LAUNCH_USER / _GROUP
  Users,          \* threads in verify_system_password()
  Right,          \* those of them that give the right password of their user
  Pids,           \* the process ids the system gives to the proxy's children
  NoPid,          \* the initial -1 of m_pid
  NoOne,          \* nobody holds s_proxy_mutex
  MaxQueue        \* packets that fit into the socket

ASSUME ProcessAssumption ==
  /\ Refused \subseteq Procs
  /\ Right \subseteq Users
  /\ Procs \cap Users = {}
  /\ NoOne \notin Procs \cup Users
  /\ NoPid \notin Pids
  /\ MaxQueue \in Nat \ {0}

VARIABLES
  runstate,       \* m_runstate of each Process; "Deleted" once it is destroyed
  m_pid,          \* m_pid of each Process
  m_exitcode,     \* m_exitcode of each Process: -1 until it is set
  granted,        \* what verify_system_password() returned
  op,             \* the request that each client is making
  todo,           \* the packets of that request still to be sent
  holder,         \* who holds s_proxy_mutex
  requests,       \* packets on their way to the proxy
  replies,        \* packets on their way back
  proxy,          \* where the proxy is in run() and the command it has collected
  m_stats,        \* what the proxy knows of each child
  child           \* each child: its command, whether it lives, how it ended; and
                  \* torn: the handler once came between a lookup of this process
                  \* id in m_stats and the store that follows it

vars == <<runstate, m_pid, m_exitcode, granted, op, todo, holder, requests, replies,
          proxy, m_stats, child>>

object == <<runstate, m_pid, m_exitcode, granted>>
wire   == <<requests, replies>>

Clients == Procs \cup Users
Types   == {"None", "Running", "Detatched", "Terminated"}

Packet(type, val) == [type |-> type, val |-> val]
Empty == [prog |-> NoOne, args |-> <<>>, uid |-> NoOne]
Idle  == [at |-> "recv", cmd |-> Empty, pid |-> NoPid, known |-> FALSE]

(* The command that the proxy should have collected for Process p.               *)
CommandOf(p) == [prog |-> p, args |-> <<p>>, uid |-> p]

---------------------------------------------------------------------------------
(* The server's side.                                                            *)

(* launch() of an object that has not been launched; none of its callers         *)
(* launches twice.                                                               *)
Launch(p) ==
  /\ op[p] = "none" /\ m_pid[p] = NoPid /\ runstate[p] \in {"Unstarted", "Detatched"}
  /\ op' = [op EXCEPT ![p] = "launch"]
  /\ UNCHANGED <<object, todo, holder, wire, proxy, m_stats, child>>

(* get_exitcode() asks the proxy only while it believes that the child runs.     *)
GetExitcode(p) ==
  /\ op[p] = "none" /\ runstate[p] = "Running"
  /\ op' = [op EXCEPT ![p] = "check"]
  /\ UNCHANGED <<object, todo, holder, wire, proxy, m_stats, child>>

SetDetatched(p) ==
  /\ op[p] = "none" /\ runstate[p] \in {"Unstarted", "Running"}
  /\ runstate' = [runstate EXCEPT ![p] = "Detatched"]
  /\ UNCHANGED <<m_pid, m_exitcode, granted, op, todo, holder, wire, proxy, m_stats, child>>

(* SIGKILL to a process id: it ends a child that has not ended by itself.  The   *)
(* status of a signal has nothing in its upper byte.                             *)
Killed(pid) ==
  IF pid \in Pids /\ child[pid].st = "alive"
  THEN [child EXCEPT ![pid].st = "zombie", ![pid].code = 0]
  ELSE child

(* kill(), which may be called from a thread that does not own the object.       *)
Kill(p) ==
  /\ runstate[p] = "Running" /\ m_pid[p] # NoPid
  /\ child' = Killed(m_pid[p])
  /\ UNCHANGED <<object, op, todo, holder, wire, proxy, m_stats>>

(* ~Process(): a child that is not detached is killed, and the proxy is told to  *)
(* forget a process that was ever launched.                                      *)
Delete(p) ==
  /\ op[p] = "none" /\ runstate[p] # "Deleted"
  /\ child' = IF runstate[p] = "Running" THEN Killed(m_pid[p]) ELSE child
  /\ IF runstate[p] = "Unstarted"
     THEN runstate' = [runstate EXCEPT ![p] = "Deleted"] /\ op' = op
     ELSE op' = [op EXCEPT ![p] = "detatch"] /\ UNCHANGED runstate
  /\ UNCHANGED <<m_pid, m_exitcode, granted, todo, holder, wire, proxy, m_stats>>

Verify(u) ==
  /\ op[u] = "none" /\ granted[u] = "none"
  /\ op' = [op EXCEPT ![u] = "verify"]
  /\ UNCHANGED <<object, todo, holder, wire, proxy, m_stats, child>>

(* The packets of each request, in the order of the code.  One argument stands   *)
(* for the arguments, the environment and the directory, which the proxy collects*)
(* in the same way; the user stands for the user and the group.                  *)
PacketsOf(c, what) ==
  CASE what = "launch"  -> <<Packet("LaunchExe", c), Packet("LaunchArg", c),
                             Packet("LaunchUser", c), Packet("LaunchReady", c)>>
    [] what = "check"   -> <<Packet("CheckPid", m_pid[c])>>
    [] what = "detatch" -> <<Packet("DetatchPid", m_pid[c])>>
    [] what = "verify"  -> <<Packet("VerifyUser", c), Packet("VerifyPassword", c)>>

(* s_proxy_mutex->lock().                                                        *)
(* Slip: requests are not made one at a time.                                    *)
LockNot(c) ==
  /\ op[c] # "none" /\ todo[c] = <<>> /\ holder # c
  /\ holder' = c
  /\ todo' = [todo EXCEPT ![c] = PacketsOf(c, op[c])]
  /\ UNCHANGED <<object, op, wire, proxy, m_stats, child>>

Lock(c) ==
  /\ op[c] # "none" /\ holder = NoOne
  /\ holder' = c
  /\ todo' = [todo EXCEPT ![c] = PacketsOf(c, op[c])]
  /\ UNCHANGED <<object, op, wire, proxy, m_stats, child>>

(* send(): one packet.  Nobody answers a DetatchPid, so its sender is done.      *)
Send(c) ==
  /\ holder = c /\ todo[c] # <<>> /\ Len(requests) < MaxQueue
  /\ requests' = Append(requests, Head(todo[c]))
  /\ todo' = [todo EXCEPT ![c] = Tail(@)]
  /\ IF op[c] = "detatch"
     THEN /\ runstate' = [runstate EXCEPT ![c] = "Deleted"]
          /\ op' = [op EXCEPT ![c] = "none"]
          /\ holder' = NoOne
     ELSE UNCHANGED <<runstate, op, holder>>
  /\ UNCHANGED <<m_pid, m_exitcode, granted, replies, proxy, m_stats, child>>

(* recv() of the answer, what each caller makes of it, and the unlock.           *)
Receive(c) ==
  /\ holder = c /\ todo[c] = <<>> /\ replies # <<>>
  /\ LET r == Head(replies) IN
     CASE op[c] = "launch" ->
            /\ IF r.type = "LaunchedOk"
               THEN /\ m_pid' = [m_pid EXCEPT ![c] = r.val]
                    /\ runstate' = [runstate EXCEPT ![c] =
                                      IF @ = "Detatched" THEN @ ELSE "Running"]
               ELSE m_pid' = m_pid /\ runstate' = [runstate EXCEPT ![c] = "Terminated"]
            /\ UNCHANGED <<m_exitcode, granted>>
       [] op[c] = "check" ->
            /\ IF r.type = "CheckedTerminated"
               THEN /\ m_exitcode' = [m_exitcode EXCEPT ![c] = r.val]
                    /\ runstate' = [runstate EXCEPT ![c] = "Terminated"]
               ELSE UNCHANGED <<m_exitcode, runstate>>
            /\ UNCHANGED <<m_pid, granted>>
       [] op[c] = "verify" ->
            /\ granted' = [granted EXCEPT ![c] =
                             IF r.type = "VerifyResult" /\ r.val = 1 THEN "yes" ELSE "no"]
            /\ UNCHANGED <<runstate, m_pid, m_exitcode>>
  /\ replies' = Tail(replies)
  /\ op' = [op EXCEPT ![c] = "none"]
  /\ holder' = NoOne
  /\ UNCHANGED <<todo, requests, proxy, m_stats, child>>

---------------------------------------------------------------------------------
(* The proxy: run() takes one packet at a time.                                  *)

(* The next packet is of this type; the proxy takes it off the socket.           *)
Takes(type) ==
  /\ proxy.at = "recv" /\ requests # <<>> /\ Head(requests).type = type
  /\ requests' = Tail(requests)

Val == Head(requests).val
Reply(type, val) == replies' = Append(replies, Packet(type, val))
Command(cmd) == proxy' = [Idle EXCEPT !.cmd = cmd]

(* reset() empties the command but leaves the user.                              *)
Reset == [Empty EXCEPT !.uid = proxy.cmd.uid]

LaunchExe ==
  /\ Takes("LaunchExe") \/ Takes("VerifyUser")
  /\ Command([Reset EXCEPT !.prog = Val])
  /\ UNCHANGED <<replies, m_stats, child>>

LaunchArg ==
  /\ Takes("LaunchArg")
  /\ Command([proxy.cmd EXCEPT !.args = Append(@, Val)])
  /\ UNCHANGED <<replies, m_stats, child>>

LaunchUser ==
  /\ Takes("LaunchUser")
  /\ Command([proxy.cmd EXCEPT !.uid = Val])
  /\ UNCHANGED <<replies, m_stats, child>>

(* The system does not give a process id that is in use; nor, so the model       *)
(* assumes, one that an existing Process object remembers of a child that ended. *)
FreePid(pid) ==
  /\ child[pid].st \in {"none", "reaped"}
  /\ \A p \in Procs : m_pid[p] = pid => runstate[p] = "Deleted"

Forked(pid) ==
  [child EXCEPT ![pid].st = "alive", ![pid].cmd = proxy.cmd, ![pid].code = 0]

(* Slip: run() answers only when launch() succeeds.                              *)
LaunchReadyQuiet ==
  /\ Takes("LaunchReady")
  /\ \/ Command(Reset) /\ UNCHANGED child
     \/ /\ proxy.cmd.uid \notin Refused
        /\ \E pid \in Pids :
             /\ FreePid(pid)
             /\ child' = Forked(pid)
             /\ proxy' = [proxy EXCEPT !.at = "forked", !.pid = pid]
  /\ UNCHANGED <<replies, m_stats>>

(* Proxy::launch() up to the fork: the user is refused, or socketpair() or       *)
(* fork() fails, or there is a child, which runs from now on.                    *)
LaunchReady ==
  /\ Takes("LaunchReady")
  /\ \/ /\ Reply("LaunchedError", NoPid)
        /\ Command(Reset)
        /\ UNCHANGED child
     \/ /\ proxy.cmd.uid \notin Refused
        /\ \E pid \in Pids :
             /\ FreePid(pid)
             /\ child' = Forked(pid)
             /\ proxy' = [proxy EXCEPT !.at = "forked", !.pid = pid]
        /\ UNCHANGED replies
  /\ UNCHANGED m_stats

(* "Initialise the stat entry if not already there": the lookup ...              *)
FindStat ==
  /\ proxy.at = "forked"
  /\ proxy' = [proxy EXCEPT !.at = "insert", !.known = m_stats[proxy.pid].type # "None"]
  /\ UNCHANGED <<requests, replies, m_stats, child>>

(* ... and the store, the answer and reset().                                    *)
(* Slip: the entry is initialised whether it is there or not.                    *)
InsertAlways ==
  /\ proxy.at = "insert"
  /\ m_stats' = [m_stats EXCEPT ![proxy.pid] = [type |-> "Running", code |-> 0]]
  /\ Reply("LaunchedOk", proxy.pid)
  /\ Command(Reset)
  /\ UNCHANGED <<requests, child>>

Insert ==
  /\ proxy.at = "insert"
  /\ m_stats' = IF proxy.known THEN m_stats
                ELSE [m_stats EXCEPT ![proxy.pid] = [type |-> "Running", code |-> 0]]
  /\ Reply("LaunchedOk", proxy.pid)
  /\ Command(Reset)
  /\ UNCHANGED <<requests, child>>

Forget(pid) == [m_stats EXCEPT ![pid] = [type |-> "None", code |-> 0]]

(* An end that has been reported is forgotten.                                   *)
CheckPid ==
  /\ Takes("CheckPid")
  /\ IF Val \in Pids /\ m_stats[Val].type = "Terminated"
     THEN Reply("CheckedTerminated", m_stats[Val].code) /\ m_stats' = Forget(Val)
     ELSE Reply("CheckedRunning", 0) /\ UNCHANGED m_stats
  /\ UNCHANGED <<proxy, child>>

(* DetatchPid: a child that runs is marked, the entry of one that ended goes.    *)
(* The test of the type and the store are two steps.                             *)
DetatchPid ==
  /\ Takes("DetatchPid")
  /\ IF Val \in Pids /\ m_stats[Val].type = "Running"
     THEN proxy' = [proxy EXCEPT !.at = "mark", !.pid = Val] /\ UNCHANGED m_stats
     ELSE /\ m_stats' = IF Val \in Pids THEN Forget(Val) ELSE m_stats
          /\ UNCHANGED proxy
  /\ UNCHANGED <<replies, child>>

MarkDetatched ==
  /\ proxy.at = "mark"
  /\ m_stats' = [m_stats EXCEPT ![proxy.pid].type = "Detatched"]
  /\ Command(proxy.cmd)
  /\ UNCHANGED <<requests, replies, child>>

VerifyPassword ==
  /\ Takes("VerifyPassword")
  /\ Reply("VerifyResult", IF proxy.cmd.prog = Val /\ Val \in Right THEN 1 ELSE 0)
  /\ Command(Reset)
  /\ UNCHANGED <<m_stats, child>>

ProxyStep ==
  /\ LaunchExe \/ LaunchArg \/ LaunchUser \/ LaunchReady \/ FindStat \/ Insert
       \/ CheckPid \/ DetatchPid \/ MarkDetatched \/ VerifyPassword
  /\ UNCHANGED <<object, op, todo, holder>>

---------------------------------------------------------------------------------
(* The children and the signal handler.                                          *)

(* A child ends: with a code, or of a signal or with code 0.                     *)
ChildEnds(pid) ==
  /\ child[pid].st = "alive"
  /\ \E code \in {0, 1} :
       child' = [child EXCEPT ![pid].st = "zombie", ![pid].code = code]
  /\ UNCHANGED <<object, op, todo, holder, wire, proxy, m_stats>>

(* process_terminated(), for a child that waitpid() has returned.                *)
process_terminated(pid) ==
  m_stats' = IF m_stats[pid].type \in {"Running", "None"}
             THEN [m_stats EXCEPT ![pid] = [type |-> "Terminated", code |-> child[pid].code]]
             ELSE Forget(pid)

(* handleSIGCHLD(), for one child of its loop.  It interrupts the proxy between  *)
(* any two steps, a lookup in m_stats and the store that rests on it included.   *)
HandleSIGCHLD(pid) ==
  /\ child[pid].st = "zombie"
  /\ child' = [child EXCEPT ![pid].st = "reaped",
                            ![pid].torn = @ \/ (proxy.at \in {"insert", "mark"} /\ proxy.pid = pid)]
  /\ process_terminated(pid)
  /\ UNCHANGED <<object, op, todo, holder, wire, proxy>>

---------------------------------------------------------------------------------
Init ==
  /\ runstate = [p \in Procs |-> "Unstarted"]
  /\ m_pid = [p \in Procs |-> NoPid]
  /\ m_exitcode = [p \in Procs |-> -1]
  /\ granted = [u \in Users |-> "none"]
  /\ op = [c \in Clients |-> "none"]
  /\ todo = [c \in Clients |-> <<>>]
  /\ holder = NoOne
  /\ requests = <<>> /\ replies = <<>>
  /\ proxy = Idle
  /\ m_stats = [pid \in Pids |-> [type |-> "None", code |-> 0]]
  /\ child = [pid \in Pids |-> [st |-> "none", cmd |-> Empty, code |-> 0, torn |-> FALSE]]

Next ==
  \/ \E p \in Procs : Launch(p) \/ GetExitcode(p) \/ SetDetatched(p) \/ Kill(p) \/ Delete(p)
  \/ \E u \in Users : Verify(u)
  \/ \E c \in Clients : Lock(c) \/ Send(c) \/ Receive(c)
  \/ ProxyStep
  \/ \E pid \in Pids : ChildEnds(pid) \/ HandleSIGCHLD(pid)

(* A thread that holds the mutex goes on, and so do the proxy and the handler.   *)
(* Nothing says that a thread polls, or that a child ends.                       *)
Fairness ==
  /\ \A c \in Clients : WF_vars(Send(c)) /\ WF_vars(Receive(c))
  /\ WF_vars(ProxyStep)
  /\ \A pid \in Pids : WF_vars(HandleSIGCHLD(pid))

Spec == Init /\ [][Next]_vars /\ Fairness

---------------------------------------------------------------------------------
TypeOK ==
  /\ runstate \in [Procs -> {"Unstarted", "Running", "Detatched", "Terminated", "Deleted"}]
  /\ m_pid \in [Procs -> Pids \cup {NoPid}]
  /\ m_exitcode \in [Procs -> {-1, 0, 1}]
  /\ granted \in [Users -> {"none", "yes", "no"}]
  /\ op \in [Clients -> {"none", "launch", "check", "detatch", "verify"}]
  /\ holder \in Clients \cup {NoOne}
  /\ proxy.at \in {"recv", "forked", "insert", "mark"}
  /\ \A pid \in Pids : /\ m_stats[pid].type \in Types
                       /\ child[pid].st \in {"none", "alive", "zombie", "reaped"}

(* What a caller of launch(), get_exitcode() or verify_system_password() is told *)
(* is about its own request: the process id is that of a child started with the  *)
(* program, arguments and user of this object alone, the exit code is the code   *)
(* of this child, which has ended, and a password is confirmed exactly when it   *)
(* is that of the user it was asked for.  Of a process id whose entry the handler*)
(* has torn, the exit code is not claimed: the entry says Running or Detatched of*)
(* a child that is gone, and once the system reuses the process id it is taken   *)
(* for that of the next child.                                                   *)
AnswersAreOwn ==
  /\ \A p \in Procs : runstate[p] # "Deleted" /\ m_pid[p] # NoPid =>
       /\ child[m_pid[p]].cmd = CommandOf(p)
       /\ m_exitcode[p] # -1 /\ ~child[m_pid[p]].torn =>
            /\ child[m_pid[p]].st = "reaped"
            /\ m_exitcode[p] = child[m_pid[p]].code
  /\ \A u \in Users : granted[u] # "none" => (granted[u] = "yes" <=> u \in Right)

(* Once the handler has collected the child of p, p will be told of its end if it*)
(* still believes that the child runs: the proxy has it recorded as terminated,  *)
(* or the answer is under way.                                                   *)
Kept(p) ==
  (runstate[p] = "Running" /\ op[p] # "detatch" /\ child[m_pid[p]].st = "reaped") =>
    \/ m_stats[m_pid[p]].type = "Terminated"
    \/ op[p] = "check" /\ \E i \in DOMAIN replies : replies[i].type = "CheckedTerminated"

(* The end of a child is lost only if the handler tears its entry, by coming     *)
(* exactly between a lookup and its store; whenever else it comes, before the    *)
(* entry is made included, the object is told (BuildStep and the exec module's   *)
(* system method wait for that answer for ever).                                 *)
ExitIsKept == \A p \in Procs : m_pid[p] \in Pids /\ ~child[m_pid[p]].torn => Kept(p)

(* What the lookup in Proxy::launch() is for ("Initialise the stat entry if not  *)
(* already there", Process.cpp:631): an end that the handler has recorded already*)
(* is not overwritten, so no end is lost.  It is, between the lookup and the     *)
(* store.                                                                        *)
EveryExitIsKept == \A p \in Procs : Kept(p)

(* Nobody keeps the one line to the proxy: a thread that has s_proxy_mutex gets  *)
(* its answer and releases it.                                                   *)
AnswersCome == \A c \in Clients : (holder = c) ~> (holder # c)
=================================================================================
