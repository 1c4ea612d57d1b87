------------------------- MODULE ProcessProxyProofs -------------------------
(* The answers of the proxy, for any number of objects, users and process    *)
(* ids and a socket of any length, whenever the handler comes.               *)
EXTENDS ProcessProxy, SequenceTheorems, TLAPS

Vals     == Clients \cup Pids \cup {NoPid, NoOne, 0, 1}
Packets  == [type : {"LaunchExe", "LaunchArg", "LaunchUser", "LaunchReady", "LaunchedOk",
                     "LaunchedError", "CheckPid", "CheckedRunning", "CheckedTerminated",
                     "DetatchPid", "VerifyUser", "VerifyPassword", "VerifyResult"},
             val : Vals]
Commands == [prog : Vals, args : Seq(Vals), uid : Vals]

Typed ==
  /\ runstate \in [Procs -> {"Unstarted", "Running", "Detatched", "Terminated", "Deleted"}]
  /\ m_pid \in [Procs -> Pids \cup {NoPid}]
  /\ m_exitcode \in [Procs -> {-1, 0, 1}]
  /\ granted \in [Users -> {"none", "yes", "no"}]
  /\ op \in [Clients -> {"none", "launch", "check", "detatch", "verify"}]
  /\ todo \in [Clients -> Seq(Packets)]
  /\ holder \in Clients \cup {NoOne}
  /\ requests \in Seq(Packets) /\ replies \in Seq(Packets)
  /\ proxy \in [at : {"recv", "forked", "insert", "mark"}, cmd : Commands,
                pid : Pids \cup {NoPid}, known : BOOLEAN]
  /\ m_stats \in [Pids -> [type : Types, code : {0, 1}]]
  /\ child \in [Pids -> [st : {"none", "alive", "zombie", "reaped"}, cmd : Commands,
                         code : {0, 1}, torn : BOOLEAN]]

\* What an object's state says of the request that it is making.
Objects ==
  /\ \A p \in Procs :
       /\ op[p] # "verify"
       /\ op[p] = "launch" => m_pid[p] = NoPid /\ runstate[p] \in {"Unstarted", "Detatched"}
       /\ op[p] = "check" => runstate[p] = "Running"
       /\ op[p] = "detatch" => runstate[p] \in {"Running", "Detatched", "Terminated"}
       /\ runstate[p] = "Running" => m_pid[p] \in Pids
       /\ runstate[p] = "Unstarted" => m_pid[p] = NoPid
       /\ m_exitcode[p] # -1 => runstate[p] \in {"Terminated", "Deleted"}
  /\ \A u \in Users :
       /\ op[u] \in {"none", "verify"}
       /\ granted[u] # "none" => (granted[u] = "yes" <=> u \in Right)

\* What the holder of the mutex asks, and how many of its packets the proxy has
\* taken; of those before them, which others left behind, it is less than none.
Asks(c)  == PacketsOf(c, op[c])
Taken(c) == Len(Asks(c)) - Len(todo[c]) - Len(requests)

InLine(c) ==
  /\ Len(todo[c]) <= Len(Asks(c))
  /\ \A j \in 1..Len(todo[c]) : todo[c][j] = Asks(c)[Len(Asks(c)) - Len(todo[c]) + j]
  /\ \A i \in 1..Len(requests) :
       IF Taken(c) + i >= 1 THEN requests[i] = Asks(c)[Taken(c) + i]
                            ELSE requests[i].type = "DetatchPid"

\* Nothing is known of the entry of a process id once the handler has come between
\* its lookup and its store: what follows holds of the others.
Torn(pid) == child[pid].torn

\* A child that was started for c and that c has not heard of yet.
Started(c, pid) == pid \in Pids /\ child[pid].cmd = CommandOf(c)

Progress(c) ==
  /\ Taken(c) <= 0 => proxy.at \in {"recv", "mark"}
  /\ Taken(c) \in 1..Len(Asks(c)) - 1 =>
       /\ proxy.at = "recv" /\ proxy.cmd.prog = c
       /\ op[c] = "launch" => /\ proxy.cmd.args = IF Taken(c) = 1 THEN <<>> ELSE <<c>>
                              /\ Taken(c) = 3 => proxy.cmd.uid = c
  /\ Taken(c) < Len(Asks(c)) => replies = <<>>
  /\ Taken(c) = Len(Asks(c)) => proxy.at \in {"recv", "forked", "insert"}

\* The entry of a child between the fork and the answer.
Entering(pid) ==
  /\ m_stats[pid].type \in {"None", "Terminated"}
  /\ m_stats[pid].type = "None" => child[pid].st \in {"alive", "zombie"}
  /\ proxy.at = "insert" => (proxy.known <=> m_stats[pid].type # "None")

Answered(c) ==
  LET r == replies[1] IN
  Taken(c) = Len(Asks(c)) =>
  /\ proxy.at # "recv" =>
       /\ op[c] = "launch" /\ replies = <<>> /\ proxy.cmd = CommandOf(c)
       /\ Started(c, proxy.pid)
       /\ ~Torn(proxy.pid) => Entering(proxy.pid)
  /\ proxy.at = "recv" =>
       /\ Len(replies) = 1
       /\ op[c] = "launch" /\ r.type = "LaunchedOk" =>
            /\ Started(c, r.val)
            /\ ~Torn(r.val) => m_stats[r.val].type \in {"Running", "Terminated"}
       /\ op[c] = "check" => r.type \in {"CheckedRunning", "CheckedTerminated"}
       /\ op[c] = "check" /\ r.type = "CheckedTerminated" =>
            /\ m_pid[c] \in Pids /\ r.val \in {0, 1}
            /\ ~Torn(m_pid[c]) =>
                 /\ child[m_pid[c]].st = "reaped" /\ r.val = child[m_pid[c]].code
                 /\ m_stats[m_pid[c]].type = "None"
       /\ op[c] = "verify" =>
            r.type = "VerifyResult" /\ r.val = IF c \in Right THEN 1 ELSE 0

Quiet == holder = NoOne \/ op[holder] = "detatch"

Line ==
  /\ \A c \in Clients : todo[c] # <<>> => holder = c
  /\ holder # NoOne => op[holder] # "none"
  /\ Quiet => /\ proxy.at \in {"recv", "mark"} /\ replies = <<>>
              /\ \A i \in 1..Len(requests) : requests[i].type = "DetatchPid"
              /\ holder # NoOne => todo[holder] = <<Packet("DetatchPid", m_pid[holder])>>
  /\ ~Quiet => InLine(holder) /\ Progress(holder) /\ Answered(holder)

\* Who knows of a child: an object, the launch that started it, or the packet
\* that its object has left behind.
Knows(p, pid) == runstate[p] # "Deleted" /\ m_pid[p] = pid
Launching(pid) ==
  \/ proxy.at \in {"forked", "insert"} /\ proxy.pid = pid
  \/ Len(replies) = 1 /\ replies[1] = Packet("LaunchedOk", pid)
LeftAt(i, pid) == requests[i].type = "DetatchPid" /\ requests[i].val = pid
Leaving(pid) ==
  \/ \E i \in 1..Len(requests) : LeftAt(i, pid)
  \/ proxy.at = "mark" /\ proxy.pid = pid
Owned(pid) == (\E p \in Procs : Knows(p, pid)) \/ Launching(pid) \/ Leaving(pid)

Left ==
  /\ \A i, j \in 1..Len(requests), pid \in Pids : LeftAt(i, pid) /\ LeftAt(j, pid) => i = j
  /\ \A i \in 1..Len(requests), pid \in Pids :
       LeftAt(i, pid) /\ ~Torn(pid) => m_stats[pid].type # "Detatched"
  /\ proxy.at = "mark" => /\ proxy.pid \in Pids
                          /\ ~Torn(proxy.pid) => m_stats[proxy.pid].type = "Running"
                          /\ \A i \in 1..Len(requests) : ~LeftAt(i, proxy.pid)

\* What the entry of a child says of it.
Entry(pid) ==
  ~Torn(pid) =>
  /\ m_stats[pid].type = "Running" => child[pid].st \in {"alive", "zombie"} /\ Owned(pid)
  /\ m_stats[pid].type = "Detatched" => child[pid].st \in {"alive", "zombie"}
  /\ m_stats[pid].type = "Terminated" =>
       child[pid].st = "reaped" /\ m_stats[pid].code = child[pid].code /\ Owned(pid)
  /\ m_stats[pid].type = "None" =>
       \/ child[pid].st \in {"none", "reaped"}
       \/ proxy.at \in {"forked", "insert"} /\ proxy.pid = pid

Told(p) == /\ holder = p /\ op[p] = "check"
           /\ Len(replies) = 1 /\ replies[1].type = "CheckedTerminated"

\* And what is so of the child that an object knows of.
Known(p, pid) ==
  /\ child[pid].cmd = CommandOf(p) /\ ~Leaving(pid)
  /\ ~Torn(pid) =>
       /\ m_stats[pid].type # "Detatched"
       /\ m_stats[pid].type = "None" => runstate[p] = "Terminated" \/ Told(p)
       /\ m_exitcode[p] # -1 => child[pid].st = "reaped" /\ m_exitcode[p] = child[pid].code

Children ==
  /\ \A pid \in Pids : Entry(pid)
  /\ \A p \in Procs, pid \in Pids : Knows(p, pid) => Known(p, pid)

IInv == Typed /\ Objects /\ Line /\ Left /\ Children

-----------------------------------------------------------------------------
(* What is asked: the packets of each request by their places.               *)
LEMMA AskedPackets ==
  ASSUME Typed, NEW c \in Clients
  PROVE  /\ op[c] = "launch" =>
              /\ Asks(c) \in Seq(Packets) /\ Len(Asks(c)) = 4
              /\ Asks(c)[1] = Packet("LaunchExe", c) /\ Asks(c)[2] = Packet("LaunchArg", c)
              /\ Asks(c)[3] = Packet("LaunchUser", c) /\ Asks(c)[4] = Packet("LaunchReady", c)
         /\ op[c] = "check" /\ c \in Procs =>
              /\ Asks(c) \in Seq(Packets) /\ Len(Asks(c)) = 1
              /\ Asks(c)[1] = Packet("CheckPid", m_pid[c])
         /\ op[c] = "detatch" /\ c \in Procs =>
              /\ Asks(c) \in Seq(Packets) /\ Len(Asks(c)) = 1
              /\ Asks(c) = <<Packet("DetatchPid", m_pid[c])>>
         /\ op[c] = "verify" =>
              /\ Asks(c) \in Seq(Packets) /\ Len(Asks(c)) = 2
              /\ Asks(c)[1] = Packet("VerifyUser", c) /\ Asks(c)[2] = Packet("VerifyPassword", c)
<1>1. c \in Vals /\ (c \in Procs => m_pid[c] \in Vals)
  BY DEF Typed, Vals
<1>2. CASE op[c] = "launch"
  <2>1. Asks(c) = <<Packet("LaunchExe", c), Packet("LaunchArg", c),
                    Packet("LaunchUser", c), Packet("LaunchReady", c)>>
    BY <1>2 DEF Asks, PacketsOf
  <2>2. /\ Packet("LaunchExe", c) \in Packets /\ Packet("LaunchArg", c) \in Packets
        /\ Packet("LaunchUser", c) \in Packets /\ Packet("LaunchReady", c) \in Packets
    BY <1>1 DEF Packet, Packets
  <2>3. Asks(c) \in Seq(Packets) /\ Len(Asks(c)) = 4
    BY <2>1, <2>2
  <2>4. /\ Asks(c)[1] = Packet("LaunchExe", c) /\ Asks(c)[2] = Packet("LaunchArg", c)
        /\ Asks(c)[3] = Packet("LaunchUser", c) /\ Asks(c)[4] = Packet("LaunchReady", c)
    BY <2>1
  <2> QED BY <1>2, <2>3, <2>4
<1>3. CASE op[c] = "check" /\ c \in Procs
  <2>1. Asks(c) = <<Packet("CheckPid", m_pid[c])>>
    BY <1>3 DEF Asks, PacketsOf
  <2>2. Packet("CheckPid", m_pid[c]) \in Packets
    BY <1>1, <1>3 DEF Packet, Packets
  <2>3. Asks(c) \in Seq(Packets) /\ Len(Asks(c)) = 1 /\ Asks(c)[1] = Packet("CheckPid", m_pid[c])
    BY <2>1, <2>2
  <2> QED BY <1>3, <2>3
<1>4. CASE op[c] = "detatch" /\ c \in Procs
  <2>1. Asks(c) = <<Packet("DetatchPid", m_pid[c])>>
    BY <1>4 DEF Asks, PacketsOf
  <2>2. Packet("DetatchPid", m_pid[c]) \in Packets
    BY <1>1, <1>4 DEF Packet, Packets
  <2>3. Asks(c) \in Seq(Packets) /\ Len(Asks(c)) = 1
    BY <2>1, <2>2
  <2> QED BY <1>4, <2>1, <2>3
<1>5. CASE op[c] = "verify"
  <2>1. Asks(c) = <<Packet("VerifyUser", c), Packet("VerifyPassword", c)>>
    BY <1>5 DEF Asks, PacketsOf
  <2>2. Packet("VerifyUser", c) \in Packets /\ Packet("VerifyPassword", c) \in Packets
    BY <1>1 DEF Packet, Packets
  <2>3. /\ Asks(c) \in Seq(Packets) /\ Len(Asks(c)) = 2
        /\ Asks(c)[1] = Packet("VerifyUser", c) /\ Asks(c)[2] = Packet("VerifyPassword", c)
    BY <2>1, <2>2
  <2> QED BY <1>5, <2>3
<1> QED BY <1>2, <1>3, <1>4, <1>5

(* Whoever holds the mutex makes one of the requests.                        *)
LEMMA HolderAsks ==
  ASSUME Typed, Objects, Line, ~Quiet
  PROVE  /\ holder \in Clients /\ op[holder] \in {"launch", "check", "verify"}
         /\ op[holder] \in {"launch", "check"} => holder \in Procs
         /\ op[holder] = "verify" => holder \in Users
         /\ Asks(holder) \in Seq(Packets)
         /\ Len(Asks(holder)) = (IF op[holder] = "launch" THEN 4
                                 ELSE IF op[holder] = "check" THEN 1 ELSE 2)
<1>1. holder \in Clients /\ op[holder] \in {"launch", "check", "verify"}
  BY DEF Typed, Line, Quiet
<1>2. /\ op[holder] \in {"launch", "check"} => holder \in Procs
      /\ op[holder] = "verify" => holder \in Users
  BY <1>1 DEF Objects, Clients
<1> QED BY <1>1, <1>2, AskedPackets

LEMMA InitIInv == Init => IInv
<1> SUFFICES ASSUME Init PROVE IInv
  OBVIOUS
<1>1. Typed
  <2>1. Idle \in [at : {"recv", "forked", "insert", "mark"}, cmd : Commands,
                  pid : Pids \cup {NoPid}, known : BOOLEAN]
    <3>1. <<>> \in Seq(Vals) /\ NoOne \in Vals
      BY DEF Vals
    <3> QED BY <3>1 DEF Empty, Idle, Commands
  <2>2. Empty \in Commands
    BY DEF Empty, Commands, Vals
  <2>3. <<>> \in Seq(Packets)
    OBVIOUS
  <2>4. child \in [Pids -> [st : {"none", "alive", "zombie", "reaped"}, cmd : Commands,
                            code : {0, 1}, torn : BOOLEAN]]
    BY <2>2 DEF Init
  <2> QED BY <2>1, <2>3, <2>4 DEF Init, Typed, Types
<1>2. Objects
  BY DEF Init, Objects, Clients
<1>3. Line
  <2>1. requests = <<>> /\ replies = <<>> /\ proxy.at = "recv" /\ Quiet
    BY DEF Init, Quiet, Idle
  <2>2. \A i \in 1..Len(requests) : requests[i].type = "DetatchPid"
    BY <2>1
  <2> QED BY <2>1, <2>2 DEF Init, Line
<1>4. Left
  <2>1. requests = <<>> /\ proxy.at = "recv"
    BY DEF Init, Idle
  <2>2. \A i \in 1..Len(requests) : FALSE
    BY <2>1
  <2> QED BY <2>1, <2>2 DEF Left, Torn
<1>5. Children
  BY ProcessAssumption DEF Init, Children, Entry, Torn, Knows
<1> QED BY <1>1, <1>2, <1>3, <1>4, <1>5 DEF IInv

-----------------------------------------------------------------------------
(* Steps beside the proxy: the objects and the children.                     *)
Child == [st : {"none", "alive", "zombie", "reaped"}, cmd : Commands, code : {0, 1},
          torn : BOOLEAN]

LEMMA AsideKeeps ==
  ASSUME IInv,
         UNCHANGED <<m_pid, m_exitcode, granted, todo, holder, requests, replies, proxy, m_stats>>,
         op' \in [Clients -> {"none", "launch", "check", "detatch", "verify"}],
         \A c \in Clients : op[c] # "none" => op'[c] = op[c],
         runstate' \in [Procs -> {"Unstarted", "Running", "Detatched", "Terminated", "Deleted"}],
         \A p \in Procs : \/ runstate'[p] = runstate[p]
                          \/ runstate[p] # "Terminated" /\ runstate'[p] = "Detatched"
                          \/ m_pid[p] = NoPid,
         \A p \in Procs : runstate[p] = "Deleted" => runstate'[p] = "Deleted",
         child' \in [Pids -> Child],
         \A pid \in Pids : \/ child'[pid] = child[pid]
                           \/ /\ child[pid].st = "alive" /\ child'[pid].st = "zombie"
                              /\ child'[pid].cmd = child[pid].cmd
                              /\ child'[pid].torn = child[pid].torn,
         Objects'
  PROVE  IInv'
<1>1. Typed'
  BY DEF IInv, Typed, Child
<1>2. Quiet' = Quiet /\ (holder # NoOne => op'[holder] = op[holder])
  BY DEF IInv, Typed, Line, Quiet
<1>3. ~Quiet => Taken(holder)' = Taken(holder) /\ Asks(holder)' = Asks(holder)
  BY <1>2 DEF Asks, Taken, PacketsOf, Quiet
<1>4. Line'
  <2>1. CASE Quiet
    BY <1>2, <2>1 DEF IInv, Line, Quiet
  <2>2. CASE ~Quiet
    <3>1. InLine(holder) /\ Progress(holder) /\ Answered(holder)
      BY <2>2 DEF IInv, Line
    <3>2. InLine(holder)' /\ Progress(holder)'
      <4>1. holder # NoOne /\ op'[holder] = op[holder]
        BY <1>2, <2>2 DEF Quiet
      <4>2. InLine(holder)'
        BY <1>3, <2>2, <3>1 DEF InLine
      <4>3. Progress(holder)'
        BY <1>3, <2>2, <3>1, <4>1 DEF Progress
      <4> QED BY <4>2, <4>3
    <3>3. Answered(holder)'
      <4>1. CASE Taken(holder) # Len(Asks(holder))
        BY <1>3, <2>2, <4>1 DEF Answered, Torn
      <4>2. CASE Taken(holder) = Len(Asks(holder)) /\ proxy.at # "recv"
        <5>1. proxy.pid \in Pids
          BY <3>1, <4>2 DEF Answered, Started, Torn
        <5>2. /\ child'[proxy.pid].cmd = child[proxy.pid].cmd
              /\ child'[proxy.pid].torn = child[proxy.pid].torn
              /\ child[proxy.pid].st \in {"alive", "zombie"} => child'[proxy.pid].st \in {"alive", "zombie"}
          BY <5>1
        <5> QED BY <1>2, <1>3, <2>2, <3>1, <4>2, <5>1, <5>2 DEF Answered, Entering, Quiet, Started, CommandOf, Torn
      <4>3. CASE Taken(holder) = Len(Asks(holder)) /\ proxy.at = "recv"
        <5>1. \A pid \in Pids : /\ child'[pid].cmd = child[pid].cmd
                                /\ child'[pid].torn = child[pid].torn
                                /\ child[pid].st = "reaped" => child'[pid] = child[pid]
          OBVIOUS
        <5> QED BY <1>2, <1>3, <2>2, <3>1, <4>3, <5>1 DEF Answered, Quiet, Started, CommandOf, Torn
      <4> QED BY <4>1, <4>2, <4>3
    <3> QED BY <1>2, <2>2, <3>2, <3>3 DEF IInv, Line, Quiet
  <2> QED BY <2>1, <2>2
<1>5. Left'
  BY DEF IInv, Left, LeftAt, Torn
<1>6. \A p \in Procs, pid \in Pids : Knows(p, pid)' <=> Knows(p, pid)
  <2> SUFFICES ASSUME NEW p \in Procs, NEW pid \in Pids PROVE Knows(p, pid)' <=> Knows(p, pid)
    OBVIOUS
  <2>1. CASE m_pid[p] # pid
    BY <2>1 DEF Knows
  <2>2. CASE m_pid[p] = pid
    <3>1. m_pid[p] # NoPid
      BY <2>2, ProcessAssumption
    <3> QED BY <3>1 DEF Knows
  <2> QED BY <2>1, <2>2
<1>7. \A pid \in Pids : (Leaving(pid)' <=> Leaving(pid)) /\ (Owned(pid)' <=> Owned(pid))
  <2>1. \A pid \in Pids : Leaving(pid)' <=> Leaving(pid)
    BY DEF Leaving, LeftAt
  <2>2. \A pid \in Pids : Launching(pid)' <=> Launching(pid)
    BY DEF Launching
  <2> QED BY <1>6, <2>1, <2>2 DEF Owned
<1>8. ASSUME NEW pid \in Pids PROVE Entry(pid)'
  <2>1. Entry(pid) /\ (Owned(pid)' <=> Owned(pid))
    BY <1>7 DEF IInv, Children
  <2> QED BY <2>1 DEF Entry, Torn
<1>9. ASSUME NEW p \in Procs, NEW pid \in Pids, Knows(p, pid)' PROVE Known(p, pid)'
  <2>1. Knows(p, pid) /\ Known(p, pid)
    BY <1>6, <1>9 DEF IInv, Children
  <2>2. Told(p) => Told(p)'
    BY DEF Told, Clients
  <2>3. runstate[p] = "Terminated" => runstate'[p] = "Terminated"
    BY <2>1, ProcessAssumption DEF Knows
  <2> QED BY <1>7, <2>1, <2>2, <2>3 DEF Known, CommandOf, Torn
<1> QED BY <1>1, <1>4, <1>5, <1>8, <1>9 DEF IInv, Children

LEMMA KilledChild ==
  ASSUME child \in [Pids -> Child], NEW k
  PROVE  /\ Killed(k) \in [Pids -> Child]
         /\ \A pid \in Pids : \/ Killed(k)[pid] = child[pid]
                              \/ /\ child[pid].st = "alive" /\ Killed(k)[pid].st = "zombie"
                                 /\ Killed(k)[pid].cmd = child[pid].cmd
                                 /\ Killed(k)[pid].torn = child[pid].torn
  BY DEF Killed, Child

LEMMA ObjectSteps ==
  ASSUME IInv, NEW p \in Procs,
         Launch(p) \/ GetExitcode(p) \/ SetDetatched(p) \/ Kill(p) \/ Delete(p)
  PROVE  IInv'
<1>1. /\ op \in [Clients -> {"none", "launch", "check", "detatch", "verify"}]
      /\ runstate \in [Procs -> {"Unstarted", "Running", "Detatched", "Terminated", "Deleted"}]
      /\ child \in [Pids -> Child] /\ p \in Clients
  BY DEF IInv, Typed, Child, Clients
<1>2. Objects
  BY DEF IInv
<1>3. CASE Launch(p) \/ GetExitcode(p)
  <2>1. PICK o \in {"launch", "check"} :
          /\ op[p] = "none" /\ op' = [op EXCEPT ![p] = o]
          /\ o = "launch" => m_pid[p] = NoPid /\ runstate[p] \in {"Unstarted", "Detatched"}
          /\ o = "check" => runstate[p] = "Running"
          /\ UNCHANGED <<object, todo, holder, wire, proxy, m_stats, child>>
    BY <1>3 DEF Launch, GetExitcode
  <2>2. op' \in [Clients -> {"none", "launch", "check", "detatch", "verify"}]
        /\ \A c \in Clients : op[c] # "none" => op'[c] = op[c]
    BY <1>1, <2>1
  <2>3. Objects'
    BY <1>1, <1>2, <2>1, ProcessAssumption DEF Objects, object, Clients
  <2> QED BY <1>1, <2>1, <2>2, <2>3, AsideKeeps DEF object, wire
<1>4. CASE SetDetatched(p)
  <2>1. Objects'
    BY <1>1, <1>2, <1>4, ProcessAssumption DEF Objects, SetDetatched
  <2> QED BY <1>1, <1>4, <2>1, AsideKeeps DEF SetDetatched, wire
<1>5. CASE Kill(p)
  <2>1. Objects'
    BY <1>2, <1>5 DEF Objects, Kill, object
  <2> QED BY <1>1, <1>5, <2>1, KilledChild, AsideKeeps DEF Kill, object, wire
<1>6. CASE Delete(p)
  <2>1. /\ child' \in [Pids -> Child]
        /\ \A pid \in Pids : \/ child'[pid] = child[pid]
                             \/ /\ child[pid].st = "alive" /\ child'[pid].st = "zombie"
                                /\ child'[pid].cmd = child[pid].cmd
                                /\ child'[pid].torn = child[pid].torn
    BY <1>1, <1>6, KilledChild DEF Delete
  <2>2. CASE runstate[p] = "Unstarted"
    <3>1. /\ op[p] = "none" /\ runstate' = [runstate EXCEPT ![p] = "Deleted"] /\ op' = op
          /\ m_pid[p] = NoPid
      BY <1>2, <1>6, <2>2 DEF Delete, Objects
    <3>2. UNCHANGED <<m_pid, m_exitcode, granted, todo, holder, requests, replies, proxy, m_stats>>
      BY <1>6 DEF Delete, wire
    <3>3. Objects'
      BY <1>1, <1>2, <3>1, <3>2, ProcessAssumption DEF Objects
    <3> QED BY <1>1, <2>1, <3>1, <3>2, <3>3, AsideKeeps
  <2>3. CASE runstate[p] # "Unstarted"
    <3>1. /\ op[p] = "none" /\ op' = [op EXCEPT ![p] = "detatch"] /\ runstate' = runstate
          /\ runstate[p] \in {"Running", "Detatched", "Terminated"}
      BY <1>1, <1>6, <2>3 DEF Delete
    <3>2. UNCHANGED <<m_pid, m_exitcode, granted, todo, holder, requests, replies, proxy, m_stats>>
      BY <1>6 DEF Delete, wire
    <3>3. /\ op' \in [Clients -> {"none", "launch", "check", "detatch", "verify"}]
          /\ \A c \in Clients : op[c] # "none" => op'[c] = op[c]
      BY <1>1, <3>1
    <3>4. Objects'
      BY <1>1, <1>2, <3>1, <3>2, ProcessAssumption DEF Objects, Clients
    <3> QED BY <1>1, <2>1, <3>1, <3>2, <3>3, <3>4, AsideKeeps
  <2> QED BY <2>2, <2>3
<1> QED BY <1>3, <1>4, <1>5, <1>6

LEMMA VerifySteps == ASSUME IInv, NEW u \in Users, Verify(u) PROVE IInv'
<1>1. /\ op \in [Clients -> {"none", "launch", "check", "detatch", "verify"}]
      /\ child \in [Pids -> Child] /\ u \in Clients
  BY DEF IInv, Typed, Child, Clients
<1>2. /\ op[u] = "none" /\ op' = [op EXCEPT ![u] = "verify"]
      /\ UNCHANGED <<runstate, m_pid, m_exitcode, granted, todo, holder, requests, replies,
                     proxy, m_stats, child>>
  BY DEF Verify, object, wire
<1>3. Objects'
  BY <1>1, <1>2, ProcessAssumption DEF IInv, Objects, Clients
<1>4. runstate' \in [Procs -> {"Unstarted", "Running", "Detatched", "Terminated", "Deleted"}]
  BY <1>2 DEF IInv, Typed
<1> QED BY <1>1, <1>2, <1>3, <1>4, AsideKeeps

LEMMA ChildSteps == ASSUME IInv, NEW k \in Pids, ChildEnds(k) PROVE IInv'
<1>1. PICK code \in {0, 1} :
        /\ child[k].st = "alive"
        /\ child' = [child EXCEPT ![k].st = "zombie", ![k].code = code]
        /\ UNCHANGED <<runstate, m_pid, m_exitcode, granted, op, todo, holder, requests, replies,
                       proxy, m_stats>>
  BY DEF ChildEnds, object, wire
<1>2. /\ child' \in [Pids -> Child]
      /\ \A pid \in Pids : \/ child'[pid] = child[pid]
                           \/ /\ child[pid].st = "alive" /\ child'[pid].st = "zombie"
                              /\ child'[pid].cmd = child[pid].cmd
                              /\ child'[pid].torn = child[pid].torn
  <2>1. child \in [Pids -> Child]
    BY DEF IInv, Typed, Child
  <2> QED BY <1>1, <2>1 DEF Child
<1>3. Objects'
  BY <1>1 DEF IInv, Objects
<1>4. /\ op' \in [Clients -> {"none", "launch", "check", "detatch", "verify"}]
      /\ runstate' \in [Procs -> {"Unstarted", "Running", "Detatched", "Terminated", "Deleted"}]
  BY <1>1 DEF IInv, Typed
<1> QED BY <1>1, <1>2, <1>3, <1>4, AsideKeeps

-----------------------------------------------------------------------------
(* The line to the proxy.                                                    *)
LEMMA RequestKinds ==
  ASSUME IInv, NEW c \in Clients, op[c] # "none"
  PROVE  /\ op[c] \in {"launch", "check", "detatch", "verify"}
         /\ op[c] # "verify" <=> c \in Procs
         /\ Asks(c) \in Seq(Packets) /\ Len(Asks(c)) \in 1..4
<1>1. op[c] \in {"launch", "check", "detatch", "verify"}
  BY DEF IInv, Typed
<1>2. op[c] # "verify" <=> c \in Procs
  BY ProcessAssumption DEF IInv, Objects, Clients
<1>3. Asks(c) \in Seq(Packets) /\ (Len(Asks(c)) = 1 \/ Len(Asks(c)) = 2 \/ Len(Asks(c)) = 4)
  BY <1>1, <1>2, AskedPackets DEF IInv
<1> QED BY <1>1, <1>2, <1>3

LEMMA LockSteps == ASSUME IInv, NEW c \in Clients, Lock(c) PROVE IInv'
<1>1. /\ op[c] # "none" /\ holder = NoOne /\ holder' = c
      /\ todo' = [todo EXCEPT ![c] = Asks(c)]
      /\ UNCHANGED <<runstate, m_pid, m_exitcode, granted, op, requests, replies, proxy,
                     m_stats, child>>
  BY DEF Lock, object, wire, Asks
<1>2. /\ Asks(c) \in Seq(Packets) /\ Len(Asks(c)) \in 1..4 /\ Asks(c)' = Asks(c)
      /\ op[c] = "detatch" => c \in Procs
  BY <1>1, RequestKinds DEF Asks, PacketsOf
<1>3. /\ todo \in [Clients -> Seq(Packets)] /\ requests \in Seq(Packets) /\ c # NoOne
  BY ProcessAssumption DEF IInv, Typed, Clients
<1>4. /\ proxy.at \in {"recv", "mark"} /\ replies = <<>>
      /\ \A i \in 1..Len(requests) : requests[i].type = "DetatchPid"
      /\ \A d \in Clients : todo[d] = <<>>
  BY <1>1, <1>3, ProcessAssumption DEF IInv, Line, Quiet, Clients
<1>5. Typed'
  BY <1>1, <1>2, <1>3 DEF IInv, Typed
<1>6. Objects'
  BY <1>1 DEF IInv, Objects
<1>7. todo'[c] = Asks(c) /\ \A d \in Clients : todo'[d] # <<>> => d = c
  BY <1>1, <1>3, <1>4
<1>8. Line'
  <2>1. CASE op[c] = "detatch"
    <3>1. todo'[c] = <<Packet("DetatchPid", m_pid[c])>>
      BY <1>2, <1>7, <2>1, AskedPackets DEF IInv
    <3> QED BY <1>1, <1>3, <1>4, <1>7, <2>1, <3>1 DEF Line, Quiet
  <2>2. CASE op[c] # "detatch"
    <3> DEFINE n == Len(Asks(c))
    <3>1. Taken(c)' = 0 - Len(requests) /\ Len(requests) \in Nat /\ n \in 1..4
      <4>1. Taken(c)' = Len(Asks(c)') - Len(todo'[c]) - Len(requests')
        BY DEF Taken
      <4>2. Len(Asks(c)') = n /\ Len(todo'[c]) = n /\ Len(requests') = Len(requests)
        BY <1>1, <1>2, <1>7
      <4>3. n \in 1..4 /\ Len(requests) \in Nat
        BY <1>2, <1>3
      <4> QED BY <4>1, <4>2, <4>3
    <3>2. InLine(c)'
      <4>1. \A j \in 1..n : todo'[c][j] = Asks(c)[n - n + j]
        BY <1>7, <3>1
      <4>2. \A i \in 1..Len(requests) :
              /\ ~(Taken(c)' + i >= 1)
              /\ requests[i].type = "DetatchPid"
        BY <1>4, <3>1
      <4>3. requests' = requests /\ Asks(c)' = Asks(c) /\ todo'[c] = Asks(c)
        BY <1>1, <1>2, <1>7
      <4>4. n <= n
        BY <3>1
      <4> QED BY <4>1, <4>2, <4>3, <4>4 DEF InLine
    <3>3. Progress(c)' /\ Answered(c)'
      <4>1. /\ Taken(c)' <= 0 /\ ~(Taken(c)' \in 1..n - 1) /\ Taken(c)' # n
            /\ Len(Asks(c)') = n
        <5>1. Len(Asks(c)') = n
          BY <1>2
        <5>2. \A t \in Int : t <= 0 => t \notin 1..n - 1 /\ t # n
          BY <3>1
        <5> HIDE DEF n
        <5>3. Taken(c)' \in Int /\ Taken(c)' <= 0
          BY <3>1
        <5> QED BY <5>1, <5>2, <5>3
      <4>2. proxy'.at \in {"recv", "mark"} /\ replies' = <<>>
        BY <1>1, <1>4
      <4> QED BY <4>1, <4>2 DEF Progress, Answered, Torn
    <3> QED BY <1>1, <1>3, <1>7, <2>2, <3>2, <3>3 DEF Line, Quiet
  <2> QED BY <2>1, <2>2
<1>9. Left'
  BY <1>1 DEF IInv, Left, LeftAt, Torn
<1>10. Children'
  <2>1. \A pid \in Pids : (Leaving(pid)' <=> Leaving(pid)) /\ (Owned(pid)' <=> Owned(pid))
    BY <1>1 DEF Owned, Leaving, Launching, LeftAt, Knows
  <2>2. \A p \in Procs : ~Told(p)
    BY <1>4 DEF Told
  <2>3. \A pid \in Pids : Entry(pid)'
    BY <1>1, <2>1 DEF IInv, Children, Entry, Torn
  <2>4. ASSUME NEW p \in Procs, NEW pid \in Pids, Knows(p, pid)' PROVE Known(p, pid)'
    <3>1. Known(p, pid)
      BY <1>1, <2>4 DEF IInv, Children, Knows
    <3> QED BY <1>1, <2>1, <2>2, <3>1 DEF Known, CommandOf, Torn
  <2> QED BY <2>3, <2>4 DEF Children
<1> QED BY <1>5, <1>6, <1>8, <1>9, <1>10 DEF IInv

(* The type of a packet tells its request and its place in it.               *)
LEMMA PlaceOf ==
  ASSUME IInv, ~Quiet, NEW i \in 1..Len(Asks(holder))
  PROVE  LET k == Asks(holder)[i] IN
         /\ k.type # "DetatchPid"
         /\ k.type = "LaunchExe" => op[holder] = "launch" /\ i = 1 /\ k.val = holder
         /\ k.type = "LaunchArg" => op[holder] = "launch" /\ i = 2 /\ k.val = holder
         /\ k.type = "LaunchUser" => op[holder] = "launch" /\ i = 3 /\ k.val = holder
         /\ k.type = "LaunchReady" => op[holder] = "launch" /\ i = 4
         /\ k.type = "CheckPid" => op[holder] = "check" /\ i = 1 /\ k.val = m_pid[holder]
         /\ k.type = "VerifyUser" => op[holder] = "verify" /\ i = 1 /\ k.val = holder
         /\ k.type = "VerifyPassword" => op[holder] = "verify" /\ i = 2 /\ k.val = holder
<1> DEFINE c == holder
<1>1. /\ c \in Clients /\ op[c] \in {"launch", "check", "verify"}
      /\ op[c] = "check" => c \in Procs
  BY HolderAsks DEF IInv
<1>2. CASE op[c] = "launch"
  <2>1. /\ Len(Asks(c)) = 4
        /\ Asks(c)[1] = Packet("LaunchExe", c) /\ Asks(c)[2] = Packet("LaunchArg", c)
        /\ Asks(c)[3] = Packet("LaunchUser", c) /\ Asks(c)[4] = Packet("LaunchReady", c)
    BY <1>1, <1>2, AskedPackets DEF IInv
  <2>2. i = 1 \/ i = 2 \/ i = 3 \/ i = 4
    BY <2>1
  <2> QED BY <1>2, <2>1, <2>2 DEF Packet
<1>3. CASE op[c] = "check"
  <2>1. Len(Asks(c)) = 1 /\ Asks(c)[1] = Packet("CheckPid", m_pid[c])
    BY <1>1, <1>3, AskedPackets DEF IInv
  <2>2. i = 1
    BY <2>1
  <2> QED BY <1>3, <2>1, <2>2 DEF Packet
<1>4. CASE op[c] = "verify"
  <2>1. /\ Len(Asks(c)) = 2
        /\ Asks(c)[1] = Packet("VerifyUser", c) /\ Asks(c)[2] = Packet("VerifyPassword", c)
    BY <1>1, <1>4, AskedPackets DEF IInv
  <2>2. i = 1 \/ i = 2
    BY <2>1
  <2> QED BY <1>4, <2>1, <2>2 DEF Packet
<1> QED BY <1>1, <1>2, <1>3, <1>4

(* A packet joins the line.                                                  *)
LEMMA Joins ==
  ASSUME NEW s \in Seq(Packets), NEW k \in Packets
  PROVE  /\ Append(s, k) \in Seq(Packets) /\ Len(Append(s, k)) = Len(s) + 1
         /\ \A i \in 1..Len(s) : Append(s, k)[i] = s[i]
         /\ Append(s, k)[Len(s) + 1] = k
  OBVIOUS

(* And is taken from it.                                                     *)
LEMMA Leaves ==
  ASSUME NEW s \in Seq(Packets), s # <<>>
  PROVE  /\ Head(s) = s[1] /\ Head(s) \in Packets
         /\ Tail(s) \in Seq(Packets) /\ Len(Tail(s)) = Len(s) - 1 /\ Len(s) >= 1
         /\ \A i \in 1..Len(s) - 1 : Tail(s)[i] = s[i + 1]
  OBVIOUS

LEMMA SendSteps ==
  ASSUME IInv, NEW c \in Clients, Send(c), op[c] # "detatch" PROVE IInv'
<1>1. /\ holder = c /\ todo[c] # <<>>
      /\ requests' = Append(requests, Head(todo[c]))
      /\ todo' = [todo EXCEPT ![c] = Tail(todo[c])]
      /\ UNCHANGED <<runstate, m_pid, m_exitcode, granted, op, holder, replies, proxy,
                     m_stats, child>>
  BY DEF Send
<1>2. /\ todo \in [Clients -> Seq(Packets)] /\ requests \in Seq(Packets)
      /\ c # NoOne /\ todo[c] \in Seq(Packets)
  BY ProcessAssumption DEF IInv, Typed, Clients
<1>3. op[c] # "none" /\ ~Quiet /\ InLine(c) /\ Progress(c) /\ Answered(c)
  BY <1>1, <1>2 DEF IInv, Line, Quiet
<1> DEFINE k == Head(todo[c])
           n == Len(Asks(c))
<1>4. /\ Asks(c) \in Seq(Packets) /\ Asks(c)' = Asks(c) /\ n \in 1..4
  BY <1>1, <1>3, RequestKinds DEF Asks, PacketsOf
<1>5. /\ k = todo[c][1] /\ k \in Packets /\ Len(todo[c]) >= 1 /\ Len(todo[c]) \in Nat
      /\ todo'[c] = Tail(todo[c]) /\ todo'[c] \in Seq(Packets) /\ Len(todo'[c]) = Len(todo[c]) - 1
      /\ \A i \in 1..Len(todo[c]) - 1 : todo'[c][i] = todo[c][i + 1]
  BY <1>1, <1>2, Leaves
<1>6. /\ requests' \in Seq(Packets) /\ Len(requests') = Len(requests) + 1 /\ Len(requests) \in Nat
      /\ \A i \in 1..Len(requests) : requests'[i] = requests[i]
      /\ requests'[Len(requests) + 1] = k
  BY <1>1, <1>2, <1>5, Joins
<1> HIDE DEF k, n
<1>7. Len(todo[c]) <= n /\ k = Asks(c)[n - Len(todo[c]) + 1] /\ k.type # "DetatchPid"
  <2>1. Len(todo[c]) <= n /\ k = Asks(c)[n - Len(todo[c]) + 1]
    <3>1. \A j \in 1..Len(todo[c]) : todo[c][j] = Asks(c)[n - Len(todo[c]) + j]
      BY <1>3 DEF InLine, n
    <3>2. Len(todo[c]) <= n
      BY <1>3 DEF InLine, n
    <3>3. 1 \in 1..Len(todo[c])
      BY <1>5
    <3> QED BY <1>5, <3>1, <3>2, <3>3
  <2>2. n - Len(todo[c]) + 1 \in 1..n
    BY <1>4, <1>5, <2>1
  <2>3. \A i \in 1..n : Asks(c)[i].type # "DetatchPid"
    BY <1>1, <1>3, PlaceOf DEF n
  <2> QED BY <2>1, <2>2, <2>3
<1>8. Typed'
  <2>1. todo' \in [Clients -> Seq(Packets)]
    BY <1>1, <1>2, <1>5
  <2> QED BY <1>1, <1>6, <2>1 DEF IInv, Typed
<1>9. Objects'
  BY <1>1 DEF IInv, Objects
<1>10. Taken(c)' = Taken(c) /\ Taken(c) = n - Len(todo[c]) - Len(requests)
  <2>1. Taken(c) = n - Len(todo[c]) - Len(requests)
    BY DEF Taken, n
  <2>2. Taken(c)' = Len(Asks(c)') - Len(todo'[c]) - Len(requests')
    BY DEF Taken
  <2>3. Taken(c)' = n - (Len(todo[c]) - 1) - (Len(requests) + 1)
    BY <1>4, <1>5, <1>6, <2>2 DEF n
  <2>4. n \in Int
    BY <1>4
  <2> QED BY <1>5, <1>6, <2>1, <2>3, <2>4
<1>11. Line'
  <2>1. \A d \in Clients : todo'[d] # <<>> => holder' = d
    BY <1>1, <1>2 DEF IInv, Line
  <2>2. InLine(c)'
    <3>1. Len(todo'[c]) <= n
      BY <1>4, <1>5, <1>7
    <3>2. ASSUME NEW j \in 1..Len(todo'[c])
          PROVE  todo'[c][j] = Asks(c)[n - Len(todo'[c]) + j]
      <4>1. todo'[c][j] = todo[c][j + 1] /\ j + 1 \in 1..Len(todo[c])
        BY <1>5
      <4>2. todo[c][j + 1] = Asks(c)[n - Len(todo[c]) + (j + 1)]
        <5>1. \A q \in 1..Len(todo[c]) : todo[c][q] = Asks(c)[n - Len(todo[c]) + q]
          BY <1>3 DEF InLine, n
        <5> QED BY <4>1, <5>1
      <4>3. n - Len(todo[c]) + (j + 1) = n - Len(todo'[c]) + j
        <5>1. n \in Int /\ j \in Int
          BY <1>4
        <5>2. Len(todo[c]) \in Int /\ Len(todo'[c]) = Len(todo[c]) - 1
          BY <1>5
        <5>3. \A t, u \in Int : u = t - 1 => n - t + (j + 1) = n - u + j
          BY <5>1
        <5>4. Len(todo'[c]) \in Int
          BY <5>2
        <5> QED BY <5>2, <5>3, <5>4
      <4> QED BY <4>1, <4>2, <4>3
    <3>3. ASSUME NEW i \in 1..Len(requests')
          PROVE  IF Taken(c) + i >= 1 THEN requests'[i] = Asks(c)[Taken(c) + i]
                                      ELSE requests'[i].type = "DetatchPid"
      <4>1. CASE i \in 1..Len(requests)
        BY <1>3, <1>6, <4>1 DEF InLine
      <4>2. CASE i = Len(requests) + 1
        <5>1. Taken(c) + i = n - Len(todo[c]) + 1 /\ n - Len(todo[c]) + 1 >= 1
          BY <1>4, <1>5, <1>6, <1>7, <1>10, <4>2
        <5> QED BY <1>6, <1>7, <4>2, <5>1
      <4> QED BY <1>6, <4>1, <4>2
    <3> QED BY <1>4, <1>10, <3>1, <3>2, <3>3 DEF InLine, n
  <2>3. Progress(c)' /\ Answered(c)'
    BY <1>1, <1>3, <1>4, <1>10 DEF Progress, Answered, Entering, Started, CommandOf, Torn
  <2> QED BY <1>1, <1>3, <2>1, <2>2, <2>3 DEF Line, Quiet
<1>12. \A pid \in Pids : /\ Leaving(pid)' <=> Leaving(pid)
                         /\ \A i \in 1..Len(requests') : LeftAt(i, pid)' =>
                              i \in 1..Len(requests) /\ LeftAt(i, pid)
  BY <1>1, <1>6, <1>7 DEF Leaving, LeftAt
<1>13. Left'
  BY <1>1, <1>12 DEF IInv, Left, Torn
<1>14. Children'
  <2>1. \A pid \in Pids : Owned(pid)' <=> Owned(pid)
    BY <1>1, <1>12 DEF Owned, Launching, Knows
  <2>2. \A pid \in Pids : Entry(pid)'
    BY <1>1, <2>1 DEF IInv, Children, Entry, Torn
  <2>3. ASSUME NEW p \in Procs, NEW pid \in Pids, Knows(p, pid)' PROVE Known(p, pid)'
    <3>1. Known(p, pid)
      BY <1>1, <2>3 DEF IInv, Children, Knows
    <3> QED BY <1>1, <1>12, <3>1 DEF Known, CommandOf, Told, Torn
  <2> QED BY <2>2, <2>3 DEF Children
<1> QED BY <1>8, <1>9, <1>11, <1>13, <1>14 DEF IInv

(* The last packet of an object: from now on it is the proxy that knows.     *)
LEMMA SendLast == ASSUME IInv, NEW c \in Clients, Send(c), op[c] = "detatch" PROVE IInv'
<1>1. /\ holder = c /\ todo[c] # <<>>
      /\ requests' = Append(requests, Head(todo[c]))
      /\ todo' = [todo EXCEPT ![c] = Tail(todo[c])]
      /\ runstate' = [runstate EXCEPT ![c] = "Deleted"]
      /\ op' = [op EXCEPT ![c] = "none"] /\ holder' = NoOne
      /\ UNCHANGED <<m_pid, m_exitcode, granted, replies, proxy, m_stats, child>>
  BY DEF Send
<1>2. /\ todo \in [Clients -> Seq(Packets)] /\ requests \in Seq(Packets)
      /\ op \in [Clients -> {"none", "launch", "check", "detatch", "verify"}]
      /\ runstate \in [Procs -> {"Unstarted", "Running", "Detatched", "Terminated", "Deleted"}]
      /\ c # NoOne /\ todo[c] \in Seq(Packets)
  BY ProcessAssumption DEF IInv, Typed, Clients
<1>3. c \in Procs /\ runstate[c] # "Deleted"
  <2>1. c \in Procs
    BY RequestKinds
  <2> QED BY <2>1 DEF IInv, Objects
<1>4. /\ Quiet /\ todo[c] = <<Packet("DetatchPid", m_pid[c])>>
      /\ proxy.at \in {"recv", "mark"} /\ replies = <<>>
      /\ \A i \in 1..Len(requests) : requests[i].type = "DetatchPid"
      /\ \A d \in Clients : todo[d] # <<>> => d = c
  BY <1>1, <1>2 DEF IInv, Line, Quiet
<1> DEFINE k == Head(todo[c])
<1>5. k.type = "DetatchPid" /\ k.val = m_pid[c] /\ Tail(todo[c]) = <<>> /\ k \in Packets
  <2>1. k = Packet("DetatchPid", m_pid[c]) /\ Tail(todo[c]) = <<>>
    BY <1>4
  <2>2. k \in Packets
    BY <1>1, <1>2, Leaves
  <2> QED BY <2>1, <2>2 DEF Packet
<1>6. /\ requests' \in Seq(Packets) /\ Len(requests') = Len(requests) + 1 /\ Len(requests) \in Nat
      /\ \A i \in 1..Len(requests) : requests'[i] = requests[i]
      /\ requests'[Len(requests) + 1] = k
  BY <1>1, <1>2, <1>5, Joins
<1> HIDE DEF k
<1>7. Typed'
  <2>1. todo' \in [Clients -> Seq(Packets)]
    BY <1>1, <1>2, <1>5
  <2> QED BY <1>1, <1>2, <1>6, <2>1 DEF IInv, Typed
<1>8. Objects'
  BY <1>1, <1>2, <1>3, ProcessAssumption DEF IInv, Objects, Clients
<1>9. Line'
  <2>1. \A d \in Clients : todo'[d] = <<>>
    BY <1>1, <1>2, <1>4, <1>5
  <2>2. \A i \in 1..Len(requests') : requests'[i].type = "DetatchPid"
    BY <1>4, <1>5, <1>6
  <2> QED BY <1>1, <1>4, <2>1, <2>2 DEF Line, Quiet
<1> DEFINE n == Len(requests) + 1
           At(i, pid) == requests'[i].type = "DetatchPid" /\ requests'[i].val = pid
<1>10. /\ \A i, pid : i \in 1..Len(requests) => (At(i, pid) <=> LeftAt(i, pid))
       /\ \A pid : At(n, pid) <=> pid = m_pid[c]
       /\ \A i \in 1..Len(requests') : i \in 1..Len(requests) \/ i = n
       /\ n \in 1..Len(requests') /\ \A i \in 1..Len(requests) : i \in 1..Len(requests')
  BY <1>5, <1>6 DEF LeftAt
<1> HIDE DEF n, At
<1>11. \A pid \in Pids : Leaving(pid)' <=> Leaving(pid) \/ pid = m_pid[c]
  <2> SUFFICES ASSUME NEW pid \in Pids PROVE Leaving(pid)' <=> Leaving(pid) \/ pid = m_pid[c]
    OBVIOUS
  <2>1. (\E i \in 1..Len(requests') : At(i, pid))
          <=> (\E i \in 1..Len(requests) : LeftAt(i, pid)) \/ pid = m_pid[c]
    BY <1>10
  <2>2. Leaving(pid)' <=> \/ \E i \in 1..Len(requests') : At(i, pid)
                         \/ (proxy.at = "mark" /\ proxy.pid = pid)
    BY <1>1 DEF Leaving, LeftAt, At
  <2> QED BY <2>1, <2>2 DEF Leaving
<1>12. m_pid[c] \in Pids => Known(c, m_pid[c]) /\ ~Leaving(m_pid[c])
  BY <1>3 DEF IInv, Children, Knows, Known, Torn
<1>13. Left'
  <2>1. ASSUME NEW i \in 1..Len(requests'), NEW j \in 1..Len(requests'), NEW pid \in Pids,
               At(i, pid), At(j, pid)
        PROVE  i = j
    <3>1. CASE pid = m_pid[c]
      <4>1. \A q \in 1..Len(requests) : ~LeftAt(q, pid)
        BY <1>12, <3>1 DEF Leaving
      <4> QED BY <1>10, <2>1, <4>1
    <3>2. CASE pid # m_pid[c]
      <4>1. i \in 1..Len(requests) /\ j \in 1..Len(requests)
        BY <1>10, <2>1, <3>2
      <4> QED BY <1>10, <2>1, <4>1 DEF IInv, Left, Torn
    <3> QED BY <3>1, <3>2
  <2>2. ASSUME proxy.at = "mark"
        PROVE  /\ proxy.pid \in Pids
               /\ ~Torn(proxy.pid) => m_stats[proxy.pid].type = "Running"
               /\ \A i \in 1..Len(requests') : ~At(i, proxy.pid)
    <3>1. /\ proxy.pid \in Pids
          /\ ~Torn(proxy.pid) => m_stats[proxy.pid].type = "Running"
          /\ \A i \in 1..Len(requests) : ~LeftAt(i, proxy.pid)
      BY <2>2 DEF IInv, Left, Torn
    <3>2. proxy.pid # m_pid[c]
      BY <1>12, <2>2, <3>1 DEF Leaving
    <3> QED BY <1>10, <3>1, <3>2
  <2>3. ASSUME NEW i \in 1..Len(requests'), NEW pid \in Pids, At(i, pid), ~Torn(pid)
        PROVE  m_stats[pid].type # "Detatched"
    <3>1. CASE pid = m_pid[c]
      BY <1>12, <2>3, <3>1 DEF Known
    <3>2. CASE pid # m_pid[c]
      <4>1. i \in 1..Len(requests) /\ LeftAt(i, pid)
        BY <1>10, <2>3, <3>2
      <4> QED BY <2>3, <4>1 DEF IInv, Left
    <3> QED BY <3>1, <3>2
  <2> QED BY <1>1, <2>1, <2>2, <2>3 DEF Left, LeftAt, At, Torn
<1>14. \A p \in Procs, pid \in Pids : Knows(p, pid)' <=> (p # c /\ Knows(p, pid))
  BY <1>1, <1>2, <1>3 DEF Knows
<1>15. Children'
  <2>1. ASSUME NEW pid \in Pids PROVE Entry(pid)'
    <3>1. Owned(pid) => Owned(pid)'
      <4>1. CASE pid = m_pid[c]
        BY <1>11, <4>1 DEF Owned
      <4>2. CASE pid # m_pid[c]
        <5>1. \A p \in Procs : Knows(p, pid) => Knows(p, pid)'
          BY <1>14, <4>2 DEF Knows
        <5>2. Launching(pid)' <=> Launching(pid)
          BY <1>1 DEF Launching
        <5> QED BY <1>11, <5>1, <5>2 DEF Owned
      <4> QED BY <4>1, <4>2
    <3> QED BY <1>1, <3>1 DEF IInv, Children, Entry, Torn
  <2>2. ASSUME NEW p \in Procs, NEW pid \in Pids, Knows(p, pid)' PROVE Known(p, pid)'
    <3>1. p # c /\ Knows(p, pid) /\ Known(p, pid)
      BY <1>14, <2>2 DEF IInv, Children
    <3>2. pid # m_pid[c]
      <4>1. m_pid[c] = pid => CommandOf(p) = CommandOf(c)
        BY <1>12, <3>1 DEF Known, Torn
      <4> QED BY <3>1, <4>1 DEF CommandOf
    <3>3. ~Told(p) /\ runstate'[p] = runstate[p]
      BY <1>1, <1>2, <1>4, <3>1 DEF Told
    <3> QED BY <1>1, <1>11, <3>1, <3>2, <3>3 DEF Known, CommandOf, Torn
  <2> QED BY <2>1, <2>2 DEF Children
<1> QED BY <1>7, <1>8, <1>9, <1>13, <1>15 DEF IInv

(* An answer comes when all of its request has been taken and nothing else   *)
(* is on the line.                                                           *)
LEMMA AnswerComes ==
  ASSUME IInv, NEW c \in Clients, holder = c, todo[c] = <<>>, replies # <<>>
  PROVE  /\ ~Quiet /\ op[c] \in {"launch", "check", "verify"} /\ c # NoOne
         /\ Taken(c) = Len(Asks(c)) /\ Answered(c)
         /\ requests = <<>> /\ proxy.at = "recv"
         /\ Len(replies) = 1 /\ Head(replies) = replies[1] /\ replies[1] \in Packets
         /\ Tail(replies) = <<>>
         /\ \A d \in Clients : todo[d] = <<>>
<1>1. ~Quiet /\ c # NoOne /\ InLine(c) /\ Progress(c) /\ Answered(c)
  BY ProcessAssumption DEF IInv, Line, Quiet, Clients
<1>2. op[c] \in {"launch", "check", "verify"} /\ Asks(c) \in Seq(Packets) /\ Len(Asks(c)) \in 1..4
  <2>1. op[c] # "none" /\ op[c] # "detatch"
    BY <1>1 DEF IInv, Line, Quiet
  <2> QED BY <2>1, RequestKinds
<1>3. requests \in Seq(Packets) /\ replies \in Seq(Packets)
  BY DEF IInv, Typed
<1>4. Taken(c) = Len(Asks(c)) - Len(requests) /\ Len(requests) \in Nat
  <2>1. Taken(c) = Len(Asks(c)) - Len(todo[c]) - Len(requests)
    BY DEF Taken
  <2>2. Len(todo[c]) = 0 /\ Len(requests) \in Nat /\ Len(Asks(c)) \in Int
    BY <1>2, <1>3
  <2> QED BY <2>1, <2>2
<1>5. Len(requests) = 0
  <2>1. ~(Taken(c) < Len(Asks(c)))
    BY <1>1 DEF Progress
  <2>2. Len(Asks(c)) \in Int
    BY <1>2
  <2> QED BY <1>4, <2>1, <2>2
<1>6. requests = <<>> /\ Taken(c) = Len(Asks(c))
  <2>1. Len(Asks(c)) \in Int
    BY <1>2
  <2> QED BY <1>3, <1>4, <1>5, <2>1
<1>7. proxy.at = "recv" /\ Len(replies) = 1
  <2>1. replies # <<>>
    OBVIOUS
  <2> QED BY <1>1, <1>6, <2>1 DEF Answered, Torn
<1>8. Head(replies) = replies[1] /\ replies[1] \in Packets /\ Tail(replies) = <<>>
  <2>1. /\ Head(replies) = replies[1] /\ Head(replies) \in Packets
        /\ Tail(replies) \in Seq(Packets) /\ Len(Tail(replies)) = Len(replies) - 1
    BY <1>3, Leaves
  <2>2. Len(Tail(replies)) = 0
    BY <1>7, <2>1
  <2>3. \A q \in Seq(Packets) : Len(q) = 0 => q = <<>>
    OBVIOUS
  <2>4. Tail(replies) = <<>>
    BY <2>1, <2>2, <2>3
  <2> QED BY <2>1, <2>4
<1>9. \A d \in Clients : todo[d] = <<>>
  BY DEF IInv, Line
<1> QED BY <1>1, <1>2, <1>6, <1>7, <1>8, <1>9

(* What is left when an answer has been received.                            *)
LEMMA AfterAnswer ==
  ASSUME IInv, NEW c \in Clients, holder = c, todo[c] = <<>>, replies # <<>>,
         holder' = NoOne, replies' = Tail(replies),
         UNCHANGED <<todo, requests, proxy, m_stats, child>>
  PROVE  /\ Line' /\ Left'
         /\ \A pid : ~Leaving(pid) /\ ~Leaving(pid)'
         /\ \A pid : ~Launching(pid)'
         /\ replies' = <<>>
         /\ \A pid : Launching(pid) => replies[1].type = "LaunchedOk" /\ replies[1].val = pid
<1>1. /\ requests = <<>> /\ requests' = <<>> /\ replies' = <<>>
      /\ proxy.at = "recv" /\ proxy'.at = "recv"
      /\ \A d \in Clients : todo'[d] = <<>>
  BY AnswerComes
<1>2. \A i \in 1..Len(<<>>) : FALSE
  OBVIOUS
<1>3. Line'
  BY <1>1, <1>2 DEF Line, Quiet
<1>4. Left'
  BY <1>1, <1>2 DEF Left, Torn
<1>5. \A pid : ~Leaving(pid) /\ ~Leaving(pid)'
  BY <1>1, <1>2 DEF Leaving
<1>6. Len(<<>>) # 1
  OBVIOUS
<1>7. \A pid : ~Launching(pid)'
  BY <1>1, <1>6 DEF Launching
<1>8. \A pid : Launching(pid) => replies[1].type = "LaunchedOk" /\ replies[1].val = pid
  BY <1>1 DEF Launching, Packet
<1> QED BY <1>1, <1>3, <1>4, <1>5, <1>7, <1>8

LEMMA ReceiveLaunch == ASSUME IInv, NEW c \in Clients, Receive(c), op[c] = "launch" PROVE IInv'
<1> DEFINE r == replies[1]
<1>1. /\ holder = c /\ todo[c] = <<>> /\ replies # <<>> /\ holder' = NoOne
      /\ replies' = Tail(replies) /\ op' = [op EXCEPT ![c] = "none"]
      /\ UNCHANGED <<m_exitcode, granted, todo, requests, proxy, m_stats, child>>
  BY DEF Receive
<1>2. /\ Taken(c) = Len(Asks(c)) /\ Answered(c) /\ proxy.at = "recv" /\ r \in Packets
      /\ Head(replies) = r /\ Tail(replies) = <<>>
  BY <1>1, AnswerComes
<1>3. /\ op \in [Clients -> {"none", "launch", "check", "detatch", "verify"}]
      /\ runstate \in [Procs -> {"Unstarted", "Running", "Detatched", "Terminated", "Deleted"}]
      /\ m_pid \in [Procs -> Pids \cup {NoPid}]
      /\ c \in Procs /\ c \notin Users /\ m_pid[c] = NoPid /\ m_exitcode[c] = -1
      /\ runstate[c] \in {"Unstarted", "Detatched"}
  <2>1. c \in Procs /\ c \notin Users
    BY RequestKinds, ProcessAssumption
  <2> QED BY <2>1 DEF IInv, Typed, Objects
<1>4. CASE r.type = "LaunchedOk"
  <2> DEFINE k == r.val
             st == IF runstate[c] = "Detatched" THEN "Detatched" ELSE "Running"
  <2>1. m_pid' = [m_pid EXCEPT ![c] = k] /\ runstate' = [runstate EXCEPT ![c] = st]
    BY <1>2, <1>4 DEF Receive
  <2>2. /\ k \in Pids /\ child[k].cmd = CommandOf(c)
        /\ ~Torn(k) => m_stats[k].type \in {"Running", "Terminated"}
    BY <1>2, <1>4 DEF Answered, Started, Torn
  <2> HIDE DEF k
  <2>3. k # NoPid /\ st \in {"Running", "Detatched"}
    BY <2>2, ProcessAssumption
  <2>4. /\ m_pid' \in [Procs -> Pids \cup {NoPid}] /\ m_pid'[c] = k /\ runstate'[c] = st
        /\ runstate' \in [Procs -> {"Unstarted", "Running", "Detatched", "Terminated", "Deleted"}]
        /\ \A p \in Procs \ {c} : m_pid'[p] = m_pid[p] /\ runstate'[p] = runstate[p]
        /\ op' \in [Clients -> {"none", "launch", "check", "detatch", "verify"}]
        /\ op'[c] = "none" /\ \A d \in Clients \ {c} : op'[d] = op[d]
    BY <1>1, <1>3, <2>1, <2>2, <2>3
  <2> HIDE DEF st
  <2>5. Typed'
    BY <1>1, <1>2, <2>4 DEF IInv, Typed
  <2>6. Objects'
    BY <1>1, <1>3, <2>2, <2>3, <2>4, ProcessAssumption DEF IInv, Objects, Clients
  <2>7. Children'
    <3>1. ASSUME NEW pid \in Pids PROVE Entry(pid)'
      <4>1. Owned(pid) => Owned(pid)'
        <5>1. CASE Launching(pid)
          <6>1. pid = k /\ Knows(c, pid)'
            BY <1>1, <2>3, <2>4, <5>1, AfterAnswer DEF Knows, k
          <6> QED BY <1>3, <6>1 DEF Owned
        <5>2. ASSUME NEW p \in Procs, Knows(p, pid) PROVE Owned(pid)'
          <6>1. p # c
            BY <1>3, <3>1, <5>2, ProcessAssumption DEF Knows
          <6>2. Knows(p, pid)'
            BY <2>4, <5>2, <6>1 DEF Knows
          <6> QED BY <6>2 DEF Owned
        <5> QED BY <1>1, <5>1, <5>2, AfterAnswer DEF Owned
      <4>2. Entry(pid)
        BY DEF IInv, Children
      <4> QED BY <1>1, <4>1, <4>2 DEF Entry, Torn
    <3>2. ASSUME NEW p \in Procs, NEW pid \in Pids, Knows(p, pid)' PROVE Known(p, pid)'
      <4>1. ~Leaving(pid)'
        BY <1>1, AfterAnswer
      <4>2. CASE p = c
        <5>1. pid = k
          BY <2>4, <3>2, <4>2 DEF Knows
        <5> QED BY <1>1, <1>3, <2>2, <4>1, <4>2, <5>1 DEF Known, CommandOf, Torn
      <4>3. CASE p # c
        <5>1. Known(p, pid) /\ runstate'[p] = runstate[p]
          BY <2>4, <3>2, <4>3 DEF IInv, Children, Knows
        <5>2. ~Told(p)
          BY <1>1, <4>3 DEF Told
        <5> QED BY <1>1, <4>1, <5>1, <5>2 DEF Known, CommandOf, Torn
      <4> QED BY <4>2, <4>3
    <3> QED BY <3>1, <3>2 DEF Children
  <2> QED BY <1>1, <2>5, <2>6, <2>7, AfterAnswer DEF IInv
<1>5. CASE r.type # "LaunchedOk"
  <2>1. m_pid' = m_pid /\ runstate' = [runstate EXCEPT ![c] = "Terminated"]
    BY <1>2, <1>5 DEF Receive
  <2>2. /\ runstate'[c] = "Terminated"
        /\ runstate' \in [Procs -> {"Unstarted", "Running", "Detatched", "Terminated", "Deleted"}]
        /\ \A p \in Procs \ {c} : runstate'[p] = runstate[p]
        /\ op' \in [Clients -> {"none", "launch", "check", "detatch", "verify"}]
        /\ op'[c] = "none" /\ \A d \in Clients \ {c} : op'[d] = op[d]
    BY <1>1, <1>3, <2>1
  <2>3. Typed'
    BY <1>1, <1>2, <2>1, <2>2 DEF IInv, Typed
  <2>4. Objects'
    BY <1>1, <1>3, <2>1, <2>2, ProcessAssumption DEF IInv, Objects, Clients
  <2>5. \A p \in Procs, pid \in Pids : Knows(p, pid)' <=> p # c /\ Knows(p, pid)
    BY <1>3, <2>1, <2>2, ProcessAssumption DEF Knows
  <2>6. Children'
    <3>1. ASSUME NEW pid \in Pids PROVE Entry(pid)'
      <4>1. ~Leaving(pid) /\ ~Launching(pid)
        BY <1>1, <1>5, AfterAnswer
      <4>2. \A p \in Procs : Knows(p, pid) => p # c
        BY <1>3, <3>1, ProcessAssumption DEF Knows
      <4>3. Owned(pid) => Owned(pid)'
        BY <2>5, <4>1, <4>2 DEF Owned
      <4>4. Entry(pid)
        BY DEF IInv, Children
      <4> QED BY <1>1, <4>3, <4>4 DEF Entry, Torn
    <3>2. ASSUME NEW p \in Procs, NEW pid \in Pids, Knows(p, pid)' PROVE Known(p, pid)'
      <4>1. p # c /\ Known(p, pid) /\ ~Leaving(pid)'
        BY <1>1, <2>5, <3>2, AfterAnswer DEF IInv, Children
      <4>2. ~Told(p) /\ runstate'[p] = runstate[p]
        BY <1>1, <2>2, <4>1 DEF Told
      <4> QED BY <1>1, <2>1, <4>1, <4>2 DEF Known, CommandOf, Torn
    <3> QED BY <3>1, <3>2 DEF Children
  <2> QED BY <1>1, <2>3, <2>4, <2>6, AfterAnswer DEF IInv
<1> QED BY <1>4, <1>5

LEMMA ReceiveCheck == ASSUME IInv, NEW c \in Clients, Receive(c), op[c] = "check" PROVE IInv'
<1> DEFINE r == replies[1]
           told == r.type = "CheckedTerminated"
<1>1. /\ holder = c /\ todo[c] = <<>> /\ replies # <<>> /\ holder' = NoOne
      /\ replies' = Tail(replies) /\ op' = [op EXCEPT ![c] = "none"]
      /\ UNCHANGED <<m_pid, granted, todo, requests, proxy, m_stats, child>>
  BY DEF Receive
<1>2. /\ Taken(c) = Len(Asks(c)) /\ Answered(c) /\ proxy.at = "recv" /\ r \in Packets
      /\ Head(replies) = r /\ Tail(replies) = <<>>
  BY <1>1, AnswerComes
<1>3. /\ op \in [Clients -> {"none", "launch", "check", "detatch", "verify"}]
      /\ runstate \in [Procs -> {"Unstarted", "Running", "Detatched", "Terminated", "Deleted"}]
      /\ m_exitcode \in [Procs -> {-1, 0, 1}]
      /\ c \in Procs /\ c \notin Users /\ runstate[c] = "Running"
  <2>1. c \in Procs /\ c \notin Users
    BY RequestKinds, ProcessAssumption
  <2> QED BY <2>1 DEF IInv, Typed, Objects
<1>4. told => /\ m_exitcode' = [m_exitcode EXCEPT ![c] = r.val]
              /\ runstate' = [runstate EXCEPT ![c] = "Terminated"]
  BY <1>2 DEF Receive
<1>5. ~told => UNCHANGED <<m_exitcode, runstate>>
  BY <1>2 DEF Receive
<1>6. told => /\ m_pid[c] \in Pids /\ r.val \in {-1, 0, 1}
              /\ ~Torn(m_pid[c]) => /\ child[m_pid[c]].st = "reaped"
                                     /\ r.val = child[m_pid[c]].code
  BY <1>2 DEF Answered
<1>7. told <=> Told(c)
  BY <1>1, AnswerComes DEF Told
<1> HIDE DEF told
<1>8. /\ runstate' \in [Procs -> {"Unstarted", "Running", "Detatched", "Terminated", "Deleted"}]
      /\ m_exitcode' \in [Procs -> {-1, 0, 1}]
      /\ \A p \in Procs \ {c} : runstate'[p] = runstate[p] /\ m_exitcode'[p] = m_exitcode[p]
      /\ told => runstate'[c] = "Terminated" /\ m_exitcode'[c] = r.val
      /\ op' \in [Clients -> {"none", "launch", "check", "detatch", "verify"}]
      /\ op'[c] = "none" /\ \A d \in Clients \ {c} : op'[d] = op[d]
  BY <1>1, <1>3, <1>4, <1>5, <1>6
<1>9. Typed'
  BY <1>1, <1>2, <1>8 DEF IInv, Typed
<1>10. Objects'
  BY <1>1, <1>3, <1>5, <1>6, <1>8, ProcessAssumption DEF IInv, Objects, Clients
<1>11. \A p \in Procs, pid \in Pids : Knows(p, pid)' <=> Knows(p, pid)
  BY <1>1, <1>3, <1>5, <1>8 DEF Knows
<1>12. Children'
  <2>1. ASSUME NEW pid \in Pids PROVE Entry(pid)'
    <3>1. ~Leaving(pid) /\ ~Launching(pid)
      <4>1. r.type # "LaunchedOk"
        BY <1>2 DEF Answered, Torn
      <4> QED BY <1>1, <4>1, AfterAnswer
    <3>2. Owned(pid) => Owned(pid)'
      BY <1>11, <3>1 DEF Owned
    <3>3. Entry(pid)
      BY DEF IInv, Children
    <3> QED BY <1>1, <3>2, <3>3 DEF Entry, Torn
  <2>2. ASSUME NEW p \in Procs, NEW pid \in Pids, Knows(p, pid)' PROVE Known(p, pid)'
    <3>1. Known(p, pid) /\ ~Leaving(pid)'
      BY <1>1, <1>11, <2>2, AfterAnswer DEF IInv, Children
    <3>2. CASE p # c
      BY <1>1, <1>8, <3>1, <3>2 DEF Known, Told, CommandOf, Torn
    <3>3. CASE p = c /\ told
      <4>1. pid = m_pid[c]
        BY <1>1, <2>2, <3>3 DEF Knows
      <4> QED BY <1>1, <1>6, <1>8, <3>1, <3>3, <4>1 DEF Known, CommandOf, Torn
    <3>4. CASE p = c /\ ~told
      BY <1>1, <1>5, <1>7, <3>1, <3>4 DEF Known, CommandOf, Torn
    <3> QED BY <3>2, <3>3, <3>4
  <2> QED BY <2>1, <2>2 DEF Children
<1> QED BY <1>1, <1>9, <1>10, <1>12, AfterAnswer DEF IInv

LEMMA ReceiveVerify == ASSUME IInv, NEW c \in Clients, Receive(c), op[c] = "verify" PROVE IInv'
<1> DEFINE r == replies[1]
           g == IF r.type = "VerifyResult" /\ r.val = 1 THEN "yes" ELSE "no"
<1>1. /\ holder = c /\ todo[c] = <<>> /\ replies # <<>> /\ holder' = NoOne
      /\ replies' = Tail(replies) /\ op' = [op EXCEPT ![c] = "none"]
      /\ UNCHANGED <<runstate, m_pid, m_exitcode, todo, requests, proxy, m_stats, child>>
  BY DEF Receive
<1>2. /\ Taken(c) = Len(Asks(c)) /\ Answered(c) /\ proxy.at = "recv" /\ r \in Packets
      /\ Head(replies) = r /\ Tail(replies) = <<>>
  BY <1>1, AnswerComes
<1>3. /\ op \in [Clients -> {"none", "launch", "check", "detatch", "verify"}]
      /\ granted \in [Users -> {"none", "yes", "no"}]
      /\ c \in Users /\ c \notin Procs
  <2>1. c \notin Procs
    BY RequestKinds
  <2> QED BY <2>1 DEF IInv, Typed, Clients
<1>4. granted' = [granted EXCEPT ![c] = g]
  BY <1>2 DEF Receive
<1>5. g = "yes" <=> c \in Right
  BY <1>2 DEF Answered, Torn
<1>6. g \in {"yes", "no"} /\ r.type = "VerifyResult"
  BY <1>2 DEF Answered, Torn
<1> HIDE DEF g
<1>7. /\ granted' \in [Users -> {"none", "yes", "no"}] /\ granted'[c] = g
      /\ \A u \in Users \ {c} : granted'[u] = granted[u]
      /\ op' \in [Clients -> {"none", "launch", "check", "detatch", "verify"}]
      /\ op'[c] = "none" /\ \A d \in Clients \ {c} : op'[d] = op[d]
  BY <1>1, <1>3, <1>4, <1>6
<1>8. Typed'
  BY <1>1, <1>2, <1>7 DEF IInv, Typed
<1>9. Objects'
  BY <1>1, <1>3, <1>5, <1>7, ProcessAssumption DEF IInv, Objects, Clients
<1>10. Children'
  <2>1. ASSUME NEW pid \in Pids PROVE Entry(pid)'
    <3>1. ~Leaving(pid) /\ ~Launching(pid)
      BY <1>1, <1>6, AfterAnswer
    <3>2. \A p \in Procs : Knows(p, pid)' <=> Knows(p, pid)
      BY <1>1 DEF Knows
    <3>3. Owned(pid) => Owned(pid)'
      BY <3>1, <3>2 DEF Owned
    <3>4. Entry(pid)
      BY DEF IInv, Children
    <3> QED BY <1>1, <3>3, <3>4 DEF Entry, Torn
  <2>2. ASSUME NEW p \in Procs, NEW pid \in Pids, Knows(p, pid)' PROVE Known(p, pid)'
    <3>1. Known(p, pid) /\ ~Leaving(pid)'
      BY <1>1, <2>2, AfterAnswer DEF IInv, Children, Knows
    <3>2. ~Told(p)
      BY <1>1, <1>3 DEF Told
    <3> QED BY <1>1, <3>1, <3>2 DEF Known, CommandOf, Torn
  <2> QED BY <2>1, <2>2 DEF Children
<1> QED BY <1>1, <1>8, <1>9, <1>10, AfterAnswer DEF IInv

LEMMA ReceiveSteps == ASSUME IInv, NEW c \in Clients, Receive(c) PROVE IInv'
<1>1. op[c] \in {"launch", "check", "verify"}
  BY AnswerComes DEF Receive
<1> QED BY <1>1, ReceiveLaunch, ReceiveCheck, ReceiveVerify

-----------------------------------------------------------------------------
(* The proxy takes a packet: where it stands in the line.                    *)
LEMMA TakenKind ==
  ASSUME IInv, NEW t, Takes(t)
  PROVE  /\ requests # <<>> /\ Val = requests[1].val /\ requests[1].type = t /\ Val \in Vals
         /\ proxy.at = "recv" /\ replies = <<>>
         /\ requests' \in Seq(Packets) /\ Len(requests') = Len(requests) - 1
         /\ Len(requests) \in Nat /\ Len(requests) >= 1
         /\ \A i \in 1..Len(requests) - 1 : requests'[i] = requests[i + 1]
<1>1. /\ requests \in Seq(Packets) /\ requests # <<>> /\ proxy.at = "recv"
      /\ Head(requests).type = t /\ requests' = Tail(requests)
  BY DEF IInv, Typed, Takes
<1>2. /\ Head(requests) = requests[1] /\ Head(requests) \in Packets
      /\ requests' \in Seq(Packets) /\ Len(requests') = Len(requests) - 1
      /\ Len(requests) \in Nat /\ Len(requests) >= 1
      /\ \A i \in 1..Len(requests) - 1 : requests'[i] = requests[i + 1]
  BY <1>1, Leaves
<1>3. Val = requests[1].val /\ Val \in Vals
  BY <1>2 DEF Val, Packets
<1>4. replies = <<>>
  <2>1. CASE Quiet
    BY <2>1 DEF IInv, Line
  <2>2. CASE ~Quiet
    <3>1. Progress(holder) /\ InLine(holder) /\ holder \in Clients /\ op[holder] # "none"
      BY <2>2 DEF IInv, Line, Typed, Quiet
    <3>2. Len(Asks(holder)) \in Int /\ todo[holder] \in Seq(Packets)
      BY <3>1, RequestKinds DEF IInv, Typed
    <3>3. Taken(holder) = Len(Asks(holder)) - Len(todo[holder]) - Len(requests)
      BY DEF Taken
    <3>4. Taken(holder) < Len(Asks(holder))
      BY <1>2, <3>2, <3>3
    <3> QED BY <3>1, <3>4 DEF Progress
  <2> QED BY <2>1, <2>2
<1> QED BY <1>1, <1>2, <1>3, <1>4

LEMMA LineMoves ==
  ASSUME IInv, NEW t, Takes(t), UNCHANGED <<m_pid, op, todo, holder>>, ~Quiet
  PROVE  /\ holder \in Clients /\ holder # NoOne
         /\ Asks(holder)' = Asks(holder) /\ Len(Asks(holder)) \in 1..4
         /\ Taken(holder) \in Int /\ Taken(holder)' = Taken(holder) + 1
         /\ Taken(holder) < Len(Asks(holder))
         /\ InLine(holder)'
         /\ Taken(holder) >= 0 => /\ Taken(holder) + 1 \in 1..Len(Asks(holder))
                                  /\ requests[1] = Asks(holder)[Taken(holder) + 1]
         /\ Taken(holder) >= 0 => \A i \in 1..Len(requests) : requests[i].type # "DetatchPid"
         /\ Taken(holder) < 0 => requests[1].type = "DetatchPid"
<1> DEFINE c == holder
           n == Len(Asks(c))
           k == Taken(c)
           m == Len(requests)
           l == Len(todo[c])
<1>1. c \in Clients /\ c # NoOne /\ n \in 1..4 /\ InLine(c)
  <2>1. c # NoOne /\ InLine(c)
    BY DEF IInv, Line, Quiet
  <2>2. n \in 1..4 /\ c \in Clients
    BY HolderAsks DEF IInv
  <2> QED BY <2>1, <2>2
<1>2. /\ m \in Int /\ m >= 1 /\ Len(requests') = m - 1
      /\ \A i \in 1..m - 1 : requests'[i] = requests[i + 1]
  BY TakenKind
<1>3. Asks(c)' = Asks(c)
  BY DEF Asks, PacketsOf
<1>4. l \in Int /\ l >= 0 /\ l <= n
  <2>1. l \in Nat
    BY <1>1 DEF IInv, Typed
  <2> QED BY <1>1, <2>1 DEF InLine
<1>5. k = n - l - m
  BY DEF Taken
<1>6. Taken(c)' = n - l - (m - 1)
  <2>1. Taken(c)' = Len(Asks(c)') - Len(todo'[c]) - Len(requests')
    BY DEF Taken
  <2> QED BY <1>2, <1>3, <2>1
<1>7. /\ \A i \in 1..m : k + i >= 1 => requests[i] = Asks(c)[k + i]
      /\ \A i \in 1..m : ~(k + i >= 1) => requests[i].type = "DetatchPid"
      /\ \A j \in 1..l : todo[c][j] = Asks(c)[n - l + j]
  BY <1>1 DEF InLine
<1> HIDE DEF n, k, m, l
<1>8. n \in Int /\ k \in Int /\ k < n /\ Taken(c)' = k + 1
  <2>1. n \in Int
    BY <1>1
  <2> QED BY <1>2, <1>4, <1>5, <1>6, <2>1
<1>9. InLine(c)'
  <2>1. \A i \in 1..m - 1 : (k + 1) + i >= 1 => requests'[i] = Asks(c)[(k + 1) + i]
    <3>1. ASSUME NEW i \in 1..m - 1, (k + 1) + i >= 1
          PROVE  requests'[i] = Asks(c)[(k + 1) + i]
      <4>1. i + 1 \in 1..m /\ k + (i + 1) >= 1 /\ k + (i + 1) = (k + 1) + i
        BY <1>2, <1>8, <3>1
      <4>2. requests[i + 1] = Asks(c)[k + (i + 1)]
        BY <1>7, <4>1
      <4> QED BY <1>2, <4>1, <4>2
    <3> QED BY <3>1
  <2>2. \A i \in 1..m - 1 : ~((k + 1) + i >= 1) => requests'[i].type = "DetatchPid"
    <3>1. ASSUME NEW i \in 1..m - 1, ~((k + 1) + i >= 1)
          PROVE  requests'[i].type = "DetatchPid"
      <4>1. i + 1 \in 1..m /\ ~(k + (i + 1) >= 1)
        BY <1>2, <1>8, <3>1
      <4> QED BY <1>2, <1>7, <4>1
    <3> QED BY <3>1
  <2>3. l <= n /\ \A j \in 1..l : todo[c][j] = Asks(c)[n - l + j]
    BY <1>4, <1>7
  <2> QED BY <1>2, <1>3, <1>8, <2>1, <2>2, <2>3 DEF InLine, n, l
<1>10. k >= 0 => /\ k + 1 \in 1..n /\ requests[1] = Asks(c)[k + 1]
                 /\ \A i \in 1..m : requests[i].type # "DetatchPid"
  <2> SUFFICES ASSUME k >= 0
               PROVE  /\ k + 1 \in 1..n /\ requests[1] = Asks(c)[k + 1]
                      /\ \A i \in 1..m : requests[i].type # "DetatchPid"
    OBVIOUS
  <2>1. k + 1 \in 1..n /\ 1 \in 1..m /\ k + 1 >= 1
    BY <1>2, <1>8
  <2>2. ASSUME NEW i \in 1..m PROVE requests[i].type # "DetatchPid"
    <3>1. k + i \in 1..n /\ k + i >= 1
      BY <1>2, <1>4, <1>5, <1>8
    <3>2. Asks(c)[k + i].type # "DetatchPid"
      BY <3>1, PlaceOf DEF n
    <3> QED BY <1>7, <3>1, <3>2
  <2> QED BY <1>7, <2>1, <2>2
<1>11. k < 0 => requests[1].type = "DetatchPid"
  <2>1. k < 0 => 1 \in 1..m /\ ~(k + 1 >= 1)
    BY <1>2, <1>8
  <2> QED BY <1>7, <2>1
<1> QED BY <1>1, <1>3, <1>8, <1>9, <1>10, <1>11 DEF n, k, m

(* A packet of the holder: nobody's last packet is left, and its type tells  *)
(* how far the request has come.                                             *)
LEMMA TakenAsked ==
  ASSUME IInv, NEW t, t # "DetatchPid", Takes(t), UNCHANGED <<m_pid, op, todo, holder>>
  PROVE  /\ ~Quiet /\ Quiet' = Quiet /\ holder \in Clients /\ holder # NoOne
         /\ Asks(holder)' = Asks(holder) /\ Len(Asks(holder)) \in 1..4
         /\ Taken(holder) + 1 \in 1..Len(Asks(holder)) /\ Taken(holder) \in Int
         /\ Taken(holder)' = Taken(holder) + 1 /\ InLine(holder)'
         /\ requests[1] = Asks(holder)[Taken(holder) + 1]
         /\ Progress(holder)
         /\ \A pid : ~Leaving(pid) /\ ~Launching(pid)
         /\ \A i \in 1..Len(requests') : requests'[i].type # "DetatchPid"
<1>1. requests[1].type = t /\ proxy.at = "recv" /\ replies = <<>>
      /\ 1 \in 1..Len(requests)
      /\ \A i \in 1..Len(requests') : i + 1 \in 1..Len(requests) /\ requests'[i] = requests[i + 1]
  BY TakenKind
<1>2. ~Quiet
  BY <1>1 DEF IInv, Line
<1>3. Taken(holder) >= 0
  BY <1>1, <1>2, LineMoves
<1>4. \A i \in 1..Len(requests) : requests[i].type # "DetatchPid"
  BY <1>2, <1>3, LineMoves
<1>5. \A pid : ~Leaving(pid)
  BY <1>1, <1>4 DEF Leaving, LeftAt
<1>6. Len(<<>>) # 1
  OBVIOUS
<1>7. \A pid : ~Launching(pid)
  BY <1>1, <1>6 DEF Launching
<1>8. \A i \in 1..Len(requests') : requests'[i].type # "DetatchPid"
  BY <1>1, <1>4
<1>9. Progress(holder) /\ Quiet' = Quiet
  BY <1>2 DEF IInv, Line, Quiet
<1> QED BY <1>2, <1>3, <1>5, <1>7, <1>8, <1>9, LineMoves

(* What is kept of the children by a step that leaves them and their entries *)
(* alone and adds no answer about an end.                                    *)
LEMMA SameChildren ==
  ASSUME IInv, UNCHANGED <<object, op, holder, m_stats, child>>,
         \A p \in Procs : Told(p) => Told(p)',
         \A pid \in Pids : Leaving(pid)' <=> Leaving(pid),
         \A pid \in Pids : Launching(pid) => Launching(pid)',
         \A pid \in Pids : proxy.at \in {"forked", "insert"} /\ proxy.pid = pid
                            => proxy'.at \in {"forked", "insert"} /\ proxy'.pid = pid
  PROVE  Children'
<1>1. \A p \in Procs, pid \in Pids : Knows(p, pid)' <=> Knows(p, pid)
  BY DEF Knows, object
<1>2. ASSUME NEW pid \in Pids PROVE Entry(pid)'
  <2>1. Owned(pid) => Owned(pid)'
    BY <1>1 DEF Owned
  <2>2. Entry(pid)
    BY DEF IInv, Children
  <2> QED BY <2>1, <2>2 DEF Entry, Torn
<1>3. ASSUME NEW p \in Procs, NEW pid \in Pids, Knows(p, pid)' PROVE Known(p, pid)'
  <2>1. Known(p, pid)
    BY <1>1, <1>3 DEF IInv, Children
  <2> QED BY <2>1 DEF Known, CommandOf, object, Torn
<1> QED BY <1>2, <1>3 DEF Children

LEMMA SameObjects == ASSUME IInv, UNCHANGED <<object, op>> PROVE Objects'
  BY DEF IInv, Objects, object

(* The packets that the proxy collects a command from.                       *)
LEMMA Collects ==
  ASSUME IInv, NEW t \in {"LaunchExe", "VerifyUser", "LaunchArg", "LaunchUser"}, Takes(t),
         UNCHANGED <<object, op, todo, holder, replies, m_stats, child>>,
         NEW cmd \in Commands, Command(cmd),
         t \in {"LaunchExe", "VerifyUser"} => cmd.prog = Val /\ cmd.args = <<>>,
         t = "LaunchArg" => cmd.prog = proxy.cmd.prog /\ cmd.args = Append(proxy.cmd.args, Val),
         t = "LaunchUser" => /\ cmd.prog = proxy.cmd.prog /\ cmd.args = proxy.cmd.args
                             /\ cmd.uid = Val
  PROVE  IInv'
<1> DEFINE c == holder
<1>1. UNCHANGED <<runstate, m_pid, m_exitcode, granted>>
  BY DEF object
<1>2. /\ proxy'.at = "recv" /\ proxy'.cmd = cmd
      /\ proxy' \in [at : {"recv", "forked", "insert", "mark"}, cmd : Commands,
                     pid : Pids \cup {NoPid}, known : BOOLEAN]
  BY DEF Command, Idle
<1>3. /\ requests[1].type = t /\ Val = requests[1].val /\ proxy.at = "recv" /\ replies = <<>>
      /\ requests' \in Seq(Packets)
  BY TakenKind
<1>4. /\ ~Quiet /\ Quiet' = Quiet /\ c \in Clients /\ c # NoOne
      /\ Asks(c)' = Asks(c) /\ Len(Asks(c)) \in 1..4
      /\ Taken(c) + 1 \in 1..Len(Asks(c)) /\ Taken(c) \in Int
      /\ Taken(c)' = Taken(c) + 1 /\ InLine(c)'
      /\ requests[1] = Asks(c)[Taken(c) + 1] /\ Progress(c)
      /\ \A pid : ~Leaving(pid) /\ ~Launching(pid)
      /\ \A i \in 1..Len(requests') : requests'[i].type # "DetatchPid"
  BY <1>1, TakenAsked
<1>5. /\ t = "LaunchExe" => op[c] = "launch" /\ Taken(c) = 0 /\ Val = c
      /\ t = "LaunchArg" => op[c] = "launch" /\ Taken(c) = 1 /\ Val = c
      /\ t = "LaunchUser" => op[c] = "launch" /\ Taken(c) = 2 /\ Val = c
      /\ t = "VerifyUser" => op[c] = "verify" /\ Taken(c) = 0 /\ Val = c
  <2> DEFINE i == Taken(c) + 1
  <2>1. i \in 1..Len(Asks(c)) /\ requests[1] = Asks(c)[i]
    BY <1>4
  <2>2. /\ t = "LaunchExe" => op[c] = "launch" /\ i = 1 /\ Val = c
        /\ t = "LaunchArg" => op[c] = "launch" /\ i = 2 /\ Val = c
        /\ t = "LaunchUser" => op[c] = "launch" /\ i = 3 /\ Val = c
        /\ t = "VerifyUser" => op[c] = "verify" /\ i = 1 /\ Val = c
    <3> HIDE DEF i
    <3> QED BY <1>3, <1>4, <2>1, PlaceOf
  <2> QED BY <1>4, <2>2
<1>6. /\ op[c] = "launch" => Len(Asks(c)) = 4
      /\ op[c] = "verify" => Len(Asks(c)) = 2
  BY <1>4, AskedPackets DEF IInv
<1>7. Taken(c)' < Len(Asks(c)) /\ Taken(c)' >= 1
  <2>1. CASE t = "LaunchExe"
    <3>1. Taken(c)' = 1 /\ Len(Asks(c)) = 4
      BY <1>4, <1>5, <1>6, <2>1
    <3> QED BY <3>1
  <2>2. CASE t = "LaunchArg"
    <3>1. Taken(c)' = 2 /\ Len(Asks(c)) = 4
      BY <1>4, <1>5, <1>6, <2>2
    <3> QED BY <3>1
  <2>3. CASE t = "LaunchUser"
    <3>1. Taken(c)' = 3 /\ Len(Asks(c)) = 4
      BY <1>4, <1>5, <1>6, <2>3
    <3> QED BY <3>1
  <2>4. CASE t = "VerifyUser"
    <3>1. Taken(c)' = 1 /\ Len(Asks(c)) = 2
      BY <1>4, <1>5, <1>6, <2>4
    <3> QED BY <3>1
  <2> QED BY <2>1, <2>2, <2>3, <2>4
<1>8. Progress(c)'
  <2>1. proxy'.cmd.prog = c
    <3>1. Taken(c) \in 1..Len(Asks(c)) - 1 => proxy.cmd.prog = c
      BY <1>4 DEF Progress
    <3> QED BY <1>2, <1>4, <1>5, <1>6, <3>1
  <2>2. op[c] = "launch" => proxy'.cmd.args = IF Taken(c)' = 1 THEN <<>> ELSE <<c>>
    <3>1. Taken(c) \in 1..Len(Asks(c)) - 1 /\ op[c] = "launch"
           => proxy.cmd.args = IF Taken(c) = 1 THEN <<>> ELSE <<c>>
      BY <1>4 DEF Progress
    <3>2. Append(<<>>, c) = <<c>>
      OBVIOUS
    <3>3. CASE t = "LaunchExe"
      BY <1>2, <1>4, <1>5, <3>3
    <3>4. CASE t = "LaunchArg"
      BY <1>2, <1>4, <1>5, <1>6, <3>1, <3>2, <3>4
    <3>5. CASE t = "LaunchUser"
      BY <1>2, <1>4, <1>5, <1>6, <3>1, <3>5
    <3>6. CASE t = "VerifyUser"
      BY <1>5, <3>6
    <3> QED BY <3>3, <3>4, <3>5, <3>6
  <2>3. op[c] = "launch" /\ Taken(c)' = 3 => proxy'.cmd.uid = c
    BY <1>2, <1>4, <1>5
  <2>4. Asks(c)' = Asks(c) /\ replies' = <<>> /\ ~(Taken(c)' <= 0) /\ Taken(c)' # Len(Asks(c))
    BY <1>3, <1>4, <1>7
  <2> QED BY <1>2, <2>1, <2>2, <2>3, <2>4 DEF Progress
<1>9. Answered(c)'
  <2>1. Taken(c)' # Len(Asks(c)') 
    BY <1>4, <1>7
  <2> QED BY <2>1 DEF Answered, Torn
<1>10. Line'
  <2>1. ~Quiet' /\ holder' = holder
    BY <1>4
  <2> QED BY <1>4, <1>8, <1>9, <2>1 DEF IInv, Line
<1>11. \A pid : ~Leaving(pid)'
  BY <1>2, <1>4 DEF Leaving, LeftAt
<1>12. Left'
  BY <1>2, <1>4 DEF Left, LeftAt, Torn
<1>13. Children'
  BY <1>3, <1>4, <1>11, SameChildren DEF Told
<1>14. Typed'
  BY <1>1, <1>2, <1>3 DEF IInv, Typed
<1> QED BY <1>10, <1>12, <1>13, <1>14, SameObjects DEF IInv

LEMMA CommandSteps ==
  ASSUME IInv, LaunchExe \/ LaunchArg \/ LaunchUser, UNCHANGED <<object, op, todo, holder>>
  PROVE  IInv'
<1>1. /\ proxy.cmd \in Commands /\ proxy.cmd.prog \in Vals /\ proxy.cmd.args \in Seq(Vals)
      /\ proxy.cmd.uid \in Vals
  BY DEF IInv, Typed, Commands
<1>2. CASE LaunchExe
  <2>1. PICK t \in {"LaunchExe", "VerifyUser"} : Takes(t)
    BY <1>2 DEF LaunchExe
  <2>2. Val \in Vals
    BY <2>1, TakenKind
  <2> DEFINE cmd == [Reset EXCEPT !.prog = Val]
  <2>3. cmd \in Commands /\ cmd.prog = Val /\ cmd.args = <<>>
    <3>1. NoOne \in Vals /\ <<>> \in Seq(Vals)
      BY DEF Vals
    <3> QED BY <1>1, <2>2, <3>1 DEF Commands, Reset, Empty
  <2>4. Command(cmd) /\ UNCHANGED <<replies, m_stats, child>>
    BY <1>2 DEF LaunchExe
  <2> HIDE DEF cmd
  <2>5. UNCHANGED <<object, op, todo, holder, replies, m_stats, child>>
    BY <2>4
  <2> QED BY <2>1, <2>3, <2>4, <2>5, Collects
<1>3. CASE LaunchArg
  <2>1. Takes("LaunchArg") /\ UNCHANGED <<replies, m_stats, child>>
    BY <1>3 DEF LaunchArg
  <2>2. Val \in Vals
    BY <2>1, TakenKind
  <2> DEFINE cmd == [proxy.cmd EXCEPT !.args = Append(proxy.cmd.args, Val)]
  <2>3. /\ cmd \in Commands /\ cmd.prog = proxy.cmd.prog
        /\ cmd.args = Append(proxy.cmd.args, Val)
    BY <1>1, <2>2 DEF Commands
  <2>4. Command(cmd)
    BY <1>3 DEF LaunchArg
  <2> HIDE DEF cmd
  <2>5. UNCHANGED <<object, op, todo, holder, replies, m_stats, child>>
    BY <2>1
  <2> QED BY <2>1, <2>3, <2>4, <2>5, Collects
<1>4. CASE LaunchUser
  <2>1. Takes("LaunchUser") /\ UNCHANGED <<replies, m_stats, child>>
    BY <1>4 DEF LaunchUser
  <2>2. Val \in Vals
    BY <2>1, TakenKind
  <2> DEFINE cmd == [proxy.cmd EXCEPT !.uid = Val]
  <2>3. /\ cmd \in Commands /\ cmd.prog = proxy.cmd.prog
        /\ cmd.args = proxy.cmd.args /\ cmd.uid = Val
    BY <1>1, <2>2 DEF Commands
  <2>4. Command(cmd)
    BY <1>4 DEF LaunchUser
  <2> HIDE DEF cmd
  <2>5. UNCHANGED <<object, op, todo, holder, replies, m_stats, child>>
    BY <2>1
  <2> QED BY <2>1, <2>3, <2>4, <2>5, Collects
<1> QED BY <1>2, <1>3, <1>4

(* The last packet of a request has been taken.                              *)
LEMMA LastTaken ==
  ASSUME IInv, NEW t \in {"LaunchReady", "CheckPid", "VerifyPassword"}, Takes(t),
         UNCHANGED <<m_pid, op, todo, holder>>
  PROVE  /\ ~Quiet /\ Quiet' = Quiet /\ holder \in Clients /\ holder # NoOne
         /\ Asks(holder)' = Asks(holder) /\ Len(Asks(holder)) \in 1..4
         /\ Taken(holder)' = Len(Asks(holder)) /\ InLine(holder)'
         /\ \A pid : ~Leaving(pid) /\ ~Launching(pid)
         /\ \A i \in 1..Len(requests') : requests'[i].type # "DetatchPid"
         /\ t = "LaunchReady" => /\ op[holder] = "launch" /\ holder \in Procs
                                 /\ proxy.cmd = CommandOf(holder)
         /\ t = "CheckPid" => /\ op[holder] = "check" /\ holder \in Procs
                              /\ Val = m_pid[holder]
         /\ t = "VerifyPassword" => /\ op[holder] = "verify" /\ holder \in Users
                                    /\ proxy.cmd.prog = holder /\ Val = holder
<1> DEFINE c == holder
<1>1. /\ ~Quiet /\ Quiet' = Quiet /\ c \in Clients /\ c # NoOne
      /\ Asks(c)' = Asks(c) /\ Len(Asks(c)) \in 1..4
      /\ Taken(c) + 1 \in 1..Len(Asks(c)) /\ Taken(c) \in Int
      /\ Taken(c)' = Taken(c) + 1 /\ InLine(c)'
      /\ requests[1] = Asks(c)[Taken(c) + 1] /\ Progress(c)
      /\ \A pid : ~Leaving(pid) /\ ~Launching(pid)
      /\ \A i \in 1..Len(requests') : requests'[i].type # "DetatchPid"
  BY TakenAsked
<1>2. requests[1].type = t /\ Val = requests[1].val
  BY TakenKind
<1>3. /\ t = "LaunchReady" => op[c] = "launch" /\ Taken(c) = 3
      /\ t = "CheckPid" => op[c] = "check" /\ Taken(c) = 0 /\ Val = m_pid[c]
      /\ t = "VerifyPassword" => op[c] = "verify" /\ Taken(c) = 1 /\ Val = c
  <2> DEFINE i == Taken(c) + 1
  <2>1. i \in 1..Len(Asks(c)) /\ requests[1] = Asks(c)[i]
    BY <1>1
  <2>2. /\ t = "LaunchReady" => op[c] = "launch" /\ i = 4
        /\ t = "CheckPid" => op[c] = "check" /\ i = 1 /\ Val = m_pid[c]
        /\ t = "VerifyPassword" => op[c] = "verify" /\ i = 2 /\ Val = c
    <3> HIDE DEF i
    <3> QED BY <1>1, <1>2, <2>1, PlaceOf
  <2> QED BY <1>1, <2>2
<1>4. /\ Len(Asks(c)) = (IF op[c] = "launch" THEN 4 ELSE IF op[c] = "check" THEN 1 ELSE 2)
      /\ op[c] \in {"launch", "check"} => c \in Procs
      /\ op[c] = "verify" => c \in Users
  BY <1>1, HolderAsks DEF IInv
<1>5. Taken(c)' = Len(Asks(c))
  BY <1>1, <1>3, <1>4
<1>6. t = "LaunchReady" => proxy.cmd = CommandOf(c)
  <2> SUFFICES ASSUME t = "LaunchReady" PROVE proxy.cmd = CommandOf(c)
    OBVIOUS
  <2>1. op[c] = "launch" /\ Taken(c) = 3 /\ Taken(c) \in 1..Len(Asks(c)) - 1
    BY <1>3, <1>4
  <2>2. proxy.cmd.prog = c /\ proxy.cmd.args = <<c>> /\ proxy.cmd.uid = c
    BY <1>1, <2>1 DEF Progress
  <2>3. proxy.cmd \in [prog : Vals, args : Seq(Vals), uid : Vals]
    BY DEF IInv, Typed, Commands
  <2> QED BY <2>2, <2>3 DEF CommandOf
<1>7. t = "VerifyPassword" => proxy.cmd.prog = c
  <2>1. t = "VerifyPassword" => Taken(c) \in 1..Len(Asks(c)) - 1
    BY <1>3, <1>4
  <2> QED BY <1>1, <2>1 DEF Progress
<1> QED BY <1>1, <1>3, <1>4, <1>5, <1>6, <1>7

(* The line of a request that has been taken whole.                          *)
LEMMA LineTaken ==
  ASSUME IInv, ~Quiet, UNCHANGED <<op, todo, holder>>, Quiet' = Quiet,
         Asks(holder)' = Asks(holder), Len(Asks(holder)) \in 1..4,
         Taken(holder)' = Len(Asks(holder)), InLine(holder)',
         proxy'.at \in {"recv", "forked", "insert"}, Answered(holder)'
  PROVE  Line'
<1> DEFINE n == Len(Asks(holder))
<1>1. \A t \in 1..4 : ~(t <= 0) /\ t \notin 1..t - 1 /\ ~(t < t)
  OBVIOUS
<1>2. n \in 1..4 /\ Len(Asks(holder)') = n /\ Taken(holder)' = n
  OBVIOUS
<1> HIDE DEF n
<1>3. Progress(holder)'
  BY <1>1, <1>2 DEF Progress
<1> QED BY <1>3 DEF IInv, Line

LEMMA AnswerPacket ==
  ASSUME replies = <<>>, NEW t, NEW v, Reply(t, v)
  PROVE  replies' = <<Packet(t, v)>> /\ Len(replies') = 1
         /\ replies'[1].type = t /\ replies'[1].val = v
  BY DEF Reply, Packet

LEMMA LaunchReadySteps ==
  ASSUME IInv, LaunchReady, UNCHANGED <<object, op, todo, holder>> PROVE IInv'
<1> DEFINE c == holder
<1>1. Takes("LaunchReady") /\ UNCHANGED m_stats
  BY DEF LaunchReady
<1>2. UNCHANGED <<runstate, m_pid, m_exitcode, granted>>
  BY DEF object
<1>3. /\ ~Quiet /\ Quiet' = Quiet /\ c \in Clients /\ c # NoOne
      /\ Asks(c)' = Asks(c) /\ Len(Asks(c)) \in 1..4
      /\ Taken(c)' = Len(Asks(c)) /\ InLine(c)'
      /\ \A pid : ~Leaving(pid) /\ ~Launching(pid)
      /\ \A i \in 1..Len(requests') : requests'[i].type # "DetatchPid"
      /\ op[c] = "launch" /\ c \in Procs /\ proxy.cmd = CommandOf(c)
  BY <1>1, <1>2, LastTaken
<1>4. proxy.at = "recv" /\ replies = <<>> /\ requests' \in Seq(Packets)
  BY <1>1, TakenKind
<1>5. \A p \in Procs : ~Told(p)
  BY <1>4 DEF Told
<1>6. proxy'.at # "mark" => \A pid : ~Leaving(pid)'
  BY <1>3 DEF Leaving, LeftAt
<1>7. proxy'.at # "mark" => Left'
  BY <1>3 DEF Left, LeftAt, Torn
<1>8. CASE Reply("LaunchedError", NoPid) /\ Command(Reset) /\ UNCHANGED child
  <2>1. /\ proxy'.at = "recv"
        /\ proxy' \in [at : {"recv", "forked", "insert", "mark"}, cmd : Commands,
                       pid : Pids \cup {NoPid}, known : BOOLEAN]
    <3>1. Reset \in Commands
      <4>1. proxy.cmd.uid \in Vals /\ NoOne \in Vals /\ <<>> \in Seq(Vals)
        BY DEF IInv, Typed, Commands, Vals
      <4> QED BY <4>1 DEF Reset, Empty, Commands
    <3> HIDE DEF Reset
    <3> QED BY <1>8, <3>1 DEF Command, Idle
  <2>2. /\ replies' = <<Packet("LaunchedError", NoPid)>> /\ Len(replies') = 1
        /\ replies'[1].type = "LaunchedError"
    BY <1>4, <1>8, AnswerPacket
  <2>3. replies' \in Seq(Packets)
    <3>1. Packet("LaunchedError", NoPid) \in Packets
      BY DEF Packet, Packets, Vals
    <3> QED BY <2>2, <3>1
  <2>4. Answered(c)'
    BY <1>3, <2>1, <2>2 DEF Answered, Torn
  <2>5. Line'
    BY <1>3, <2>1, <2>4, LineTaken
  <2>6. Children'
    BY <1>1, <1>3, <1>4, <1>5, <1>6, <1>8, <2>1, SameChildren
  <2>7. Typed'
    BY <1>1, <1>2, <1>4, <1>8, <2>1, <2>3 DEF IInv, Typed
  <2> QED BY <1>7, <2>1, <2>5, <2>6, <2>7, SameObjects DEF IInv
<1>9. ASSUME NEW k \in Pids, FreePid(k), UNCHANGED replies,
             child' = Forked(k),
             proxy' = [proxy EXCEPT !.at = "forked", !.pid = k]
      PROVE  IInv'
  <2>1. /\ proxy'.at = "forked" /\ proxy'.pid = k /\ proxy'.cmd = proxy.cmd
        /\ proxy' \in [at : {"recv", "forked", "insert", "mark"}, cmd : Commands,
                       pid : Pids \cup {NoPid}, known : BOOLEAN]
    BY <1>9 DEF IInv, Typed
  <2>2. /\ child' \in [Pids -> Child]
        /\ child'[k].st = "alive" /\ child'[k].cmd = CommandOf(c)
        /\ child'[k].torn = child[k].torn
        /\ \A q \in Pids : q # k => child'[q] = child[q]
    <3>1. child \in [Pids -> Child] /\ proxy.cmd \in Commands
      BY DEF IInv, Typed, Child
    <3> QED BY <1>3, <1>9, <3>1 DEF Forked, Child
  <2>3. /\ child[k].st \in {"none", "reaped"}
        /\ \A p \in Procs : ~Knows(p, k)
    BY <1>9 DEF FreePid, Knows
  <2>4. ~Torn(k) => m_stats[k].type = "None"
    <3>1. Entry(k) /\ ~Owned(k) /\ m_stats[k].type \in Types
      BY <1>3, <2>3 DEF IInv, Children, Owned, Typed
    <3> QED BY <2>3, <3>1 DEF Entry, Torn, Types
  <2>5. Answered(c)'
    <3>1. /\ replies' = <<>> /\ Started(c, k)' /\ (~Torn(k)' => m_stats'[k].type = "None")
          /\ op'[c] = "launch" /\ proxy'.cmd = CommandOf(c)
      BY <1>1, <1>3, <1>4, <1>9, <2>1, <2>2, <2>4 DEF Started, CommandOf, Torn
    <3> QED BY <2>1, <2>2, <3>1 DEF Answered, Entering, CommandOf, Started, Torn
  <2>6. Line'
    BY <1>3, <2>1, <2>5, LineTaken
  <2>7. ASSUME NEW q \in Pids PROVE Entry(q)'
    <3>1. CASE q = k
      BY <1>1, <2>1, <2>2, <2>4, <3>1 DEF Entry, Torn
    <3>2. CASE q # k
      <4>1. Owned(q) => Owned(q)'
        BY <1>2, <1>3 DEF Owned, Knows
      <4>2. Entry(q)
        BY DEF IInv, Children
      <4> QED BY <1>1, <1>4, <2>2, <3>2, <4>1, <4>2 DEF Entry, Torn
    <3> QED BY <3>1, <3>2
  <2>8. ASSUME NEW p \in Procs, NEW q \in Pids, Knows(p, q)' PROVE Known(p, q)'
    <3>1. Knows(p, q) /\ Known(p, q) /\ q # k
      BY <1>2, <2>3, <2>8 DEF Knows, IInv, Children
    <3>2. ~Leaving(q)'
      BY <1>6, <2>1
    <3> QED BY <1>1, <1>2, <1>5, <2>2, <3>1, <3>2 DEF Known, CommandOf, Torn
  <2>9. Typed'
    BY <1>1, <1>2, <1>4, <1>9, <2>1, <2>2 DEF IInv, Typed, Child
  <2> QED BY <1>7, <2>1, <2>6, <2>7, <2>8, <2>9, SameObjects DEF IInv, Children
<1> QED BY <1>8, <1>9 DEF LaunchReady

(* Between the fork and the answer: a launch that has been taken whole.      *)
LEMMA Forking ==
  ASSUME IInv, proxy.at \in {"forked", "insert"}
  PROVE  /\ ~Quiet /\ holder \in Procs /\ holder # NoOne /\ op[holder] = "launch"
         /\ Asks(holder) \in Seq(Packets) /\ Len(Asks(holder)) \in 1..4
         /\ Taken(holder) = Len(Asks(holder)) /\ InLine(holder)
         /\ requests = <<>> /\ replies = <<>>
         /\ \A pid : ~Leaving(pid)
         /\ proxy.cmd = CommandOf(holder) /\ Started(holder, proxy.pid)
         /\ ~Torn(proxy.pid) => Entering(proxy.pid)
<1> DEFINE c == holder
           n == Len(Asks(c))
<1>1. ~Quiet
  BY DEF IInv, Line
<1>2. InLine(c) /\ Progress(c) /\ Answered(c) /\ c # NoOne
  BY <1>1 DEF IInv, Line, Quiet
<1>3. c \in Clients /\ Asks(c) \in Seq(Packets) /\ n \in 1..4
      /\ (op[c] = "launch" => c \in Procs)
  BY <1>1, HolderAsks DEF IInv
<1>4. requests \in Seq(Packets) /\ Len(requests) \in Nat /\ Len(todo[c]) \in Nat
  BY <1>3 DEF IInv, Typed
<1>5. Taken(c) = n - Len(todo[c]) - Len(requests)
  BY DEF Taken
<1>6. Taken(c) = n
  <2>1. ~(Taken(c) <= 0) /\ Taken(c) \notin 1..n - 1
    BY <1>2 DEF Progress
  <2>2. n \in 1..4 /\ Len(todo[c]) \in Nat /\ Len(requests) \in Nat
    BY <1>3, <1>4
  <2>3. \A t, l, m \in Nat : ~(t - l - m <= 0) /\ t - l - m \notin 1..t - 1 => t - l - m = t
    OBVIOUS
  <2> HIDE DEF n
  <2>4. n \in Nat
    BY <2>2
  <2> QED BY <1>5, <2>1, <2>2, <2>3, <2>4
<1>7. requests = <<>>
  <2>1. Len(requests) = 0
    BY <1>3, <1>4, <1>5, <1>6
  <2> QED BY <1>4, <2>1
<1>8. \A i \in 1..Len(<<>>) : FALSE
  OBVIOUS
<1>9. \A pid : ~Leaving(pid)
  BY <1>7, <1>8 DEF Leaving
<1> QED BY <1>1, <1>2, <1>3, <1>6, <1>7, <1>9 DEF Answered, Torn

LEMMA FindStatSteps ==
  ASSUME IInv, FindStat, UNCHANGED <<object, op, todo, holder>> PROVE IInv'
<1> DEFINE c == holder
           k == proxy.pid
<1>1. /\ proxy.at = "forked"
      /\ proxy' = [proxy EXCEPT !.at = "insert", !.known = (m_stats[k].type # "None")]
      /\ UNCHANGED <<runstate, m_pid, m_exitcode, granted, op, todo, holder, requests, replies,
                     m_stats, child>>
  BY DEF FindStat, object
<1>2. /\ ~Quiet /\ c \in Procs /\ c # NoOne /\ op[c] = "launch"
      /\ Asks(c) \in Seq(Packets) /\ Len(Asks(c)) \in 1..4
      /\ Taken(c) = Len(Asks(c)) /\ InLine(c)
      /\ requests = <<>> /\ replies = <<>> /\ \A pid : ~Leaving(pid)
      /\ proxy.cmd = CommandOf(c) /\ Started(c, k) /\ (~Torn(k) => Entering(k))
  BY <1>1, Forking
<1>3. /\ proxy'.at = "insert" /\ proxy'.pid = k /\ proxy'.cmd = proxy.cmd
      /\ proxy'.known = (m_stats[k].type # "None")
      /\ proxy' \in [at : {"recv", "forked", "insert", "mark"}, cmd : Commands,
                     pid : Pids \cup {NoPid}, known : BOOLEAN]
  <2>1. (m_stats[k].type # "None") \in BOOLEAN
    OBVIOUS
  <2>2. proxy \in [at : {"recv", "forked", "insert", "mark"}, cmd : Commands,
                   pid : Pids \cup {NoPid}, known : BOOLEAN]
    BY DEF IInv, Typed
  <2> QED BY <1>1, <2>1, <2>2
<1> HIDE DEF k
<1>4. Asks(c)' = Asks(c) /\ Taken(c)' = Taken(c) /\ InLine(c)' /\ Quiet' = Quiet
  <2>1. Asks(c)' = Asks(c)
    BY <1>1 DEF Asks, PacketsOf
  <2>2. Taken(c)' = Taken(c)
    BY <1>1, <2>1 DEF Taken
  <2> QED BY <1>1, <1>2, <2>1, <2>2 DEF InLine, Quiet
<1>5. Answered(c)'
  <2>1. Started(c, k)' /\ proxy'.cmd = CommandOf(c)
    BY <1>1, <1>2, <1>3 DEF Started, CommandOf, k
  <2> QED BY <1>1, <1>2, <1>3, <2>1 DEF Answered, Entering, CommandOf, Started, k, Torn
<1>6. Line'
  BY <1>1, <1>2, <1>3, <1>4, <1>5, LineTaken
<1>7. \A i \in 1..Len(<<>>) : FALSE
  OBVIOUS
<1>8. Left' /\ \A pid : ~Leaving(pid)'
  BY <1>1, <1>2, <1>3, <1>7 DEF Left, Leaving, Torn
<1>9. Children'
  <2>1. \A pid \in Pids : Launching(pid) => Launching(pid)'
    BY <1>1, <1>3 DEF Launching, k
  <2>2. \A p \in Procs : Told(p) => Told(p)'
    BY <1>1 DEF Told
  <2> QED BY <1>1, <1>2, <1>3, <1>8, <2>1, <2>2, SameChildren DEF k, object
<1>10. Typed'
  BY <1>1, <1>3 DEF IInv, Typed
<1> QED BY <1>1, <1>6, <1>8, <1>9, <1>10, SameObjects DEF IInv, object

LEMMA InsertSteps ==
  ASSUME IInv, Insert, UNCHANGED <<object, op, todo, holder>> PROVE IInv'
<1> DEFINE c == holder
           k == proxy.pid
<1>1. /\ proxy.at = "insert" /\ Reply("LaunchedOk", k) /\ Command(Reset)
      /\ m_stats' = IF proxy.known THEN m_stats
                    ELSE [m_stats EXCEPT ![k] = [type |-> "Running", code |-> 0]]
      /\ UNCHANGED <<runstate, m_pid, m_exitcode, granted, op, todo, holder, requests, child>>
  BY DEF Insert, object
<1>2. /\ ~Quiet /\ c \in Procs /\ c # NoOne /\ op[c] = "launch"
      /\ Asks(c) \in Seq(Packets) /\ Len(Asks(c)) \in 1..4
      /\ Taken(c) = Len(Asks(c)) /\ InLine(c)
      /\ requests = <<>> /\ replies = <<>> /\ \A pid : ~Leaving(pid)
      /\ proxy.cmd = CommandOf(c) /\ Started(c, k)
      /\ ~Torn(k) => /\ m_stats[k].type \in {"None", "Terminated"}
                     /\ m_stats[k].type = "None" => child[k].st \in {"alive", "zombie"}
                     /\ proxy.known <=> m_stats[k].type # "None"
  BY <1>1, Forking DEF Entering
<1>3. k \in Pids /\ child[k].cmd = CommandOf(c)
  BY <1>2 DEF Started
<1>4. /\ proxy'.at = "recv"
      /\ proxy' \in [at : {"recv", "forked", "insert", "mark"}, cmd : Commands,
                     pid : Pids \cup {NoPid}, known : BOOLEAN]
  <2>1. Reset \in Commands
    <3>1. proxy.cmd.uid \in Vals /\ NoOne \in Vals /\ <<>> \in Seq(Vals)
      BY DEF IInv, Typed, Commands, Vals
    <3> QED BY <3>1 DEF Reset, Empty, Commands
  <2> HIDE DEF Reset
  <2> QED BY <1>1, <2>1 DEF Command, Idle
<1>5. /\ replies' = <<Packet("LaunchedOk", k)>> /\ Len(replies') = 1
      /\ replies'[1].type = "LaunchedOk" /\ replies'[1].val = k
      /\ replies'[1] = Packet("LaunchedOk", k)
  BY <1>1, <1>2, AnswerPacket
<1> HIDE DEF k
<1>6. /\ ~Torn(k) => /\ m_stats[k].type = "None" => m_stats'[k].type = "Running"
                     /\ m_stats[k].type # "None" => m_stats'[k] = m_stats[k]
                     /\ m_stats'[k].type \in {"Running", "Terminated"}
      /\ \A q \in Pids : q # k => m_stats'[q] = m_stats[q]
      /\ m_stats' \in [Pids -> [type : Types, code : {0, 1}]]
  <2>1. m_stats \in [Pids -> [type : Types, code : {0, 1}]]
    BY DEF IInv, Typed
  <2>2. [type |-> "Running", code |-> 0] \in [type : Types, code : {0, 1}]
    BY DEF Types
  <2>3. CASE ~proxy.known
    <3>1. m_stats' = [m_stats EXCEPT ![k] = [type |-> "Running", code |-> 0]]
      BY <1>1, <2>3
    <3> QED BY <1>2, <1>3, <2>1, <2>2, <2>3, <3>1
  <2>4. CASE proxy.known
    <3>1. m_stats' = m_stats
      BY <1>1, <2>4
    <3> QED BY <1>2, <2>1, <2>4, <3>1
  <2> QED BY <2>3, <2>4
<1>7. Asks(c)' = Asks(c) /\ Taken(c)' = Taken(c) /\ InLine(c)' /\ Quiet' = Quiet
  <2>1. Asks(c)' = Asks(c)
    BY <1>1 DEF Asks, PacketsOf
  <2>2. Taken(c)' = Taken(c)
    BY <1>1, <2>1 DEF Taken
  <2> QED BY <1>1, <1>2, <2>1, <2>2 DEF InLine, Quiet
<1>8. Answered(c)'
  <2>1. k \in Pids /\ child'[k].cmd = CommandOf(c)
    BY <1>1, <1>3
  <2> QED BY <1>1, <1>2, <1>4, <1>5, <1>6, <2>1 DEF Answered, Started, CommandOf, Torn
<1>9. Line'
  BY <1>1, <1>2, <1>4, <1>7, <1>8, LineTaken
<1>10. \A i \in 1..Len(<<>>) : FALSE
  OBVIOUS
<1>11. Left' /\ \A pid : ~Leaving(pid)'
  BY <1>1, <1>2, <1>4, <1>10 DEF Left, Leaving, Torn
<1>12. \A q \in Pids : q = k => Launching(q)'
  BY <1>5 DEF Launching
<1>13. \A p \in Procs, q \in Pids : Knows(p, q)' <=> Knows(p, q)
  BY <1>1 DEF Knows
<1>14. ASSUME NEW q \in Pids PROVE Entry(q)'
  <2>1. Entry(q)
    BY DEF IInv, Children
  <2>2. CASE q = k
    <3>1. Owned(q)'
      BY <1>12, <2>2 DEF Owned
    <3>2. child' = child
      BY <1>1
    <3>3. CASE ~Torn(q) /\ m_stats[q].type = "None"
      <4>1. m_stats'[q].type = "Running" /\ child[q].st \in {"alive", "zombie"}
        BY <1>2, <1>6, <2>2, <3>3 DEF k
      <4> QED BY <3>1, <3>2, <4>1 DEF Entry, Torn
    <3>4. CASE ~Torn(q) /\ m_stats[q].type = "Terminated"
      <4>1. m_stats'[q] = m_stats[q]
        BY <1>6, <2>2, <3>4
      <4> QED BY <2>1, <3>1, <3>2, <3>4, <4>1 DEF Entry, Torn
    <3>5. CASE Torn(q)
      <4>1. Torn(q)'
        BY <1>1, <3>5 DEF Torn
      <4> QED BY <4>1 DEF Entry
    <3> QED BY <1>2, <2>2, <3>3, <3>4, <3>5 DEF k
  <2>3. CASE q # k
    <3>1. ~Launching(q)
      <4>1. Len(<<>>) # 1
        OBVIOUS
      <4> QED BY <1>2, <2>3, <4>1 DEF Launching, k
    <3>2. Owned(q) => Owned(q)'
      BY <1>2, <1>13, <3>1 DEF Owned
    <3> QED BY <1>1, <1>6, <2>1, <2>3, <3>2 DEF Entry, Torn, k
  <2> QED BY <2>2, <2>3
<1>15. ASSUME NEW p \in Procs, NEW q \in Pids, Knows(p, q)' PROVE Known(p, q)'
  <2>1. Knows(p, q) /\ Known(p, q)
    BY <1>13, <1>15 DEF IInv, Children
  <2>2. q # k
    <3>1. m_pid[c] = NoPid
      BY <1>2 DEF IInv, Objects
    <3>2. q = k => p = c
      BY <1>3, <2>1 DEF Known, CommandOf, Torn
    <3> QED BY <1>3, <2>1, <3>1, <3>2, ProcessAssumption DEF Knows
  <2>3. ~Told(p)
    <3>1. Len(<<>>) # 1
      OBVIOUS
    <3> QED BY <1>2, <3>1 DEF Told
  <2> QED BY <1>1, <1>6, <1>11, <2>1, <2>2, <2>3 DEF Known, CommandOf, Torn
<1>16. Typed'
  <2>1. Packet("LaunchedOk", k) \in Packets
    BY <1>3 DEF Packet, Packets, Vals
  <2> QED BY <1>1, <1>4, <1>5, <1>6, <2>1 DEF IInv, Typed
<1> QED BY <1>1, <1>9, <1>11, <1>14, <1>15, <1>16, SameObjects DEF IInv, Children, object

(* The two requests that are answered as soon as they have been taken.       *)
LEMMA CheckPidSteps ==
  ASSUME IInv, CheckPid, UNCHANGED <<object, op, todo, holder>> PROVE IInv'
<1> DEFINE c == holder
           k == m_pid[c]
<1>1. Takes("CheckPid") /\ UNCHANGED <<runstate, m_pid, m_exitcode, granted, proxy, child>>
  BY DEF CheckPid, object
<1>2. /\ ~Quiet /\ Quiet' = Quiet /\ c \in Clients /\ c # NoOne
      /\ Asks(c)' = Asks(c) /\ Len(Asks(c)) \in 1..4
      /\ Taken(c)' = Len(Asks(c)) /\ InLine(c)'
      /\ \A pid : ~Leaving(pid) /\ ~Launching(pid)
      /\ \A i \in 1..Len(requests') : requests'[i].type # "DetatchPid"
      /\ op[c] = "check" /\ c \in Procs /\ Val = k
  BY <1>1, LastTaken
<1>3. proxy.at = "recv" /\ replies = <<>> /\ requests' \in Seq(Packets)
  BY <1>1, TakenKind
<1>4. \A p \in Procs : ~Told(p)
  BY <1>3 DEF Told
<1>5. Left' /\ \A pid : ~Leaving(pid)'
  BY <1>1, <1>2, <1>3 DEF Left, LeftAt, Leaving, Torn
<1>6. k \in Pids /\ Knows(c, k) /\ Known(c, k) /\ Entry(k)
  <2>1. runstate[c] = "Running" /\ k \in Pids
    BY <1>2 DEF IInv, Objects
  <2>2. Knows(c, k)
    BY <2>1 DEF Knows
  <2> QED BY <1>2, <2>1, <2>2 DEF IInv, Children
<1>7. \A p \in Procs, q \in Pids : Knows(p, q)' <=> Knows(p, q)
  BY <1>1 DEF Knows
<1>8. CASE m_stats[k].type = "Terminated"
  <2> DEFINE v == m_stats[k].code
  <2>1. Reply("CheckedTerminated", v) /\ m_stats' = Forget(k)
    BY <1>2, <1>6, <1>8 DEF CheckPid
  <2>2. /\ replies' = <<Packet("CheckedTerminated", v)>> /\ Len(replies') = 1
        /\ replies'[1].type = "CheckedTerminated" /\ replies'[1].val = v
    BY <1>3, <2>1, AnswerPacket
  <2>3. ~Torn(k) => child[k].st = "reaped" /\ v = child[k].code
    BY <1>6, <1>8 DEF Entry, Torn
  <2>4. v \in {0, 1} /\ m_stats \in [Pids -> [type : Types, code : {0, 1}]]
    BY <1>6 DEF IInv, Typed
  <2> HIDE DEF v
  <2>5. /\ m_stats' \in [Pids -> [type : Types, code : {0, 1}]]
        /\ m_stats'[k].type = "None" /\ \A q \in Pids : q # k => m_stats'[q] = m_stats[q]
    BY <1>6, <2>1, <2>4 DEF Forget, Types
  <2>6. Answered(c)'
    BY <1>1, <1>2, <1>3, <1>6, <2>2, <2>3, <2>4, <2>5 DEF Answered, Torn
  <2>7. Line'
    BY <1>1, <1>2, <1>3, <2>6, LineTaken
  <2>8. ASSUME NEW q \in Pids PROVE Entry(q)'
    <3>1. Owned(q) => Owned(q)'
      BY <1>2, <1>7 DEF Owned
    <3>2. Entry(q)
      BY DEF IInv, Children
    <3>3. CASE q = k
      BY <1>1, <2>3, <2>5, <3>3 DEF Entry, Torn
    <3>4. CASE q # k
      BY <1>1, <2>5, <3>1, <3>2, <3>4 DEF Entry, Torn
    <3> QED BY <3>3, <3>4
  <2>9. ASSUME NEW p \in Procs, NEW q \in Pids, Knows(p, q)' PROVE Known(p, q)'
    <3>1. Known(p, q)
      BY <1>7, <2>9 DEF IInv, Children
    <3>2. CASE q = k
      <4>1. p = c
        BY <1>6, <3>1, <3>2 DEF Known, CommandOf, Torn
      <4>2. Told(p)'
        BY <1>2, <2>2, <4>1 DEF Told
      <4> QED BY <1>1, <1>5, <2>5, <3>1, <3>2, <4>2 DEF Known, CommandOf, Torn
    <3>3. CASE q # k
      BY <1>1, <1>4, <1>5, <2>5, <3>1, <3>3 DEF Known, CommandOf, Torn
    <3> QED BY <3>2, <3>3
  <2>10. Typed'
    <3>1. Packet("CheckedTerminated", v) \in Packets
      BY <2>4 DEF Packet, Packets, Vals
    <3> QED BY <1>1, <1>3, <2>2, <2>5, <3>1 DEF IInv, Typed
  <2> QED BY <1>1, <1>5, <2>7, <2>8, <2>9, <2>10, SameObjects DEF IInv, Children
<1>9. CASE m_stats[k].type # "Terminated"
  <2>1. Reply("CheckedRunning", 0) /\ UNCHANGED m_stats
    BY <1>2, <1>9 DEF CheckPid
  <2>2. /\ replies' = <<Packet("CheckedRunning", 0)>> /\ Len(replies') = 1
        /\ replies'[1].type = "CheckedRunning"
    BY <1>3, <2>1, AnswerPacket
  <2>3. Answered(c)'
    BY <1>1, <1>2, <1>3, <2>2 DEF Answered, Torn
  <2>4. Line'
    BY <1>1, <1>2, <1>3, <2>3, LineTaken
  <2>5. Children'
    BY <1>1, <1>2, <1>3, <1>4, <1>5, <2>1, SameChildren
  <2>6. Typed'
    <3>1. Packet("CheckedRunning", 0) \in Packets
      BY DEF Packet, Packets, Vals
    <3> QED BY <1>1, <1>3, <2>1, <2>2, <3>1 DEF IInv, Typed
  <2> QED BY <1>1, <1>5, <2>4, <2>5, <2>6, SameObjects DEF IInv
<1> QED BY <1>8, <1>9

LEMMA VerifyPasswordSteps ==
  ASSUME IInv, VerifyPassword, UNCHANGED <<object, op, todo, holder>> PROVE IInv'
<1> DEFINE c == holder
           v == IF c \in Right THEN 1 ELSE 0
<1>1. /\ Takes("VerifyPassword") /\ Command(Reset)
      /\ UNCHANGED <<runstate, m_pid, m_exitcode, granted, m_stats, child>>
  BY DEF VerifyPassword, object
<1>2. /\ ~Quiet /\ Quiet' = Quiet /\ c \in Clients /\ c # NoOne
      /\ Asks(c)' = Asks(c) /\ Len(Asks(c)) \in 1..4
      /\ Taken(c)' = Len(Asks(c)) /\ InLine(c)'
      /\ \A pid : ~Leaving(pid) /\ ~Launching(pid)
      /\ \A i \in 1..Len(requests') : requests'[i].type # "DetatchPid"
      /\ op[c] = "verify" /\ c \in Users /\ proxy.cmd.prog = c /\ Val = c
  BY <1>1, LastTaken
<1>3. proxy.at = "recv" /\ replies = <<>> /\ requests' \in Seq(Packets)
  BY <1>1, TakenKind
<1>4. \A p \in Procs : ~Told(p)
  BY <1>3 DEF Told
<1>5. /\ proxy'.at = "recv"
      /\ proxy' \in [at : {"recv", "forked", "insert", "mark"}, cmd : Commands,
                     pid : Pids \cup {NoPid}, known : BOOLEAN]
  <2>1. Reset \in Commands
    <3>1. proxy.cmd.uid \in Vals /\ NoOne \in Vals /\ <<>> \in Seq(Vals)
      BY DEF IInv, Typed, Commands, Vals
    <3> QED BY <3>1 DEF Reset, Empty, Commands
  <2> HIDE DEF Reset
  <2> QED BY <1>1, <2>1 DEF Command, Idle
<1>6. Left' /\ \A pid : ~Leaving(pid)'
  BY <1>2, <1>5 DEF Left, LeftAt, Leaving, Torn
<1>7. Reply("VerifyResult", v)
  BY <1>2 DEF VerifyPassword
<1>8. /\ replies' = <<Packet("VerifyResult", v)>> /\ Len(replies') = 1
      /\ replies'[1].type = "VerifyResult" /\ replies'[1].val = v
  BY <1>3, <1>7, AnswerPacket
<1>9. Answered(c)'
  BY <1>2, <1>5, <1>8 DEF Answered, Torn
<1>10. Line'
  BY <1>2, <1>5, <1>9, LineTaken
<1>11. Children'
  BY <1>1, <1>2, <1>3, <1>4, <1>5, <1>6, SameChildren
<1>12. Typed'
  <2>1. Packet("VerifyResult", v) \in Packets
    BY DEF Packet, Packets, Vals
  <2> QED BY <1>1, <1>3, <1>5, <1>8, <2>1 DEF IInv, Typed
<1> QED BY <1>6, <1>10, <1>11, <1>12, SameObjects DEF IInv

-----------------------------------------------------------------------------
(* What deleted objects have left behind.                                    *)
LEMMA TakenBound ==
  ASSUME IInv, ~Quiet
  PROVE  /\ Taken(holder) \in Int /\ Len(Asks(holder)) \in 1..4 /\ holder \in Clients
         /\ Taken(holder) <= Len(Asks(holder)) /\ holder # NoOne
<1> DEFINE n == Len(Asks(holder))
<1>1. holder \in Clients /\ n \in 1..4 /\ holder # NoOne
  BY HolderAsks DEF IInv, Quiet
<1>2. Len(todo[holder]) \in Nat /\ Len(requests) \in Nat
  BY <1>1 DEF IInv, Typed
<1>3. Taken(holder) = n - Len(todo[holder]) - Len(requests)
  BY DEF Taken
<1> HIDE DEF n
<1>4. \A t \in 1..4, l, m \in Nat : t - l - m \in Int /\ t - l - m <= t
  OBVIOUS
<1>5. Taken(holder) \in Int /\ Taken(holder) <= n
  BY <1>1, <1>2, <1>3, <1>4
<1> QED BY <1>1, <1>5 DEF n

\* Before its first packet a request has nothing of the proxy.
LEMMA NotYet ==
  ASSUME NEW c, NEW t \in Int, NEW n \in 1..4, t <= 0, Taken(c)' = t, Len(Asks(c)') = n,
         proxy'.at \in {"recv", "mark"}, replies' = <<>>
  PROVE  Progress(c)' /\ Answered(c)'
<1>1. t \notin 1..n - 1 /\ t # n
  OBVIOUS
<1> QED BY <1>1 DEF Progress, Answered, Torn

LEMMA DetatchSteps ==
  ASSUME IInv, DetatchPid, UNCHANGED <<object, op, todo, holder>> PROVE IInv'
<1> DEFINE c == holder
           v == requests[1].val
           At(i, pid) == requests'[i].type = "DetatchPid" /\ requests'[i].val = pid
<1>1. Takes("DetatchPid")
      /\ UNCHANGED <<runstate, m_pid, m_exitcode, granted, replies, child>>
  BY DEF DetatchPid, object
<1>2. /\ requests # <<>> /\ Val = v /\ requests[1].type = "DetatchPid" /\ v \in Vals
      /\ proxy.at = "recv" /\ replies = <<>>
      /\ requests' \in Seq(Packets) /\ Len(requests') = Len(requests) - 1
      /\ Len(requests) \in Nat /\ Len(requests) >= 1
      /\ \A i \in 1..Len(requests) - 1 : requests'[i] = requests[i + 1]
  BY <1>1, TakenKind
<1>3. \A pid : LeftAt(1, pid) <=> pid = v
  BY <1>2 DEF LeftAt
<1>4. /\ \A i \in 1..Len(requests') : /\ i + 1 \in 1..Len(requests) /\ i + 1 # 1
                                      /\ requests'[i] = requests[i + 1]
      /\ \A j \in 1..Len(requests) : j # 1 => \E i \in 1..Len(requests') : j = i + 1
      /\ 1 \in 1..Len(requests)
  <2>1. \A j \in 1..Len(requests) : j # 1 => j - 1 \in 1..Len(requests') /\ j = (j - 1) + 1
    BY <1>2
  <2> QED BY <1>2, <2>1
<1>5. \A pid : \A i \in 1..Len(requests') : At(i, pid) <=> LeftAt(i + 1, pid)
  BY <1>4 DEF LeftAt
<1> HIDE DEF At, v
<1>6. \A pid \in Pids : (\E i \in 1..Len(requests') : At(i, pid))
                          <=> pid # v /\ \E j \in 1..Len(requests) : LeftAt(j, pid)
  <2> SUFFICES ASSUME NEW pid \in Pids
               PROVE  (\E i \in 1..Len(requests') : At(i, pid))
                        <=> pid # v /\ \E j \in 1..Len(requests) : LeftAt(j, pid)
    OBVIOUS
  <2>1. ASSUME NEW i \in 1..Len(requests'), At(i, pid)
        PROVE  pid # v /\ \E j \in 1..Len(requests) : LeftAt(j, pid)
    <3>1. i + 1 \in 1..Len(requests) /\ LeftAt(i + 1, pid) /\ i + 1 # 1
      BY <1>4, <1>5, <2>1
    <3>2. ~LeftAt(1, pid)
      BY <1>4, <3>1 DEF IInv, Left, Torn
    <3> QED BY <1>3, <3>1, <3>2
  <2>2. ASSUME pid # v, NEW j \in 1..Len(requests), LeftAt(j, pid)
        PROVE  \E i \in 1..Len(requests') : At(i, pid)
    <3>1. j # 1
      BY <1>3, <2>2
    <3>2. PICK i \in 1..Len(requests') : j = i + 1
      BY <1>4, <3>1
    <3> QED BY <1>5, <2>2, <3>2
  <2> QED BY <2>1, <2>2
<1>7. /\ \A i, j \in 1..Len(requests'), pid \in Pids : At(i, pid) /\ At(j, pid) => i = j
      /\ \A i \in 1..Len(requests'), pid \in Pids :
           At(i, pid) => (~Torn(pid) => m_stats[pid].type # "Detatched") /\ pid # v
  <2>1. ASSUME NEW i \in 1..Len(requests'), NEW j \in 1..Len(requests'), NEW pid \in Pids,
               At(i, pid), At(j, pid)
        PROVE  i = j
    <3>1. /\ i + 1 \in 1..Len(requests) /\ LeftAt(i + 1, pid)
          /\ j + 1 \in 1..Len(requests) /\ LeftAt(j + 1, pid)
      BY <1>4, <1>5, <2>1
    <3>2. i + 1 = j + 1
      BY <3>1 DEF IInv, Left, Torn
    <3>3. i \in Int /\ j \in Int
      OBVIOUS
    <3> QED BY <3>2, <3>3
  <2>2. ASSUME NEW i \in 1..Len(requests'), NEW pid \in Pids, At(i, pid)
        PROVE  (~Torn(pid) => m_stats[pid].type # "Detatched") /\ pid # v
    <3>1. i + 1 \in 1..Len(requests) /\ LeftAt(i + 1, pid)
      BY <1>4, <1>5, <2>2
    <3>2. ~Torn(pid) => m_stats[pid].type # "Detatched"
      BY <3>1 DEF IInv, Left, Torn
    <3> QED BY <1>6, <2>2, <3>2
  <2> QED BY <2>1, <2>2
<1>8. proxy'.at \in {"recv", "mark"} => Line'
  <2> SUFFICES ASSUME proxy'.at \in {"recv", "mark"} PROVE Line'
    OBVIOUS
  <2>1. CASE Quiet
    <3>1. \A i \in 1..Len(requests') : requests'[i].type = "DetatchPid"
      BY <1>4, <2>1 DEF IInv, Line
    <3> QED BY <1>1, <1>2, <2>1, <3>1 DEF IInv, Line, Quiet
  <2>2. CASE ~Quiet
    <3>1. /\ Asks(c)' = Asks(c) /\ Len(Asks(c)) \in 1..4 /\ Taken(c) \in Int
          /\ Taken(c)' = Taken(c) + 1 /\ InLine(c)'
          /\ Taken(c) >= 0 => \A i \in 1..Len(requests) : requests[i].type # "DetatchPid"
      BY <1>1, <2>2, LineMoves
    <3>2. ~(Taken(c) >= 0)
      BY <1>2, <1>4, <3>1
    <3> DEFINE t == Taken(c) + 1
               n == Len(Asks(c))
    <3>3. t \in Int /\ t <= 0 /\ n \in 1..4 /\ Taken(c)' = t /\ Len(Asks(c)') = n
      BY <3>1, <3>2
    <3> HIDE DEF t, n
    <3>4. Progress(c)' /\ Answered(c)'
      BY <1>1, <1>2, <3>3, NotYet
    <3> QED BY <1>1, <2>2, <3>1, <3>4 DEF IInv, Line, Quiet
  <2> QED BY <2>1, <2>2
<1>9. \A p \in Procs : ~Told(p)
  BY <1>2 DEF Told
<1>10. \A pid : ~Launching(pid)
  <2>1. Len(<<>>) # 1
    OBVIOUS
  <2> QED BY <1>2, <2>1 DEF Launching
<1>11. CASE v \in Pids /\ m_stats[v].type = "Running"
  <2>1. proxy' = [proxy EXCEPT !.at = "mark", !.pid = v] /\ UNCHANGED m_stats
    BY <1>2, <1>11 DEF DetatchPid
  <2>2. /\ proxy'.at = "mark" /\ proxy'.pid = v
        /\ proxy' \in [at : {"recv", "forked", "insert", "mark"}, cmd : Commands,
                       pid : Pids \cup {NoPid}, known : BOOLEAN]
    BY <1>11, <2>1 DEF IInv, Typed
  <2>3. Left'
    BY <1>1, <1>7, <1>11, <2>1, <2>2 DEF Left, LeftAt, At, Torn
  <2>4. \A pid \in Pids : Leaving(pid)' <=> Leaving(pid)
    <3>1. \A pid \in Pids : Leaving(pid)' <=> (\E i \in 1..Len(requests') : At(i, pid)) \/ v = pid
      BY <2>2 DEF Leaving, LeftAt, At
    <3> QED BY <1>2, <1>3, <1>4, <1>6, <3>1 DEF Leaving
  <2>5. Children'
    BY <1>1, <1>2, <1>9, <1>10, <2>1, <2>4, SameChildren
  <2>6. Typed'
    BY <1>1, <1>2, <2>1, <2>2 DEF IInv, Typed
  <2> QED BY <1>8, <2>2, <2>3, <2>5, <2>6, SameObjects DEF IInv
<1>12. CASE ~(v \in Pids /\ m_stats[v].type = "Running")
  <2>1. /\ m_stats' = (IF v \in Pids THEN Forget(v) ELSE m_stats)
        /\ UNCHANGED proxy
    BY <1>2, <1>12 DEF DetatchPid
  <2>2. m_stats \in [Pids -> [type : Types, code : {0, 1}]]
    BY DEF IInv, Typed
  <2>3. /\ m_stats' \in [Pids -> [type : Types, code : {0, 1}]]
        /\ \A q \in Pids : q # v => m_stats'[q] = m_stats[q]
        /\ v \in Pids => m_stats'[v].type = "None"
    <3>1. CASE v \in Pids
      BY <2>1, <2>2, <3>1 DEF Forget, Types
    <3>2. CASE v \notin Pids
      BY <2>1, <2>2, <3>2
    <3> QED BY <3>1, <3>2
  <2>4. v \in Pids /\ ~Torn(v) => child[v].st \in {"none", "reaped"}
    <3> SUFFICES ASSUME v \in Pids, ~Torn(v) PROVE child[v].st \in {"none", "reaped"}
      OBVIOUS
    <3>1. m_stats[v].type # "Detatched"
      BY <1>3, <1>4 DEF IInv, Left, Torn
    <3>2. Entry(v) /\ m_stats[v].type \in {"None", "Terminated"}
      BY <1>12, <2>2, <3>1 DEF IInv, Children, Types
    <3> QED BY <1>2, <3>2 DEF Entry, Torn
  <2>5. v \in Pids => Leaving(v)
    BY <1>3, <1>4 DEF Leaving
  <2>6. \A pid \in Pids : Leaving(pid)' <=> pid # v /\ Leaving(pid)
    <3>1. \A pid \in Pids : Leaving(pid)' <=> \E i \in 1..Len(requests') : At(i, pid)
      BY <1>2, <2>1 DEF Leaving, LeftAt, At
    <3> QED BY <1>2, <1>6, <3>1 DEF Leaving
  <2>7. \A p \in Procs, q \in Pids : Knows(p, q)' <=> Knows(p, q)
    BY <1>1 DEF Knows
  <2>8. ASSUME NEW q \in Pids PROVE Entry(q)'
    <3>1. CASE q = v
      BY <1>1, <2>3, <2>4, <3>1 DEF Entry, Torn
    <3>2. CASE q # v
      <4>1. Owned(q) => Owned(q)'
        BY <1>10, <2>6, <2>7, <3>2 DEF Owned
      <4>2. Entry(q)
        BY DEF IInv, Children
      <4> QED BY <1>1, <2>1, <2>3, <3>2, <4>1, <4>2 DEF Entry, Torn
    <3> QED BY <3>1, <3>2
  <2>9. ASSUME NEW p \in Procs, NEW q \in Pids, Knows(p, q)' PROVE Known(p, q)'
    <3>1. Known(p, q)
      BY <2>7, <2>9 DEF IInv, Children
    <3>2. q # v
      BY <2>5, <3>1 DEF Known, Torn
    <3> QED BY <1>1, <1>9, <2>3, <2>6, <3>1, <3>2 DEF Known, CommandOf, Torn
  <2>10. Left'
    BY <1>1, <1>2, <1>7, <2>1, <2>3 DEF Left, LeftAt, At, Torn
  <2>11. Typed'
    BY <1>1, <1>2, <2>1, <2>3 DEF IInv, Typed
  <2> QED BY <1>2, <1>8, <2>1, <2>8, <2>9, <2>10, <2>11, SameObjects DEF IInv, Children
<1> QED BY <1>11, <1>12

LEMMA MarkSteps ==
  ASSUME IInv, MarkDetatched, UNCHANGED <<object, op, todo, holder>> PROVE IInv'
<1> DEFINE c == holder
           k == proxy.pid
<1>1. /\ proxy.at = "mark" /\ Command(proxy.cmd)
      /\ m_stats' = [m_stats EXCEPT ![k].type = "Detatched"]
      /\ UNCHANGED <<runstate, m_pid, m_exitcode, granted, requests, replies, child>>
  BY DEF MarkDetatched, object
<1>2. /\ k \in Pids /\ (~Torn(k) => m_stats[k].type = "Running")
      /\ \A i \in 1..Len(requests) : ~LeftAt(i, k)
      /\ Leaving(k)
  BY <1>1 DEF IInv, Left, Leaving, Torn
<1>3. /\ proxy'.at = "recv"
      /\ proxy' \in [at : {"recv", "forked", "insert", "mark"}, cmd : Commands,
                     pid : Pids \cup {NoPid}, known : BOOLEAN]
  <2>1. proxy.cmd \in Commands
    BY DEF IInv, Typed
  <2> QED BY <1>1, <2>1 DEF Command, Idle
<1> HIDE DEF k
<1>4. /\ m_stats' \in [Pids -> [type : Types, code : {0, 1}]]
      /\ m_stats'[k].type = "Detatched" /\ \A q \in Pids : q # k => m_stats'[q] = m_stats[q]
  <2>1. m_stats \in [Pids -> [type : Types, code : {0, 1}]]
    BY DEF IInv, Typed
  <2> QED BY <1>1, <1>2, <2>1 DEF Types
<1>5. replies = <<>> /\ Line'
  <2>1. CASE Quiet
    BY <1>1, <1>3, <2>1 DEF IInv, Line, Quiet
  <2>2. CASE ~Quiet
    <3>1. InLine(c) /\ Progress(c) /\ Answered(c)
      BY <2>2 DEF IInv, Line
    <3> DEFINE t == Taken(c)
               n == Len(Asks(c))
    <3>2. t \in Int /\ n \in 1..4 /\ t <= n
      BY <2>2, TakenBound
    <3>3. Taken(c)' = t /\ Len(Asks(c)') = n /\ Asks(c)' = Asks(c)
      BY <1>1 DEF Taken, Asks, PacketsOf
    <3>4. t \notin 1..n - 1 /\ t # n /\ (t < n => replies = <<>>)
      BY <1>1, <3>1 DEF Progress
    <3> HIDE DEF t, n
    <3>5. t <= 0 /\ replies = <<>>
      BY <3>2, <3>4
    <3>6. Progress(c)' /\ Answered(c)'
      BY <1>1, <1>3, <3>2, <3>3, <3>5, NotYet
    <3>7. InLine(c)'
      BY <1>1, <3>1, <3>3 DEF InLine, t
    <3> QED BY <1>1, <2>2, <3>5, <3>6, <3>7 DEF IInv, Line, Quiet
  <2> QED BY <2>1, <2>2
<1>6. Left'
  BY <1>1, <1>2, <1>3, <1>4 DEF IInv, Left, LeftAt, Torn
<1>7. \A q \in Pids : q # k => (Leaving(q)' <=> Leaving(q))
  BY <1>1, <1>3 DEF Leaving, LeftAt, k
<1>8. \A p \in Procs, q \in Pids : Knows(p, q)' <=> Knows(p, q)
  BY <1>1 DEF Knows
<1>9. \A pid : ~Launching(pid)
  <2>1. Len(<<>>) # 1
    OBVIOUS
  <2> QED BY <1>1, <1>5, <2>1 DEF Launching
<1>10. ASSUME NEW q \in Pids PROVE Entry(q)'
  <2>1. Entry(q)
    BY DEF IInv, Children
  <2>2. CASE q = k
    BY <1>1, <1>2, <1>4, <2>1, <2>2 DEF Entry, Torn
  <2>3. CASE q # k
    <3>1. Owned(q) => Owned(q)'
      BY <1>7, <1>8, <1>9, <2>3 DEF Owned
    <3> QED BY <1>1, <1>3, <1>4, <2>1, <2>3, <3>1 DEF Entry, Torn
  <2> QED BY <2>2, <2>3
<1>11. ASSUME NEW p \in Procs, NEW q \in Pids, Knows(p, q)' PROVE Known(p, q)'
  <2>1. Known(p, q)
    BY <1>8, <1>11 DEF IInv, Children
  <2>2. q # k
    BY <1>2, <2>1 DEF Known, Torn
  <2>3. Told(p) => Told(p)'
    BY <1>1 DEF Told
  <2> QED BY <1>1, <1>4, <1>7, <2>1, <2>2, <2>3 DEF Known, CommandOf, Torn
<1>12. Typed'
  BY <1>1, <1>3, <1>4 DEF IInv, Typed
<1> QED BY <1>5, <1>6, <1>10, <1>11, <1>12, SameObjects DEF IInv, Children

Reaped(ch, k, b) == [ch EXCEPT ![k].st = "reaped", ![k].torn = @ \/ b]

LEMMA Collected ==
  ASSUME NEW ch \in [Pids -> Child], NEW k \in Pids, NEW b \in BOOLEAN
  PROVE  /\ Reaped(ch, k, b) \in [Pids -> Child] /\ Reaped(ch, k, b)[k].st = "reaped"
         /\ Reaped(ch, k, b)[k].cmd = ch[k].cmd /\ Reaped(ch, k, b)[k].code = ch[k].code
         /\ Reaped(ch, k, b)[k].torn <=> ch[k].torn \/ b
         /\ \A q \in Pids : q # k => Reaped(ch, k, b)[q] = ch[q]
<1> DEFINE new == Reaped(ch, k, b)
<1>1. ch[k] \in Child /\ (ch[k].torn \/ b) \in BOOLEAN
  BY DEF Child
<1>2. new[k] = [ch[k] EXCEPT !.st = "reaped", !.torn = @ \/ b]
  BY DEF Reaped
<1>3. new[k] \in Child /\ new[k].st = "reaped" /\ new[k].cmd = ch[k].cmd
      /\ new[k].code = ch[k].code /\ new[k].torn = (ch[k].torn \/ b)
  BY <1>1, <1>2 DEF Child
<1>4. \A q \in Pids : q # k => new[q] = ch[q]
  BY DEF Reaped
<1>5. new \in [Pids -> Child]
  BY <1>3, <1>4 DEF Reaped
<1> QED BY <1>3, <1>4, <1>5

(* The handler collects a child: what it finds of it, unless it comes between*)
(* a lookup and its store.                                                   *)
LEMMA HandlerSteps ==
  ASSUME IInv, NEW k \in Pids, HandleSIGCHLD(k) PROVE IInv'
<1> DEFINE c == holder
<1> DEFINE between == proxy.at \in {"insert", "mark"} /\ proxy.pid = k
<1>1. /\ child[k].st = "zombie"
      /\ child' = [child EXCEPT ![k].st = "reaped", ![k].torn = @ \/ between]
      /\ process_terminated(k)
      /\ UNCHANGED <<runstate, m_pid, m_exitcode, granted, op, todo, holder, requests, replies,
                     proxy>>
  BY DEF HandleSIGCHLD, object, wire
<1>2. /\ child \in [Pids -> Child] /\ m_stats \in [Pids -> [type : Types, code : {0, 1}]]
  BY DEF IInv, Typed, Child
<1>3. /\ child' \in [Pids -> Child] /\ child'[k].st = "reaped"
      /\ child'[k].cmd = child[k].cmd /\ child'[k].code = child[k].code
      /\ child[k].code \in {0, 1}
      /\ \A q \in Pids : child'[q].cmd = child[q].cmd
      /\ \A q \in Pids : q # k => child'[q] = child[q]
      /\ \A q \in Pids : ~Torn(q)' => ~Torn(q)
      /\ ~Torn(k)' => ~between
  <2>1. between \in BOOLEAN
    OBVIOUS
  <2> HIDE DEF between
  <2>2. /\ child' \in [Pids -> Child] /\ child'[k].st = "reaped"
        /\ child'[k].cmd = child[k].cmd /\ child'[k].code = child[k].code
        /\ child'[k].torn <=> child[k].torn \/ between
        /\ \A q \in Pids : q # k => child'[q] = child[q]
    <3>1. child' = Reaped(child, k, between)
      BY <1>1 DEF Reaped
    <3> QED BY <1>2, <2>1, <3>1, Collected
  <2> QED BY <1>2, <2>2 DEF Child, Torn
<1>4. /\ m_stats[k].type \in {"Running", "None"} =>
           m_stats'[k].type = "Terminated" /\ m_stats'[k].code = child[k].code
      /\ m_stats[k].type \notin {"Running", "None"} => m_stats'[k].type = "None"
      /\ \A q \in Pids : q # k => m_stats'[q] = m_stats[q]
      /\ m_stats' \in [Pids -> [type : Types, code : {0, 1}]]
  <2>1. CASE m_stats[k].type \in {"Running", "None"}
    <3>1. m_stats' = [m_stats EXCEPT ![k] = [type |-> "Terminated", code |-> child[k].code]]
      BY <1>1, <2>1 DEF process_terminated
    <3> QED BY <1>2, <1>3, <2>1, <3>1 DEF Types
  <2>2. CASE m_stats[k].type \notin {"Running", "None"}
    <3>1. m_stats' = [m_stats EXCEPT ![k] = [type |-> "None", code |-> 0]]
      BY <1>1, <2>2 DEF process_terminated, Forget
    <3> QED BY <1>2, <2>2, <3>1 DEF Types
  <2> QED BY <2>1, <2>2
<1>5. ~Torn(k)' =>
        /\ m_stats[k].type \in {"Running", "None", "Detatched"}
        /\ m_stats[k].type = "Running" => Owned(k)
        /\ m_stats[k].type = "None" => proxy.at = "forked" /\ proxy.pid = k /\ Owned(k)
  <2> SUFFICES ASSUME ~Torn(k)'
               PROVE  /\ m_stats[k].type \in {"Running", "None", "Detatched"}
                      /\ m_stats[k].type = "Running" => Owned(k)
                      /\ m_stats[k].type = "None" =>
                           proxy.at = "forked" /\ proxy.pid = k /\ Owned(k)
    OBVIOUS
  <2>1. Entry(k) /\ m_stats[k].type \in Types
    BY <1>2 DEF IInv, Children
  <2>2. ~Torn(k) /\ ~between
    BY <1>3
  <2> QED BY <1>1, <2>1, <2>2 DEF Entry, Types, Owned, Launching
<1>6. Asks(c)' = Asks(c) /\ Taken(c)' = Taken(c) /\ Quiet' = Quiet
  BY <1>1 DEF Asks, PacketsOf, Taken, Quiet
<1>7. Line'
  <2>1. CASE Quiet
    BY <1>1, <1>6, <2>1 DEF IInv, Line
  <2>2. CASE ~Quiet
    <3>1. InLine(c) /\ Progress(c) /\ Answered(c)
      BY <2>2 DEF IInv, Line
    <3>2. InLine(c)' /\ Progress(c)'
      BY <1>1, <1>6, <3>1 DEF InLine, Progress
    <3>3. Answered(c)'
      <4>1. CASE Taken(c) # Len(Asks(c))
        BY <1>6, <4>1 DEF Answered, Torn
      <4>2. CASE Taken(c) = Len(Asks(c)) /\ proxy.at # "recv"
        <5> DEFINE q == proxy.pid
        <5>1. /\ op[c] = "launch" /\ replies = <<>> /\ proxy.cmd = CommandOf(c)
              /\ Started(c, q)
              /\ ~Torn(q) => Entering(q)
          BY <3>1, <4>2 DEF Answered
        <5> HIDE DEF q
        <5>2. q \in Pids /\ child'[q].cmd = CommandOf(c)
          BY <1>3, <5>1 DEF Started
        <5>3. ~Torn(q)' => Entering(q)'
          <6> SUFFICES ASSUME ~Torn(q)' PROVE Entering(q)'
            OBVIOUS
          <6>1. Entering(q)
            BY <1>1, <1>3, <5>1, <5>2 DEF q
          <6>2. CASE q = k
            <7>1. m_stats'[k].type = "Terminated" /\ proxy.at # "insert"
              BY <1>1, <1>3, <1>4, <1>5, <6>1, <6>2 DEF Entering, Torn, q
            <7> QED BY <1>1, <6>2, <7>1 DEF Entering, q
          <6>3. CASE q # k
            BY <1>1, <1>3, <1>4, <5>2, <6>1, <6>3 DEF Entering, q
          <6> QED BY <6>2, <6>3
        <5> QED BY <1>1, <1>6, <4>2, <5>1, <5>2, <5>3 DEF Answered, Started, CommandOf, q
      <4>3. CASE Taken(c) = Len(Asks(c)) /\ proxy.at = "recv"
        <5> DEFINE r == replies[1]
        <5>1. /\ Len(replies) = 1
              /\ op[c] = "launch" /\ r.type = "LaunchedOk" =>
                   /\ Started(c, r.val)
                   /\ ~Torn(r.val) => m_stats[r.val].type \in {"Running", "Terminated"}
              /\ op[c] = "check" => r.type \in {"CheckedRunning", "CheckedTerminated"}
              /\ op[c] = "check" /\ r.type = "CheckedTerminated" =>
                   /\ m_pid[c] \in Pids /\ r.val \in {0, 1}
                   /\ ~Torn(m_pid[c]) =>
                        /\ child[m_pid[c]].st = "reaped" /\ r.val = child[m_pid[c]].code
                        /\ m_stats[m_pid[c]].type = "None"
              /\ op[c] = "verify" =>
                   r.type = "VerifyResult" /\ r.val = IF c \in Right THEN 1 ELSE 0
          BY <3>1, <4>3 DEF Answered
        <5>2. op[c] = "launch" /\ r.type = "LaunchedOk" =>
                /\ r.val \in Pids /\ child'[r.val].cmd = CommandOf(c)
                /\ ~Torn(r.val)' => m_stats'[r.val].type \in {"Running", "Terminated"}
          <6> SUFFICES ASSUME op[c] = "launch", r.type = "LaunchedOk"
                       PROVE  /\ r.val \in Pids /\ child'[r.val].cmd = CommandOf(c)
                              /\ ~Torn(r.val)' => m_stats'[r.val].type \in {"Running", "Terminated"}
            OBVIOUS
          <6>1. r.val \in Pids /\ child'[r.val].cmd = CommandOf(c)
            BY <1>3, <5>1 DEF Started
          <6>2. ~Torn(r.val)' => m_stats[r.val].type \in {"Running", "Terminated"}
            BY <1>1, <1>3, <5>1, <6>1 DEF Torn
          <6> QED BY <1>1, <1>3, <1>4, <1>5, <6>1, <6>2 DEF Torn
        <5>3. op[c] = "check" /\ r.type = "CheckedTerminated" /\ ~Torn(m_pid[c])' =>
                /\ child'[m_pid[c]].st = "reaped" /\ r.val = child'[m_pid[c]].code
                /\ m_stats'[m_pid[c]].type = "None"
          <6> SUFFICES ASSUME op[c] = "check", r.type = "CheckedTerminated", ~Torn(m_pid[c])'
                       PROVE  /\ child'[m_pid[c]].st = "reaped" /\ r.val = child'[m_pid[c]].code
                              /\ m_stats'[m_pid[c]].type = "None"
            OBVIOUS
          <6>1. m_pid[c] \in Pids /\ ~Torn(m_pid[c])
            <7>1. m_pid[c] \in Pids
              BY <5>1
            <7>2. Torn(m_pid[c])' <=> child'[m_pid[c]].torn
              BY <1>1 DEF Torn
            <7> QED BY <1>3, <7>1, <7>2 DEF Torn
          <6>2. child[m_pid[c]].st = "reaped" /\ m_pid[c] # k
            BY <1>1, <5>1, <6>1
          <6> QED BY <1>1, <1>3, <1>4, <5>1, <6>1, <6>2
        <5> QED BY <1>1, <1>6, <4>3, <5>1, <5>2, <5>3 DEF Answered, Started, CommandOf
      <4> QED BY <4>1, <4>2, <4>3
    <3> QED BY <1>1, <1>6, <2>2, <3>2, <3>3 DEF IInv, Line, Quiet
  <2> QED BY <2>1, <2>2
<1>8. Left'
  <2>1. \A pid \in Pids : ~Torn(pid)' /\ m_stats[pid].type # "Detatched"
                             => ~Torn(pid) /\ m_stats'[pid].type # "Detatched"
    BY <1>3, <1>4
  <2>2. \A i \in 1..Len(requests), pid \in Pids :
          LeftAt(i, pid) /\ ~Torn(pid)' => m_stats'[pid].type # "Detatched"
    BY <1>3, <2>1 DEF IInv, Left
  <2>3. proxy.at = "mark" => /\ proxy.pid \in Pids
                             /\ ~Torn(proxy.pid)' => m_stats'[proxy.pid].type = "Running"
    <3> SUFFICES ASSUME proxy.at = "mark"
                 PROVE  /\ proxy.pid \in Pids
                        /\ ~Torn(proxy.pid)' => m_stats'[proxy.pid].type = "Running"
      OBVIOUS
    <3>1. proxy.pid \in Pids /\ (~Torn(proxy.pid) => m_stats[proxy.pid].type = "Running")
      BY DEF IInv, Left
    <3>2. UNCHANGED proxy
      BY <1>1
    <3> DEFINE q == proxy.pid
    <3>3. ~Torn(q)' => q # k /\ ~Torn(q)
      BY <1>1, <1>3, <3>1
    <3> QED BY <1>4, <3>1, <3>2, <3>3
  <2> QED BY <1>1, <2>2, <2>3 DEF IInv, Left, LeftAt, Torn
<1>9. \A p \in Procs, q \in Pids : Knows(p, q)' <=> Knows(p, q)
  BY <1>1 DEF Knows
<1>10. \A q \in Pids : (Leaving(q)' <=> Leaving(q)) /\ (Owned(q)' <=> Owned(q))
  BY <1>1, <1>9 DEF Leaving, LeftAt, Launching, Owned
<1>11. ASSUME NEW q \in Pids PROVE Entry(q)'
  <2>1. Entry(q)
    BY DEF IInv, Children
  <2>2. CASE q = k
    <3> SUFFICES ASSUME ~Torn(k)' PROVE Entry(k)'
      BY <2>2 DEF Entry
    <3>1. child'[k].st = "reaped" /\ child'[k].code = child[k].code
      BY <1>3
    <3>2. CASE m_stats[k].type \in {"Running", "None"}
      <4>1. m_stats'[k].type = "Terminated" /\ m_stats'[k].code = child[k].code /\ Owned(k)'
        BY <1>4, <1>5, <1>10, <3>2
      <4> QED BY <3>1, <4>1 DEF Entry
    <3>3. CASE m_stats[k].type \notin {"Running", "None"}
      BY <1>4, <3>1, <3>3 DEF Entry
    <3> QED BY <3>2, <3>3
  <2>3. CASE q # k
    BY <1>1, <1>3, <1>4, <1>10, <2>1, <2>3 DEF Entry, Torn
  <2> QED BY <2>2, <2>3
<1>12. ASSUME NEW p \in Procs, NEW q \in Pids, Knows(p, q)' PROVE Known(p, q)'
  <2>1. Known(p, q)
    BY <1>9, <1>12 DEF IInv, Children
  <2>2. Told(p) <=> Told(p)'
    BY <1>1 DEF Told
  <2>3. CASE q = k
    <3>1. ~Torn(k)' => m_exitcode[p] = -1 /\ m_stats'[k].type = "Terminated"
      BY <1>1, <1>3, <1>4, <1>5, <2>1, <2>3 DEF Known
    <3>2. ~Leaving(k)' /\ child'[k].cmd = CommandOf(p)
      BY <1>3, <1>10, <2>1, <2>3 DEF Known
    <3> QED BY <1>1, <2>3, <3>1, <3>2 DEF Known, CommandOf
  <2>4. CASE q # k
    BY <1>1, <1>3, <1>4, <1>10, <2>1, <2>2, <2>4 DEF Known, CommandOf, Torn
  <2> QED BY <2>3, <2>4
<1>13. Typed'
  BY <1>1, <1>3, <1>4 DEF IInv, Typed, Child
<1>14. Objects'
  BY <1>1 DEF IInv, Objects
<1> QED BY <1>7, <1>8, <1>11, <1>12, <1>13, <1>14 DEF IInv, Children

-----------------------------------------------------------------------------
LEMMA ProxySteps == ASSUME IInv, ProxyStep PROVE IInv'
  BY CommandSteps, LaunchReadySteps, FindStatSteps, InsertSteps, CheckPidSteps,
     DetatchSteps, MarkSteps, VerifyPasswordSteps DEF ProxyStep

LEMMA StutterSteps == ASSUME IInv, UNCHANGED vars PROVE IInv'
<1>1. UNCHANGED <<runstate, m_pid, m_exitcode, granted, op, todo, holder, requests, replies,
                  proxy, m_stats, child>>
  BY DEF vars
<1>2. Typed' /\ Objects' /\ Left'
  BY <1>1 DEF IInv, Typed, Objects, Left, LeftAt, Torn
<1>3. Children'
  BY <1>1 DEF IInv, Children, Entry, Torn, Known, Knows, Told, Owned, Leaving, Launching, LeftAt,
              CommandOf
<1>4. Asks(holder)' = Asks(holder) /\ Taken(holder)' = Taken(holder) /\ Quiet' = Quiet
  BY <1>1 DEF Asks, PacketsOf, Taken, Quiet
<1>5. Line'
  <2>1. CASE Quiet
    BY <1>1, <1>4, <2>1 DEF IInv, Line
  <2>2. CASE ~Quiet
    <3>1. InLine(holder) /\ Progress(holder) /\ Answered(holder)
      BY <2>2 DEF IInv, Line
    <3>2. InLine(holder)' /\ Progress(holder)'
      BY <1>1, <1>4, <3>1 DEF InLine, Progress
    <3>3. Answered(holder)'
      BY <1>1, <1>4, <3>1 DEF Answered, Entering, Started, CommandOf, Torn
    <3> QED BY <1>1, <1>4, <2>2, <3>2, <3>3 DEF IInv, Line
  <2> QED BY <2>1, <2>2
<1> QED BY <1>2, <1>3, <1>5 DEF IInv

LEMMA NextIInv == ASSUME IInv, [Next]_vars PROVE IInv'
<1>1. ASSUME NEW c \in Clients, Send(c) PROVE IInv'
  BY <1>1, SendSteps, SendLast
<1> QED BY <1>1, ObjectSteps, VerifySteps, LockSteps, ReceiveSteps, ProxySteps, ChildSteps,
           HandlerSteps, StutterSteps DEF Next

(* What the requests, the answers and the entries of m_stats have to do with *)
(* each other: one request is on the line at a time, behind the last packets *)
(* of deleted objects; an answer waits only for the one who asked; an entry  *)
(* says of a child what is so as long as anyone can ask for it.              *)
THEOREM LineIsKept == Spec => []IInv
<1>1. IInv /\ [Next]_vars => IInv'
  BY NextIInv
<1> QED BY <1>1, InitIInv, PTL DEF Spec

(* What a caller of launch(), get_exitcode() or verify_system_password() is  *)
(* told is about its own request, its own child and its own password,        *)
(* however the requests of the threads, the ends of the children and the     *)
(* deletion of objects come together; an exit code only where the handler has*)
(* never come between a lookup of the process id and its store.              *)
THEOREM OwnAnswers == Spec => []AnswersAreOwn
<1>1. IInv => AnswersAreOwn
  <2> SUFFICES ASSUME IInv PROVE AnswersAreOwn
    OBVIOUS
  <2>1. ASSUME NEW p \in Procs, runstate[p] # "Deleted", m_pid[p] # NoPid
        PROVE  /\ child[m_pid[p]].cmd = CommandOf(p)
               /\ m_exitcode[p] # -1 /\ ~child[m_pid[p]].torn =>
                    /\ child[m_pid[p]].st = "reaped"
                    /\ m_exitcode[p] = child[m_pid[p]].code
    <3>1. m_pid[p] \in Pids /\ Knows(p, m_pid[p])
      BY <2>1 DEF IInv, Typed, Knows
    <3>2. Known(p, m_pid[p])
      BY <3>1 DEF IInv, Children
    <3> QED BY <3>2 DEF Known, Torn
  <2>2. \A u \in Users : granted[u] # "none" => (granted[u] = "yes" <=> u \in Right)
    BY DEF IInv, Objects
  <2> QED BY <2>1, <2>2 DEF AnswersAreOwn
<1> QED BY <1>1, LineIsKept, PTL

(* An object that still believes that its child runs, when the handler has   *)
(* collected it, will be told: the end is lost only if the handler came      *)
(* between the lookup of this process id and its store.                      *)
THEOREM ExitsAreKept == Spec => []ExitIsKept
<1>1. IInv => ExitIsKept
  <2> SUFFICES ASSUME IInv, NEW p \in Procs, m_pid[p] \in Pids, ~child[m_pid[p]].torn,
                      runstate[p] = "Running", op[p] # "detatch",
                      child[m_pid[p]].st = "reaped"
               PROVE  \/ m_stats[m_pid[p]].type = "Terminated"
                      \/ op[p] = "check" /\ \E i \in DOMAIN replies :
                                              replies[i].type = "CheckedTerminated"
    BY DEF ExitIsKept, Kept
  <2> DEFINE k == m_pid[p]
  <2>1. Knows(p, k)
    BY DEF Knows
  <2>2. Known(p, k) /\ Entry(k) /\ m_stats[k].type \in Types
    BY <2>1 DEF IInv, Children, Typed
  <2>3. m_stats[k].type \in {"None", "Terminated"}
    BY <2>2 DEF Entry, Known, Torn, Types
  <2>4. CASE m_stats[k].type = "None"
    <3>1. Told(p)
      BY <2>2, <2>4 DEF Known, Torn
    <3>2. 1 \in DOMAIN replies
      BY <3>1 DEF IInv, Typed, Told
    <3> QED BY <3>1, <3>2 DEF Told
  <2> QED BY <2>3, <2>4
<1> QED BY <1>1, LineIsKept, PTL

=============================================================================
