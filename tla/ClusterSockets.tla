---------------------------- MODULE ClusterSockets ----------------------------
(***************************************************************************)
(* How the messages of labs reach the server from its docker hosts.  The   *)
(* containers of a lab share a directory of their host with it, and wait   *)
(* for lab.sock to appear there before they run their command.  start_lab  *)
(* leaves that to a shell it does not wait for: once the messenger has     *)
(* bound the lab's socket on the server, the shell opens an ssh tunnel to  *)
(* every host and notes the newest matching process in a pid file.         *)
(* stop_lab kills what the pid files name and removes the directory, but   *)
(* only on the hosts the lab has rows for.                                 *)
(*                                                                         *)
(* Requests do not wait for the shell of an earlier start: several shells  *)
(* may be at work, and a request under way.  Nobody looks at how an ssh    *)
(* call ends, and pid files and processes are told apart by less than the  *)
(* name of the lab.                                                        *)
(***************************************************************************)
EXTENDS ClusterLab, Sequences, FiniteSetsExt

CONSTANTS
  NoHost,    \* the shell is between two hosts
  PortsLike, \* PortsLike[h]: hosts whose ssh port begins with the digits of that of h
  MaxStarts, \* bound: shells started in a behaviour
  MaxMissed  \* bound: sockets of labs on hosts that a failed ssh call has left wrong

ASSUME NoHostAssumption == NoHost \notin Hosts
ASSUME PortsAssumption ==
  PortsLike \in [Hosts -> SUBSET Hosts] /\ \A h \in Hosts : h \in PortsLike[h]
ASSUME StartsAssumption == MaxStarts \in Nat \ {0} /\ MaxMissed \in Nat

VARIABLES
  server,   \* labs whose lab.sock exists on the server
  procs,    \* the shells and ssh clients of the server, in the order they started
  live,     \* pids of those that still run
  pidfile,  \* the pid in /var/run/ssh.<prefix>_<host>.pid, 0 before the first
  files,    \* labs and hosts: where a file lab.sock exists
  serving,  \* the ssh client that answers at that file, 0 if none does
  working,  \* containers, by host, that have begun to run the lab's command
  stray,    \* history: where there may be a file which no stop removes in time
  missed,   \* history: where the ssh call that was to make or remove the file failed
  silenced, \* history: labs that another lab's stop has killed a process of
  overlapped \* history: whether a request began while a shell was at work

sockets == <<server, procs, live, pidfile, files, serving, stray, missed, silenced>>
allVars == <<vars, sockets, working, overlapped>>

Site == Labs \X Hosts
Pids == DOMAIN procs
ShellToFirst(l) ==
  [kind |-> "shell", lab |-> l, host |-> NoHost, waiting |-> TRUE, left |-> {FirstHost}]
Shell(l) == [kind |-> "shell", lab |-> l, host |-> NoHost, waiting |-> TRUE, left |-> Hosts]
Ssh(l, h) == [kind |-> "ssh", lab |-> l, host |-> h, waiting |-> FALSE, left |-> {}]
Shells == {p \in Pids : procs[p].kind = "shell"}
ShellsAtWork == Shells \cap live

SocketsInit ==
  /\ Init
  /\ server = {}
  /\ procs = <<>> /\ live = {}
  /\ pidfile = [x \in Site |-> 0]
  /\ files = {} /\ serving = [x \in Site |-> 0]
  /\ working = {} /\ stray = {} /\ missed = {} /\ silenced = {} /\ overlapped = FALSE

-----------------------------------------------------------------------------
\* Requests, with what they do to sockets and tunnels.

\* stop_lab first kills what the pid files name, be it alive or not; it finds the
\* files by the lab's prefix, with which those of other labs may begin too.
KillRecorded(l) ==
  /\ live' = live \ {pidfile[x] : x \in Extensions[l] \X Hosts}
  /\ serving' = [x \in Site |-> IF serving[x] \in live' THEN serving[x] ELSE 0]
  /\ silenced' = silenced \cup ({procs[q].lab : q \in live \ live'} \ {l})
  /\ UNCHANGED <<server, procs, pidfile, files, stray, missed, working>>

\* start_lab first removes the lab's directory on the server.
RemoveServerSocket(l) ==
  /\ server' = server \ {l}
  /\ UNCHANGED <<procs, live, pidfile, files, serving, stray, missed, silenced, working>>

Overlap == overlapped' = (overlapped \/ ShellsAtWork # {})

SocketRequest(l) ==
  /\ Cardinality(Shells) < MaxStarts
  /\ Restart(l)
  /\ IF l \in labRows THEN KillRecorded(l) ELSE RemoveServerSocket(l)
  /\ Overlap

SocketStop(l) == Stop(l) /\ KillRecorded(l) /\ Overlap

SocketSplitAgain == SplitAgain /\ RemoveServerSocket(op.lab) /\ UNCHANGED overlapped

\* An ssh call about lab.sock at x fails, which nobody sees.
MayMiss == Cardinality(missed) < MaxMissed
Miss(x) == MayMiss /\ missed' = missed \cup {x}

ForgetSocketFile(h) ==
  /\ RemoveSockets(h)
  /\ stray' = stray \ {<<op.lab, h>>} /\ missed' = missed \ {<<op.lab, h>>}
  /\ UNCHANGED <<server, procs, live, pidfile, files, serving, silenced, working, overlapped>>
RemoveSocketFile(h) ==
  LET x == <<op.lab, h>>
  IN  /\ RemoveSockets(h)
      /\ \/ /\ files' = files \ {x} /\ serving' = [serving EXCEPT ![x] = 0]
            /\ stray' = stray \ {x} /\ missed' = missed \ {x}
         \/ Miss(x) /\ UNCHANGED <<files, serving, stray>>
      /\ UNCHANGED <<server, procs, live, pidfile, silenced, working, overlapped>>

RemoveWorking(h, c) ==
  /\ RemoveContainer(h, c)
  /\ working' = working \ {<<h, c>>}
  /\ UNCHANGED <<sockets, overlapped>>

\* forward_socket leaves a shell behind; Messenger then binds lab.sock.
Unused == {h \in Hosts : \A n \in Members[op.lab] : op.place[n] # h}
ForwardSocket ==
  /\ StartReturns
  /\ procs' = Append(procs, Shell(op.lab))
  /\ live' = live \cup {Len(procs')}
  /\ server' = server \cup {op.lab}
  /\ stray' = stray \cup {op.lab} \X Unused
  /\ silenced' = silenced \ {op.lab}
  /\ UNCHANGED <<pidfile, files, serving, missed, working, overlapped>>

OtherStep ==
  /\ \/ \E h \in Hosts, m \in Nets : RemoveNetwork(h, m) \/ CreateNetwork(h, m)
     \/ \E h \in Hosts : BeginHost(h)
     \/ \E n \in Nodes : CreateContainer(n) \/ \E m \in Nets : Join(n, m)
     \/ SetupVpn
     \/ StopReturns
     \/ Abort
  /\ UNCHANGED <<sockets, working, overlapped>>

-----------------------------------------------------------------------------
\* A shell of forward_socket, and the containers.

SocketFound(p) ==
  /\ p \in ShellsAtWork /\ procs[p].waiting /\ procs[p].lab \in server
  /\ procs' = [procs EXCEPT ![p].waiting = FALSE]
  /\ UNCHANGED <<vars, server, live, pidfile, files, serving, stray, missed, silenced>>
  /\ UNCHANGED <<working, overlapped>>

\* A client answers at the file it makes; where there is one already, or it cannot be
\* made, it runs all the same; or ssh fails.  The shell goes on in any case.
RunClient(p, h, moved) ==
  /\ procs' = Append(moved, Ssh(procs[p].lab, h))
  /\ live' = live \cup {Len(procs')}
\* A file made after the start of its shell is over is a stray one.
Bind(x, pid) ==
  /\ x \notin files
  /\ files' = files \cup {x} /\ serving' = [serving EXCEPT ![x] = pid]
  /\ missed' = missed \ {x}
  /\ stray' = IF op.lab = x[1] \/ x[1] \notin labRows THEN stray \cup {x} ELSE stray
MakeNoFile(x) ==
  /\ IF x \in files THEN missed' = missed ELSE Miss(x)
  /\ UNCHANGED <<files, serving, stray>>

\* Host by host.
OpenTunnel(p, h) ==
  LET x == <<procs[p].lab, h>>
      moved == [procs EXCEPT ![p].host = h, ![p].left = @ \ {h}]
  IN  /\ p \in ShellsAtWork /\ ~procs[p].waiting
      /\ procs[p].host = NoHost /\ h \in procs[p].left
      /\ FirstHost \in procs[p].left => h = FirstHost
      /\ \/ RunClient(p, h, moved) /\ (Bind(x, Len(procs')) \/ MakeNoFile(x))
         \/ MayMiss /\ procs' = moved /\ live' = live /\ MakeNoFile(x)
      /\ UNCHANGED <<vars, server, pidfile, silenced, working, overlapped>>

\* pgrep -f -n: a shell has the command line of every ssh it is to start in its own,
\* and the pattern names no lab.
Matching(h) == {q \in live : procs[q].kind = "shell" \/ procs[q].host \in PortsLike[h]}
OldestMatch(h) == Min(Matching(h))
NewestMatch(h) == Max(Matching(h))
RecordPid(p, h) ==
  /\ p \in ShellsAtWork /\ procs[p].host = h
  /\ pidfile' = [pidfile EXCEPT ![<<procs[p].lab, h>>] = NewestMatch(h)]
  /\ procs' = [procs EXCEPT ![p].host = NoHost]
  /\ live' = IF procs[p].left = {} THEN live \ {p} ELSE live
  /\ UNCHANGED <<vars, server, files, serving, stray, missed, silenced, working, overlapped>>

\* Routers wait for nothing.
Waiting == {c \in Container : c[2] \in Members[c[1]] \ Routers}
RunCommand(h, c) ==
  /\ c \in containers[h] /\ <<c[1], h>> \in files
  /\ <<h, c>> \notin working
  /\ working' = working \cup {<<h, c>>}
  /\ UNCHANGED <<vars, sockets, overlapped>>

ShellStep ==
  \E p \in Shells :
    SocketFound(p) \/ \E h \in Hosts : OpenTunnel(p, h) \/ RecordPid(p, h)

SocketsNext ==
  \/ \E l \in Labs : SocketRequest(l) \/ SocketStop(l)
  \/ \E h \in Hosts : RemoveSocketFile(h)
  \/ \E h \in Hosts, c \in Container : RemoveWorking(h, c)
  \/ \E h \in Hosts, c \in Waiting : RunCommand(h, c)
  \/ SocketSplitAgain
  \/ ForwardSocket
  \/ OtherStep
  \/ ShellStep

SocketsSpec == SocketsInit /\ [][SocketsNext]_allVars

\* The shells and the entry points of the containers are processes of their own.
FairSockets ==
  /\ SocketsSpec
  /\ WF_procs(ShellStep)
  /\ \A h \in Hosts, c \in Waiting : WF_working(RunCommand(h, c))

-----------------------------------------------------------------------------
\* Properties.  Each excepts by name what an ssh call that failed unseen has left
\* (missed); HostsServed and CommandsRun also the labs another lab's stop has silenced.

\* A start is never overtaken by its lab: as long as a request creates containers none
\* of them runs the lab's command, except on hosts a stray file was left on.
CommandsWait ==
  op.stage \in {"split", "start"} /\ Sound(op.lab) =>
    \A x \in working : x[2][1] = op.lab => <<op.lab, x[1]>> \in stray \cup missed

\* Once the shells are done, the file of a lab on every host that runs containers of
\* it is one a live tunnel answers at, however requests and shells have overlapped.
Settled == op = NoRequest /\ ShellsAtWork = {}
HostsServed ==
  Settled => \A h \in Hosts : \A c \in containers[h] :
    Sound(c[1]) => \/ <<c[1], h>> \in stray \cup missed \/ c[1] \in silenced
                   \/ serving[<<c[1], h>>] \in live

\* If no request ever began while a shell was at work, every request finds each
\* tunnel of its lab by the pid files, though some ssh calls have failed: none is left
\* once it has begun.
NoLeaks ==
  op # NoRequest /\ ~overlapped =>
    \A q \in live : procs[q].kind = "ssh" => procs[q].lab # op.lab

\* No container of a lab that has started waits for ever to run the lab's command: it
\* runs it, or the next request for the lab comes, or one that takes it away.
Waits(h, c) ==
  /\ c \in containers[h] /\ Sound(c[1]) /\ op.lab # c[1]
  /\ <<h, c>> \notin working
  /\ <<c[1], h>> \notin missed /\ c[1] \notin silenced
CommandsRun == \A h \in Hosts, c \in Waiting : []<>~Waits(h, c)
=============================================================================
