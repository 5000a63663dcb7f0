------------------------ MODULE ClusterSockets_proofs ------------------------
(***************************************************************************)
(* Proofs about ClusterSockets, for any labs, hosts, nodes, splits,        *)
(* failures and numbers of shells: the sockets only add to what ClusterLab *)
(* says, and what they promise holds however requests and shells           *)
(* interleave and whichever ssh calls fail.                                *)
(***************************************************************************)
EXTENDS ClusterSockets, ClusterLab_proofs, SequenceTheorems

-----------------------------------------------------------------------------
\* ClusterSockets implements ClusterLab.

LEMMA SocketStepIsStep == [SocketsNext]_allVars => [Next]_vars
<1>1. ASSUME NEW p, NEW h, OpenTunnel(p, h) \/ RecordPid(p, h) \/ SocketFound(p)
      PROVE  UNCHANGED vars
  BY <1>1 DEF OpenTunnel, RecordPid, SocketFound
<1>2. ShellStep => UNCHANGED vars
  BY <1>1 DEF ShellStep
<1>3. ASSUME NEW l \in Labs, SocketRequest(l) \/ SocketStop(l) PROVE Next
  BY <1>3 DEF SocketRequest, SocketStop, Next
<1>4. ASSUME NEW h \in Hosts, RemoveSocketFile(h) PROVE Next
  BY <1>4 DEF RemoveSocketFile, Next
<1>5. ASSUME NEW h \in Hosts, NEW c \in Container, RemoveWorking(h, c) PROVE Next
  BY <1>5 DEF RemoveWorking, Next
<1>6. ASSUME NEW h \in Hosts, NEW c \in Waiting, RunCommand(h, c) PROVE UNCHANGED vars
  BY <1>6 DEF RunCommand
<1>7. SocketSplitAgain \/ ForwardSocket \/ OtherStep => Next
  BY DEF SocketSplitAgain, ForwardSocket, OtherStep, Next
<1>8. UNCHANGED allVars => UNCHANGED vars
  BY DEF allVars
<1>9. QED
  BY <1>2, <1>3, <1>4, <1>5, <1>6, <1>7, <1>8 DEF SocketsNext

\* With their sockets, labs on a cluster still behave as ClusterLab says: nothing
\* shells and ssh clients do changes rows, containers, networks or requests.
THEOREM SocketsImplementLab == SocketsSpec => Spec
<1>1. SocketsInit => Init
  BY DEF SocketsInit
<1>2. QED
  BY <1>1, SocketStepIsStep, PTL DEF SocketsSpec, Spec

-----------------------------------------------------------------------------
\* The inductive invariant.

\* The processes of the server; the lab and host whose file an ssh client, or the
\* shell that waits for it, is about.
Process == [kind : {"shell", "ssh"}, lab : Labs, host : Hosts \cup {NoHost},
            waiting : BOOLEAN, left : SUBSET Hosts]
IsSsh(q) == procs[q].kind = "ssh"
Of(q) == <<procs[q].lab, procs[q].host>>

SocketsTyped ==
  /\ procs \in Seq(Process)
  /\ live \subseteq Pids
  /\ DOMAIN pidfile = Site
  /\ files \subseteq Site
  /\ serving \in [Site -> Pids \cup {0}]
  /\ \A x \in Site : serving[x] \in live => IsSsh(serving[x]) /\ procs[serving[x]].lab = x[1]
  /\ \A q \in Pids : IsSsh(q) => procs[q].host \in Hosts
  /\ overlapped \in BOOLEAN

\* A command runs in a container that is there.
WorkingRuns ==
  /\ working \subseteq Hosts \X Container
  /\ \A x \in working : x[2] \in containers[x[1]]

\* Every file lab.sock is on a host that stop_lab still visits, or is a stray one, or
\* was left by a failed ssh call: between requests for lab l, on a host of its rows.
Excused(l, h) == <<l, h>> \in stray \cup missed
Known(l) ==
  /\ op.lab # l /\ l \notin labRows => \A h \in Hosts : <<l, h>> \in files => Excused(l, h)
  /\ op.lab # l /\ l \in labRows => \A h \in Hosts \ HostsOf(l) : <<l, h>> \in stray
  /\ op.lab = l /\ op.stage = "stop" =>
       \A h \in Hosts : <<l, h>> \in files => Excused(l, h) \/ h \in op.visit
  /\ op.lab = l /\ op.stage \in {"split", "start"} =>
       \A h \in Hosts : <<l, h>> \in files => Excused(l, h)

\* The file on a host of a running lab is answered, or is still to be made.
ToBeMade(l, h) ==
  <<l, h>> \notin files /\ \E p \in ShellsAtWork : procs[p].lab = l /\ h \in procs[p].left
Answered(l) ==
  l \in labRows /\ op.lab # l =>
    \A h \in Hosts : \/ Excused(l, h) \/ l \in silenced
                     \/ serving[<<l, h>>] \in live
                     \/ ToBeMade(l, h)

\* Without overlap one shell works at a time, and between requests only; no tunnel of
\* a lab outlives a request for it; and each tunnel is in its pid file, or the shell is
\* about to put it there: it is the newest process of all.
OneShell ==
  ~overlapped =>
    /\ \A p \in ShellsAtWork : op = NoRequest /\ procs[p].lab \in labRows
    /\ \A p, q \in ShellsAtWork : p = q
    /\ \A q \in live : IsSsh(q) => procs[q].lab \in labRows /\ procs[q].lab # op.lab
    /\ \A p \in ShellsAtWork, q \in live : IsSsh(q) /\ procs[q].lab = procs[p].lab =>
         /\ procs[q].host \notin procs[p].left
         /\ Of(q) = Of(p) => \A o \in live : o <= q
    /\ \A q, o \in live : IsSsh(q) /\ IsSsh(o) /\ Of(q) = Of(o) => q = o
    /\ \A q \in live : IsSsh(q) =>
         pidfile[Of(q)] = q \/ \E p \in ShellsAtWork : Of(p) = Of(q)

InService ==
  /\ SocketsTyped /\ WorkingRuns
  /\ \A l \in Labs : Sound(l) => Known(l) /\ Answered(l)
  /\ CommandsWait /\ OneShell

-----------------------------------------------------------------------------
\* What a step of the lab does to the request.

LEMMA IdleOrBusy ==
  ASSUME Orderly
  PROVE  /\ op = NoRequest => op.stage = "none" /\ op.lab = NoLab
         /\ op # NoRequest => /\ op.lab \in Labs /\ op.lab \in labRows
                             /\ op.stage \in {"stop", "split", "start"}
         /\ NoLab \notin Labs /\ labRows \subseteq Labs /\ op \in Request
BY Busy, IdleTyped, NodesAssumption DEF Orderly, TypeOK

\* Whatever a request for lab k does, a lab it is not for keeps what is known of its
\* files, and is answered as before or silenced.
LEMMA Bystander ==
  ASSUME NEW l \in Labs, op.lab # l, op'.lab # l, l \in labRows' <=> l \in labRows,
         HostsOf(l)' = HostsOf(l),
         \A h \in Hosts : /\ <<l, h>> \in files' <=> <<l, h>> \in files
                          /\ <<l, h>> \in stray => <<l, h>> \in stray'
                          /\ <<l, h>> \in missed => <<l, h>> \in missed'
                          /\ serving[<<l, h>>] \in live =>
                               l \in silenced' \/ serving'[<<l, h>>] \in live',
         l \in silenced => l \in silenced',
         \A p \in ShellsAtWork : procs[p].lab = l =>
           l \in silenced' \/ (p \in ShellsAtWork' /\ procs'[p] = procs[p]),
         Known(l), Answered(l)
  PROVE  Known(l)' /\ Answered(l)'
<1>1. \A h \in Hosts : Excused(l, h) => Excused(l, h)'
  BY DEF Excused
<1>2. Known(l)'
  BY <1>1 DEF Known
<1>3. \A h \in Hosts : ToBeMade(l, h) => l \in silenced' \/ ToBeMade(l, h)'
  BY DEF ToBeMade
<1>4. Answered(l)'
  BY <1>1, <1>3 DEF Answered
<1>5. QED
  BY <1>2, <1>4

\* The steps that touch no socket belong to a request, and add containers only.
LEMMA OtherStepDoes ==
  ASSUME Orderly, OtherStep
  PROVE  /\ op # NoRequest
         /\ \A h \in Hosts : containers[h] \subseteq containers'[h]
         /\ failed \subseteq failed'
         /\ nodeRows' = nodeRows \/ nodeRows' = {r \in nodeRows : r[1] # op.lab}
         /\ \/ Raise /\ labRows' = labRows
            \/ /\ op'.lab = op.lab /\ labRows' = labRows
               /\ \/ op'.stage = op.stage /\ (op.stage = "stop" => op'.visit = op.visit)
                  \/ op.stage = "split" /\ op'.stage = "start"
            \/ /\ op.stage = "stop" /\ op.visit = {}
               /\ op' = NoRequest /\ labRows' = labRows \ {op.lab}
<1>1. NoRequest.stage = "none" /\ op \in Request
  BY IdleTyped DEF Orderly, TypeOK
<1>2. ASSUME NEW h \in Hosts, NEW m \in Nets, RemoveNetwork(h, m)
      PROVE  /\ op.stage = "stop" /\ containers' = containers /\ UNCHANGED rows
             /\ \/ Raise
                \/ op' = [op EXCEPT !.drop = @ \ {<<h, m>>}] /\ failed' = failed
  BY <1>2 DEF RemoveNetwork
<1>3. ASSUME NEW h \in Hosts, NEW m \in Nets, CreateNetwork(h, m)
      PROVE  /\ op.stage = "start" /\ containers' = containers /\ UNCHANGED rows
             /\ op' = [op EXCEPT !.nets = @ \ {<<h, m>>}] /\ failed' = failed
  BY <1>3 DEF CreateNetwork
<1>4. ASSUME NEW h \in Hosts, BeginHost(h)
      PROVE  /\ op.stage = "start" /\ containers' = containers /\ UNCHANGED rows
             /\ op' = [op EXCEPT !.visit = @ \ {h}] /\ failed' = failed
  BY <1>4 DEF BeginHost, docker
<1>5. ASSUME NEW n \in Nodes, CreateContainer(n)
      PROVE  /\ op.stage = "start" /\ UNCHANGED rows
             /\ \A h \in Hosts : containers[h] \subseteq containers'[h]
             /\ \/ Raise
                \/ /\ op' = [op EXCEPT !.nodes = @ \ {n}, !.joining = {n} \X Links[op.lab][n]]
                   /\ failed' = failed
  BY <1>5 DEF CreateContainer, Orderly, TypeOK
<1>6. ASSUME NEW n \in Nodes, NEW m \in Nets, Join(n, m)
      PROVE  /\ op.stage = "start" /\ containers' = containers /\ UNCHANGED rows
             /\ op' = [op EXCEPT !.joining = @ \ {<<n, m>>}] /\ failed' = failed
  BY <1>6 DEF Join
<1>7. ASSUME SetupVpn
      PROVE  /\ op.stage = "split" /\ containers' = containers /\ UNCHANGED rows
             /\ op' = [op EXCEPT !.stage = "start"] /\ failed' = failed
  BY <1>7 DEF SetupVpn, docker
<1>8. ASSUME StopReturns
      PROVE  /\ op.stage = "stop" /\ op.visit = {} /\ containers' = containers
             /\ labRows' = labRows \ {op.lab} /\ op' = NoRequest /\ failed' = failed
             /\ nodeRows' = {r \in nodeRows : r[1] # op.lab}
  BY <1>8 DEF StopReturns, Stopped, docker, RowsWithout
<1>9. ASSUME Abort
      PROVE  op # NoRequest /\ containers' = containers /\ Raise /\ UNCHANGED rows
  BY <1>9 DEF Abort, docker
<1>10. Raise => failed \subseteq failed'
  BY DEF Raise
<1>11. UNCHANGED rows => nodeRows' = nodeRows /\ labRows' = labRows
  BY DEF rows
<1>12. CASE \E h \in Hosts, m \in Nets : RemoveNetwork(h, m) \/ CreateNetwork(h, m)
  BY <1>1, <1>2, <1>3, <1>10, <1>11, <1>12 DEF Request
<1>13. CASE \E h \in Hosts : BeginHost(h)
  BY <1>1, <1>4, <1>11, <1>13 DEF Request
<1>14. CASE \E n \in Nodes : CreateContainer(n)
  BY <1>1, <1>5, <1>10, <1>11, <1>14 DEF Request
<1>15. CASE \E n \in Nodes, m \in Nets : Join(n, m)
  BY <1>1, <1>6, <1>11, <1>15 DEF Request
<1>16. CASE SetupVpn
  BY <1>1, <1>7, <1>11, <1>16 DEF Request
<1>17. CASE StopReturns
  BY <1>1, <1>8, <1>17
<1>18. CASE Abort
  BY <1>9, <1>10, <1>11, <1>18
<1>19. QED
  BY <1>12, <1>13, <1>14, <1>15, <1>16, <1>17, <1>18 DEF OtherStep

-----------------------------------------------------------------------------
\* Steps of the lab that leave the sockets alone.

LEMMA OtherStepServes ==
  ASSUME Orderly, Orderly', InService, OtherStep
  PROVE  InService'
<1>1. /\ UNCHANGED <<procs, live, pidfile, files, serving, stray, missed, silenced>>
      /\ UNCHANGED <<working, overlapped>> /\ ShellsAtWork' = ShellsAtWork
  BY DEF OtherStep, sockets, ShellsAtWork, Shells, Pids
<1>2. /\ op # NoRequest
      /\ \A h \in Hosts : containers[h] \subseteq containers'[h]
      /\ failed \subseteq failed'
      /\ nodeRows' = nodeRows \/ nodeRows' = {r \in nodeRows : r[1] # op.lab}
      /\ \/ Raise /\ labRows' = labRows
         \/ /\ op'.lab = op.lab /\ labRows' = labRows
            /\ \/ op'.stage = op.stage /\ (op.stage = "stop" => op'.visit = op.visit)
               \/ op.stage = "split" /\ op'.stage = "start"
         \/ /\ op.stage = "stop" /\ op.visit = {}
            /\ op' = NoRequest /\ labRows' = labRows \ {op.lab}
  BY OtherStepDoes
<1>3. /\ NoRequest.stage = "none" /\ NoRequest.lab = NoLab /\ NoLab \notin Labs
      /\ op.lab \in Labs /\ op.stage \in {"stop", "split", "start"}
  BY <1>2, IdleOrBusy, IdleTyped
<1>4. SocketsTyped' /\ WorkingRuns'
  <2>1. SocketsTyped'
    BY <1>1 DEF InService, SocketsTyped, IsSsh, Pids
  <2>2. WorkingRuns'
    BY <1>1, <1>2 DEF InService, WorkingRuns
  <2>3. QED
    BY <2>1, <2>2
<1>5. op'.lab \in {op.lab, NoLab}
  BY <1>2, <1>3 DEF Raise
<1>6. \A l \in Labs : Sound(l)' => Sound(l)
  BY <1>2 DEF Sound
<1>7. \A l \in Labs : Raise /\ l = op.lab => ~Sound(l)'
  BY DEF Raise, Sound
<1>8. ASSUME NEW l \in Labs, Sound(l)', l # op.lab PROVE Known(l)' /\ Answered(l)'
  <2>1. op.lab # l /\ op'.lab # l /\ (l \in labRows' <=> l \in labRows) /\ Known(l) /\ Answered(l)
    BY <1>2, <1>3, <1>5, <1>6, <1>8 DEF InService
  <2>2. HostsOf(l)' = HostsOf(l)
    BY <1>2, <1>8 DEF HostsOf
  <2>3. QED
    BY <1>1, <2>1, <2>2, Bystander
<1>9. ASSUME NEW l \in Labs, Sound(l)', l = op.lab PROVE Known(l)' /\ Answered(l)'
  <2>1. Known(l) /\ ~Raise
    BY <1>6, <1>7, <1>9 DEF InService
  <2>2. Known(l)'
    BY <1>1, <1>2, <1>3, <1>9, <2>1 DEF Known, Excused
  <2>3. Answered(l)'
    BY <1>2, <1>9, <2>1 DEF Answered
  <2>4. QED
    BY <2>2, <2>3
<1>10. CommandsWait'
  <2>1. ASSUME op'.stage \in {"split", "start"}
        PROVE  op'.lab = op.lab /\ op.stage \in {"split", "start"}
    BY <1>2, <1>3, <2>1 DEF Raise
  <2>2. QED
    BY <1>1, <1>3, <1>6, <2>1 DEF InService, CommandsWait
<1>11. OneShell'
  <2>1. \A q \in live : IsSsh(q) /\ procs[q].lab # op.lab => procs[q].lab # op'.lab
                                                       \/ procs[q].lab \notin Labs
    BY <1>3, <1>5
  <2>2. \A q \in live : procs[q].lab \in Labs
    <3>1. \A q \in live : procs[q] \in Process
      BY ElementOfSeq DEF InService, SocketsTyped, Pids
    <3>2. QED
      BY <3>1 DEF Process
  <2>3. \A k \in labRows : k # op.lab => k \in labRows'
    BY <1>2
  <2>4. ~overlapped => ShellsAtWork = {}
    BY <1>2 DEF InService, OneShell
  <2>5. QED
    BY <1>1, <2>1, <2>2, <2>3, <2>4 DEF InService, OneShell, IsSsh, Of
<1>12. QED
  BY <1>4, <1>8, <1>9, <1>10, <1>11 DEF InService

\* stop_lab removes a container and what runs in it.
LEMMA RemoveWorkingServes ==
  ASSUME Orderly, InService, NEW h \in Hosts, NEW c \in Container, RemoveWorking(h, c)
  PROVE  InService'
<1>1. /\ UNCHANGED <<procs, live, pidfile, files, serving, stray, missed, silenced>>
      /\ overlapped' = overlapped /\ ShellsAtWork' = ShellsAtWork
      /\ working' = working \ {<<h, c>>} /\ containers' = [containers EXCEPT ![h] = @ \ {c}]
      /\ UNCHANGED <<labRows, nodeRows, failed>>
      /\ op.stage = "stop" /\ op' = [op EXCEPT !.kill = @ \ {<<h, c>>}]
  BY DEF RemoveWorking, RemoveContainer, sockets, rows, ShellsAtWork, Shells, Pids
<1>2. /\ op' # NoRequest /\ op'.stage = "stop" /\ op'.visit = op.visit /\ op # NoRequest
      /\ op'.lab = op.lab
  BY <1>1, IdleTyped DEF Orderly, TypeOK, Request
<1>3. SocketsTyped'
  BY <1>1 DEF InService, SocketsTyped, IsSsh, Pids
<1>4. WorkingRuns'
  BY <1>1 DEF InService, WorkingRuns, Orderly, TypeOK
<1>5. ASSUME NEW l \in Labs, Sound(l)' PROVE Known(l)' /\ Answered(l)'
  <2>1. Known(l) /\ Answered(l)
    BY <1>1, <1>5 DEF InService, Sound
  <2>2. Known(l)'
    BY <1>1, <1>2, <2>1 DEF Known, Excused, HostsOf
  <2>3. Answered(l)'
    BY <1>1, <1>2, <2>1 DEF Answered, Excused, ToBeMade
  <2>4. QED
    BY <2>2, <2>3
<1>6. CommandsWait'
  BY <1>2 DEF CommandsWait
<1>7. OneShell'
  BY <1>1, <1>2 DEF InService, OneShell, IsSsh, Of
<1>8. QED
  BY <1>3, <1>4, <1>5, <1>6, <1>7 DEF InService

\* stop_lab removes the directory of the socket from a host, or so it hopes.
LEMMA RemoveFileServes ==
  ASSUME Orderly, InService, NEW h \in Hosts, RemoveSocketFile(h)
  PROVE  InService'
<1>1. /\ UNCHANGED <<procs, live, pidfile, silenced, working, overlapped>>
      /\ ShellsAtWork' = ShellsAtWork
      /\ UNCHANGED <<labRows, nodeRows, failed, containers>>
      /\ op.stage = "stop" /\ op' = [op EXCEPT !.visit = @ \ {h}]
  BY DEF RemoveSocketFile, RemoveSockets, rows, docker, ShellsAtWork, Shells, Pids
<1>2. /\ op' # NoRequest /\ op'.stage = "stop" /\ op'.visit = op.visit \ {h}
      /\ op # NoRequest /\ op'.lab = op.lab /\ op.lab \in Labs
  BY <1>1, IdleTyped, IdleOrBusy DEF Request
<1>3. PICK x : x = <<op.lab, h>>
  OBVIOUS
<1>4. \/ /\ files' = files \ {x} /\ serving' = [serving EXCEPT ![x] = 0]
         /\ stray' = stray \ {x} /\ missed' = missed \ {x}
      \/ missed' = missed \cup {x} /\ UNCHANGED <<files, serving, stray>>
  BY <1>3 DEF RemoveSocketFile, Miss
<1>5. x \in Site
  BY <1>2, <1>3 DEF Site
<1>6. SocketsTyped'
  <2>1. 0 \notin live
    BY DEF InService, SocketsTyped, Pids
  <2>2. files' \subseteq Site /\ serving' \in [Site -> Pids \cup {0}]
    BY <1>4 DEF InService, SocketsTyped
  <2>3. ASSUME NEW y \in Site, serving'[y] \in live PROVE serving'[y] = serving[y]
    BY <1>4, <1>5, <2>1, <2>3 DEF InService, SocketsTyped
  <2>4. QED
    BY <1>1, <2>2, <2>3 DEF InService, SocketsTyped, IsSsh, Pids
<1>7. WorkingRuns' /\ CommandsWait'
  BY <1>1, <1>2 DEF InService, WorkingRuns, CommandsWait
<1>8. ASSUME NEW l \in Labs, Sound(l)', l # op.lab PROVE Known(l)' /\ Answered(l)'
  <2>1. Known(l) /\ Answered(l)
    BY <1>1, <1>8 DEF InService, Sound
  <2>2. HostsOf(l)' = HostsOf(l)
    BY <1>1 DEF HostsOf
  <2>3. \A k \in Hosts : <<l, k>> # x /\ <<l, k>> \in Site
    BY <1>3, <1>8 DEF Site
  <2>4. \A k \in Hosts : /\ <<l, k>> \in files' <=> <<l, k>> \in files
                         /\ <<l, k>> \in stray => <<l, k>> \in stray'
                         /\ <<l, k>> \in missed => <<l, k>> \in missed'
                         /\ serving'[<<l, k>>] = serving[<<l, k>>]
    BY <1>4, <2>3 DEF InService, SocketsTyped
  <2>5. QED
    BY <1>1, <1>2, <1>8, <2>1, <2>2, <2>4, Bystander
<1>9. ASSUME NEW l \in Labs, Sound(l)', l = op.lab PROVE Known(l)' /\ Answered(l)'
  <2>1. Known(l)
    BY <1>1, <1>9 DEF InService, Sound
  <2>2. \A k \in Hosts : <<l, k>> \in files => Excused(l, k) \/ k \in op.visit
    BY <1>1, <1>9, <2>1 DEF Known
  <2>3. ASSUME NEW k \in Hosts, <<l, k>> \in files' PROVE Excused(l, k)' \/ k \in op'.visit
    BY <1>2, <1>3, <1>4, <1>9, <2>2, <2>3 DEF Excused
  <2>4. Known(l)' /\ Answered(l)'
    BY <1>2, <1>9, <2>3 DEF Known, Answered
  <2>5. QED
    BY <2>4
<1>10. OneShell'
  BY <1>1, <1>2 DEF InService, OneShell, IsSsh, Of
<1>11. QED
  BY <1>6, <1>7, <1>8, <1>9, <1>10 DEF InService

\* A container that waited for the file runs its command.
LEMMA RunCommandServes ==
  ASSUME Orderly, InService, NEW h \in Hosts, NEW c \in Waiting, RunCommand(h, c)
  PROVE  InService'
<1>1. /\ UNCHANGED <<labRows, nodeRows, failed, containers, op>>
      /\ UNCHANGED <<procs, live, pidfile, files, serving, stray, missed, silenced>>
      /\ overlapped' = overlapped /\ ShellsAtWork' = ShellsAtWork
      /\ working' = working \cup {<<h, c>>} /\ <<c[1], h>> \in files /\ c \in containers[h]
  BY DEF RunCommand, sockets, vars, rows, docker, ShellsAtWork, Shells, Pids
<1>2. SocketsTyped'
  BY <1>1 DEF InService, SocketsTyped, IsSsh, Pids
<1>3. WorkingRuns'
  BY <1>1 DEF InService, WorkingRuns, Waiting
<1>4. ASSUME NEW l \in Labs, Sound(l)' PROVE Known(l)' /\ Answered(l)'
  BY <1>1, <1>4 DEF InService, Sound, Known, Answered, Excused, ToBeMade, HostsOf
<1>5. CommandsWait'
  <2>1. ASSUME op.stage \in {"split", "start"}, Sound(op.lab), c[1] = op.lab
        PROVE  <<op.lab, h>> \in stray \cup missed
    <3>1. op.lab \in Labs
      BY <2>1, IdleOrBusy
    <3>2. Known(op.lab)
      BY <2>1, <3>1 DEF InService
    <3>3. QED
      BY <1>1, <2>1, <3>2 DEF Known, Excused
  <2>2. ASSUME op.stage \in {"split", "start"}, Sound(op.lab)
        PROVE  \A x \in working' : x[2][1] = op.lab => <<op.lab, x[1]>> \in stray \cup missed
    BY <1>1, <2>1, <2>2 DEF InService, CommandsWait
  <2>3. QED
    BY <1>1, <2>2 DEF CommandsWait, Sound
<1>6. OneShell'
  BY <1>1 DEF InService, OneShell, IsSsh, Of
<1>7. QED
  BY <1>2, <1>3, <1>4, <1>5, <1>6 DEF InService

\* Of a lab that is split nothing runs: no command of it is at work.
LEMMA NoneAtWork ==
  ASSUME Orderly', WorkingRuns', op'.stage = "split", op'.lab \in Labs
  PROVE  CommandsWait'
<1> SUFFICES ASSUME op'.lab \notin failed', NEW x \in working', x[2][1] = op'.lab PROVE FALSE
  BY DEF CommandsWait, Sound
<1>1. PICK l \in Labs : l = op'.lab
  OBVIOUS
<1>2. Gone(l)'
  BY <1>1 DEF Orderly, InOrder, Sound
<1>3. x[1] \in Hosts /\ x[2] \in Container /\ x[2] \in containers'[x[1]]
  BY DEF WorkingRuns
<1>4. x[2][2] \in Nodes /\ x[2] = <<l, x[2][2]>>
  BY <1>1, <1>3 DEF Container
<1>5. QED
  BY <1>2, <1>3, <1>4 DEF Gone, On

\* The lab is split again: stop_lab has visited every host of the rows.
LEMMA SplitAgainServes ==
  ASSUME Orderly, Orderly', InService, SocketSplitAgain
  PROVE  InService'
<1>1. /\ UNCHANGED <<procs, live, pidfile, files, serving, stray, missed, silenced>>
      /\ UNCHANGED <<working, overlapped>> /\ ShellsAtWork' = ShellsAtWork
      /\ UNCHANGED <<labRows, nodeRows, failed, containers>>
      /\ op.stage = "stop" /\ op.visit = {}
      /\ \E p \in Placements(op.lab) : StartWith("restart", op.lab, p)
  BY DEF SocketSplitAgain, RemoveServerSocket, SplitAgain, Stopped, rows, docker,
         ShellsAtWork, Shells, Pids
<1>2. op # NoRequest /\ op.lab \in Labs
  BY <1>1, IdleOrBusy
<1>3. op'.stage = "split" /\ op'.lab = op.lab /\ op' # NoRequest
  BY <1>1, <1>2, SplitRequest, IdleTyped
<1>4. SocketsTyped' /\ WorkingRuns'
  <2>1. SocketsTyped'
    BY <1>1 DEF InService, SocketsTyped, IsSsh, Pids
  <2>2. WorkingRuns'
    BY <1>1 DEF InService, WorkingRuns
  <2>3. QED
    BY <2>1, <2>2
<1>5. ASSUME NEW l \in Labs, Sound(l)' PROVE Known(l)' /\ Answered(l)'
  <2>1. Known(l) /\ Answered(l)
    BY <1>1, <1>5 DEF InService, Sound
  <2>2. Known(l)'
    BY <1>1, <1>3, <2>1 DEF Known, Excused, HostsOf
  <2>3. Answered(l)'
    BY <1>1, <1>3, <2>1 DEF Answered, Excused, ToBeMade
  <2>4. QED
    BY <2>2, <2>3
<1>6. CommandsWait'
  BY <1>2, <1>3, <1>4, NoneAtWork
<1>7. OneShell'
  BY <1>1, <1>2, <1>3 DEF InService, OneShell, IsSsh, Of
<1>8. QED
  BY <1>4, <1>5, <1>6, <1>7 DEF InService

-----------------------------------------------------------------------------
\* Requests.

\* What a stop kills: the tunnels of its lab, if no shell is at work; of other labs
\* what it takes for its own, and those are silenced.
LEMMA Killed ==
  ASSUME SocketsTyped, NEW l \in Labs, KillRecorded(l)
  PROVE  /\ live' \subseteq live /\ ShellsAtWork' \subseteq ShellsAtWork
         /\ \A q \in live \ live' : procs[q].lab = l \/ procs[q].lab \in silenced'
<1>1. live' \subseteq live /\ procs' = procs
  BY DEF KillRecorded
<1>2. ShellsAtWork' \subseteq ShellsAtWork
  BY <1>1 DEF ShellsAtWork, Shells, Pids
<1>3. \A q \in live \ live' : procs[q].lab = l \/ procs[q].lab \in silenced'
  BY DEF KillRecorded
<1>4. QED
  BY <1>1, <1>2, <1>3

\* A lab with a row is stopped: what its pid files name is killed.
LEMMA KillServes ==
  ASSUME Orderly, InService, NEW l \in Labs, op = NoRequest, l \in labRows,
         NEW request, StopWith(request, l), KillRecorded(l), Overlap,
         UNCHANGED <<labRows, nodeRows, containers, failed>>
  PROVE  InService'
<1>1. /\ op' # NoRequest /\ op'.stage = "stop" /\ op'.visit = HostsOf(l) /\ op'.lab = l
      /\ op.lab = NoLab /\ NoLab \notin Labs
  BY IdleTyped, IdleOrBusy DEF StopWith, NoRequest
<1>2. /\ UNCHANGED <<procs, pidfile, files, stray, missed, working>> /\ Pids' = Pids
      /\ live' = live \ {pidfile[x] : x \in Extensions[l] \X Hosts}
      /\ serving' = [x \in Site |-> IF serving[x] \in live' THEN serving[x] ELSE 0]
      /\ silenced \subseteq silenced'
      /\ overlapped' = (overlapped \/ ShellsAtWork # {})
  BY DEF KillRecorded, Overlap, Pids
<1>3. /\ live' \subseteq live /\ ShellsAtWork' \subseteq ShellsAtWork
      /\ \A q \in live \ live' : procs[q].lab = l \/ procs[q].lab \in silenced'
  BY Killed DEF InService
<1>4. SocketsTyped'
  <2>1. 0 \notin live'
    BY <1>3 DEF InService, SocketsTyped, Pids
  <2>2. \A x \in Site : serving'[x] \in live' => serving'[x] = serving[x]
    BY <1>2, <2>1
  <2>3. serving' \in [Site -> Pids \cup {0}]
    BY <1>2 DEF InService, SocketsTyped
  <2>4. overlapped' \in BOOLEAN
    BY <1>2 DEF InService, SocketsTyped
  <2>5. QED
    BY <1>2, <1>3, <2>2, <2>3, <2>4 DEF InService, SocketsTyped, IsSsh
<1>5. WorkingRuns' /\ CommandsWait'
  BY <1>1, <1>2 DEF InService, WorkingRuns, CommandsWait
<1>6. ASSUME NEW k \in Labs, Sound(k)', k # l PROVE Known(k)' /\ Answered(k)'
  <2>1. Known(k) /\ Answered(k) /\ op.lab # k /\ op'.lab # k
    BY <1>1, <1>6 DEF InService, Sound
  <2>2. HostsOf(k)' = HostsOf(k)
    BY DEF HostsOf
  <2>3. ASSUME NEW h \in Hosts, serving[<<k, h>>] \in live
        PROVE  k \in silenced' \/ serving'[<<k, h>>] \in live'
    <3>1. <<k, h>> \in Site
      BY DEF Site
    <3>2. procs[serving[<<k, h>>]].lab = k
      BY <2>3, <3>1 DEF InService, SocketsTyped
    <3>3. QED
      BY <1>2, <1>3, <1>6, <2>3, <3>1, <3>2
  <2>4. ASSUME NEW p \in ShellsAtWork, procs[p].lab = k
        PROVE  k \in silenced' \/ (p \in ShellsAtWork' /\ procs'[p] = procs[p])
    BY <1>2, <1>3, <1>6, <2>4 DEF ShellsAtWork, Shells
  <2>5. QED
    BY <1>2, <2>1, <2>2, <2>3, <2>4, Bystander
<1>7. ASSUME Sound(l)' PROVE Known(l)' /\ Answered(l)'
  <2>1. Known(l)
    BY <1>7 DEF InService, Sound
  <2>2. \A h \in Hosts \ HostsOf(l) : Excused(l, h)
    BY <1>1, <2>1 DEF Known, Excused
  <2>3. QED
    BY <1>1, <1>2, <2>2 DEF Known, Answered, Excused
<1>8. OneShell'
  <2> SUFFICES ASSUME ~overlapped' PROVE OneShell'
    BY DEF OneShell
  <2>1. ~overlapped /\ ShellsAtWork = {} /\ ShellsAtWork' = {}
    BY <1>2, <1>3
  <2>2. \A q \in live : IsSsh(q) => Of(q) \in Site
    <3>1. \A q \in live : procs[q] \in Process
      BY ElementOfSeq DEF InService, SocketsTyped, Pids
    <3>2. QED
      BY <3>1 DEF InService, SocketsTyped, Site, Of, Process
  <2>3. \A q \in live : IsSsh(q) => procs[q].lab \in labRows /\ pidfile[Of(q)] = q
    BY <2>1 DEF InService, OneShell
  <2>4. ASSUME NEW q \in live', IsSsh(q), procs[q].lab = l PROVE FALSE
    <3>1. q \in live /\ Of(q) \in Site /\ pidfile[Of(q)] = q /\ Of(q)[1] = l
      BY <1>3, <2>2, <2>3, <2>4 DEF Of
    <3>2. l \in Extensions[l]
      BY ExtensionsAssumption
    <3>3. Of(q) \in Extensions[l] \X Hosts
      BY <3>1, <3>2 DEF Site
    <3>4. QED
      BY <1>2, <3>1, <3>3
  <2>5. \A q, o \in live : IsSsh(q) /\ IsSsh(o) /\ Of(q) = Of(o) => q = o
    BY <2>1 DEF InService, OneShell
  <2>6. \A q \in live' : IsSsh(q)' = IsSsh(q) /\ Of(q)' = Of(q) /\ q \in live
    BY <1>2, <1>3 DEF IsSsh, Of
  <2>7. QED
    BY <1>1, <1>2, <2>1, <2>3, <2>4, <2>5, <2>6 DEF OneShell
<1>9. QED
  BY <1>4, <1>5, <1>6, <1>7, <1>8 DEF InService

\* A lab without a row is split: nothing of it is left from an earlier stop.
LEMMA FirstSplitServes ==
  ASSUME Orderly, Orderly', InService, NEW l \in Labs, op = NoRequest,
         l \notin labRows, NEW p \in Placements(l), StartWith("start", l, p),
         RemoveServerSocket(l), Overlap, labRows' = labRows \cup {l},
         UNCHANGED <<nodeRows, containers, failed>>
  PROVE  InService'
<1>1. /\ op'.stage = "split" /\ op'.lab = l /\ op' # NoRequest
      /\ op.lab = NoLab /\ NoLab \notin Labs
  BY SplitRequest, IdleTyped, IdleOrBusy
<1>2. /\ UNCHANGED <<procs, live, pidfile, files, serving, stray, missed, silenced, working>>
      /\ ShellsAtWork' = ShellsAtWork
      /\ overlapped' = (overlapped \/ ShellsAtWork # {})
  BY DEF RemoveServerSocket, Overlap, ShellsAtWork, Shells, Pids
<1>3. SocketsTyped' /\ WorkingRuns'
  <2>1. SocketsTyped'
    BY <1>2 DEF InService, SocketsTyped, IsSsh, Pids
  <2>2. WorkingRuns'
    BY <1>2 DEF InService, WorkingRuns
  <2>3. QED
    BY <2>1, <2>2
<1>4. ASSUME NEW k \in Labs, Sound(k)' PROVE Known(k)' /\ Answered(k)'
  <2>1. Known(k) /\ Answered(k)
    BY <1>4 DEF InService, Sound
  <2>2. Known(k)'
    BY <1>1, <1>2, <2>1 DEF Known, Excused, HostsOf
  <2>3. Answered(k)'
    BY <1>1, <1>2, <2>1 DEF Answered, Excused, ToBeMade
  <2>4. QED
    BY <2>2, <2>3
<1>5. CommandsWait'
  BY <1>1, <1>3, NoneAtWork
<1>6. OneShell'
  <2>1. overlapped' \in BOOLEAN /\ (~overlapped' => ~overlapped /\ ShellsAtWork = {})
    BY <1>2 DEF InService, SocketsTyped
  <2>2. ~overlapped => \A q \in live : IsSsh(q) => procs[q].lab # l /\ procs[q].lab \in labRows'
    BY DEF InService, OneShell
  <2>3. QED
    BY <1>1, <1>2, <2>1, <2>2 DEF InService, OneShell, IsSsh, Of
<1>7. QED
  BY <1>3, <1>4, <1>5, <1>6 DEF InService

LEMMA RequestServes ==
  ASSUME Orderly, Orderly', InService, NEW l \in Labs, SocketRequest(l) \/ SocketStop(l)
  PROVE  InService'
<1>1. CASE SocketStop(l)
  BY <1>1, KillServes DEF SocketStop, Stop, rows, docker
<1>2. CASE SocketRequest(l) /\ l \in labRows
  <2>1. /\ op = NoRequest /\ StopWith("restart", l) /\ KillRecorded(l) /\ Overlap
        /\ UNCHANGED <<labRows, nodeRows, containers, failed>>
    BY <1>2 DEF SocketRequest, Restart, docker
  <2>2. QED
    BY <1>2, <2>1, KillServes
<1>3. CASE SocketRequest(l) /\ l \notin labRows
  <2>1. PICK p \in Placements(l) : StartWith("start", l, p)
    BY <1>3 DEF SocketRequest, Restart
  <2>2. /\ op = NoRequest /\ RemoveServerSocket(l) /\ Overlap
        /\ labRows' = labRows \cup {l} /\ UNCHANGED <<nodeRows, containers, failed>>
    BY <1>3 DEF SocketRequest, Restart, docker
  <2>3. QED
    BY <1>3, <2>1, <2>2, FirstSplitServes
<1>4. QED
  BY <1>1, <1>2, <1>3

\* The start returns and leaves a shell to open tunnels to every host.
LEMMA ForwardSocketServes ==
  ASSUME Orderly, InService, ForwardSocket
  PROVE  InService'
<1>0. PICK pid : pid = Len(procs) + 1
  OBVIOUS
<1>1. /\ op.stage = "start" /\ op' = NoRequest
      /\ nodeRows' = {r \in nodeRows : r[1] # op.lab} \cup NewNodeRows
      /\ UNCHANGED <<labRows, containers, failed, pidfile, files, serving, missed, working>>
      /\ overlapped' = overlapped
      /\ procs' = Append(procs, Shell(op.lab)) /\ stray' = stray \cup {op.lab} \X Unused
      /\ silenced' = silenced \ {op.lab}
  BY DEF ForwardSocket, StartReturns, docker
<1>2. PICK l \in Labs : l = op.lab
  BY <1>1, IdleOrBusy
<1>3. /\ op # NoRequest /\ l \in labRows /\ op'.lab = NoLab /\ op'.stage = "none"
      /\ NoLab \notin Labs
  BY <1>1, <1>2, IdleOrBusy, IdleTyped
<1>4. procs \in Seq(Process) /\ Shell(l) \in Process
  BY DEF InService, SocketsTyped, Shell, Process
<1>5. /\ procs' \in Seq(Process) /\ Len(procs') = pid /\ pid \in Pids' /\ pid \notin Pids
      /\ Pids \subseteq Pids' /\ \A q \in Pids' : q \in Pids \/ q = pid
      /\ procs'[pid] = Shell(l) /\ \A q \in Pids : procs'[q] = procs[q]
  BY <1>0, <1>1, <1>2, <1>4 DEF Pids
<1>6. live' = live \cup {pid} /\ live \subseteq Pids
  BY <1>5 DEF ForwardSocket, InService, SocketsTyped
<1>7. /\ pid \in ShellsAtWork' /\ ShellsAtWork \subseteq ShellsAtWork'
      /\ \A p \in ShellsAtWork' : p = pid \/ p \in ShellsAtWork
      /\ procs'[pid].kind = "shell" /\ procs'[pid].lab = l /\ procs'[pid].left = Hosts
  BY <1>5, <1>6 DEF ShellsAtWork, Shells, Shell
<1>8. SocketsTyped'
  <2>1. /\ serving \in [Site -> Pids \cup {0}] /\ pid # 0
        /\ \A x \in Site : serving[x] \in live =>
             IsSsh(serving[x]) /\ procs[serving[x]].lab = x[1]
    BY <1>0, <1>4 DEF InService, SocketsTyped
  <2>2. ASSUME NEW x \in Site, serving'[x] \in live'
        PROVE  procs'[serving'[x]].kind = "ssh" /\ procs'[serving'[x]].lab = x[1]
    <3>1. serving'[x] = serving[x] /\ serving[x] \in live
      BY <1>1, <1>5, <1>6, <2>1, <2>2
    <3>2. QED
      BY <1>5, <1>6, <2>1, <3>1 DEF IsSsh
  <2>3. \A q \in Pids' : procs'[q].kind = "ssh" => procs'[q].host \in Hosts
    BY <1>5, <1>7 DEF InService, SocketsTyped, IsSsh
  <2>4. live' \subseteq Pids' /\ serving' \in [Site -> Pids' \cup {0}]
    BY <1>1, <1>5, <1>6, <2>1
  <2>5. QED
    BY <1>1, <1>5, <2>2, <2>3, <2>4 DEF InService, SocketsTyped, IsSsh
<1>9. WorkingRuns' /\ CommandsWait'
  BY <1>1, <1>3 DEF InService, WorkingRuns, CommandsWait
<1>10. ASSUME NEW k \in Labs, Sound(k)', k # l PROVE Known(k)' /\ Answered(k)'
  <2>1. Known(k) /\ Answered(k) /\ op.lab # k /\ op'.lab # k
    BY <1>1, <1>2, <1>3, <1>10 DEF InService, Sound
  <2>2. HostsOf(k)' = HostsOf(k)
    BY <1>1, <1>2, <1>10 DEF HostsOf, NewNodeRows
  <2>3. \A p \in ShellsAtWork : p \in ShellsAtWork' /\ procs'[p] = procs[p]
    BY <1>5, <1>7 DEF ShellsAtWork, Shells
  <2>4. \A h \in Hosts : serving[<<k, h>>] \in live => serving'[<<k, h>>] \in live'
    BY <1>1, <1>6
  <2>5. k \in silenced => k \in silenced'
    BY <1>1, <1>2, <1>10
  <2>6. QED
    BY <1>1, <2>1, <2>2, <2>3, <2>4, <2>5, Bystander
<1>11. ASSUME Sound(l)' PROVE Known(l)' /\ Answered(l)'
  <2>1. \A h \in Hosts : <<l, h>> \in files => Excused(l, h)
    BY <1>1, <1>2, <1>11 DEF InService, Known, Sound
  <2>2. \A h \in Hosts : Excused(l, h) => Excused(l, h)'
    BY <1>1 DEF Excused
  <2>3. ASSUME NEW h \in Hosts \ HostsOf(l)' PROVE <<l, h>> \in stray'
    <3>1. ASSUME NEW n \in Members[l], op.place[n] = h PROVE FALSE
      <4>1. n \in Nodes /\ <<l, n, h>> \in nodeRows'
        BY <1>1, <1>2, <3>1, AttachedMembers DEF NewNodeRows
      <4>2. QED
        BY <2>3, <4>1 DEF HostsOf
    <3>2. h \in Unused
      BY <1>2, <3>1 DEF Unused
    <3>3. QED
      BY <1>1, <1>2, <3>2
  <2>4. Known(l)'
    BY <1>1, <1>3, <2>3 DEF Known
  <2>5. \A h \in Hosts : Excused(l, h)' \/ ToBeMade(l, h)'
    BY <1>1, <1>7, <2>1, <2>2 DEF ToBeMade
  <2>6. Answered(l)'
    BY <2>5 DEF Answered
  <2>7. QED
    BY <2>4, <2>6
<1>12. OneShell'
  <2> SUFFICES ASSUME ~overlapped PROVE OneShell'
    BY <1>1 DEF OneShell
  <2>1. ShellsAtWork = {}
    BY <1>3 DEF InService, OneShell
  <2>2. \A p \in ShellsAtWork' : p = pid
    BY <1>7, <2>1
  <2>3. \A q \in live' : procs'[q].kind = "ssh" => q \in live /\ IsSsh(q) /\ procs'[q] = procs[q]
    BY <1>5, <1>6, <1>7 DEF IsSsh
  <2>4. \A q \in live : IsSsh(q) => procs[q].lab \in labRows /\ procs[q].lab # l
    BY <1>2 DEF InService, OneShell
  <2>5. labRows \subseteq Labs
    BY IdleOrBusy
  <2>6. \A q \in live : IsSsh(q) => pidfile[Of(q)] = q
    BY <2>1 DEF InService, OneShell
  <2>7. \A q, o \in live : IsSsh(q) /\ IsSsh(o) /\ Of(q) = Of(o) => q = o
    BY DEF InService, OneShell
  <2>8. \A q \in live' : IsSsh(q)' =>
          /\ q \in live /\ IsSsh(q) /\ Of(q)' = Of(q)
          /\ procs'[q].lab \in labRows' /\ procs'[q].lab # l /\ procs'[q].lab # op'.lab
          /\ pidfile'[Of(q)'] = q
    BY <1>1, <1>3, <2>3, <2>4, <2>5, <2>6 DEF IsSsh, Of
  <2>9. \A q, o \in live' : IsSsh(q)' /\ IsSsh(o)' /\ Of(q)' = Of(o)' => q = o
    BY <2>7, <2>8
  <2>10. \A p \in ShellsAtWork' : op' = NoRequest /\ procs'[p].lab = l /\ l \in labRows'
    BY <1>1, <1>3, <1>7, <2>2
  <2>11. QED
    BY <2>2, <2>8, <2>9, <2>10 DEF OneShell
<1>13. QED
  BY <1>1, <1>2, <1>8, <1>9, <1>10, <1>11, <1>12 DEF InService

-----------------------------------------------------------------------------
\* A shell of forward_socket.

\* One process of the sequence changes.
LEMMA ProcessChanged ==
  ASSUME procs \in Seq(Process), NEW p \in Pids, NEW v \in Process
  PROVE  LET changed == [procs EXCEPT ![p] = v]
         IN  /\ changed \in Seq(Process) /\ Len(changed) = Len(procs) /\ DOMAIN changed = Pids
             /\ changed[p] = v /\ \A q \in Pids : q # p => changed[q] = procs[q]
BY ExceptSeq DEF Pids

\* The messenger has bound the socket.
LEMMA SocketFoundServes ==
  ASSUME InService, NEW p, SocketFound(p)
  PROVE  InService'
<1>1. /\ p \in Pids /\ procs' = [procs EXCEPT ![p].waiting = FALSE]
      /\ UNCHANGED <<live, pidfile, files, serving, stray, missed, silenced>>
      /\ UNCHANGED <<working, overlapped>>
      /\ UNCHANGED <<labRows, nodeRows, failed, containers, op>>
  BY DEF SocketFound, ShellsAtWork, Shells, vars, rows, docker
<1>2. procs \in Seq(Process) /\ live \subseteq Pids
  BY DEF InService, SocketsTyped
<1>3. /\ Pids' = Pids /\ procs' \in Seq(Process)
      /\ \A q \in Pids : /\ procs'[q].kind = procs[q].kind /\ procs'[q].host = procs[q].host
                         /\ procs'[q].left = procs[q].left /\ procs'[q].lab = procs[q].lab
  <2>1. PICK v : v = [procs[p] EXCEPT !.waiting = FALSE]
    OBVIOUS
  <2>2. procs[p] \in Process
    BY <1>1, <1>2, ElementOfSeq DEF Pids
  <2>3. /\ v \in Process /\ v.kind = procs[p].kind /\ v.host = procs[p].host
        /\ v.left = procs[p].left /\ v.lab = procs[p].lab
    BY <2>1, <2>2 DEF Process
  <2>4. procs' = [procs EXCEPT ![p] = v]
    BY <1>1, <2>1
  <2>5. p \in Pids
    BY <1>1
  <2>6. /\ procs' \in Seq(Process) /\ DOMAIN procs' = Pids /\ procs'[p] = v
        /\ \A q \in Pids : q # p => procs'[q] = procs[q]
    BY <1>2, <2>3, <2>4, <2>5, ProcessChanged
  <2>7. Pids' = Pids
    BY <2>6 DEF Pids
  <2>8. \A q \in Pids : q = p =>
          /\ procs'[q].kind = procs[q].kind /\ procs'[q].host = procs[q].host
          /\ procs'[q].left = procs[q].left /\ procs'[q].lab = procs[q].lab
    BY <2>3, <2>6
  <2>9. QED
    BY <2>6, <2>7, <2>8
<1>4. Shells' = Shells /\ ShellsAtWork' = ShellsAtWork /\ ShellsAtWork \subseteq Pids
  BY <1>1, <1>2, <1>3 DEF Shells, ShellsAtWork
<1>5. SocketsTyped'
  BY <1>1, <1>2, <1>3 DEF InService, SocketsTyped, IsSsh
<1>6. WorkingRuns' /\ CommandsWait'
  BY <1>1 DEF InService, WorkingRuns, CommandsWait, Sound
<1>7. ASSUME NEW l \in Labs, Sound(l)' PROVE Known(l)' /\ Answered(l)'
  <2>1. Known(l) /\ Answered(l)
    BY <1>1, <1>7 DEF InService, Sound
  <2>2. \A h \in Hosts : ToBeMade(l, h) => ToBeMade(l, h)'
    BY <1>1, <1>3, <1>4 DEF ToBeMade
  <2>3. Known(l)'
    BY <1>1, <2>1 DEF Known, Excused, HostsOf
  <2>4. Answered(l)'
    BY <1>1, <2>1, <2>2 DEF Answered, Excused
  <2>5. QED
    BY <2>3, <2>4
<1>8. OneShell'
  <2>1. \A q \in live : IsSsh(q)' = IsSsh(q) /\ Of(q)' = Of(q) /\ procs'[q].lab = procs[q].lab
                        /\ procs'[q].host = procs[q].host
    BY <1>2, <1>3 DEF IsSsh, Of
  <2>2. \A q \in ShellsAtWork : Of(q)' = Of(q) /\ procs'[q].left = procs[q].left
                                /\ procs'[q].lab = procs[q].lab
    BY <1>3, <1>4 DEF Of
  <2>3. QED
    BY <1>1, <1>4, <2>1, <2>2 DEF InService, OneShell
<1>9. QED
  BY <1>5, <1>6, <1>7, <1>8 DEF InService

\* What the processes are after a shell has turned to the next host: it is at that
\* host, and there may be a new ssh client, the newest process of all.
LEMMA NextHost ==
  ASSUME SocketsTyped, NEW p \in ShellsAtWork, NEW h \in Hosts, OpenTunnel(p, h)
  PROVE  \E pid \in Nat \ {0} :
         /\ pid \notin Pids /\ \A q \in Pids : q < pid
         /\ procs' \in Seq(Process) /\ Pids \subseteq Pids'
         /\ \A q \in Pids' \ Pids : q = pid /\ q \in live'
         /\ \A q \in Pids : /\ procs'[q].kind = procs[q].kind /\ procs'[q].lab = procs[q].lab
                            /\ q # p => procs'[q] = procs[q]
         /\ procs'[p].host = h /\ procs'[p].left = procs[p].left \ {h}
         /\ live \subseteq live' /\ live' \subseteq Pids' /\ live' \subseteq live \cup {pid}
         /\ pid \in live' => procs'[pid] = Ssh(procs[p].lab, h)
         /\ ShellsAtWork' = ShellsAtWork
         /\ \/ Bind(<<procs[p].lab, h>>, pid) /\ pid \in live'
            \/ MakeNoFile(<<procs[p].lab, h>>)
<1>1. /\ p \in Pids /\ p \in live /\ procs[p].kind = "shell" /\ ShellsAtWork \subseteq Pids
      /\ procs \in Seq(Process) /\ live \subseteq Pids
  BY DEF ShellsAtWork, Shells, SocketsTyped
<1>2. PICK pid : pid = Len(procs) + 1
  OBVIOUS
<1>3. PICK moved : moved = [procs EXCEPT ![p].host = h, ![p].left = @ \ {h}]
  OBVIOUS
<1>4. /\ moved \in Seq(Process) /\ Len(moved) = Len(procs) /\ DOMAIN moved = Pids
      /\ moved[p].host = h /\ moved[p].left = procs[p].left \ {h}
      /\ \A q \in Pids : /\ moved[q].kind = procs[q].kind /\ moved[q].lab = procs[q].lab
                         /\ q # p => moved[q] = procs[q]
  <2>1. PICK v : v = [procs[p] EXCEPT !.host = h, !.left = @ \ {h}]
    OBVIOUS
  <2>2. procs[p] \in Process
    BY <1>1, ElementOfSeq DEF Pids
  <2>3. /\ v \in Process /\ v.kind = procs[p].kind /\ v.lab = procs[p].lab /\ v.host = h
        /\ v.left = procs[p].left \ {h}
    BY <2>1, <2>2 DEF Process
  <2>4. moved = [procs EXCEPT ![p] = v]
    BY <1>3, <2>1
  <2>5. /\ moved \in Seq(Process) /\ Len(moved) = Len(procs) /\ DOMAIN moved = Pids
        /\ moved[p] = v /\ \A q \in Pids : q # p => moved[q] = procs[q]
    BY <1>1, <2>3, <2>4, ProcessChanged
  <2>6. \A q \in Pids : q = p => moved[q].kind = procs[q].kind /\ moved[q].lab = procs[q].lab
    BY <2>3, <2>5
  <2>7. QED
    BY <2>3, <2>5, <2>6
<1>5. pid \in Nat \ {0} /\ pid \notin Pids /\ \A q \in Pids : q < pid
  BY <1>1, <1>2 DEF Pids
<1>6. Ssh(procs[p].lab, h) \in Process
  <2>1. procs[p] \in Process
    BY <1>1, ElementOfSeq DEF Pids
  <2>2. QED
    BY <2>1 DEF Ssh, Process
<1>7. CASE procs' = Append(moved, Ssh(procs[p].lab, h)) /\ live' = live \cup {Len(procs')}
           /\ (Bind(<<procs[p].lab, h>>, Len(procs')) \/ MakeNoFile(<<procs[p].lab, h>>))
  <2>1. /\ procs' \in Seq(Process) /\ Len(procs') = pid
        /\ Pids \subseteq Pids' /\ (\A q \in Pids' \ Pids : q = pid) /\ pid \in Pids'
        /\ procs'[pid] = Ssh(procs[p].lab, h) /\ \A q \in Pids : procs'[q] = moved[q]
    BY <1>2, <1>4, <1>6, <1>7, <1>1 DEF Pids
  <2>2. live' = live \cup {pid}
    BY <1>7, <2>1
  <2>3. Shells' = Shells
    <3>1. procs'[pid].kind = "ssh"
      BY <2>1 DEF Ssh
    <3>2. QED
      BY <1>4, <2>1, <3>1 DEF Shells
  <2>4. ShellsAtWork' = ShellsAtWork
    BY <1>5, <2>2, <2>3 DEF ShellsAtWork, Shells
  <2>5. Bind(<<procs[p].lab, h>>, pid) \/ MakeNoFile(<<procs[p].lab, h>>)
    BY <1>7, <2>1
  <2>6. \A q \in Pids : /\ procs'[q].kind = procs[q].kind /\ procs'[q].lab = procs[q].lab
                        /\ q # p => procs'[q] = procs[q]
    BY <1>4, <2>1
  <2>7. procs'[p].host = h /\ procs'[p].left = procs[p].left \ {h}
    BY <1>1, <1>4, <2>1
  <2>8. QED
    BY <1>1, <1>5, <2>1, <2>2, <2>4, <2>5, <2>6, <2>7
<1>8. CASE procs' = moved /\ live' = live /\ MakeNoFile(<<procs[p].lab, h>>)
  <2>1. Pids' = Pids /\ Shells' = Shells /\ ShellsAtWork' = ShellsAtWork
    BY <1>4, <1>8 DEF Pids, Shells, ShellsAtWork
  <2>2. pid \notin live'
    BY <1>1, <1>5, <1>8
  <2>3. QED
    BY <1>1, <1>4, <1>5, <1>8, <2>1, <2>2
<1>9. QED
  BY <1>3, <1>7, <1>8 DEF OpenTunnel, RunClient

\* It opens a tunnel to the next host, or fails to.
LEMMA OpenTunnelServes ==
  ASSUME Orderly, InService, NEW p, NEW h \in Hosts, OpenTunnel(p, h)
  PROVE  InService'
<1>1. /\ p \in ShellsAtWork /\ p \in Pids /\ p \in live /\ procs[p].kind = "shell"
      /\ procs[p].host = NoHost /\ h \in procs[p].left
      /\ UNCHANGED <<pidfile, silenced, working, overlapped>>
      /\ UNCHANGED <<labRows, nodeRows, failed, containers, op>>
  BY DEF OpenTunnel, ShellsAtWork, Shells, vars, rows, docker
<1>2. SocketsTyped /\ live \subseteq Pids
  BY DEF InService, SocketsTyped
<1>3. PICK l : l = procs[p].lab
  OBVIOUS
<1>4. l \in Labs
  <2>1. procs[p] \in Process
    BY <1>1, <1>2, ElementOfSeq DEF SocketsTyped, Pids
  <2>2. QED
    BY <1>3, <2>1 DEF Process
<1>5. PICK x : x = <<l, h>>
  OBVIOUS
<1>6. x \in Site /\ x[1] = l
  BY <1>4, <1>5 DEF Site
<1>7. PICK pid \in Nat \ {0} :
      /\ pid \notin Pids /\ \A q \in Pids : q < pid
      /\ procs' \in Seq(Process) /\ Pids \subseteq Pids'
      /\ \A q \in Pids' \ Pids : q = pid /\ q \in live'
      /\ \A q \in Pids : /\ procs'[q].kind = procs[q].kind /\ procs'[q].lab = procs[q].lab
                         /\ q # p => procs'[q] = procs[q]
      /\ procs'[p].host = h /\ procs'[p].left = procs[p].left \ {h}
      /\ live \subseteq live' /\ live' \subseteq Pids' /\ live' \subseteq live \cup {pid}
      /\ pid \in live' => procs'[pid] = Ssh(l, h)
      /\ ShellsAtWork' = ShellsAtWork
      /\ (Bind(x, pid) /\ pid \in live') \/ MakeNoFile(x)
  BY <1>1, <1>2, <1>3, <1>5, NextHost
<1>8. pid \in live' => procs'[pid].kind = "ssh" /\ procs'[pid].lab = l /\ procs'[pid].host = h
  BY <1>7 DEF Ssh
<1>9. SocketsTyped'
  <2>1. ASSUME NEW q \in Pids', procs'[q].kind = "ssh" PROVE procs'[q].host \in Hosts
    <3>1. CASE q \in Pids
      BY <1>1, <1>2, <1>7, <2>1, <3>1 DEF SocketsTyped, IsSsh
    <3>2. CASE q \notin Pids
      BY <1>7, <1>8, <3>2
    <3>3. QED
      BY <3>1, <3>2
  <2>2. ASSUME NEW y \in Site, serving'[y] \in live'
        PROVE  procs'[serving'[y]].kind = "ssh" /\ procs'[serving'[y]].lab = y[1]
    <3>1. CASE serving'[y] = serving[y]
      <4>1. serving[y] \in live
        BY <1>2, <1>7, <2>2, <3>1 DEF SocketsTyped
      <4>2. QED
        BY <1>2, <1>7, <3>1, <4>1 DEF SocketsTyped, IsSsh
    <3>2. CASE serving'[y] # serving[y]
      <4>1. y = x /\ serving'[y] = pid
        BY <1>2, <1>6, <1>7, <3>2 DEF SocketsTyped, Bind, MakeNoFile
      <4>2. QED
        BY <1>6, <1>8, <2>2, <4>1
    <3>3. QED
      BY <3>1, <3>2
  <2>3. files' \subseteq Site /\ serving' \in [Site -> Pids' \cup {0}]
    BY <1>2, <1>6, <1>7 DEF SocketsTyped, Bind, MakeNoFile
  <2>4. QED
    BY <1>1, <1>2, <1>7, <2>1, <2>2, <2>3 DEF SocketsTyped, IsSsh
<1>10. /\ stray \subseteq stray' /\ \A y \in missed : y \in missed' \/ y = x
       /\ x \in files /\ x \in missed => x \in missed'
       /\ files \subseteq files' /\ files' \subseteq files \cup {x}
  BY <1>7 DEF Bind, MakeNoFile, Miss
<1>11. \A y \in Site : y # x => serving'[y] = serving[y]
  BY <1>2, <1>6, <1>7 DEF SocketsTyped, Bind, MakeNoFile
<1>12. \/ /\ x \in files' /\ x \notin files /\ serving'[x] = pid /\ pid \in live'
          /\ op.lab = l \/ l \notin labRows => x \in stray'
       \/ /\ x \in files /\ x \in files' /\ serving'[x] = serving[x] /\ missed' = missed
       \/ /\ x \notin files /\ x \notin files' /\ x \in missed'
  BY <1>2, <1>6, <1>7 DEF SocketsTyped, Bind, MakeNoFile, Miss
<1>13. WorkingRuns'
  BY <1>1 DEF InService, WorkingRuns
<1>14. CommandsWait'
  <2>1. ASSUME op.stage \in {"split", "start"}, Sound(op.lab), NEW y \in working,
               y[2][1] = op.lab
        PROVE  <<op.lab, y[1]>> \in stray' \cup missed'
    <3>1. <<op.lab, y[1]>> \in stray \cup missed
      BY <2>1 DEF InService, CommandsWait
    <3>2. <<op.lab, y[1]>> = x => op.lab = l
      BY <1>5
    <3>3. QED
      BY <1>10, <1>12, <3>1, <3>2
  <2>2. QED
    BY <1>1, <2>1 DEF CommandsWait, Sound
<1>15. ASSUME NEW k \in Labs, Sound(k)' PROVE Known(k)' /\ Answered(k)'
  <2>1. Known(k) /\ Answered(k) /\ HostsOf(k)' = HostsOf(k)
    BY <1>1, <1>15 DEF InService, Sound, HostsOf
  <2>2. \A g \in Hosts : <<k, g>> # x /\ Excused(k, g) => Excused(k, g)'
    BY <1>10 DEF Excused
  <2>3. \A g \in Hosts : <<k, g>> = x /\ (op.lab = k \/ k \notin labRows) =>
          (<<k, g>> \in files' => Excused(k, g)') \/ <<k, g>> \in files
    BY <1>5, <1>12 DEF Excused
  <2>4. \A g \in Hosts : <<k, g>> \in files /\ Excused(k, g) => Excused(k, g)'
    BY <1>10 DEF Excused
  <2>5. \A g \in Hosts : <<k, g>> \in files' => <<k, g>> \in files \/ <<k, g>> = x
    BY <1>10
  <2>6. \A g \in Hosts : <<k, g>> \in stray => <<k, g>> \in stray'
    BY <1>10
  <2>7. Known(k)'
    BY <1>1, <2>1, <2>3, <2>4, <2>5, <2>6 DEF Known
  <2>8. ASSUME k \in labRows, op.lab # k, NEW g \in Hosts
        PROVE  \/ Excused(k, g)' \/ k \in silenced' \/ serving'[<<k, g>>] \in live'
               \/ ToBeMade(k, g)'
    <3>1. Excused(k, g) \/ k \in silenced \/ serving[<<k, g>>] \in live \/ ToBeMade(k, g)
      BY <2>1, <2>8 DEF Answered
    <3>2. CASE <<k, g>> = x
      <4>1. CASE x \in files' /\ x \notin files /\ serving'[x] = pid /\ pid \in live'
        BY <3>2, <4>1
      <4>2. CASE x \in files /\ serving'[x] = serving[x]
        BY <1>1, <1>7, <2>4, <3>1, <3>2, <4>2 DEF ToBeMade
      <4>3. CASE x \in missed'
        BY <3>2, <4>3 DEF Excused
      <4>4. QED
        BY <1>12, <4>1, <4>2, <4>3
    <3>3. CASE <<k, g>> # x
      <4>1. <<k, g>> \in Site
        BY DEF Site
      <4>2. serving'[<<k, g>>] = serving[<<k, g>>]
        BY <1>11, <3>3, <4>1
      <4>3. ASSUME ToBeMade(k, g) PROVE ToBeMade(k, g)'
        <5>1. PICK q \in ShellsAtWork : procs[q].lab = k /\ g \in procs[q].left
          BY <4>3 DEF ToBeMade
        <5>2. q \in Pids
          BY DEF ShellsAtWork, Shells
        <5>3. q = p => g # h
          BY <1>3, <1>5, <3>3, <5>1
        <5>4. procs'[q].lab = k /\ g \in procs'[q].left
          BY <1>7, <5>1, <5>2, <5>3
        <5>5. <<k, g>> \notin files'
          BY <2>5, <3>3, <4>3 DEF ToBeMade
        <5>6. QED
          BY <1>7, <5>4, <5>5 DEF ToBeMade
      <4>4. QED
        BY <1>1, <1>7, <2>2, <3>1, <3>3, <4>2, <4>3
    <3>4. QED
      BY <3>2, <3>3
  <2>9. Answered(k)'
    BY <1>1, <2>8 DEF Answered
  <2>10. QED
    BY <2>7, <2>9
<1>16. OneShell'
  <2> SUFFICES ASSUME ~overlapped PROVE OneShell'
    BY <1>1 DEF OneShell
  <2>1. op = NoRequest /\ l \in labRows /\ op.lab = NoLab /\ NoLab \notin Labs
    BY <1>1, <1>3, IdleOrBusy DEF InService, OneShell
  <2>2. \A q \in ShellsAtWork : q = p
    BY <1>1 DEF InService, OneShell
  <2>3. ASSUME NEW q \in live, IsSsh(q)
        PROVE  /\ procs[q].lab \in labRows /\ procs[q].host # NoHost
               /\ procs[q].lab = l => procs[q].host \notin procs[p].left
               /\ pidfile[Of(q)] = q
    <3>1. procs[q].host # NoHost
      BY <1>2, <2>3, NoHostAssumption DEF SocketsTyped
    <3>2. procs[q].lab \in labRows
          /\ (procs[q].lab = l => procs[q].host \notin procs[p].left)
      BY <1>1, <1>3, <2>3 DEF InService, OneShell
    <3>3. Of(p) # Of(q)
      BY <1>1, <3>1 DEF Of
    <3>4. pidfile[Of(q)] = q
      BY <2>2, <2>3, <3>3 DEF InService, OneShell
    <3>5. QED
      BY <3>1, <3>2, <3>4
  <2>4. \A q \in live' : procs'[q].kind = "ssh" =>
          \/ q = pid
          \/ q \in live /\ IsSsh(q) /\ procs'[q] = procs[q]
    BY <1>1, <1>2, <1>7 DEF IsSsh
  <2>5. \A q \in live' : q <= pid
    BY <1>2, <1>7 DEF SocketsTyped, Pids
  <2>6. ASSUME NEW q \in live', procs'[q].kind = "ssh", procs'[q].lab = l
        PROVE  q = pid \/ procs'[q].host \notin procs[p].left
    BY <2>3, <2>4, <2>6
  <2>7. ASSUME NEW q \in live', NEW o \in live', procs'[q].kind = "ssh", procs'[o].kind = "ssh",
               procs'[q].lab = procs'[o].lab, procs'[q].host = procs'[o].host
        PROVE  q = o
    <3>1. CASE q = pid \/ o = pid
      BY <1>1, <1>8, <2>6, <2>7, <3>1
    <3>2. CASE q # pid /\ o # pid
      <4>1. q \in live /\ o \in live /\ IsSsh(q) /\ IsSsh(o) /\ Of(q) = Of(o)
        BY <2>4, <2>7, <3>2 DEF Of
      <4>2. QED
        BY <4>1 DEF InService, OneShell
    <3>3. QED
      BY <3>1, <3>2
  <2>8. ASSUME NEW q \in live', procs'[q].kind = "ssh"
        PROVE  /\ procs'[q].lab \in labRows /\ procs'[q].lab # NoLab
               /\ pidfile[Of(q)'] = q \/ Of(p)' = Of(q)'
               /\ procs'[q].lab = l =>
                    /\ procs'[q].host \notin procs'[p].left
                    /\ Of(q)' = Of(p)' => q = pid
    <3>1. labRows \subseteq Labs /\ procs'[p].lab = l
      BY <1>1, <1>3, <1>7, IdleOrBusy
    <3>2. CASE q = pid
      BY <1>7, <1>8, <2>1, <2>8, <3>1, <3>2 DEF Of
    <3>3. CASE q # pid
      <4>1. q \in live /\ IsSsh(q) /\ procs'[q] = procs[q] /\ Of(q)' = Of(q)
        BY <2>4, <2>8, <3>3 DEF Of
      <4>2. Of(q)' = Of(p)' => procs[q].host = h /\ procs[q].lab = l
        BY <1>7, <3>1, <4>1 DEF Of
      <4>3. QED
        BY <1>1, <1>7, <2>1, <2>3, <3>1, <4>1, <4>2
    <3>4. QED
      BY <3>2, <3>3
  <2>9. procs'[p].lab = l
    BY <1>1, <1>3, <1>7
  <2>10. \A q, o \in live' : IsSsh(q)' /\ IsSsh(o)' /\ Of(q)' = Of(o)' => q = o
    BY <2>7 DEF IsSsh, Of
  <2>11. ASSUME NEW r \in ShellsAtWork', NEW q \in live', IsSsh(q)', procs'[q].lab = procs'[r].lab
         PROVE  /\ procs'[q].host \notin procs'[r].left
                /\ Of(q)' = Of(r)' => \A o \in live' : o <= q
    <3>1. r = p /\ procs'[q].kind = "ssh" /\ procs'[q].lab = l
      BY <1>7, <2>2, <2>9, <2>11 DEF IsSsh
    <3>2. QED
      BY <2>5, <2>8, <3>1
  <2>12. QED
    BY <1>1, <1>7, <2>1, <2>2, <2>8, <2>9, <2>10, <2>11 DEF OneShell, IsSsh
<1>17. QED
  BY <1>9, <1>13, <1>14, <1>15, <1>16 DEF InService

\* It notes the newest process that matches: the tunnel it has just opened, unless
\* another shell is at work.
LEMMA NewestIsTunnel ==
  ASSUME SocketsTyped, NEW q \in live, IsSsh(q), \A o \in live : o <= q
  PROVE  NewestMatch(procs[q].host) = q
<1> DEFINE m == Matching(procs[q].host)
<1>1. live \subseteq Pids /\ \A o \in Pids : o \in Nat
  BY DEF SocketsTyped, Pids
<1>2. procs[q].host \in PortsLike[procs[q].host]
  BY <1>1, PortsAssumption DEF SocketsTyped
<1>3. q \in m /\ m \subseteq live
  BY <1>2 DEF Matching
<1>4. \A o \in m : q >= o /\ (o >= q => o = q)
  BY <1>1, <1>3
<1>5. QED
  BY <1>3, <1>4 DEF NewestMatch, Max

LEMMA RecordPidServes ==
  ASSUME Orderly, InService, NEW p, NEW h \in Hosts, RecordPid(p, h)
  PROVE  InService'
<1>1. /\ p \in ShellsAtWork /\ p \in Pids /\ p \in live /\ procs[p].kind = "shell"
      /\ procs[p].host = h
      /\ pidfile' = [pidfile EXCEPT ![Of(p)] = NewestMatch(h)]
      /\ procs' = [procs EXCEPT ![p].host = NoHost]
      /\ live' = IF procs[p].left = {} THEN live \ {p} ELSE live
      /\ UNCHANGED <<files, serving, stray, missed, silenced, working, overlapped>>
      /\ UNCHANGED <<labRows, nodeRows, failed, containers, op>>
  BY DEF RecordPid, ShellsAtWork, Shells, Of, vars, rows, docker
<1>2. procs \in Seq(Process) /\ live \subseteq Pids /\ SocketsTyped
  BY DEF InService, SocketsTyped
<1>3. /\ Pids' = Pids /\ procs' \in Seq(Process)
      /\ \A q \in Pids : /\ procs'[q].kind = procs[q].kind /\ procs'[q].left = procs[q].left
                         /\ procs'[q].lab = procs[q].lab
                         /\ (q # p => procs'[q] = procs[q])
      /\ procs'[p].host = NoHost
  <2>1. PICK v : v = [procs[p] EXCEPT !.host = NoHost]
    OBVIOUS
  <2>2. procs[p] \in Process
    BY <1>1, <1>2, ElementOfSeq DEF Pids
  <2>3. /\ v \in Process /\ v.kind = procs[p].kind /\ v.left = procs[p].left
        /\ v.lab = procs[p].lab /\ v.host = NoHost
    BY <2>1, <2>2 DEF Process
  <2>4. procs' = [procs EXCEPT ![p] = v]
    BY <1>1, <2>1
  <2>5. /\ procs' \in Seq(Process) /\ DOMAIN procs' = Pids /\ procs'[p] = v
        /\ \A q \in Pids : q # p => procs'[q] = procs[q]
    BY <1>1, <1>2, <2>3, <2>4, ProcessChanged DEF Pids
  <2>6. Pids' = Pids
    BY <2>5 DEF Pids
  <2>7. \A q \in Pids : q = p => /\ procs'[q].kind = procs[q].kind /\ procs'[q].left = procs[q].left
                                 /\ procs'[q].lab = procs[q].lab
    BY <2>3, <2>5
  <2>8. QED
    BY <2>3, <2>5, <2>6, <2>7
<1>4. /\ live' \subseteq live /\ \A q \in live : q # p \/ procs[q].left # {} => q \in live'
      /\ Shells' = Shells
  BY <1>1, <1>3 DEF Shells
<1>5. /\ ShellsAtWork' \subseteq ShellsAtWork /\ ShellsAtWork \subseteq Pids
      /\ \A q \in ShellsAtWork : procs[q].left # {} => q \in ShellsAtWork'
  BY <1>2, <1>4 DEF ShellsAtWork
<1>6. \A q \in Pids : IsSsh(q) => q # p /\ procs'[q] = procs[q]
  BY <1>1, <1>3 DEF IsSsh
<1>7. \A q \in Pids : procs'[q].kind = "ssh" => IsSsh(q)
  BY <1>3 DEF IsSsh
<1>8. SocketsTyped'
  <2>1. ASSUME NEW x \in Site, serving'[x] \in live'
        PROVE  procs'[serving'[x]].kind = "ssh" /\ procs'[serving'[x]].lab = x[1]
    BY <1>1, <1>2, <1>3, <1>4, <2>1 DEF SocketsTyped, IsSsh
  <2>2. \A q \in Pids' : procs'[q].kind = "ssh" => procs'[q].host \in Hosts
    BY <1>2, <1>3, <1>6, <1>7 DEF SocketsTyped
  <2>3. QED
    BY <1>1, <1>2, <1>3, <1>4, <2>1, <2>2 DEF SocketsTyped, IsSsh
<1>9. WorkingRuns' /\ CommandsWait'
  BY <1>1 DEF InService, WorkingRuns, CommandsWait, Sound
<1>10. ASSUME NEW l \in Labs, Sound(l)' PROVE Known(l)' /\ Answered(l)'
  <2>1. Known(l) /\ Answered(l)
    BY <1>1, <1>10 DEF InService, Sound
  <2>2. Known(l)'
    BY <1>1, <2>1 DEF Known, Excused, HostsOf
  <2>3. ASSUME NEW k \in Hosts, serving[<<l, k>>] \in live PROVE serving'[<<l, k>>] \in live'
    <3>1. <<l, k>> \in Site
      BY DEF Site
    <3>2. IsSsh(serving[<<l, k>>])
      BY <1>2, <2>3, <3>1 DEF SocketsTyped
    <3>3. serving[<<l, k>>] # p
      BY <1>1, <3>2 DEF IsSsh
    <3>4. QED
      BY <1>1, <1>4, <2>3, <3>3
  <2>4. \A k \in Hosts : ToBeMade(l, k) => ToBeMade(l, k)'
    BY <1>1, <1>3, <1>5 DEF ToBeMade
  <2>5. Answered(l)'
    BY <1>1, <2>1, <2>3, <2>4 DEF Answered, Excused
  <2>6. QED
    BY <2>2, <2>5
<1>11. OneShell'
  <2> SUFFICES ASSUME ~overlapped PROVE OneShell'
    BY <1>1 DEF OneShell
  <2>1. \A q \in ShellsAtWork : q = p
    BY <1>1 DEF InService, OneShell
  <2>2. \A q \in live' : procs'[q].kind = "ssh" =>
          q \in live /\ IsSsh(q) /\ procs'[q] = procs[q] /\ Of(q)' = Of(q) /\ Of(q) \in Site
    <3>1. \A q \in live : procs[q].lab \in Labs
      <4>1. \A q \in live : procs[q] \in Process
        BY <1>2, ElementOfSeq DEF Pids
      <4>2. QED
        BY <4>1 DEF Process
    <3>2. QED
      BY <1>2, <1>4, <1>6, <1>7, <3>1 DEF SocketsTyped, Of, Site
  <2>3. \A q, o \in live : IsSsh(q) /\ IsSsh(o) /\ Of(q) = Of(o) => q = o
    BY DEF InService, OneShell
  <2>4. ASSUME NEW q \in live, IsSsh(q)
        PROVE  procs[q].lab \in labRows /\ procs[q].lab # op.lab
    BY <2>4 DEF InService, OneShell
  <2>5. ASSUME NEW q \in live', procs'[q].kind = "ssh" PROVE pidfile'[Of(q)'] = q
    <3>1. q \in live /\ IsSsh(q) /\ Of(q)' = Of(q) /\ Of(q) \in Site
      BY <2>2, <2>5
    <3>2. CASE Of(q) = Of(p)
      <4>1. \A o \in live : o <= q
        BY <1>1, <3>1, <3>2 DEF InService, OneShell, Of
      <4>2. NewestMatch(h) = q
        BY <1>1, <1>2, <3>1, <3>2, <4>1, NewestIsTunnel DEF Of
      <4>3. DOMAIN pidfile = Site
        BY <1>2 DEF SocketsTyped
      <4>4. QED
        BY <1>1, <3>1, <3>2, <4>2, <4>3
    <3>3. CASE Of(q) # Of(p)
      <4>1. pidfile[Of(q)] = q
        BY <2>1, <3>1, <3>3 DEF InService, OneShell
      <4>2. QED
        BY <1>1, <3>1, <3>3, <4>1
    <3>4. QED
      BY <3>2, <3>3
  <2>6. ASSUME NEW r \in ShellsAtWork', NEW q \in live', procs'[q].kind = "ssh",
               procs'[q].lab = procs'[r].lab
        PROVE  procs'[q].host \notin procs'[r].left /\ Of(q)' # Of(r)'
    <3>1. r = p /\ q \in live /\ IsSsh(q) /\ procs'[q] = procs[q] /\ procs[q].lab = procs[p].lab
      BY <1>1, <1>3, <1>5, <2>1, <2>2, <2>6
    <3>2. procs[q].host \notin procs[p].left /\ procs[q].host \in Hosts
      BY <1>1, <1>2, <3>1 DEF InService, OneShell, SocketsTyped
    <3>3. QED
      BY <1>1, <1>3, <3>1, <3>2, NoHostAssumption DEF Of
  <2>7. op = NoRequest /\ procs[p].lab \in labRows
    BY <1>1 DEF InService, OneShell
  <2>8. \A r \in ShellsAtWork' : r = p /\ op' = NoRequest /\ procs'[r].lab \in labRows'
    BY <1>1, <1>3, <1>5, <2>1, <2>7
  <2>9. \A q \in live' : IsSsh(q)' => /\ procs'[q].lab \in labRows' /\ procs'[q].lab # op'.lab
                                     /\ pidfile'[Of(q)'] = q
    BY <1>1, <2>2, <2>4, <2>5 DEF IsSsh
  <2>10. \A q, o \in live' : IsSsh(q)' /\ IsSsh(o)' /\ Of(q)' = Of(o)' => q = o
    BY <2>2, <2>3 DEF IsSsh
  <2>11. QED
    BY <2>6, <2>8, <2>9, <2>10 DEF OneShell, IsSsh
<1>12. QED
  BY <1>8, <1>9, <1>10, <1>11 DEF InService

-----------------------------------------------------------------------------
\* The invariant holds.

LEMMA InitInService == SocketsInit => InService
<1> SUFFICES ASSUME SocketsInit PROVE InService
  OBVIOUS
<1>1. /\ procs = <<>> /\ live = {} /\ files = {} /\ stray = {} /\ missed = {} /\ working = {}
      /\ pidfile = [x \in Site |-> 0] /\ serving = [x \in Site |-> 0]
      /\ overlapped = FALSE /\ op = NoRequest /\ labRows = {}
  BY DEF SocketsInit, Init
<1>2. procs \in Seq(Process) /\ Pids = {}
  BY <1>1 DEF Pids
<1>3. SocketsTyped
  BY <1>1, <1>2 DEF SocketsTyped
<1>4. WorkingRuns /\ CommandsWait /\ OneShell
  BY <1>1 DEF WorkingRuns, CommandsWait, OneShell, ShellsAtWork
<1>5. \A l \in Labs : Known(l) /\ Answered(l)
  BY <1>1, IdleTyped, NodesAssumption DEF Known, Answered
<1>6. QED
  BY <1>3, <1>4, <1>5 DEF InService

LEMMA NextInService ==
  ASSUME Orderly, Orderly', InService, [SocketsNext]_allVars
  PROVE  InService'
<1>1. CASE UNCHANGED allVars
  BY <1>1 DEF allVars, sockets, vars, rows, docker, InService, SocketsTyped, WorkingRuns,
              Known, Answered, CommandsWait, OneShell, ShellsAtWork, Shells, Pids, IsSsh, Of,
              Excused, ToBeMade, Sound, HostsOf
<1>2. CASE \E l \in Labs : SocketRequest(l) \/ SocketStop(l)
  BY <1>2, RequestServes
<1>3. CASE \E h \in Hosts : RemoveSocketFile(h)
  BY <1>3, RemoveFileServes
<1>4. CASE \E h \in Hosts, c \in Container : RemoveWorking(h, c)
  BY <1>4, RemoveWorkingServes
<1>5. CASE \E h \in Hosts, c \in Waiting : RunCommand(h, c)
  BY <1>5, RunCommandServes
<1>6. CASE SocketSplitAgain
  BY <1>6, SplitAgainServes
<1>7. CASE ForwardSocket
  BY <1>7, ForwardSocketServes
<1>8. CASE OtherStep
  BY <1>8, OtherStepServes
<1>9. CASE ShellStep
  BY <1>9, SocketFoundServes, OpenTunnelServes, RecordPidServes DEF ShellStep
<1>10. QED
  BY <1>1, <1>2, <1>3, <1>4, <1>5, <1>6, <1>7, <1>8, <1>9 DEF SocketsNext

\* The labs are in order and their sockets are in service, always.
THEOREM AlwaysInService == SocketsSpec => []InService
<1>1. SocketsSpec => []Orderly
  BY SocketsImplementLab, AlwaysOrderly, PTL
<1>2. QED
  BY <1>1, InitInService, NextInService, PTL DEF SocketsSpec

\* No command of a lab runs while a start of it is under way, but where a stray file is
\* or where a failed ssh call has left one: its containers wait for lab.sock, and
\* stop_lab has removed that wherever else it was.
THEOREM CommandsAlwaysWait == SocketsSpec => []CommandsWait
<1>1. InService => CommandsWait
  BY DEF InService
<1>2. QED
  BY <1>1, AlwaysInService, PTL

\* When the shells of forward_socket are done, a live tunnel answers on every host that
\* runs containers of a lab, unless the ssh calls for that host have failed or another
\* lab's stop has killed processes of the lab.
THEOREM HostsAlwaysServed == SocketsSpec => []HostsServed
<1>1. Orderly /\ InService => HostsServed
  <2> SUFFICES ASSUME Orderly, InService, Settled, NEW h \in Hosts, NEW c \in containers[h],
                      Sound(c[1])
               PROVE  \/ <<c[1], h>> \in stray \cup missed \/ c[1] \in silenced
                      \/ serving[<<c[1], h>>] \in live
    BY DEF HostsServed
  <2>1. PICK l \in Labs : l = c[1]
    BY DEF Orderly, TypeOK, Container
  <2>2. op = NoRequest /\ op.lab = NoLab /\ NoLab \notin Labs /\ ShellsAtWork = {}
    BY IdleOrBusy DEF Settled
  <2>3. c[2] \in Nodes /\ c = <<l, c[2]>>
    BY <2>1 DEF Orderly, TypeOK, Container
  <2>4. Recorded(l)
    BY <2>1, <2>2 DEF Orderly, InOrder
  <2>5. <<l, c[2], h>> \in nodeRows
    BY <2>3, <2>4 DEF Recorded, On
  <2>6. l \in labRows
    BY <2>5 DEF Orderly, RowsAgree
  <2>7. Excused(l, h) \/ l \in silenced \/ serving[<<l, h>>] \in live
    BY <2>1, <2>2, <2>6 DEF InService, Answered, ToBeMade
  <2>8. QED
    BY <2>1, <2>7 DEF Excused
<1>2. SocketsSpec => []Orderly
  BY SocketsImplementLab, AlwaysOrderly, PTL
<1>3. QED
  BY <1>1, <1>2, AlwaysInService, PTL

\* Unless a request begins while a shell is at work, the pid files lead to every tunnel
\* of a lab whichever ssh calls fail, and none outlives the request that follows.
THEOREM TunnelsNeverLeak == SocketsSpec => []NoLeaks
<1>1. InService => NoLeaks
  BY DEF InService, OneShell, NoLeaks, IsSsh
<1>2. QED
  BY <1>1, AlwaysInService, PTL
=============================================================================
