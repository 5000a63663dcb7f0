------------------------------ MODULE ClusterLab ------------------------------
(***************************************************************************)
(* Several labs on several docker hosts: cluster_runtime.start_lab and     *)
(* stop_lab together with what lab_control.py records of them.  A lab is   *)
(* split between the hosts anew each time it starts; which host has which  *)
(* container is known only from the rows written after the start, and      *)
(* stop_lab is told by them where to look.                                 *)
(*                                                                         *)
(* The requests run one after the other; each may end at any docker call.  *)
(* What is done by ssh, and in the containers, never raises: its status is *)
(* printed, and the request goes on.                                       *)
(***************************************************************************)
EXTENDS Integers, FiniteSets

CONSTANTS
  Labs,
  Hosts, FirstHost,  \* the docker hosts, and the one of partition 0
  Nodes, Routers,    \* node names of the labs, and the routers among them
  Nets,              \* network names of the labs
  Links,             \* Links[l][n]: networks of node n in lab l
  Members,           \* Members[l]: the nodes of lab l
  Extensions,        \* Extensions[l]: labs whose prefix begins with that of lab l
  NoLab,             \* no request under way
  MaxNetworks,       \* bound: networks of one name on a host that are told apart
  MaxFailures        \* bound: labs of which a request has raised, and interfaces whose
                     \* setup has failed unseen, before something fails by chance

ASSUME HostsAssumption == FirstHost \in Hosts
ASSUME NodesAssumption == Routers \subseteq Nodes /\ NoLab \notin Labs
ASSUME FiniteAssumption == IsFiniteSet(Nodes) /\ IsFiniteSet(Nets)
ASSUME BoundAssumption == MaxNetworks \in Nat \ {0, 1} /\ MaxFailures \in Nat
ASSUME LinksAssumption == Links \in [Labs -> [Nodes -> SUBSET Nets]]
ASSUME MembersAssumption ==
  /\ Members \in [Labs -> SUBSET Nodes]
  /\ \A l \in Labs : \A n \in Nodes \ Members[l] : Links[l][n] = {}
ASSUME ExtensionsAssumption ==
  Extensions \in [Labs -> SUBSET Labs] /\ \A l \in Labs : l \in Extensions[l]

VARIABLES
  labRows,     \* labs that have a Lab row
  nodeRows,    \* Node rows: lab, node and host
  netRows,     \* Network rows: lab, network and host
  containers,  \* containers[h]: the lab and node of each container of host h
  networks,    \* networks[h]: how many docker networks host h has for a lab and name
  docked,      \* host, container and network: what is connected to docker networks
  tuns,        \* VPN daemons of the hosts: host, lab, node, network, tun number
  cut,         \* history: host, container and network whose setup failed unseen
  hubs,        \* VPN daemons of the server; fresh: with the keys of the lab's last start
  disturbed,   \* history: labs with a hub that failed, or that another lab killed or
               \* has the device of
  failed,      \* labs a request for which has raised
  op           \* the request under way

rows == <<labRows, nodeRows, netRows>>
docker == <<containers, networks, docked, tuns, cut>>
vpn == <<hubs, disturbed>>
vars == <<rows, docker, vpn, failed, op>>

Container == Labs \X Nodes
LabNetwork == Labs \X Nets
Interface == Hosts \X Container \X Nets
Tun == [host : Hosts, lab : Labs, node : Nodes, net : Nets, index : Nat]
Hub == [lab : Labs, net : Nets, index : Nat, fresh : BOOLEAN]

\* visit: hosts the loop of stop_lab or start_lab has still to come to; kill, drop: what
\* stop_lab has to remove; place: host of each node; nets, nodes: what start_lab has to
\* create; joining: the networks its last container is to join.
NoRequest == [lab |-> NoLab, request |-> "none", stage |-> "none", visit |-> {},
              kill |-> {}, drop |-> {}, place |-> [n \in Nodes |-> FirstHost],
              nets |-> {}, nodes |-> {}, joining |-> {}]

Sound(l) == l \notin failed
MayFail == Cardinality(failed) + Cardinality(cut) < MaxFailures
Raise == failed' = failed \cup {op.lab} /\ op' = NoRequest

Init ==
  /\ labRows = {}
  /\ nodeRows = {}
  /\ netRows = {}
  /\ containers = [h \in Hosts |-> {}]
  /\ networks = [h \in Hosts |-> [x \in LabNetwork |-> 0]]
  /\ docked = {} /\ tuns = {} /\ cut = {}
  /\ hubs = {} /\ disturbed = {}
  /\ failed = {}
  /\ op = NoRequest

-----------------------------------------------------------------------------
\* split_lab.

Attached(l, m) == {n \in Members[l] : m \in Links[l][n]}
NetsOf(l) == UNION {Links[l][n] : n \in Members[l]}

\* KaHyPar keeps the routers in partition 0; with one host there is no choice.
Placements(l) ==
  {p \in [Nodes -> Hosts] :
     \A n \in Nodes : n \in Routers \/ n \notin Members[l] => p[n] = FirstHost}

\* A network whose nodes share a host is a docker network of that host.
Local(l, p, m) == \A n, k \in Attached(l, m) : p[n] = p[k]
DockerNets(l, p) ==
  {x \in Hosts \X NetsOf(l) : /\ Local(l, p, x[2])
                              /\ \E n \in Attached(l, x[2]) : p[n] = x[1]}
Vpn(l, p, m) == \A h \in Hosts : <<h, m>> \notin DockerNets(l, p)

\* start_lab begins with the split.
StartWith(request, l, p) ==
  op' = [NoRequest EXCEPT !.lab = l, !.request = request, !.stage = "split",
                          !.visit = Hosts, !.place = p,
                          !.nets = DockerNets(l, p), !.nodes = Members[l]]

-----------------------------------------------------------------------------
\* Requests.

\* Lab.get_host_map: the hosts of the lab's nodes, each with all rows it has.
HostsOf(l) == {h \in Hosts : \E n \in Nodes : <<l, n, h>> \in nodeRows}
KillFirstHost(l) ==
  {x \in {FirstHost} \X Container : <<x[2][1], x[2][2], x[1]>> \in nodeRows}
KillList(l) ==
  {x \in HostsOf(l) \X Container : <<x[2][1], x[2][2], x[1]>> \in nodeRows}
DropList(l) ==
  {x \in HostsOf(l) \X Nets : \E k \in Labs : <<k, x[2], x[1]>> \in netRows}

\* The pid files of the server's daemons are found by the prefix of their names.
LeaveHubs(l) == UNCHANGED vpn
KillHubs(l) ==
  /\ hubs' = {u \in hubs : u.lab \notin Extensions[l]}
  /\ disturbed' = disturbed \cup ({u.lab : u \in hubs \ hubs'} \ {l})

StopWith(request, l) ==
  /\ op' = [NoRequest EXCEPT !.lab = l, !.request = request, !.stage = "stop",
                             !.visit = HostsOf(l), !.kill = KillList(l), !.drop = DropList(l)]
  /\ KillHubs(l)

Restart(l) ==
  /\ op = NoRequest
  /\ labRows' = labRows \cup {l}
  /\ IF l \in labRows THEN StopWith("restart", l)
     ELSE (\E p \in Placements(l) : StartWith("start", l, p)) /\ UNCHANGED vpn
  /\ UNCHANGED <<nodeRows, netRows, docker, failed>>

Stop(l) ==
  /\ op = NoRequest /\ l \in labRows
  /\ StopWith("stop", l)
  /\ UNCHANGED <<rows, docker, failed>>

\* Any docker call may raise: nothing is undone, no row is written.
Abort ==
  /\ op # NoRequest
  /\ Sound(op.lab) /\ MayFail
  /\ Raise
  /\ UNCHANGED <<rows, docker, vpn>>

-----------------------------------------------------------------------------
\* stop_lab, host by host: sockets, containers, networks.  The script that is to
\* kill the VPN daemons of a host ends at its first line break, in the local shell.

RemoveSockets(h) ==
  /\ op.stage = "stop" /\ h \in op.visit
  /\ \A x \in op.kill \cup op.drop : x[1] \in op.visit
  /\ op' = [op EXCEPT !.visit = @ \ {h}]
  /\ UNCHANGED <<rows, docker, vpn, failed>>

\* A tun device goes with the network namespace of its container, and its daemon
\* ends with it.
TunsWith(h, c) == {t \in tuns : t.host = h /\ t.lab = c[1] /\ t.node = c[2]}

RemoveContainer(h, c) ==
  /\ op.stage = "stop" /\ <<h, c>> \in op.kill /\ h \notin op.visit
  /\ containers' = [containers EXCEPT ![h] = @ \ {c}]
  /\ docked' = {x \in docked : x[1] # h \/ x[2] # c}
  /\ tuns' = tuns \ TunsWith(h, c)
  /\ cut' = {x \in cut : x[1] # h \/ x[2] # c}
  /\ op' = [op EXCEPT !.kill = @ \ {<<h, c>>}]
  /\ UNCHANGED <<rows, networks, vpn, failed>>

\* The rows hold plain names; the name asked for has this lab's prefix.  Docker
\* raises for a network in use and for a name that two networks have.
InUse(h, l, m) == \E n \in Nodes : <<h, <<l, n>>, m>> \in docked
RemoveNetwork(h, m) ==
  /\ op.stage = "stop" /\ <<h, m>> \in op.drop /\ h \notin op.visit
  /\ \A c \in Container : <<h, c>> \notin op.kill
  /\ IF \/ networks[h][<<op.lab, m>>] > 1
        \/ networks[h][<<op.lab, m>>] = 1 /\ InUse(h, op.lab, m)
     THEN Raise /\ UNCHANGED networks
     ELSE /\ networks' = [networks EXCEPT ![h][<<op.lab, m>>] = 0]
          /\ op' = [op EXCEPT !.drop = @ \ {<<h, m>>}]
          /\ UNCHANGED failed
  /\ UNCHANGED <<rows, containers, docked, tuns, cut, vpn>>

Stopped == op.stage = "stop" /\ op.visit = {} /\ op.kill = {} /\ op.drop = {}
RowsWithout(l) ==
  /\ nodeRows' = {r \in nodeRows : r[1] # l}
  /\ netRows' = {r \in netRows : r[1] # l}

\* The Lab row is deleted, and with it the rows that refer to it.
StopReturns ==
  /\ Stopped /\ op.request = "stop"
  /\ labRows' = labRows \ {op.lab}
  /\ RowsWithout(op.lab)
  /\ op' = NoRequest
  /\ UNCHANGED <<docker, vpn, failed>>

SplitAgain ==
  /\ Stopped /\ op.request = "restart"
  /\ \E p \in Placements(op.lab) : StartWith("restart", op.lab, p)
  /\ UNCHANGED <<rows, docker, vpn, failed>>

-----------------------------------------------------------------------------
\* start_lab: the VPN servers, then host by host networks and containers.

VpnNets(l, p) == {m \in NetsOf(l) : Vpn(l, p, m)}

\* The ways to give the networks in s consecutive numbers.
Numbered(s, first) ==
  {f \in [s -> first..(first + Cardinality(s) - 1)] : \A m, k \in s : m # k => f[m] # f[k]}

\* New keys for each VPN network, and a hub.  tincd ends when it runs for that
\* network already, when its device is taken, or otherwise (down); what it answers
\* is only printed.
SetupVpn ==
  LET l == op.lab
      nets == VpnNets(l, op.place)
      outdated == {[u EXCEPT !.fresh = @ /\ u.lab # l] : u \in hubs}
  IN  /\ op.stage = "split"
      /\ \E number \in Numbered(nets, 0), down \in SUBSET nets :
           LET running == {m \in nets : \E u \in hubs : u.lab = l /\ u.net = m}
               taken == {m \in nets : \E u \in hubs : u.index = number[m]}
               takenByOther ==
                 {m \in nets : \E u \in hubs : u.lab # l /\ u.index = number[m]}
           IN  /\ down = {} \/ MayFail
               /\ hubs' = outdated \cup
                   {[lab |-> l, net |-> m, index |-> number[m], fresh |-> TRUE] :
                      m \in nets \ (running \cup taken \cup down)}
               /\ disturbed' = IF takenByOther \cup down = {} THEN disturbed \ {l}
                               ELSE disturbed \cup {l}
      /\ op' = [op EXCEPT !.stage = "start"]
      /\ UNCHANGED <<rows, docker, failed>>

BeginHost(h) ==
  /\ op.stage = "start" /\ h \in op.visit /\ op.joining = {}
  /\ FirstHost \in op.visit => h = FirstHost
  /\ \A x \in op.nets : x[1] \in op.visit
  /\ \A n \in op.nodes : op.place[n] \in op.visit
  /\ op' = [op EXCEPT !.visit = @ \ {h}]
  /\ UNCHANGED <<rows, docker, vpn, failed>>

CreateNetwork(h, m) ==
  /\ op.stage = "start" /\ <<h, m>> \in op.nets /\ h \notin op.visit
  /\ networks' = [networks EXCEPT ![h][<<op.lab, m>>] = IF @ < MaxNetworks THEN @ + 1 ELSE @]
  /\ op' = [op EXCEPT !.nets = @ \ {<<h, m>>}]
  /\ UNCHANGED <<rows, containers, docked, tuns, cut, vpn, failed>>

\* The VPN networks of a node get the next number, counted on each host since this
\* start began, whether their daemons come up or not.
NodeVpns(n) == {m \in Links[op.lab][n] : Vpn(op.lab, op.place, m)}
TunsMade(h) ==
  {x \in (Members[op.lab] \ op.nodes) \X Nets :
     op.place[x[1]] = h /\ x[2] \in NodeVpns(x[1]) /\ x \notin op.joining}
FirstTunOfNode(h) == 0
FirstTunBelow(h) == Cardinality(TunsMade(h)) - 1
FirstTun(h) == Cardinality(TunsMade(h))

\* Docker creates and starts the container, or raises when the name is taken on that
\* host; it is not connected yet.
CreateContainer(n) ==
  LET h == op.place[n]
  IN  /\ op.stage = "start" /\ n \in op.nodes /\ h \notin op.visit /\ op.joining = {}
      /\ \A m \in Nets : <<h, m>> \notin op.nets
      /\ \/ /\ <<op.lab, n>> \notin containers[h]
            /\ containers' = [containers EXCEPT ![h] = @ \cup {<<op.lab, n>>}]
            /\ op' = [op EXCEPT !.nodes = @ \ {n}, !.joining = {n} \X Links[op.lab][n]]
            /\ UNCHANGED failed
         \/ /\ <<op.lab, n>> \in containers[h]
            /\ Raise
            /\ UNCHANGED containers
      /\ UNCHANGED <<rows, networks, docked, tuns, cut, vpn>>

\* A VPN daemon is made by ssh, a docker connection gets its address from a command
\* in the container, with no look at how they end: setup may fail unseen, and if so
\* the daemon may still run, with a configuration that is not complete.
NewTun(n, m) ==
  [host |-> op.place[n], lab |-> op.lab, node |-> n, net |-> m, index |-> FirstTun(op.place[n])]
JoinedInterface(n, m) == <<op.place[n], <<op.lab, n>>, m>>
SetUp(n, m) == cut' = cut
FailUnseen(n, m) == MayFail /\ cut' = cut \cup {JoinedInterface(n, m)}

JoinVpn(n, m) ==
  /\ Vpn(op.lab, op.place, m)
  /\ \/ tuns' = tuns \cup {NewTun(n, m)} /\ SetUp(n, m)
     \/ (tuns' = tuns \/ tuns' = tuns \cup {NewTun(n, m)}) /\ FailUnseen(n, m)
  /\ UNCHANGED docked

JoinDocker(n, m) ==
  /\ ~Vpn(op.lab, op.place, m)
  /\ docked' = docked \cup {JoinedInterface(n, m)}
  /\ SetUp(n, m) \/ FailUnseen(n, m)
  /\ UNCHANGED tuns

Join(n, m) ==
  /\ op.stage = "start" /\ <<n, m>> \in op.joining
  /\ JoinVpn(n, m) \/ JoinDocker(n, m)
  /\ op' = [op EXCEPT !.joining = @ \ {<<n, m>>}]
  /\ UNCHANGED <<rows, containers, networks, vpn, failed>>

\* The rows of the lab are replaced by those of this start.
NewNodeRows == {<<op.lab, n, op.place[n]>> : n \in Members[op.lab]}
NewNetRows == {<<op.lab, x[2], x[1]>> : x \in DockerNets(op.lab, op.place)}
StartReturnsKeepingRows ==
  /\ op.stage = "start" /\ op.visit = {} /\ op.nets = {} /\ op.nodes = {} /\ op.joining = {}
  /\ nodeRows' = IF op.request = "start" THEN nodeRows \cup NewNodeRows ELSE nodeRows
  /\ netRows' = IF op.request = "start" THEN netRows \cup NewNetRows ELSE netRows
  /\ op' = NoRequest
  /\ UNCHANGED <<labRows, docker, vpn, failed>>
StartReturns ==
  /\ op.stage = "start" /\ op.visit = {} /\ op.nets = {} /\ op.nodes = {} /\ op.joining = {}
  /\ nodeRows' = {r \in nodeRows : r[1] # op.lab} \cup NewNodeRows
  /\ netRows' = {r \in netRows : r[1] # op.lab} \cup NewNetRows
  /\ op' = NoRequest
  /\ UNCHANGED <<labRows, docker, vpn, failed>>

Next ==
  \/ \E l \in Labs : Restart(l) \/ Stop(l)
  \/ \E h \in Hosts, c \in Container : RemoveContainer(h, c)
  \/ \E h \in Hosts, m \in Nets : RemoveNetwork(h, m) \/ CreateNetwork(h, m)
  \/ \E h \in Hosts : RemoveSockets(h) \/ BeginHost(h)
  \/ \E n \in Nodes : CreateContainer(n) \/ \E m \in Nets : Join(n, m)
  \/ StopReturns
  \/ SplitAgain
  \/ SetupVpn
  \/ StartReturns
  \/ Abort

Spec == Init /\ [][Next]_vars

-----------------------------------------------------------------------------
\* Properties.

Request == [lab : Labs \cup {NoLab}, request : {"none", "start", "restart", "stop"},
            stage : {"none", "stop", "split", "start"}, visit : SUBSET Hosts,
            kill : SUBSET (Hosts \X Container), drop : SUBSET (Hosts \X Nets),
            place : [Nodes -> Hosts], nets : SUBSET (Hosts \X Nets), nodes : SUBSET Nodes,
            joining : SUBSET (Nodes \X Nets)]

\* Every variable holds a value of the kind the code keeps in it.
TypeOK ==
  /\ labRows \subseteq Labs
  /\ nodeRows \subseteq Labs \X Nodes \X Hosts
  /\ netRows \subseteq Labs \X Nets \X Hosts
  /\ containers \in [Hosts -> SUBSET Container]
  /\ networks \in [Hosts -> [LabNetwork -> 0..MaxNetworks]]
  /\ docked \subseteq Interface /\ cut \subseteq Interface
  /\ tuns \subseteq Tun
  /\ hubs \subseteq Hub
  /\ disturbed \subseteq Labs
  /\ failed \subseteq Labs
  /\ op \in Request

\* Between requests every container of a lab is in the rows, on the host it runs
\* on: a later stop or restart finds it wherever the last split had put it.
RecordedContainers ==
  op = NoRequest =>
    \A h \in Hosts : \A c \in containers[h] : Sound(c[1]) => <<c[1], c[2], h>> \in nodeRows

\* A node never runs on two hosts, although each start splits the lab anew.
OneHostPerNode ==
  \A l \in Labs, n \in Nodes, h, k \in Hosts :
    Sound(l) /\ <<l, n>> \in containers[h] /\ <<l, n>> \in containers[k] => h = k

\* Container c of host h reaches network m, either as one that its host keeps in
\* docker, once and with all its nodes, or through a VPN daemon and a fresh hub.
Tunnels(h, c, m) == {t \in tuns : t.host = h /\ t.lab = c[1] /\ t.node = c[2] /\ t.net = m}
HubFor(l, m) == \E u \in hubs : u.lab = l /\ u.net = m /\ u.fresh
Reaches(h, c, m) ==
  \/ /\ Cardinality(Tunnels(h, c, m)) = 1
     /\ networks[h][<<c[1], m>>] = 0
     /\ c[1] \in disturbed \/ HubFor(c[1], m)
  \/ /\ Tunnels(h, c, m) = {}
     /\ networks[h][<<c[1], m>>] = 1 /\ <<h, c, m>> \in docked
     /\ \A n \in Attached(c[1], m), k \in Hosts : <<c[1], n>> \in containers[k] => k = h

\* Between requests every running node reaches all its networks, except by an
\* interface whose own setup has failed unseen: those its host keeps in docker, once,
\* and the others through a VPN daemon of its own and a hub with the keys of the same
\* start, unless a hub has failed or another lab has interfered with it; and two nodes
\* of a network on different hosts both use the VPN.
NodesConnected ==
  op = NoRequest =>
    \A h \in Hosts : \A c \in containers[h] : Sound(c[1]) =>
      \A m \in Links[c[1]][c[2]] : <<h, c, m>> \in cut \/ Reaches(h, c, m)

\* No two VPN daemons of a lab on one host use the same tun device, over any
\* number of restarts.
TunsUnique ==
  \A t, u \in tuns : Sound(t.lab) /\ t # u /\ t.host = u.host /\ t.lab = u.lab
                       => t.index # u.index

\* docs/guide.rst: the stop button stops the model, and restart restarts it; a
\* request removes containers of its own lab only.
SparesOtherLabs ==
  [][\A h \in Hosts : \A c \in containers[h] \ containers'[h] : c[1] = op.lab]_vars
=============================================================================
