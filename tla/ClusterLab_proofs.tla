-------------------------- MODULE ClusterLab_proofs --------------------------
(***************************************************************************)
(* Proofs about ClusterLab for any labs, hosts, splits and failures: what  *)
(* the rows record, where the nodes run and what they reach, of every lab  *)
(* no request of which has raised.                                         *)
(***************************************************************************)
EXTENDS ClusterLab, FiniteSetTheorems, TLAPS

\* The nodes of lab l that host h runs.
On(h, l) == {n \in Nodes : <<l, n>> \in containers[h]}

\* The rows belong to labs with a Lab row, give each node one host, and name a
\* network only on hosts of nodes.
RowsAgree ==
  /\ \A r \in nodeRows : r[1] \in labRows
  /\ \A r \in netRows : r[1] \in labRows
  /\ \A r, s \in nodeRows : r[1] = s[1] /\ r[2] = s[2] => r[3] = s[3]
  /\ \A l \in Labs, m \in Nets, h \in Hosts : <<l, m, h>> \in netRows => h \in HostsOf(l)

\* The request under way is of a lab with a row.
RequestAgrees ==
  \/ op = NoRequest
  \/ /\ op.lab \in labRows
     /\ op.stage \in {"stop", "split", "start"}
     /\ op.nodes \subseteq Members[op.lab]
     /\ \A x \in op.joining :
          x[1] \in Members[op.lab] \ op.nodes /\ x[2] \in Links[op.lab][x[1]]
     /\ op.stage = "stop" => op.joining = {}
     /\ op.stage \in {"split", "start"} =>
          /\ op.place \in Placements(op.lab)
          /\ op.nets \subseteq DockerNets(op.lab, op.place)
     /\ op.stage = "split" =>
          /\ op.nets = DockerNets(op.lab, op.place) /\ op.nodes = Members[op.lab]
          /\ op.joining = {}

\* No VPN server of lab l runs.
NoHubs(l) == \A u \in hubs : u.lab # l

\* A lab at rest: the rows lead to everything that runs.
Recorded(l) ==
  /\ \A h \in Hosts : \A n \in On(h, l) : <<l, n, h>> \in nodeRows
  /\ \A h \in Hosts, m \in Nets : networks[h][<<l, m>>] # 0 => <<l, m, h>> \in netRows
  /\ l \notin labRows => NoHubs(l)

\* A lab that is being stopped: whatever runs is still to be removed.
Leaving(l) ==
  /\ \A h \in Hosts : \A n \in On(h, l) :
       <<l, n, h>> \in nodeRows /\ <<h, <<l, n>>>> \in op.kill
  /\ \A h \in Hosts, m \in Nets : networks[h][<<l, m>>] # 0 => <<h, m>> \in op.drop
  /\ NoHubs(l)

\* A lab that is split: nothing of it is left.
Gone(l) ==
  /\ \A h \in Hosts : On(h, l) = {}
  /\ \A h \in Hosts, m \in Nets : networks[h][<<l, m>>] = 0
  /\ NoHubs(l)

\* A lab that is being started: what start_lab has passed is where the split put
\* it, nothing else is there, and each host numbers its tun devices from 0.
Rising(l) ==
  /\ \A h \in Hosts : \A n \in On(h, l) :
       /\ n \in Members[l] \ op.nodes /\ op.place[n] = h
       /\ \A m \in Nets : <<h, m>> \notin op.nets
  /\ \A h \in Hosts, m \in Nets :
       networks[h][<<l, m>>] = IF <<h, m>> \in DockerNets(l, op.place) \ op.nets THEN 1 ELSE 0
  /\ \A m \in VpnNets(l, op.place) : l \in disturbed \/ HubFor(l, m)
  /\ \A t \in tuns : t.lab = l => t.index < FirstTun(t.host)
  /\ \A t \in tuns : t.lab = l => <<t.node, t.net>> \notin op.joining

\* Nothing was wrong with the setup of this interface, as far as it has got.
AsSetUp(l, h, n, m) == <<h, <<l, n>>, m>> \notin cut /\ ~(op.lab = l /\ <<n, m>> \in op.joining)
Connected(l) ==
  \A h \in Hosts : \A n \in On(h, l) : \A m \in Links[l][n] :
    AsSetUp(l, h, n, m) => Reaches(h, <<l, n>>, m)

\* Each lab is in one of these states, and unless it is being stopped its nodes
\* reach their networks.
InOrder(l) ==
  /\ op.lab # l => Recorded(l)
  /\ op.lab = l /\ op.stage = "stop" => Leaving(l)
  /\ op.lab = l /\ op.stage = "split" => Gone(l)
  /\ op.lab = l /\ op.stage = "start" => Rising(l)
  /\ op.lab # l \/ op.stage # "stop" => Connected(l)

\* A daemon lives no longer than its container.
TunsInContainers == \A t \in tuns : <<t.lab, t.node>> \in containers[t.host]

\* What is being connected is a container of this start.
JoiningContainers ==
  op.stage = "start" => \A x \in op.joining : <<op.lab, x[1]>> \in containers[op.place[x[1]]]

\* The inductive invariant.
Orderly ==
  /\ TypeOK
  /\ RowsAgree
  /\ RequestAgrees
  /\ TunsInContainers
  /\ JoiningContainers
  /\ TunsUnique
  /\ \A l \in Labs : Sound(l) => InOrder(l)
-----------------------------------------------------------------------------
\* Types.

LEMMA IdleTyped == NoRequest \in Request /\ NoRequest.lab = NoLab /\ NoRequest.stage = "none"
BY HostsAssumption DEF NoRequest, Request

LEMMA AttachedMembers ==
  ASSUME NEW l \in Labs, NEW m
  PROVE  /\ Attached(l, m) \subseteq Members[l] /\ Members[l] \subseteq Nodes
         /\ NetsOf(l) \subseteq Nets
         /\ \A n \in Nodes : Links[l][n] \subseteq Nets
BY LinksAssumption, MembersAssumption DEF Attached, NetsOf

LEMMA SplitTyped ==
  ASSUME NEW l \in Labs, NEW p \in Placements(l)
  PROVE  /\ p \in [Nodes -> Hosts]
         /\ DockerNets(l, p) \subseteq Hosts \X Nets
         /\ VpnNets(l, p) \subseteq Nets
BY AttachedMembers DEF Placements, DockerNets, VpnNets

\* A network is kept in docker by the host of its nodes, and by no other.
LEMMA DockerOrVpn ==
  ASSUME NEW l \in Labs, NEW p \in Placements(l), NEW n \in Members[l], NEW m \in Links[l][n]
  PROVE  /\ m \in NetsOf(l) /\ n \in Attached(l, m)
         /\ m \notin VpnNets(l, p) =>
              /\ <<p[n], m>> \in DockerNets(l, p)
              /\ \A k \in Attached(l, m) : p[k] = p[n]
         /\ m \in VpnNets(l, p) <=> Vpn(l, p, m)
<1>1. n \in Nodes /\ m \in Nets /\ p[n] \in Hosts
  BY AttachedMembers, SplitTyped
<1>2. m \in NetsOf(l) /\ n \in Attached(l, m)
  BY DEF NetsOf, Attached
<1>3. m \in VpnNets(l, p) <=> Vpn(l, p, m)
  BY <1>2 DEF VpnNets
<1>4. ASSUME m \notin VpnNets(l, p)
      PROVE  <<p[n], m>> \in DockerNets(l, p) /\ \A k \in Attached(l, m) : p[k] = p[n]
  <2>1. PICK h \in Hosts : <<h, m>> \in DockerNets(l, p)
    BY <1>3, <1>4 DEF Vpn
  <2>2. Local(l, p, m)
    BY <2>1 DEF DockerNets
  <2>3. \A k \in Attached(l, m) : p[k] = p[n]
    BY <1>2, <2>2 DEF Local
  <2>4. <<p[n], m>> \in DockerNets(l, p)
    BY <1>1, <1>2, <2>2 DEF DockerNets
  <2>5. QED
    BY <2>3, <2>4
<1>5. QED
  BY <1>2, <1>3, <1>4

LEMMA NumberedTyped ==
  ASSUME NEW s \in SUBSET Nets, NEW first \in Nat, NEW f \in Numbered(s, first)
  PROVE  /\ \A m \in s : f[m] \in Nat /\ first <= f[m] /\ f[m] < first + Cardinality(s)
         /\ \A m, k \in s : m # k => f[m] # f[k]
         /\ Cardinality(s) \in Nat
<1>1. IsFiniteSet(s)
  BY FiniteAssumption, FS_Subset
<1>2. Cardinality(s) \in Nat
  BY <1>1, FS_CardinalityType
<1>3. QED
  BY <1>2 DEF Numbered

\* The tun devices of a host that a start has made are finitely many.
LEMMA TunsMadeFinite ==
  ASSUME RequestAgrees, TypeOK, op.lab \in Labs, NEW h \in Hosts
  PROVE  IsFiniteSet(TunsMade(h)) /\ FirstTun(h) \in Nat
<1>1. TunsMade(h) \subseteq Nodes \X Nets
  BY AttachedMembers DEF TunsMade
<1>2. IsFiniteSet(Nodes \X Nets)
  BY FiniteAssumption, FS_Product
<1>3. IsFiniteSet(TunsMade(h))
  BY <1>1, <1>2, FS_Subset
<1>4. QED
  BY <1>3, FS_CardinalityType DEF FirstTun

\* What a request under way has.
LEMMA Busy ==
  ASSUME TypeOK, RequestAgrees, op # NoRequest \/ op.stage # "none" \/ op.lab # NoLab
  PROVE  /\ op.lab \in Labs /\ op.lab \in labRows /\ op # NoRequest
         /\ op.stage \in {"stop", "split", "start"}
         /\ op.nodes \subseteq Members[op.lab] /\ Members[op.lab] \subseteq Nodes
         /\ op.stage \in {"split", "start"} =>
              /\ op.place \in Placements(op.lab)
              /\ op.nets \subseteq DockerNets(op.lab, op.place)
BY IdleTyped, AttachedMembers, NodesAssumption DEF TypeOK, RequestAgrees

LEMMA SplitRequest ==
  ASSUME NEW l \in Labs, NEW request \in {"start", "restart"}, NEW p \in Placements(l),
         StartWith(request, l, p)
  PROVE  /\ op' \in Request /\ op'.lab = l /\ op'.stage = "split" /\ op'.place = p
         /\ op'.nets = DockerNets(l, p) /\ op'.nodes = Members[l] /\ op'.joining = {}
BY SplitTyped, AttachedMembers DEF StartWith, NoRequest, Request

LEMMA StopRequest ==
  ASSUME TypeOK, NEW l \in Labs, NEW request \in {"stop", "restart"}, StopWith(request, l)
  PROVE  /\ op' \in Request /\ op'.lab = l /\ op'.stage = "stop"
         /\ op'.kill = KillList(l) /\ op'.drop = DropList(l) /\ op'.nodes = {}
         /\ op'.joining = {}
         /\ hubs' \subseteq hubs /\ disturbed' \subseteq Labs
<1>1. /\ KillList(l) \subseteq Hosts \X Container /\ DropList(l) \subseteq Hosts \X Nets
      /\ HostsOf(l) \subseteq Hosts
  BY DEF KillList, DropList, HostsOf
<1>2. NoRequest.place \in [Nodes -> Hosts] /\ NoRequest.nets = {} /\ NoRequest.nodes = {}
      /\ NoRequest.joining = {}
  BY HostsAssumption DEF NoRequest
<1>3. op' \in Request /\ op'.lab = l /\ op'.stage = "stop" /\ op'.nodes = {} /\ op'.joining = {}
      /\ op'.kill = KillList(l) /\ op'.drop = DropList(l)
  BY <1>1, <1>2 DEF StopWith, NoRequest, Request
<1>4. hubs' \subseteq hubs /\ disturbed' \subseteq Labs
  BY DEF StopWith, KillHubs, TypeOK, Hub
<1>5. QED
  BY <1>3, <1>4

LEMMA HubsTyped ==
  ASSUME TypeOK, RequestAgrees, SetupVpn
  PROVE  hubs' \subseteq Hub /\ disturbed' \subseteq Labs
<1> DEFINE nets == VpnNets(op.lab, op.place)
<1>1. op.stage = "split"
  BY DEF SetupVpn
<1>2. op.lab \in Labs /\ nets \subseteq Nets
  BY <1>1, Busy, SplitTyped
<1>3. PICK number \in Numbered(nets, 0), left \in SUBSET nets :
        /\ hubs' = {[u EXCEPT !.fresh = @ /\ u.lab # op.lab] : u \in hubs} \cup
                   {[lab |-> op.lab, net |-> m, index |-> number[m], fresh |-> TRUE] : m \in left}
        /\ disturbed' \subseteq disturbed \cup {op.lab}
  <2>1. PICK number \in Numbered(nets, 0), down \in SUBSET nets :
          /\ hubs' = {[u EXCEPT !.fresh = @ /\ u.lab # op.lab] : u \in hubs} \cup
                     {[lab |-> op.lab, net |-> m, index |-> number[m], fresh |-> TRUE] :
                        m \in nets \ ({m \in nets : \E u \in hubs : u.lab = op.lab /\ u.net = m}
                                \cup {m \in nets : \E u \in hubs : u.index = number[m]}
                                \cup down)}
          /\ disturbed' \subseteq disturbed \cup {op.lab}
    BY DEF SetupVpn
  <2>2. nets \ ({m \in nets : \E u \in hubs : u.lab = op.lab /\ u.net = m}
                 \cup {m \in nets : \E u \in hubs : u.index = number[m]} \cup down) \in SUBSET nets
    OBVIOUS
  <2>3. QED
    BY <2>1, <2>2
<1>4. \A m \in nets : number[m] \in Nat
  BY <1>2, NumberedTyped
<1>5. \A u \in hubs : [u EXCEPT !.fresh = @ /\ u.lab # op.lab] \in Hub
  BY DEF TypeOK, Hub
<1>6. \A m \in nets :
        [lab |-> op.lab, net |-> m, index |-> number[m], fresh |-> TRUE] \in Hub
  BY <1>2, <1>4 DEF Hub
<1>7. hubs' \subseteq Hub
  BY <1>3, <1>5, <1>6
<1>8. QED
  BY <1>2, <1>3, <1>7 DEF TypeOK

\* The interface that a container is given.
LEMMA TunTyped ==
  ASSUME TypeOK, RequestAgrees, op.lab \in Labs, op.stage = "start", NEW n, NEW m,
         <<n, m>> \in op.joining
  PROVE  /\ n \in Members[op.lab] /\ n \in Nodes /\ op.place[n] \in Hosts
         /\ m \in Nets /\ m \in Links[op.lab][n]
         /\ FirstTun(op.place[n]) \in Nat
         /\ NewTun(n, m) \in Tun /\ JoinedInterface(n, m) \in Interface
<1>1. n \in Members[op.lab] /\ n \in Nodes /\ m \in Links[op.lab][n] /\ m \in Nets
  BY Busy, AttachedMembers, IdleTyped DEF RequestAgrees
<1>2. op.place[n] \in Hosts
  BY <1>1, Busy, SplitTyped
<1>3. FirstTun(op.place[n]) \in Nat
  BY <1>2, TunsMadeFinite
<1>4. NewTun(n, m) \in Tun
  BY <1>1, <1>2, <1>3 DEF Tun, NewTun
<1>5. JoinedInterface(n, m) \in Interface
  BY <1>1, <1>2 DEF Interface, Container, JoinedInterface
<1>6. QED
  BY <1>1, <1>2, <1>3, <1>4, <1>5

LEMMA Raised ==
  ASSUME TypeOK, RequestAgrees, op # NoRequest, Raise
  PROVE  failed' \subseteq Labs /\ op' \in Request /\ op' = NoRequest
BY Busy, IdleTyped DEF Raise, TypeOK

\* Docker removes a network or raises.
LEMMA NetworkOutcome ==
  ASSUME TypeOK, RequestAgrees, NEW h \in Hosts, NEW m \in Nets, RemoveNetwork(h, m)
  PROVE  /\ op.lab \in Labs /\ op # NoRequest /\ <<op.lab, m>> \in LabNetwork
         /\ \/ Raise /\ networks' = networks
            \/ /\ networks' = [networks EXCEPT ![h][<<op.lab, m>>] = 0]
               /\ op' = [op EXCEPT !.drop = @ \ {<<h, m>>}]
               /\ op' \in Request
               /\ failed' = failed
<1>1. op.lab \in Labs /\ op # NoRequest /\ <<op.lab, m>> \in LabNetwork
  BY Busy DEF RemoveNetwork, LabNetwork
<1>2. \/ Raise /\ networks' = networks
      \/ /\ networks' = [networks EXCEPT ![h][<<op.lab, m>>] = 0]
         /\ op' = [op EXCEPT !.drop = @ \ {<<h, m>>}]
         /\ failed' = failed
  BY DEF RemoveNetwork
<1>3. [op EXCEPT !.drop = @ \ {<<h, m>>}] \in Request
  BY DEF TypeOK, Request
<1>4. QED
  BY <1>1, <1>2, <1>3

\* Docker creates a container, or it raises.
Creates(n) ==
  /\ containers' = [containers EXCEPT ![op.place[n]] = @ \cup {<<op.lab, n>>}]
  /\ op' = [op EXCEPT !.nodes = @ \ {n}, !.joining = {n} \X Links[op.lab][n]]
  /\ failed' = failed

LEMMA ContainerOutcome ==
  ASSUME TypeOK, RequestAgrees, NEW n \in Nodes, CreateContainer(n)
  PROVE  /\ op.lab \in Labs /\ op # NoRequest /\ op.stage = "start" /\ n \in op.nodes
         /\ op.place[n] \in Hosts /\ <<op.lab, n>> \in Container /\ op.joining = {}
         /\ \A m \in Nets : <<op.place[n], m>> \notin op.nets
         /\ UNCHANGED <<rows, networks, docked, tuns, cut, vpn>>
         /\ \/ Creates(n) /\ op' \in Request
            \/ Raise /\ containers' = containers
<1>1. op.lab \in Labs /\ op # NoRequest /\ op.stage = "start" /\ n \in op.nodes
  BY Busy DEF CreateContainer
<1>2. op.place[n] \in Hosts /\ <<op.lab, n>> \in Container
  BY <1>1 DEF TypeOK, Request, Container
<1>3. [op EXCEPT !.nodes = @ \ {n}, !.joining = {n} \X Links[op.lab][n]] \in Request
  <2>1. {n} \X Links[op.lab][n] \subseteq Nodes \X Nets
    BY <1>1, AttachedMembers
  <2>2. QED
    BY <2>1 DEF TypeOK, Request
<1>4. ASSUME ~(Raise /\ containers' = containers)
      PROVE  Creates(n)
  BY <1>4 DEF CreateContainer, Creates
<1>5. Creates(n) => op' \in Request
  BY <1>3 DEF Creates
<1>6. QED
  BY <1>1, <1>2, <1>4, <1>5 DEF CreateContainer

\* An interface is set up, or it is cut.
LEMMA JoinOutcome ==
  ASSUME TypeOK, RequestAgrees, NEW n \in Nodes, NEW m \in Nets, Join(n, m)
  PROVE  /\ op.lab \in Labs /\ op # NoRequest /\ op.stage = "start" /\ <<n, m>> \in op.joining
         /\ op' = [op EXCEPT !.joining = @ \ {<<n, m>>}] /\ op' \in Request
         /\ UNCHANGED <<rows, containers, networks, vpn, failed>>
         /\ docked \subseteq docked' /\ docked' \subseteq docked \cup {JoinedInterface(n, m)}
         /\ cut \subseteq cut' /\ cut' \subseteq cut \cup {JoinedInterface(n, m)}
         /\ tuns' = tuns \/ (Vpn(op.lab, op.place, m) /\ tuns' = tuns \cup {NewTun(n, m)})
         /\ \/ JoinedInterface(n, m) \in cut'
            \/ Vpn(op.lab, op.place, m) /\ tuns' = tuns \cup {NewTun(n, m)}
            \/ ~Vpn(op.lab, op.place, m) /\ tuns' = tuns /\ JoinedInterface(n, m) \in docked'
<1>1. op.lab \in Labs /\ op # NoRequest /\ op.stage = "start" /\ <<n, m>> \in op.joining
  BY Busy DEF Join
<1>2. op' = [op EXCEPT !.joining = @ \ {<<n, m>>}] /\ op' \in Request
  BY DEF Join, TypeOK, Request
<1>3. PICK i, t : i = JoinedInterface(n, m) /\ t = NewTun(n, m)
  OBVIOUS
<1>4. PICK v \in BOOLEAN : v <=> Vpn(op.lab, op.place, m)
  OBVIOUS
<1>5. CASE JoinVpn(n, m)
  <2>1. /\ v /\ docked' = docked /\ (tuns' = tuns \/ tuns' = tuns \cup {t})
        /\ \/ tuns' = tuns \cup {t} /\ cut' = cut
           \/ cut' = cut \cup {i}
    BY <1>3, <1>4, <1>5 DEF JoinVpn, SetUp, FailUnseen
  <2>2. UNCHANGED <<rows, containers, networks, vpn, failed>>
    BY DEF Join
  <2>3. /\ docked \subseteq docked' /\ docked' \subseteq docked \cup {i}
        /\ cut \subseteq cut' /\ cut' \subseteq cut \cup {i}
        /\ tuns' = tuns \/ (v /\ tuns' = tuns \cup {t})
        /\ \/ i \in cut'
           \/ v /\ tuns' = tuns \cup {t}
           \/ ~v /\ tuns' = tuns /\ i \in docked'
    BY <2>1
  <2>4. QED
    BY <1>1, <1>2, <1>3, <1>4, <2>2, <2>3, Zenon
<1>6. CASE JoinDocker(n, m)
  <2>1. ~v /\ docked' = docked \cup {i} /\ tuns' = tuns /\ (cut' = cut \/ cut' = cut \cup {i})
    BY <1>3, <1>4, <1>6 DEF JoinDocker, SetUp, FailUnseen
  <2>2. UNCHANGED <<rows, containers, networks, vpn, failed>>
    BY DEF Join
  <2>3. /\ docked \subseteq docked' /\ docked' \subseteq docked \cup {i}
        /\ cut \subseteq cut' /\ cut' \subseteq cut \cup {i}
        /\ tuns' = tuns \/ (v /\ tuns' = tuns \cup {t})
        /\ \/ i \in cut'
           \/ v /\ tuns' = tuns \cup {t}
           \/ ~v /\ tuns' = tuns /\ i \in docked'
    BY <2>1
  <2>4. QED
    BY <1>1, <1>2, <1>3, <1>4, <2>2, <2>3, Zenon
<1>7. QED
  BY <1>5, <1>6 DEF Join

LEMMA StepTyped ==
  ASSUME TypeOK, RequestAgrees, [Next]_vars
  PROVE  TypeOK'
<1>1. CASE UNCHANGED vars
  BY <1>1 DEF vars, rows, docker, vpn, TypeOK
<1>2. ASSUME NEW l \in Labs, Restart(l)
      PROVE  TypeOK'
  <2>1. op' \in Request /\ hubs' \subseteq hubs /\ disturbed' \subseteq Labs
    <3>1. CASE l \in labRows
      BY <1>2, <3>1, StopRequest DEF Restart
    <3>2. CASE l \notin labRows
      BY <1>2, <3>2, SplitRequest DEF Restart, vpn, TypeOK
    <3>3. QED
      BY <3>1, <3>2
  <2>2. QED
    BY <1>2, <2>1 DEF Restart, docker, TypeOK
<1>3. ASSUME NEW l \in Labs, Stop(l)
      PROVE  TypeOK'
  <2>1. op' \in Request /\ hubs' \subseteq hubs /\ disturbed' \subseteq Labs
    BY <1>3, StopRequest DEF Stop
  <2>2. QED
    BY <1>3, <2>1 DEF Stop, rows, docker, TypeOK
<1>4. ASSUME NEW h \in Hosts, NEW c \in Container, RemoveContainer(h, c)
      PROVE  TypeOK'
  <2>1. op' \in Request
    BY <1>4 DEF RemoveContainer, TypeOK, Request
  <2>2. containers' \in [Hosts -> SUBSET Container] /\ networks' = networks
    BY <1>4 DEF RemoveContainer, TypeOK
  <2>3. docked' \subseteq Interface /\ cut' \subseteq Interface /\ tuns' \subseteq Tun
    BY <1>4 DEF RemoveContainer, TypeOK
  <2>4. QED
    BY <1>4, <2>1, <2>2, <2>3 DEF RemoveContainer, rows, vpn, TypeOK
<1>5. ASSUME NEW h \in Hosts, NEW m \in Nets, RemoveNetwork(h, m)
      PROVE  TypeOK'
  <2>1. op.lab \in Labs /\ op # NoRequest /\ <<op.lab, m>> \in LabNetwork
    BY <1>5, NetworkOutcome
  <2>2. CASE Raise /\ networks' = networks
    <3>1. failed' \subseteq Labs /\ op' \in Request
      BY <2>1, <2>2, Raised
    <3>2. QED
      BY <1>5, <2>2, <3>1 DEF RemoveNetwork, rows, vpn, TypeOK
  <2>3. CASE /\ networks' = [networks EXCEPT ![h][<<op.lab, m>>] = 0]
             /\ op' \in Request
             /\ failed' = failed
    <3>1. networks' \in [Hosts -> [LabNetwork -> 0..MaxNetworks]]
      BY <2>1, <2>3, BoundAssumption DEF TypeOK
    <3>2. QED
      BY <1>5, <2>3, <3>1 DEF RemoveNetwork, rows, vpn, TypeOK
  <2>4. QED
    BY <1>5, <2>2, <2>3, NetworkOutcome
<1>6. ASSUME NEW h \in Hosts, NEW m \in Nets, CreateNetwork(h, m)
      PROVE  TypeOK'
  <2>1. op.lab \in Labs /\ <<op.lab, m>> \in LabNetwork
    BY <1>6, Busy DEF CreateNetwork, LabNetwork
  <2>2. op' \in Request
    BY <1>6 DEF CreateNetwork, TypeOK, Request
  <2>3. networks' \in [Hosts -> [LabNetwork -> 0..MaxNetworks]]
    BY <1>6, <2>1, BoundAssumption DEF CreateNetwork, TypeOK
  <2>4. QED
    BY <1>6, <2>2, <2>3 DEF CreateNetwork, rows, vpn, TypeOK
<1>7. ASSUME NEW h \in Hosts, RemoveSockets(h)
      PROVE  TypeOK'
  <2>1. op' \in Request
    BY <1>7 DEF RemoveSockets, TypeOK, Request
  <2>2. QED
    BY <1>7, <2>1 DEF RemoveSockets, rows, docker, vpn, TypeOK
<1>8. ASSUME NEW n \in Nodes, CreateContainer(n)
      PROVE  TypeOK'
  <2>1. op.place[n] \in Hosts /\ <<op.lab, n>> \in Container
        /\ UNCHANGED <<rows, networks, docked, tuns, cut, vpn>> /\ op # NoRequest
    BY <1>8, ContainerOutcome
  <2>2. CASE Creates(n) /\ op' \in Request
    <3>1. containers' \in [Hosts -> SUBSET Container]
      BY <2>1, <2>2 DEF Creates, TypeOK
    <3>2. QED
      BY <2>1, <2>2, <3>1 DEF Creates, rows, vpn, TypeOK
  <2>3. CASE Raise /\ containers' = containers
    <3>1. failed' \subseteq Labs /\ op' \in Request
      BY <2>1, <2>3, Raised
    <3>2. QED
      BY <2>1, <2>3, <3>1 DEF rows, vpn, TypeOK
  <2>4. QED
    BY <1>8, <2>2, <2>3, ContainerOutcome
<1>15. ASSUME NEW n \in Nodes, NEW m \in Nets, Join(n, m)
       PROVE  TypeOK'
  <2>1. NewTun(n, m) \in Tun /\ JoinedInterface(n, m) \in Interface
    BY <1>15, JoinOutcome, TunTyped
  <2>2. /\ op' \in Request /\ UNCHANGED <<rows, containers, networks, vpn, failed>>
        /\ docked' \subseteq docked \cup {JoinedInterface(n, m)}
        /\ cut' \subseteq cut \cup {JoinedInterface(n, m)}
        /\ tuns' \subseteq tuns \cup {NewTun(n, m)}
    BY <1>15, JoinOutcome
  <2>3. QED
    BY <2>1, <2>2 DEF rows, vpn, TypeOK
<1>16. ASSUME NEW h \in Hosts, BeginHost(h)
       PROVE  TypeOK'
  <2>1. op' \in Request
    BY <1>16 DEF BeginHost, TypeOK, Request
  <2>2. QED
    BY <1>16, <2>1 DEF BeginHost, rows, docker, vpn, TypeOK
<1>9. CASE StopReturns
  BY <1>9, IdleTyped DEF StopReturns, RowsWithout, docker, vpn, TypeOK
<1>10. CASE SplitAgain
  <2>1. op.lab \in Labs
    BY <1>10, Busy DEF SplitAgain, Stopped
  <2>2. op' \in Request
    BY <1>10, <2>1, SplitRequest DEF SplitAgain
  <2>3. QED
    BY <1>10, <2>2 DEF SplitAgain, rows, docker, vpn, TypeOK
<1>11. CASE SetupVpn
  <2>1. op' \in Request
    BY <1>11 DEF SetupVpn, TypeOK, Request
  <2>2. QED
    BY <1>11, <2>1, HubsTyped DEF SetupVpn, rows, docker, TypeOK
<1>12. CASE StartReturns
  <2>1. op.lab \in Labs /\ Members[op.lab] \subseteq Nodes /\ op.place \in Placements(op.lab)
    BY <1>12, Busy DEF StartReturns
  <2>2. op.place \in [Nodes -> Hosts] /\ DockerNets(op.lab, op.place) \subseteq Hosts \X Nets
    BY <2>1, SplitTyped
  <2>3. NewNodeRows \subseteq Labs \X Nodes \X Hosts /\ NewNetRows \subseteq Labs \X Nets \X Hosts
    BY <2>1, <2>2 DEF NewNodeRows, NewNetRows
  <2>4. QED
    BY <1>12, <2>3, IdleTyped DEF StartReturns, docker, vpn, TypeOK
<1>13. CASE Abort
  <2>1. op.lab \in Labs
    BY <1>13, Busy DEF Abort
  <2>2. QED
    BY <1>13, <2>1, IdleTyped DEF Abort, Raise, rows, docker, vpn, TypeOK
<1>14. QED
  BY <1>1, <1>2, <1>3, <1>4, <1>5, <1>6, <1>7, <1>8, <1>9, <1>10, <1>11, <1>12, <1>13, <1>15,
     <1>16 DEF Next
-----------------------------------------------------------------------------
\* Rows and requests.

LEMMA RowsKept ==
  ASSUME RowsAgree, labRows \subseteq labRows', nodeRows' = nodeRows, netRows' = netRows
  PROVE  RowsAgree'
BY DEF RowsAgree, HostsOf

LEMMA StepRows ==
  ASSUME TypeOK, RowsAgree, RequestAgrees, [Next]_vars
  PROVE  RowsAgree'
<1>1. CASE StopReturns
  <2>1. /\ nodeRows' = {r \in nodeRows : r[1] # op.lab}
        /\ netRows' = {r \in netRows : r[1] # op.lab}
        /\ labRows' = labRows \ {op.lab}
    BY <1>1 DEF StopReturns, RowsWithout
  <2>2. ASSUME NEW l \in Labs, NEW m \in Nets, NEW h \in Hosts, <<l, m, h>> \in netRows'
        PROVE  h \in HostsOf(l)'
    <3>1. <<l, m, h>> \in netRows /\ l # op.lab
      BY <2>1, <2>2
    <3>2. PICK n \in Nodes : <<l, n, h>> \in nodeRows
      BY <3>1 DEF RowsAgree, HostsOf
    <3>3. <<l, n, h>> \in nodeRows'
      BY <2>1, <3>1, <3>2
    <3>4. QED
      BY <3>3 DEF HostsOf
  <2>3. QED
    BY <2>1, <2>2 DEF RowsAgree
<1>2. CASE StartReturns
  <2>1. /\ nodeRows' = {r \in nodeRows : r[1] # op.lab} \cup NewNodeRows
        /\ netRows' = {r \in netRows : r[1] # op.lab} \cup NewNetRows
        /\ labRows' = labRows
    BY <1>2 DEF StartReturns
  <2>2. /\ op.lab \in Labs /\ op.lab \in labRows /\ op.place \in Placements(op.lab)
        /\ Members[op.lab] \subseteq Nodes
    BY <1>2, Busy DEF StartReturns
  <2>3. \A r \in nodeRows' : r[1] \in labRows'
    BY <2>1, <2>2 DEF RowsAgree, NewNodeRows
  <2>4. \A r \in netRows' : r[1] \in labRows'
    BY <2>1, <2>2 DEF RowsAgree, NewNetRows
  <2>5. \A r, s \in nodeRows' : r[1] = s[1] /\ r[2] = s[2] => r[3] = s[3]
    BY <2>1 DEF RowsAgree, NewNodeRows
  <2>6. ASSUME NEW l \in Labs, NEW m \in Nets, NEW h \in Hosts, <<l, m, h>> \in netRows'
        PROVE  h \in HostsOf(l)'
    <3>1. CASE l # op.lab
      <4>1. <<l, m, h>> \in netRows
        BY <2>1, <2>6, <3>1 DEF NewNetRows
      <4>2. PICK n \in Nodes : <<l, n, h>> \in nodeRows
        BY <4>1 DEF RowsAgree, HostsOf
      <4>3. <<l, n, h>> \in nodeRows'
        BY <2>1, <3>1, <4>2
      <4>4. QED
        BY <4>3 DEF HostsOf
    <3>2. CASE l = op.lab
      <4>1. <<h, m>> \in DockerNets(l, op.place)
        BY <2>1, <2>6, <3>2 DEF NewNetRows, DockerNets
      <4>2. PICK n \in Attached(l, m) : op.place[n] = h
        BY <4>1 DEF DockerNets
      <4>3. n \in Members[l] /\ n \in Nodes
        BY <2>2, <3>2, <4>2 DEF Attached
      <4>4. <<l, n, h>> \in nodeRows'
        BY <2>1, <3>2, <4>2, <4>3 DEF NewNodeRows
      <4>5. QED
        BY <4>3, <4>4 DEF HostsOf
    <3>3. QED
      BY <3>1, <3>2
  <2>7. QED
    BY <2>3, <2>4, <2>5, <2>6 DEF RowsAgree
<1>3. CASE ~StopReturns /\ ~StartReturns
  <2>1. labRows \subseteq labRows' /\ nodeRows' = nodeRows /\ netRows' = netRows
    <3>1. CASE UNCHANGED vars
      BY <3>1 DEF vars, rows
    <3>2. CASE Next
      BY <1>3, <3>2
         DEF Next, Restart, Stop, RemoveContainer, RemoveNetwork, CreateNetwork, RemoveSockets,
             BeginHost, CreateContainer, Join, SplitAgain, SetupVpn, Abort, rows
    <3>3. QED
      BY <3>1, <3>2
  <2>2. QED
    BY <2>1, RowsKept
<1>4. QED
  BY <1>1, <1>2, <1>3

LEMMA StepRequest ==
  ASSUME TypeOK, RowsAgree, RequestAgrees, [Next]_vars
  PROVE  RequestAgrees'
<1>1. CASE UNCHANGED vars
  BY <1>1 DEF vars, rows, RequestAgrees
<1>2. ASSUME NEW l \in Labs, Restart(l)
      PROVE  RequestAgrees'
  <2>1. CASE l \in labRows
    <3>1. op'.lab = l /\ op'.stage = "stop" /\ op'.nodes = {} /\ op'.joining = {}
        /\ l \in labRows'
      BY <1>2, <2>1, StopRequest DEF Restart
    <3>2. QED
      BY <3>1 DEF RequestAgrees
  <2>2. CASE l \notin labRows
    <3>1. PICK p \in Placements(l) : StartWith("start", l, p)
      BY <1>2, <2>2 DEF Restart
    <3>2. /\ op'.lab = l /\ op'.stage = "split" /\ op'.place = p
          /\ op'.nets = DockerNets(l, p) /\ op'.nodes = Members[l] /\ op'.joining = {}
      BY <3>1, SplitRequest
    <3>3. QED
      BY <1>2, <3>2 DEF Restart, RequestAgrees
  <2>3. QED
    BY <2>1, <2>2
<1>3. ASSUME NEW l \in Labs, Stop(l)
      PROVE  RequestAgrees'
  <2>1. op'.lab = l /\ op'.stage = "stop" /\ op'.nodes = {} /\ op'.joining = {}
        /\ l \in labRows'
    BY <1>3, StopRequest DEF Stop, rows
  <2>2. QED
    BY <2>1 DEF RequestAgrees
<1>4. CASE SplitAgain
  <2>1. op.lab \in Labs /\ op.lab \in labRows
    BY <1>4, Busy DEF SplitAgain, Stopped
  <2>2. PICK p \in Placements(op.lab) : StartWith("restart", op.lab, p)
    BY <1>4 DEF SplitAgain
  <2>3. /\ op'.lab = op.lab /\ op'.stage = "split" /\ op'.place = p
        /\ op'.nets = DockerNets(op.lab, p) /\ op'.nodes = Members[op.lab]
        /\ op'.joining = {}
    BY <2>1, <2>2, SplitRequest
  <2>4. QED
    BY <1>4, <2>1, <2>3 DEF SplitAgain, rows, RequestAgrees
<1>5. CASE op' = NoRequest
  BY <1>5 DEF RequestAgrees
<1>6. CASE SetupVpn
  <2>1. op.stage = "split" /\ op # NoRequest
    BY <1>6, Busy DEF SetupVpn
  <2>2. /\ op'.lab = op.lab /\ op'.stage = "start" /\ op'.place = op.place
        /\ op'.nets = op.nets /\ op'.nodes = op.nodes /\ op'.joining = op.joining
        /\ labRows' = labRows
    BY <1>6 DEF SetupVpn, rows, TypeOK, Request
  <2>3. QED
    BY <2>1, <2>2 DEF RequestAgrees
<1>7. ASSUME op' # NoRequest, op # NoRequest, op.stage # "split", labRows' = labRows,
             op'.lab = op.lab, op'.stage = op.stage, op'.place = op.place,
             op'.nets \subseteq op.nets, op'.nodes = op.nodes,
             op'.joining \subseteq op.joining
      PROVE  RequestAgrees'
  BY <1>7 DEF RequestAgrees
<1>8. ASSUME NEW h \in Hosts, NEW c \in Container, RemoveContainer(h, c)
      PROVE  RequestAgrees'
  BY <1>8, <1>5, <1>7, Busy DEF RemoveContainer, rows, TypeOK, Request
<1>9. ASSUME NEW h \in Hosts, NEW m \in Nets, RemoveNetwork(h, m)
      PROVE  RequestAgrees'
  <2>1. CASE Raise
    BY <1>5, <2>1 DEF Raise
  <2>2. CASE op' = [op EXCEPT !.drop = @ \ {<<h, m>>}]
    BY <1>9, <2>2, <1>5, <1>7, Busy DEF RemoveNetwork, rows, TypeOK, Request
  <2>3. QED
    BY <1>9, <2>1, <2>2, NetworkOutcome
<1>10. ASSUME NEW h \in Hosts, NEW m \in Nets, CreateNetwork(h, m)
      PROVE  RequestAgrees'
  BY <1>10, <1>5, <1>7, Busy DEF CreateNetwork, rows, TypeOK, Request
<1>11. ASSUME NEW h \in Hosts, RemoveSockets(h)
      PROVE  RequestAgrees'
  BY <1>11, <1>5, <1>7, Busy DEF RemoveSockets, rows, TypeOK, Request
<1>12. ASSUME NEW n \in Nodes, CreateContainer(n)
      PROVE  RequestAgrees'
  <2>1. /\ op # NoRequest /\ op.stage = "start" /\ labRows' = labRows /\ n \in op.nodes
        /\ op.nodes \subseteq Members[op.lab]
    BY <1>12, ContainerOutcome, Busy DEF rows
  <2>2. CASE Raise
    BY <1>5, <2>2 DEF Raise
  <2>3. CASE Creates(n)
    <3>1. /\ op'.lab = op.lab /\ op'.stage = op.stage /\ op'.place = op.place
          /\ op'.nets = op.nets /\ op'.nodes = op.nodes \ {n}
          /\ op'.joining = {n} \X Links[op.lab][n]
      BY <2>3 DEF Creates, TypeOK, Request
    <3>2. \A x \in op'.joining :
            x[1] \in Members[op'.lab] \ op'.nodes /\ x[2] \in Links[op'.lab][x[1]]
      BY <2>1, <3>1
    <3>3. QED
      BY <2>1, <3>1, <3>2 DEF RequestAgrees
  <2>4. QED
    BY <1>12, <2>2, <2>3, ContainerOutcome
<1>15. ASSUME NEW n \in Nodes, NEW m \in Nets, Join(n, m)
       PROVE  RequestAgrees'
  <2>1. /\ op # NoRequest /\ op.stage = "start" /\ labRows' = labRows
        /\ op' = [op EXCEPT !.joining = @ \ {<<n, m>>}]
    BY <1>15, JoinOutcome DEF rows
  <2>2. QED
    BY <1>5, <1>7, <2>1 DEF TypeOK, Request
<1>16. ASSUME NEW h \in Hosts, BeginHost(h)
       PROVE  RequestAgrees'
  BY <1>16, <1>5, <1>7, Busy DEF BeginHost, rows, TypeOK, Request
<1>13. CASE StopReturns \/ StartReturns \/ Abort
  BY <1>5, <1>13 DEF StopReturns, StartReturns, Abort, Raise
<1>14. QED
  BY <1>1, <1>2, <1>3, <1>4, <1>6, <1>8, <1>9, <1>10, <1>11, <1>12, <1>13, <1>15,
     <1>16 DEF Next
-----------------------------------------------------------------------------
\* What a step does to a lab that the request is not of.

LeavesRows(l) ==
  /\ \A n \in Nodes, h \in Hosts : <<l, n, h>> \in nodeRows => <<l, n, h>> \in nodeRows'
  /\ \A m \in Nets, h \in Hosts : <<l, m, h>> \in netRows => <<l, m, h>> \in netRows'
  /\ l \in labRows => l \in labRows'

\* Containers may go, with their tun devices; hubs may go, and the lab is disturbed.
LeavesDocker(l) ==
  /\ \A h \in Hosts, n \in Nodes : <<l, n>> \in containers'[h] => <<l, n>> \in containers[h]
  /\ \A h \in Hosts, m \in Nets : networks'[h][<<l, m>>] = networks[h][<<l, m>>]
  /\ \A h \in Hosts, n \in Nodes : <<l, n>> \in containers'[h] =>
       \A t \in Tun : t.host = h /\ t.lab = l /\ t.node = n => (t \in tuns' <=> t \in tuns)
  /\ \A h \in Hosts, n \in Nodes, m \in Nets : <<l, n>> \in containers'[h] =>
       /\ <<h, <<l, n>>, m>> \in docked => <<h, <<l, n>>, m>> \in docked'
       /\ <<h, <<l, n>>, m>> \in cut => <<h, <<l, n>>, m>> \in cut'
LeavesHubs(l) ==
  /\ \A u \in hubs' : u.lab = l => u \in hubs
  /\ \/ l \in disturbed'
     \/ l \notin disturbed /\ \A u \in hubs : u.lab = l => u \in hubs'

LEMMA StillReaches ==
  ASSUME TypeOK, TypeOK', NEW l \in Labs, LeavesDocker(l), LeavesHubs(l),
         NEW h \in Hosts, NEW n \in Nodes, NEW m \in Nets,
         <<l, n>> \in containers'[h], Reaches(h, <<l, n>>, m)
  PROVE  Reaches(h, <<l, n>>, m)'
<1>1. Tunnels(h, <<l, n>>, m)' = Tunnels(h, <<l, n>>, m)
  BY DEF Tunnels, LeavesDocker, TypeOK
<1>2. networks'[h][<<l, m>>] = networks[h][<<l, m>>]
  BY DEF LeavesDocker
<1>3. l \in disturbed \/ HubFor(l, m) => l \in disturbed' \/ HubFor(l, m)'
  BY DEF LeavesHubs, HubFor
<1>4. ASSUME \A k \in Attached(l, m), g \in Hosts : <<l, k>> \in containers[g] => g = h
      PROVE  \A k \in Attached(l, m), g \in Hosts : <<l, k>> \in containers'[g] => g = h
  BY <1>4, AttachedMembers DEF LeavesDocker
<1>5. CASE /\ Cardinality(Tunnels(h, <<l, n>>, m)) = 1
           /\ networks[h][<<l, m>>] = 0
           /\ l \in disturbed \/ HubFor(l, m)
  BY <1>1, <1>2, <1>3, <1>5 DEF Reaches
<1>6. CASE /\ Tunnels(h, <<l, n>>, m) = {}
           /\ networks[h][<<l, m>>] = 1 /\ <<h, <<l, n>>, m>> \in docked
           /\ \A k \in Attached(l, m), g \in Hosts : <<l, k>> \in containers[g] => g = h
  <2>1. <<h, <<l, n>>, m>> \in docked'
    BY <1>6 DEF LeavesDocker
  <2>2. QED
    BY <1>1, <1>2, <1>4, <1>6, <2>1 DEF Reaches
<1>7. QED
  BY <1>5, <1>6 DEF Reaches

\* Lab l has no interface that is still to be made.
LEMMA StillConnected ==
  ASSUME TypeOK, TypeOK', NEW l \in Labs, LeavesDocker(l), LeavesHubs(l), Connected(l),
         \A n \in Nodes, m \in Nets : op.lab # l \/ <<n, m>> \notin op.joining
  PROVE  Connected(l)'
<1> SUFFICES ASSUME NEW h \in Hosts, NEW n \in Nodes, <<l, n>> \in containers'[h],
                    NEW m \in Links[l][n], AsSetUp(l, h, n, m)'
             PROVE  Reaches(h, <<l, n>>, m)'
  BY DEF Connected, On
<1>1. m \in Nets
  BY AttachedMembers
<1>2. <<l, n>> \in containers[h]
  BY DEF LeavesDocker
<1>3. <<h, <<l, n>>, m>> \notin cut
  BY <1>1 DEF LeavesDocker, AsSetUp
<1>4. AsSetUp(l, h, n, m)
  BY <1>1, <1>3 DEF AsSetUp
<1>5. Reaches(h, <<l, n>>, m)
  BY <1>2, <1>4 DEF Connected, On
<1>6. QED
  BY <1>1, <1>5, StillReaches

LEMMA StillRecorded ==
  ASSUME NEW l \in Labs, LeavesRows(l), LeavesDocker(l), LeavesHubs(l), Recorded(l)
  PROVE  Recorded(l)'
<1>1. \A h \in Hosts : \A n \in On(h, l)' : <<l, n, h>> \in nodeRows'
  BY DEF Recorded, On, LeavesRows, LeavesDocker
<1>2. \A h \in Hosts, m \in Nets : networks'[h][<<l, m>>] # 0 => <<l, m, h>> \in netRows'
  BY DEF Recorded, LeavesRows, LeavesDocker
<1>3. l \notin labRows' => NoHubs(l)'
  BY DEF Recorded, LeavesRows, LeavesHubs, NoHubs
<1>4. QED
  BY <1>1, <1>2, <1>3 DEF Recorded

LEMMA RowsLeft ==
  ASSUME TypeOK, RequestAgrees, [Next]_vars, NEW l \in Labs, l # op.lab
  PROVE  LeavesRows(l)
<1>1. CASE UNCHANGED vars
  BY <1>1 DEF vars, rows, LeavesRows
<1>2. CASE StopReturns
  BY <1>2 DEF StopReturns, RowsWithout, LeavesRows
<1>3. CASE StartReturns
  BY <1>3 DEF StartReturns, LeavesRows
<1>4. CASE Next /\ ~StopReturns /\ ~StartReturns
  <2>1. labRows \subseteq labRows' /\ nodeRows' = nodeRows /\ netRows' = netRows
    BY <1>4
       DEF Next, Restart, Stop, RemoveContainer, RemoveNetwork, CreateNetwork, RemoveSockets,
           BeginHost, CreateContainer, Join, SplitAgain, SetupVpn, Abort, rows
  <2>2. QED
    BY <2>1 DEF LeavesRows
<1>5. QED
  BY <1>1, <1>2, <1>3, <1>4

LEMMA DockerLeft ==
  ASSUME TypeOK, RequestAgrees, [Next]_vars, NEW l \in Labs, l # op.lab
  PROVE  LeavesDocker(l)
<1>1. ASSUME containers' = containers, networks' = networks, UNCHANGED <<docked, tuns, cut>>
      PROVE  LeavesDocker(l)
  BY <1>1 DEF LeavesDocker
<1>2. ASSUME NEW h \in Hosts, NEW c \in Container, RemoveContainer(h, c)
      PROVE  LeavesDocker(l)
  <2>1. /\ containers' = [containers EXCEPT ![h] = @ \ {c}]
        /\ networks' = networks
        /\ tuns' = tuns \ TunsWith(h, c)
        /\ docked' = {x \in docked : x[1] # h \/ x[2] # c}
        /\ cut' = {x \in cut : x[1] # h \/ x[2] # c}
    BY <1>2 DEF RemoveContainer
  <2>2. \A g \in Hosts : containers'[g] = IF g = h THEN containers[g] \ {c} ELSE containers[g]
    BY <2>1 DEF TypeOK
  <2>3. c = <<c[1], c[2]>>
    BY DEF Container
  <2>4. ASSUME NEW g \in Hosts, NEW n \in Nodes, <<l, n>> \in containers'[g], NEW t \in Tun,
               t.host = g, t.lab = l, t.node = n
        PROVE  t \in tuns' <=> t \in tuns
    <3>1. g # h \/ <<l, n>> # c
      BY <2>2, <2>4
    <3>2. t \notin TunsWith(h, c)
      BY <2>3, <2>4, <3>1 DEF TunsWith
    <3>3. QED
      BY <2>1, <3>2
  <2>5. ASSUME NEW g \in Hosts, NEW n \in Nodes, NEW m \in Nets, <<l, n>> \in containers'[g]
        PROVE  g # h \/ <<l, n>> # c
    BY <2>2, <2>5
  <2>6. ASSUME NEW g \in Hosts, NEW n \in Nodes, NEW m \in Nets, <<l, n>> \in containers'[g]
        PROVE  /\ <<g, <<l, n>>, m>> \in docked => <<g, <<l, n>>, m>> \in docked'
               /\ <<g, <<l, n>>, m>> \in cut => <<g, <<l, n>>, m>> \in cut'
    BY <2>1, <2>5, <2>6
  <2>7. QED
    BY <2>1, <2>2, <2>4, <2>6 DEF LeavesDocker
<1>3. ASSUME NEW h \in Hosts, NEW m \in Nets, RemoveNetwork(h, m)
      PROVE  LeavesDocker(l)
  <2>1. op.lab \in Labs /\ containers' = containers /\ UNCHANGED <<docked, tuns, cut>>
    BY <1>3, NetworkOutcome DEF RemoveNetwork
  <2>2. networks' = networks \/ networks' = [networks EXCEPT ![h][<<op.lab, m>>] = 0]
    BY <1>3, NetworkOutcome
  <2>3. \A g \in Hosts, k \in Nets : networks'[g][<<l, k>>] = networks[g][<<l, k>>]
    BY <2>1, <2>2 DEF TypeOK, LabNetwork
  <2>4. QED
    BY <2>1, <2>3 DEF LeavesDocker
<1>4. ASSUME NEW h \in Hosts, NEW m \in Nets, CreateNetwork(h, m)
      PROVE  LeavesDocker(l)
  <2>1. op.lab \in Labs /\ containers' = containers /\ UNCHANGED <<docked, tuns, cut>>
    BY <1>4, Busy DEF CreateNetwork
  <2>2. networks' = [networks EXCEPT ![h][<<op.lab, m>>] = IF @ < MaxNetworks THEN @ + 1 ELSE @]
    BY <1>4 DEF CreateNetwork
  <2>3. \A g \in Hosts, k \in Nets : networks'[g][<<l, k>>] = networks[g][<<l, k>>]
    BY <2>1, <2>2 DEF TypeOK, LabNetwork
  <2>4. QED
    BY <2>1, <2>3 DEF LeavesDocker
<1>5. ASSUME NEW n \in Nodes, CreateContainer(n)
      PROVE  LeavesDocker(l)
  <2>1. networks' = networks /\ op.place[n] \in Hosts /\ UNCHANGED <<docked, tuns, cut>>
    BY <1>5, ContainerOutcome
  <2>2. CASE Raise /\ containers' = containers
    BY <1>1, <2>1, <2>2
  <2>3. CASE Creates(n)
    <3>1. containers' = [containers EXCEPT ![op.place[n]] = @ \cup {<<op.lab, n>>}]
      BY <2>3 DEF Creates
    <3>2. \A h \in Hosts, k \in Nodes : <<l, k>> \in containers'[h] => <<l, k>> \in containers[h]
      BY <2>1, <3>1 DEF TypeOK
    <3>3. QED
      BY <2>1, <3>2 DEF LeavesDocker
  <2>4. QED
    BY <1>5, <2>2, <2>3, ContainerOutcome
<1>11. ASSUME NEW n \in Nodes, NEW m \in Nets, Join(n, m)
       PROVE  LeavesDocker(l)
  <2>1. /\ containers' = containers /\ networks' = networks
        /\ docked \subseteq docked' /\ cut \subseteq cut'
        /\ tuns' = tuns \/ tuns' = tuns \cup {NewTun(n, m)}
    BY <1>11, JoinOutcome
  <2>2. NewTun(n, m).lab = op.lab
    BY DEF NewTun
  <2>3. \A t \in Tun : t.lab = l => (t \in tuns' <=> t \in tuns)
    BY <2>1, <2>2
  <2>4. QED
    BY <2>1, <2>3 DEF LeavesDocker
<1>6. CASE UNCHANGED vars
  BY <1>1, <1>6 DEF vars, docker
<1>7. ASSUME NEW k \in Labs, Restart(k) \/ Stop(k)
      PROVE  LeavesDocker(l)
  BY <1>1, <1>7 DEF Restart, Stop, docker
<1>8. ASSUME NEW h \in Hosts, RemoveSockets(h) \/ BeginHost(h)
      PROVE  LeavesDocker(l)
  BY <1>1, <1>8 DEF RemoveSockets, BeginHost, docker
<1>9. CASE StopReturns \/ SplitAgain \/ SetupVpn \/ StartReturns \/ Abort
  BY <1>1, <1>9 DEF StopReturns, SplitAgain, SetupVpn, StartReturns, Abort, docker
<1>10. QED
  BY <1>2, <1>3, <1>4, <1>5, <1>6, <1>7, <1>8, <1>9, <1>11 DEF Next

\* The setup of one lab's VPN leaves the servers of other labs alone.
LEMMA SetupOther ==
  ASSUME TypeOK, SetupVpn, NEW l \in Labs, l # op.lab
  PROVE  LeavesHubs(l)
<1>1. PICK number : \E left :
        hubs' = {[u EXCEPT !.fresh = @ /\ u.lab # op.lab] : u \in hubs} \cup
                {[lab |-> op.lab, net |-> m, index |-> number[m], fresh |-> TRUE] : m \in left}
  BY DEF SetupVpn
<1>2. PICK left :
        hubs' = {[u EXCEPT !.fresh = @ /\ u.lab # op.lab] : u \in hubs} \cup
                {[lab |-> op.lab, net |-> m, index |-> number[m], fresh |-> TRUE] : m \in left}
  BY <1>1
<1>3. \A u \in hubs : u.lab = l => [u EXCEPT !.fresh = @ /\ u.lab # op.lab] = u
  BY DEF TypeOK, Hub
<1>4. \A u \in hubs : [u EXCEPT !.fresh = @ /\ u.lab # op.lab].lab = u.lab
  BY DEF TypeOK, Hub
<1>5. ASSUME NEW u \in hubs', u.lab = l
      PROVE  u \in hubs
  <2>1. CASE \E v \in hubs : u = [v EXCEPT !.fresh = @ /\ v.lab # op.lab]
    <3>1. PICK v \in hubs : u = [v EXCEPT !.fresh = @ /\ v.lab # op.lab]
      BY <2>1
    <3>2. v.lab = l
      BY <1>4, <1>5, <3>1
    <3>3. QED
      BY <1>3, <3>1, <3>2
  <2>2. CASE \E m \in left :
               u = [lab |-> op.lab, net |-> m, index |-> number[m], fresh |-> TRUE]
    BY <1>5, <2>2
  <2>3. QED
    BY <1>2, <2>1, <2>2
<1>6. \A u \in hubs : u.lab = l => u \in hubs'
  BY <1>2, <1>3
<1>7. disturbed' = disturbed \ {op.lab} \/ disturbed' = disturbed \cup {op.lab}
  BY Zenon DEF SetupVpn
<1>8. l \in disturbed' <=> l \in disturbed
  BY <1>7
<1>9. QED
  BY <1>5, <1>6, <1>8 DEF LeavesHubs

LEMMA HubsLeft ==
  ASSUME TypeOK, RequestAgrees, [Next]_vars, NEW l \in Labs, l # op.lab, l # op'.lab
  PROVE  LeavesHubs(l)
<1>1. ASSUME UNCHANGED vpn
      PROVE  LeavesHubs(l)
  BY <1>1 DEF vpn, LeavesHubs
<1>2. ASSUME NEW k \in Labs, NEW request \in {"stop", "restart"}, StopWith(request, k)
      PROVE  LeavesHubs(l)
  <2>1. k # l
    BY <1>2, StopRequest
  <2>2. /\ hubs' = {u \in hubs : u.lab \notin Extensions[k]}
        /\ disturbed' = disturbed \cup ({u.lab : u \in hubs \ hubs'} \ {k})
    BY <1>2 DEF StopWith, KillHubs
  <2>3. QED
    BY <2>1, <2>2 DEF LeavesHubs
<1>3. ASSUME NEW k \in Labs, Restart(k) \/ Stop(k)
      PROVE  LeavesHubs(l)
  BY <1>1, <1>2, <1>3 DEF Restart, Stop
<1>4. CASE SetupVpn
  BY <1>4, SetupOther
<1>5. CASE /\ [Next]_vars
           /\ \A k \in Labs : ~Restart(k) /\ ~Stop(k)
           /\ ~SetupVpn
  <2>1. UNCHANGED vpn
    BY <1>5
       DEF Next, vars, RemoveContainer, RemoveNetwork, CreateNetwork, RemoveSockets,
           BeginHost, CreateContainer, Join, StopReturns, SplitAgain, StartReturns, Abort
  <2>2. QED
    BY <1>1, <2>1
<1>6. QED
  BY <1>3, <1>4, <1>5

LEMMA StepOthers ==
  ASSUME TypeOK, RequestAgrees, [Next]_vars, NEW l \in Labs, l # op.lab, l # op'.lab, InOrder(l)
  PROVE  InOrder(l)'
<1>1. LeavesRows(l) /\ LeavesDocker(l) /\ LeavesHubs(l)
  BY RowsLeft, DockerLeft, HubsLeft
<1>2. Recorded(l) /\ Connected(l)
  BY DEF InOrder
<1>3. TypeOK'
  BY StepTyped
<1>4. Recorded(l)' /\ Connected(l)'
  BY <1>1, <1>2, <1>3, StillRecorded, StillConnected
<1>5. QED
  BY <1>4 DEF InOrder

-----------------------------------------------------------------------------
\* What a step does to the lab that the request is of: stopping.

LEMMA NothingOn ==
  ASSUME NEW l \in Labs, \A h \in Hosts : On(h, l) = {}
  PROVE  Connected(l)
BY DEF Connected

LEMMA Begins ==
  ASSUME TypeOK, RowsAgree, RequestAgrees, NEW l \in Labs, InOrder(l), Restart(l) \/ Stop(l)
  PROVE  InOrder(l)'
<1>1. op.lab # l /\ Recorded(l)
  BY NodesAssumption, IdleTyped DEF Restart, Stop, InOrder
<1>2. containers' = containers /\ networks' = networks /\ nodeRows' = nodeRows
  BY DEF Restart, Stop, rows, docker
<1>3. ASSUME NEW request \in {"stop", "restart"}, StopWith(request, l)
      PROVE  InOrder(l)'
  <2>1. op'.lab = l /\ op'.stage = "stop" /\ op'.kill = KillList(l) /\ op'.drop = DropList(l)
    BY <1>3, StopRequest
  <2>2. ASSUME NEW h \in Hosts, NEW n \in On(h, l)'
        PROVE  <<l, n, h>> \in nodeRows' /\ <<h, <<l, n>>>> \in op'.kill
    <3>1. n \in Nodes /\ <<l, n, h>> \in nodeRows
      BY <1>1, <1>2 DEF On, Recorded
    <3>2. h \in HostsOf(l) /\ <<l, n>> \in Container
      BY <3>1 DEF HostsOf, Container
    <3>3. <<h, <<l, n>>>> \in KillList(l)
      BY <3>1, <3>2 DEF KillList
    <3>4. QED
      BY <1>2, <2>1, <3>1, <3>3
  <2>3. ASSUME NEW h \in Hosts, NEW m \in Nets, networks'[h][<<l, m>>] # 0
        PROVE  <<h, m>> \in op'.drop
    <3>1. <<l, m, h>> \in netRows
      BY <1>1, <1>2, <2>3 DEF Recorded
    <3>2. h \in HostsOf(l)
      BY <3>1 DEF RowsAgree
    <3>3. QED
      BY <2>1, <3>1, <3>2 DEF DropList
  <2>4. NoHubs(l)'
    BY <1>3, ExtensionsAssumption DEF StopWith, KillHubs, NoHubs
  <2>5. QED
    BY <2>1, <2>2, <2>3, <2>4 DEF InOrder, Leaving
<1>4. ASSUME l \notin labRows, NEW p \in Placements(l), StartWith("start", l, p), UNCHANGED vpn
      PROVE  InOrder(l)'
  <2>1. op'.lab = l /\ op'.stage = "split"
    BY <1>4, SplitRequest
  <2>2. \A h \in Hosts : On(h, l)' = {}
    <3>1. \A h \in Hosts, n \in Nodes : <<l, n, h>> \notin nodeRows
      BY <1>4 DEF RowsAgree
    <3>2. \A h \in Hosts : On(h, l) \subseteq Nodes
      BY DEF On
    <3>3. \A h \in Hosts : On(h, l) = {}
      BY <1>1, <3>1, <3>2 DEF Recorded
    <3>4. QED
      BY <1>2, <3>3 DEF On
  <2>3. \A h \in Hosts, m \in Nets : networks'[h][<<l, m>>] = 0
    <3>1. \A h \in Hosts, m \in Nets : <<l, m, h>> \notin netRows
      BY <1>4 DEF RowsAgree
    <3>2. QED
      BY <1>1, <1>2, <3>1 DEF Recorded
  <2>4. NoHubs(l)'
    BY <1>1, <1>4 DEF Recorded, NoHubs, vpn
  <2>5. Connected(l)'
    BY <2>2 DEF Connected
  <2>6. QED
    BY <2>1, <2>2, <2>3, <2>4, <2>5 DEF InOrder, Gone
<1>5. QED
  BY <1>3, <1>4 DEF Restart, Stop

LEMMA Stopping ==
  ASSUME TypeOK, RequestAgrees, NEW l \in Labs, op.lab = l, InOrder(l), Sound(l)',
         \/ \E h \in Hosts, c \in Container : RemoveContainer(h, c)
         \/ \E h \in Hosts, m \in Nets : RemoveNetwork(h, m)
         \/ \E h \in Hosts : RemoveSockets(h)
  PROVE  InOrder(l)'
<1>1. op.stage = "stop"
  BY DEF RemoveContainer, RemoveNetwork, RemoveSockets
<1>2. Leaving(l)
  BY <1>1 DEF InOrder
<1>3. nodeRows' = nodeRows /\ hubs' = hubs
  BY DEF RemoveContainer, RemoveNetwork, RemoveSockets, rows, vpn
<1>4. ASSUME op'.lab = l, op'.stage = "stop",
             \A h \in Hosts : \A n \in On(h, l)' : n \in On(h, l) /\ <<h, <<l, n>>>> \in op'.kill,
             \A h \in Hosts, m \in Nets : networks'[h][<<l, m>>] # 0 => <<h, m>> \in op'.drop
      PROVE  InOrder(l)'
  <2>1. Leaving(l)'
    BY <1>2, <1>3, <1>4 DEF Leaving, NoHubs
  <2>2. QED
    BY <1>4, <2>1 DEF InOrder
<1>5. ASSUME NEW h \in Hosts, NEW c \in Container, RemoveContainer(h, c)
      PROVE  InOrder(l)'
  <2>1. /\ op'.lab = l /\ op'.stage = "stop" /\ op'.kill = op.kill \ {<<h, c>>} /\ op'.drop = op.drop
        /\ networks' = networks
    BY <1>1, <1>5 DEF RemoveContainer, TypeOK, Request
  <2>2. \A g \in Hosts : containers'[g] = IF g = h THEN containers[g] \ {c} ELSE containers[g]
    BY <1>5 DEF RemoveContainer, TypeOK
  <2>3. \A g \in Hosts : \A n \in On(g, l)' : n \in On(g, l) /\ <<g, <<l, n>>>> \in op'.kill
    BY <1>2, <2>1, <2>2 DEF On, Leaving
  <2>4. QED
    BY <1>2, <1>4, <2>1, <2>3 DEF Leaving
<1>6. ASSUME NEW h \in Hosts, NEW m \in Nets, RemoveNetwork(h, m)
      PROVE  InOrder(l)'
  <2>1. ~Raise
    BY DEF Raise, Sound
  <2>2. /\ networks' = [networks EXCEPT ![h][<<l, m>>] = 0]
        /\ op' = [op EXCEPT !.drop = @ \ {<<h, m>>}]
        /\ containers' = containers
    BY <1>6, <2>1, NetworkOutcome DEF RemoveNetwork
  <2>3. op'.lab = l /\ op'.stage = "stop" /\ op'.kill = op.kill /\ op'.drop = op.drop \ {<<h, m>>}
    BY <1>1, <2>2 DEF TypeOK, Request
  <2>4. \A g \in Hosts, k \in Nets : networks'[g][<<l, k>>] # 0 => <<g, k>> \in op'.drop
    BY <1>2, <2>2, <2>3 DEF Leaving, TypeOK, LabNetwork
  <2>5. QED
    BY <1>2, <1>4, <2>2, <2>3, <2>4 DEF Leaving, On
<1>7. ASSUME NEW h \in Hosts, RemoveSockets(h)
      PROVE  InOrder(l)'
  <2>1. /\ op'.lab = l /\ op'.stage = "stop" /\ op'.kill = op.kill /\ op'.drop = op.drop
        /\ networks' = networks /\ containers' = containers
    BY <1>1, <1>7 DEF RemoveSockets, docker, TypeOK, Request
  <2>2. QED
    BY <1>2, <1>4, <2>1 DEF Leaving, On
<1>8. QED
  BY <1>5, <1>6, <1>7

LEMMA AllStopped ==
  ASSUME NEW l \in Labs, op.lab = l, InOrder(l), Stopped
  PROVE  Gone(l)
BY DEF InOrder, Leaving, Gone, Stopped, On

LEMMA StopEnds ==
  ASSUME TypeOK, RequestAgrees, NEW l \in Labs, op.lab = l, InOrder(l), StopReturns \/ SplitAgain
  PROVE  InOrder(l)'
<1>1. Gone(l)
  BY AllStopped DEF StopReturns, SplitAgain
<1>2. containers' = containers /\ networks' = networks /\ hubs' = hubs
  BY DEF StopReturns, SplitAgain, docker, vpn
<1>3. Gone(l)'
  BY <1>1, <1>2 DEF Gone, On, NoHubs
<1>4. Connected(l)'
  BY <1>3 DEF Gone, Connected
<1>5. CASE StopReturns
  <2>1. op'.lab # l
    BY <1>5, NodesAssumption, IdleTyped DEF StopReturns
  <2>2. Recorded(l)'
    BY <1>3 DEF Gone, Recorded
  <2>3. QED
    BY <1>4, <2>1, <2>2 DEF InOrder
<1>6. CASE SplitAgain
  <2>1. op'.lab = l /\ op'.stage = "split"
    BY <1>6, SplitRequest DEF SplitAgain
  <2>2. QED
    BY <1>3, <1>4, <2>1 DEF InOrder
<1>7. QED
  BY <1>5, <1>6
-----------------------------------------------------------------------------
\* What a step does to the lab that the request is of: starting.

LEMMA NoTuns ==
  ASSUME TypeOK, TunsInContainers, NEW l \in Labs, \A h \in Hosts : On(h, l) = {}
  PROVE  \A t \in tuns : t.lab # l
BY DEF TunsInContainers, TypeOK, Tun, On

\* With no server of its own left, each VPN network of the lab gets a fresh hub,
\* unless a device is taken.
LEMMA FreshHubs ==
  ASSUME TypeOK, RequestAgrees, SetupVpn, NoHubs(op.lab)
  PROVE  op.lab \in disturbed' \/ \A m \in VpnNets(op.lab, op.place) : HubFor(op.lab, m)'
<1> DEFINE l == op.lab
           nets == VpnNets(l, op.place)
<1>1. PICK number \in Numbered(nets, 0), down \in SUBSET nets :
        LET running == {m \in nets : \E u \in hubs : u.lab = l /\ u.net = m}
            taken == {m \in nets : \E u \in hubs : u.index = number[m]}
            takenByOther == {m \in nets : \E u \in hubs : u.lab # l /\ u.index = number[m]}
        IN  /\ {[lab |-> l, net |-> m, index |-> number[m], fresh |-> TRUE] :
                  m \in nets \ (running \cup taken \cup down)} \subseteq hubs'
            /\ takenByOther \cup down = {} \/ l \in disturbed'
  BY DEF SetupVpn
<1>2. \A m \in nets : ~\E u \in hubs : u.lab = l /\ u.net = m
  BY DEF NoHubs
<1>3. CASE down # {} \/ \E m \in nets, u \in hubs : u.lab # l /\ u.index = number[m]
  BY <1>1, <1>3
<1>4. CASE down = {} /\ ~\E m \in nets, u \in hubs : u.lab # l /\ u.index = number[m]
  <2>1. \A m \in nets : ~\E u \in hubs : u.index = number[m]
    BY <1>4 DEF NoHubs
  <2>2. \A m \in nets : [lab |-> l, net |-> m, index |-> number[m], fresh |-> TRUE] \in hubs'
    BY <1>1, <1>2, <1>4, <2>1
  <2>3. \A m \in nets : HubFor(l, m)'
    <3>1. SUFFICES ASSUME NEW m \in nets PROVE \E u \in hubs' : u.lab = l /\ u.net = m /\ u.fresh
      BY DEF SetupVpn, HubFor, TypeOK, Request
    <3>2. QED
      BY <2>2
  <2>4. QED
    BY <2>3
<1>5. QED
  BY <1>3, <1>4

LEMMA Setup ==
  ASSUME TypeOK, RequestAgrees, TunsInContainers, NEW l \in Labs, op.lab = l, InOrder(l),
         SetupVpn
  PROVE  InOrder(l)'
<1>1. Gone(l) /\ op.stage = "split"
  BY DEF SetupVpn, InOrder
<1>2. op.nets = DockerNets(l, op.place) /\ op # NoRequest /\ op.joining = {}
  BY <1>1, IdleTyped DEF RequestAgrees
<1>3. /\ op'.lab = l /\ op'.stage = "start" /\ op'.place = op.place /\ op'.nets = op.nets
      /\ containers' = containers /\ networks' = networks /\ tuns' = tuns
  BY DEF SetupVpn, docker, TypeOK, Request
<1>4. \A h \in Hosts : On(h, l)' = {}
  BY <1>1, <1>3 DEF Gone, On
<1>5. \A h \in Hosts, m \in Nets :
        networks'[h][<<l, m>>] =
          IF <<h, m>> \in DockerNets(l, op'.place) \ op'.nets THEN 1 ELSE 0
  BY <1>1, <1>2, <1>3 DEF Gone
<1>6. \A m \in VpnNets(l, op'.place) : l \in disturbed' \/ HubFor(l, m)'
  BY <1>1, <1>3, FreshHubs DEF Gone
<1>7. \A t \in tuns' : t.lab # l
  BY <1>1, <1>3, NoTuns DEF Gone
<1>8. Rising(l)'
  BY <1>4, <1>5, <1>6, <1>7 DEF Rising
<1>9. Connected(l)'
  BY <1>4 DEF Connected
<1>10. QED
  BY <1>3, <1>8, <1>9 DEF InOrder

LEMMA NetworkCreated ==
  ASSUME TypeOK, TypeOK', RequestAgrees, NEW l \in Labs, op.lab = l, InOrder(l),
         NEW h \in Hosts, NEW m \in Nets, CreateNetwork(h, m)
  PROVE  InOrder(l)'
<1>1. Rising(l) /\ Connected(l) /\ op.stage = "start" /\ <<h, m>> \in op.nets
  BY DEF CreateNetwork, InOrder
<1>2. /\ op'.lab = l /\ op'.stage = "start" /\ op'.place = op.place /\ op'.nodes = op.nodes
      /\ op'.nets = op.nets \ {<<h, m>>} /\ op'.joining = op.joining
      /\ containers' = containers /\ UNCHANGED <<docked, tuns, cut>>
      /\ hubs' = hubs /\ disturbed' = disturbed
  BY <1>1 DEF CreateNetwork, vpn, TypeOK, Request
<1>3. On(h, l) = {}
  BY <1>1 DEF Rising
<1>4. <<h, m>> \in DockerNets(l, op.place) /\ op.place \in Placements(l)
  BY <1>1, Busy
<1>5. networks[h][<<l, m>>] = 0
  BY <1>1 DEF Rising
<1>6. \A g \in Hosts, k \in Nets :
        networks'[g][<<l, k>>] = IF g = h /\ k = m THEN 1 ELSE networks[g][<<l, k>>]
  BY <1>5, BoundAssumption DEF CreateNetwork, TypeOK, LabNetwork
<1>7. \A g \in Hosts, k \in Nets :
        networks'[g][<<l, k>>] =
          IF <<g, k>> \in DockerNets(l, op'.place) \ op'.nets THEN 1 ELSE 0
  <2> SUFFICES ASSUME NEW g \in Hosts, NEW k \in Nets
               PROVE  networks'[g][<<l, k>>] =
                        IF <<g, k>> \in DockerNets(l, op'.place) \ op'.nets THEN 1 ELSE 0
    OBVIOUS
  <2>1. networks[g][<<l, k>>] = IF <<g, k>> \in DockerNets(l, op.place) \ op.nets THEN 1 ELSE 0
    BY <1>1 DEF Rising
  <2>2. <<g, k>> \in op'.nets <=> <<g, k>> \in op.nets /\ ~(g = h /\ k = m)
    BY <1>2
  <2>3. CASE g = h /\ k = m
    BY <1>2, <1>4, <1>6, <2>2, <2>3
  <2>4. CASE ~(g = h /\ k = m)
    <3>1. networks'[g][<<l, k>>] = networks[g][<<l, k>>]
      BY <1>6, <2>4
    <3>2. QED
      BY <1>2, <2>1, <2>2, <2>4, <3>1
  <2>5. QED
    BY <2>3, <2>4
<1>8. \A g \in Hosts : FirstTun(g)' = FirstTun(g)
  BY <1>2 DEF FirstTun, TunsMade, NodeVpns, Vpn
<1>9. Rising(l)'
  <2>1. \A g \in Hosts : On(g, l)' = On(g, l)
    BY <1>2 DEF On
  <2>2. \A g \in Hosts : \A n \in On(g, l)' :
          n \in Members[l] \ op'.nodes /\ op'.place[n] = g /\ \A k \in Nets : <<g, k>> \notin op'.nets
    BY <1>1, <1>2, <2>1 DEF Rising
  <2>3. \A k \in VpnNets(l, op'.place) : l \in disturbed' \/ HubFor(l, k)'
    BY <1>1, <1>2 DEF Rising, HubFor
  <2>4. \A t \in tuns' : t.lab = l => t.index < FirstTun(t.host)'
    BY <1>1, <1>2, <1>8 DEF Rising, TypeOK, Tun
  <2>5. \A t \in tuns' : t.lab = l => <<t.node, t.net>> \notin op'.joining
    BY <1>1, <1>2 DEF Rising
  <2>6. QED
    BY <1>7, <2>2, <2>3, <2>4, <2>5 DEF Rising
<1>10. Connected(l)'
  <2>1. ASSUME NEW g \in Hosts, NEW n \in Nodes, <<l, n>> \in containers'[g],
               NEW k \in Links[l][n], AsSetUp(l, g, n, k)'
        PROVE  Reaches(g, <<l, n>>, k)'
    <3>1. AsSetUp(l, g, n, k)
      BY <1>2, <2>1 DEF AsSetUp
    <3>2. g # h /\ Reaches(g, <<l, n>>, k) /\ k \in Nets
      BY <1>1, <1>2, <1>3, <2>1, <3>1, AttachedMembers DEF Connected, On
    <3>3. networks'[g][<<l, k>>] = networks[g][<<l, k>>]
      BY <1>6, <3>2
    <3>4. Tunnels(g, <<l, n>>, k)' = Tunnels(g, <<l, n>>, k) /\ (HubFor(l, k)' <=> HubFor(l, k))
      BY <1>2 DEF Tunnels, HubFor
    <3>5. QED
      BY <1>2, <3>2, <3>3, <3>4 DEF Reaches
  <2>2. QED
    BY <2>1 DEF Connected, On
<1>11. QED
  BY <1>2, <1>9, <1>10 DEF InOrder
-----------------------------------------------------------------------------
\* A container takes no number before it is connected, and then one for each VPN
\* network, on its host only.
LEMMA NoNewNumber ==
  ASSUME TypeOK, RequestAgrees, op.lab \in Labs, NEW n \in op.nodes, op.joining = {}, Creates(n)
  PROVE  \A g \in Hosts : FirstTun(g)' = FirstTun(g)
<1>1. /\ op'.lab = op.lab /\ op'.place = op.place /\ op'.nodes = op.nodes \ {n}
      /\ op'.joining = {n} \X Links[op.lab][n]
  BY DEF Creates, TypeOK, Request
<1>2. \A k : NodeVpns(k)' = NodeVpns(k)
  BY <1>1 DEF NodeVpns, Vpn
<1>3. \A m \in NodeVpns(n) : <<n, m>> \in op'.joining
  BY <1>1 DEF NodeVpns
<1>4. ASSUME NEW g \in Hosts
      PROVE  TunsMade(g)' = TunsMade(g)
  BY <1>1, <1>2, <1>3 DEF TunsMade
<1>5. QED
  BY <1>4 DEF FirstTun

LEMMA NewNumber ==
  ASSUME TypeOK, RequestAgrees, NEW n \in Nodes, NEW m \in Nets, Join(n, m)
  PROVE  \A g \in Hosts :
           FirstTun(g)' = IF g = op.place[n] /\ Vpn(op.lab, op.place, m) THEN FirstTun(g) + 1
                          ELSE FirstTun(g)
<1>1. op.lab \in Labs /\ op.stage = "start" /\ <<n, m>> \in op.joining
  BY JoinOutcome
<1>2. n \in Members[op.lab] \ op.nodes /\ m \in Links[op.lab][n]
  BY <1>1, IdleTyped DEF RequestAgrees
<1>3. /\ op'.lab = op.lab /\ op'.place = op.place /\ op'.nodes = op.nodes
      /\ op'.joining = op.joining \ {<<n, m>>}
  BY DEF Join, TypeOK, Request
<1>4. \A k : NodeVpns(k)' = NodeVpns(k)
  BY <1>3 DEF NodeVpns, Vpn
<1>5. m \in NodeVpns(n) <=> Vpn(op.lab, op.place, m)
  BY <1>2 DEF NodeVpns
<1>6. SUFFICES ASSUME NEW g \in Hosts
               PROVE  FirstTun(g)' = IF g = op.place[n] /\ Vpn(op.lab, op.place, m)
                                     THEN FirstTun(g) + 1 ELSE FirstTun(g)
  OBVIOUS
<1>7. IsFiniteSet(TunsMade(g)) /\ FirstTun(g) \in Nat
  BY <1>1, TunsMadeFinite
<1>8. CASE g = op.place[n] /\ Vpn(op.lab, op.place, m)
  <2>1. TunsMade(g)' = TunsMade(g) \cup {<<n, m>>}
    BY <1>2, <1>3, <1>4, <1>5, <1>8 DEF TunsMade
  <2>2. <<n, m>> \notin TunsMade(g)
    BY <1>1 DEF TunsMade
  <2>3. Cardinality(TunsMade(g) \cup {<<n, m>>}) = Cardinality(TunsMade(g)) + 1
    BY <1>7, <2>2, FS_AddElement
  <2>4. QED
    BY <1>8, <2>1, <2>3 DEF FirstTun
<1>9. CASE ~(g = op.place[n] /\ Vpn(op.lab, op.place, m))
  <2>1. TunsMade(g)' = TunsMade(g)
    BY <1>3, <1>4, <1>5, <1>9 DEF TunsMade
  <2>2. QED
    BY <1>9, <2>1 DEF FirstTun
<1>10. QED
  BY <1>8, <1>9

\* Where the split has put a container, it reaches what it has a device for and
\* what its host keeps.
LEMMA Arrives ==
  ASSUME NEW l \in Labs, op'.lab = l, op'.place \in Placements(l), Rising(l)',
         NEW h \in Hosts, NEW n \in Nodes, n \in On(h, l)', NEW m \in Links[l][n],
         m \in VpnNets(l, op'.place) => Cardinality(Tunnels(h, <<l, n>>, m)') = 1,
         m \notin VpnNets(l, op'.place) =>
           Tunnels(h, <<l, n>>, m)' = {} /\ <<h, <<l, n>>, m>> \in docked'
  PROVE  Reaches(h, <<l, n>>, m)'
<1> DEFINE p == op'.place
<1>1. n \in Members[l] /\ p[n] = h /\ m \in Nets /\ <<h, m>> \notin op'.nets
  BY AttachedMembers DEF Rising
<1>2. networks'[h][<<l, m>>] = IF <<h, m>> \in DockerNets(l, p) \ op'.nets THEN 1 ELSE 0
  BY <1>1 DEF Rising
<1>3. CASE m \in VpnNets(l, p)
  <2>1. Vpn(l, p, m)
    BY <1>3 DEF VpnNets
  <2>2. networks'[h][<<l, m>>] = 0
    BY <1>2, <2>1 DEF Vpn
  <2>3. l \in disturbed' \/ HubFor(l, m)'
    BY <1>3 DEF Rising
  <2>4. QED
    BY <1>3, <2>2, <2>3 DEF Reaches
<1>4. CASE m \notin VpnNets(l, p)
  <2>1. <<h, m>> \in DockerNets(l, p) /\ \A k \in Attached(l, m) : p[k] = h
    BY <1>1, <1>4, DockerOrVpn
  <2>2. networks'[h][<<l, m>>] = 1
    BY <1>1, <1>2, <2>1
  <2>3. ASSUME NEW k \in Attached(l, m), NEW g \in Hosts, <<l, k>> \in containers'[g]
        PROVE  g = h
    <3>1. k \in On(g, l)'
      BY <2>3, AttachedMembers DEF On
    <3>2. p[k] = g
      BY <3>1 DEF Rising
    <3>3. QED
      BY <2>1, <2>3, <3>2
  <2>4. QED
    BY <1>4, <2>2, <2>3 DEF Reaches
<1>5. QED
  BY <1>3, <1>4
\* What Reaches says of an interface that was made before, once more by the split.
LEMMA MadeBefore ==
  ASSUME TypeOK, RequestAgrees, NEW l \in Labs, op.lab = l, op.stage = "start", Rising(l),
         Connected(l), NEW g \in Hosts, NEW k \in On(g, l), NEW m \in Links[l][k],
         AsSetUp(l, g, k, m)
  PROVE  /\ m \in VpnNets(l, op.place) => Cardinality(Tunnels(g, <<l, k>>, m)) = 1
         /\ m \notin VpnNets(l, op.place) =>
              Tunnels(g, <<l, k>>, m) = {} /\ <<g, <<l, k>>, m>> \in docked
<1>1. Reaches(g, <<l, k>>, m)
  BY DEF Connected
<1>2. k \in Members[l] /\ op.place[k] = g /\ op.place \in Placements(l) /\ m \in Nets
  BY Busy, AttachedMembers DEF Rising, On
<1>3. /\ <<g, m>> \notin op.nets
      /\ networks[g][<<l, m>>] = IF <<g, m>> \in DockerNets(l, op.place) \ op.nets THEN 1 ELSE 0
  BY <1>2 DEF Rising
<1>4. m \in VpnNets(l, op.place) <=> <<g, m>> \notin DockerNets(l, op.place)
  BY <1>2, DockerOrVpn DEF Vpn
<1>5. QED
  BY <1>1, <1>3, <1>4 DEF Reaches

\* The hosts a start comes to do not matter to what it has made.
LEMMA HostBegun ==
  ASSUME TypeOK, NEW l \in Labs, op.lab = l, InOrder(l), NEW h \in Hosts, BeginHost(h)
  PROVE  InOrder(l)'
<1>1. /\ op'.lab = l /\ op.stage = "start" /\ op'.stage = "start" /\ op'.place = op.place
      /\ op'.nets = op.nets /\ op'.nodes = op.nodes /\ op'.joining = op.joining
      /\ containers' = containers /\ networks' = networks /\ UNCHANGED <<docked, tuns, cut>>
      /\ hubs' = hubs /\ disturbed' = disturbed
  BY DEF BeginHost, docker, vpn, TypeOK, Request
<1>2. Rising(l) /\ Connected(l)
  BY <1>1 DEF InOrder
<1>3. Rising(l)'
  BY <1>1, <1>2 DEF Rising, On, HubFor, FirstTun, TunsMade, NodeVpns, Vpn
<1>4. Connected(l)'
  BY <1>1, <1>2 DEF Connected, AsSetUp, On, Reaches, Tunnels, HubFor
<1>5. QED
  BY <1>1, <1>3, <1>4 DEF InOrder

LEMMA ContainerCreated ==
  ASSUME TypeOK, TypeOK', RequestAgrees, TunsInContainers, NEW l \in Labs, op.lab = l, InOrder(l),
         NEW n \in Nodes, CreateContainer(n), Sound(l)'
  PROVE  InOrder(l)'
<1>0. PICK h : h = op.place[n]
  OBVIOUS
<1>1. /\ op.stage = "start" /\ n \in op.nodes /\ h \in Hosts /\ Creates(n) /\ op.joining = {}
      /\ \A m \in Nets : <<h, m>> \notin op.nets
      /\ networks' = networks /\ hubs' = hubs /\ disturbed' = disturbed
      /\ UNCHANGED <<docked, tuns, cut>>
  BY <1>0, ContainerOutcome DEF Raise, Sound, vpn
<1>2. Rising(l) /\ Connected(l)
  BY <1>1 DEF InOrder
<1>3. n \in Members[l] /\ op.place \in Placements(l)
  BY <1>1, Busy
<1>4. /\ op'.lab = l /\ op'.stage = "start" /\ op'.place = op.place /\ op'.nets = op.nets
      /\ op'.nodes = op.nodes \ {n} /\ op'.joining = {n} \X Links[l][n]
  BY <1>1 DEF Creates, TypeOK, Request
<1>5. \A g \in Hosts : n \notin On(g, l)
  BY <1>1, <1>2 DEF Rising
<1>6. \A g \in Hosts, k \in Nodes :
        k \in On(g, l)' <=> k \in On(g, l) \/ (g = h /\ k = n)
  BY <1>0, <1>1 DEF Creates, On, TypeOK
<1>7. \A g \in Hosts : FirstTun(g)' = FirstTun(g)
  BY <1>1, NoNewNumber
<1>8. \A t \in tuns : t.lab = l => t.node # n
  BY <1>5 DEF TunsInContainers, On, TypeOK, Tun
<1>9. Rising(l)'
  <2>1. \A g \in Hosts : \A k \in On(g, l)' :
          /\ k \in Members[l] \ op'.nodes /\ op'.place[k] = g
          /\ \A m \in Nets : <<g, m>> \notin op'.nets
    <3>1. SUFFICES ASSUME NEW g \in Hosts, NEW k \in On(g, l)'
                   PROVE  /\ k \in Members[l] \ op'.nodes /\ op'.place[k] = g
                          /\ \A m \in Nets : <<g, m>> \notin op'.nets
      OBVIOUS
    <3>2. CASE k \in On(g, l)
      BY <1>2, <1>4, <3>2 DEF Rising
    <3>3. CASE g = h /\ k = n
      BY <1>0, <1>1, <1>3, <1>4, <3>3
    <3>4. QED
      BY <1>6, <3>2, <3>3 DEF On
  <2>2. \A g \in Hosts, m \in Nets :
          networks'[g][<<l, m>>] =
            IF <<g, m>> \in DockerNets(l, op'.place) \ op'.nets THEN 1 ELSE 0
    <3>1. networks' = networks /\ op'.place = op.place /\ op'.nets = op.nets
      BY <1>1, <1>4
    <3>2. QED
      BY <1>2, <3>1 DEF Rising
  <2>3. \A m \in VpnNets(l, op'.place) : l \in disturbed' \/ HubFor(l, m)'
    BY <1>1, <1>2, <1>4 DEF Rising, HubFor
  <2>4. \A t \in tuns' : t.lab = l => t.index < FirstTun(t.host)'
    BY <1>1, <1>2, <1>7 DEF Rising, TypeOK, Tun
  <2>5. \A t \in tuns' : t.lab = l => <<t.node, t.net>> \notin op'.joining
    BY <1>1, <1>4, <1>8
  <2>6. QED
    BY <2>1, <2>2, <2>3, <2>4, <2>5 DEF Rising
<1>10. Connected(l)'
  <2>1. SUFFICES ASSUME NEW g \in Hosts, NEW k \in Nodes, k \in On(g, l)', NEW m \in Links[l][k],
                        AsSetUp(l, g, k, m)'
                 PROVE  Reaches(g, <<l, k>>, m)'
    BY DEF Connected, On
  <2>2. CASE k \in On(g, l)
    <3>1. AsSetUp(l, g, k, m)
      BY <1>1, <2>1 DEF AsSetUp
    <3>2. Tunnels(g, <<l, k>>, m)' = Tunnels(g, <<l, k>>, m)
      BY <1>1 DEF Tunnels
    <3>3. /\ m \in VpnNets(l, op.place) => Cardinality(Tunnels(g, <<l, k>>, m)) = 1
          /\ m \notin VpnNets(l, op.place) =>
               Tunnels(g, <<l, k>>, m) = {} /\ <<g, <<l, k>>, m>> \in docked
      BY <1>1, <1>2, <2>1, <2>2, <3>1, MadeBefore
    <3>4. QED
      BY <1>1, <1>3, <1>4, <1>9, <2>1, <3>2, <3>3, Arrives
  <2>3. CASE g = h /\ k = n
    BY <1>4, <2>1, <2>3 DEF AsSetUp
  <2>4. QED
    BY <1>6, <2>1, <2>2, <2>3
<1>11. QED
  BY <1>4, <1>9, <1>10 DEF InOrder

LEMMA InterfaceJoined ==
  ASSUME TypeOK, TypeOK', RequestAgrees, NEW l \in Labs, op.lab = l, InOrder(l),
         NEW n \in Nodes, NEW m \in Nets, Join(n, m)
  PROVE  InOrder(l)'
<1>0. PICK h, t : h = op.place[n] /\ t = NewTun(n, m)
  OBVIOUS
<1>1. /\ op.stage = "start" /\ <<n, m>> \in op.joining
      /\ containers' = containers /\ networks' = networks /\ hubs' = hubs /\ disturbed' = disturbed
      /\ docked \subseteq docked' /\ cut \subseteq cut'
      /\ tuns' = tuns \/ (Vpn(l, op.place, m) /\ tuns' = tuns \cup {t})
  BY <1>0, JoinOutcome DEF vpn
<1>2. Rising(l) /\ Connected(l)
  BY <1>1 DEF InOrder
<1>3. n \in Members[l] /\ h \in Hosts /\ m \in Links[l][n] /\ FirstTun(h) \in Nat
  BY <1>0, <1>1, TunTyped
<1>4. /\ op'.lab = l /\ op'.stage = "start" /\ op'.place = op.place /\ op'.nets = op.nets
      /\ op'.nodes = op.nodes /\ op'.joining = op.joining \ {<<n, m>>}
  BY <1>1 DEF Join, TypeOK, Request
<1>5. t.host = h /\ t.lab = l /\ t.node = n /\ t.net = m /\ t.index = FirstTun(h)
  BY <1>0 DEF NewTun
<1>6. op.place \in Placements(l)
  BY <1>1, Busy
<1>7. \A g \in Hosts : FirstTun(g)' = IF g = h /\ Vpn(l, op.place, m) THEN FirstTun(g) + 1
                                      ELSE FirstTun(g)
  BY <1>0, NewNumber
<1>8. \A g \in Hosts : FirstTun(g) \in Nat
  BY TunsMadeFinite
<1>9. Rising(l)'
  <2>1. \A g \in Hosts : \A k \in On(g, l)' :
          /\ k \in Members[l] \ op'.nodes /\ op'.place[k] = g
          /\ \A i \in Nets : <<g, i>> \notin op'.nets
    BY <1>1, <1>2, <1>4 DEF Rising, On
  <2>2. \A g \in Hosts, i \in Nets :
          networks'[g][<<l, i>>] =
            IF <<g, i>> \in DockerNets(l, op'.place) \ op'.nets THEN 1 ELSE 0
    BY <1>1, <1>2, <1>4 DEF Rising
  <2>3. \A i \in VpnNets(l, op'.place) : l \in disturbed' \/ HubFor(l, i)'
    BY <1>1, <1>2, <1>4 DEF Rising, HubFor
  <2>4. ASSUME NEW u \in tuns', u.lab = l
        PROVE  u.index < FirstTun(u.host)' /\ <<u.node, u.net>> \notin op'.joining
    <3>1. CASE u \in tuns
      <4>1. /\ u.index < FirstTun(u.host) /\ u.host \in Hosts /\ u.index \in Nat
            /\ <<u.node, u.net>> \notin op.joining
        BY <1>2, <2>4, <3>1 DEF Rising, TypeOK, Tun
      <4>2. FirstTun(u.host)' >= FirstTun(u.host) /\ FirstTun(u.host)' \in Nat
        BY <1>7, <1>8, <4>1
      <4>3. u.index < FirstTun(u.host)'
        BY <1>8, <4>1, <4>2
      <4>4. QED
        BY <1>4, <4>1, <4>3
    <3>2. CASE Vpn(l, op.place, m) /\ u = t
      <4>1. FirstTun(h)' = FirstTun(h) + 1
        BY <1>3, <1>7, <3>2
      <4>2. FirstTun(u.host)' = FirstTun(h)'
        BY <1>5, <3>2
      <4>3. QED
        BY <1>3, <1>4, <1>5, <3>2, <4>1, <4>2
    <3>3. QED
      BY <1>1, <3>1, <3>2
  <2>5. QED
    BY <2>1, <2>2, <2>3, <2>4 DEF Rising
<1>10. Connected(l)'
  <2>1. SUFFICES ASSUME NEW g \in Hosts, NEW k \in Nodes, k \in On(g, l)', NEW i \in Links[l][k],
                        AsSetUp(l, g, k, i)'
                 PROVE  Reaches(g, <<l, k>>, i)'
    BY DEF Connected, On
  <2>2. k \in On(g, l) /\ g = op.place[k]
    BY <1>1, <1>2, <2>1 DEF On, Rising
  <2>3. CASE k # n \/ i # m
    <3>1. AsSetUp(l, g, k, i)
      BY <1>1, <1>4, <2>1, <2>3 DEF AsSetUp
    <3>2. Tunnels(g, <<l, k>>, i)' = Tunnels(g, <<l, k>>, i)
      BY <1>1, <1>5, <2>3 DEF Tunnels
    <3>3. /\ i \in VpnNets(l, op.place) => Cardinality(Tunnels(g, <<l, k>>, i)) = 1
          /\ i \notin VpnNets(l, op.place) =>
               Tunnels(g, <<l, k>>, i) = {} /\ <<g, <<l, k>>, i>> \in docked
      BY <1>1, <1>2, <2>1, <2>2, <3>1, MadeBefore
    <3>4. QED
      BY <1>1, <1>4, <1>6, <1>9, <2>1, <3>2, <3>3, Arrives
  <2>4. CASE k = n /\ i = m
    <3>1. g = h /\ JoinedInterface(n, m) = <<h, <<l, n>>, m>>
      BY <1>0, <2>2, <2>4 DEF JoinedInterface
    <3>2. JoinedInterface(n, m) \notin cut'
      BY <2>1, <2>4, <3>1 DEF AsSetUp
    <3>3. \/ Vpn(l, op.place, m) /\ tuns' = tuns \cup {t}
          \/ ~Vpn(l, op.place, m) /\ tuns' = tuns /\ <<h, <<l, n>>, m>> \in docked'
      BY <1>0, <3>1, <3>2, JoinOutcome
    <3>4. Tunnels(h, <<l, n>>, m) = {}
      BY <1>1, <1>2 DEF Tunnels, Rising
    <3>5. m \in VpnNets(l, op.place) <=> Vpn(l, op.place, m)
      BY <1>3, <1>6, DockerOrVpn
    <3>6. Vpn(l, op.place, m) => Cardinality(Tunnels(h, <<l, n>>, m)') = 1
      <4>1. SUFFICES ASSUME Vpn(l, op.place, m) PROVE Cardinality(Tunnels(h, <<l, n>>, m)') = 1
        OBVIOUS
      <4>2. Tunnels(h, <<l, n>>, m)' = {t}
        BY <1>5, <3>3, <3>4, <4>1 DEF Tunnels
      <4>3. QED
        BY <4>2, FS_Singleton
    <3>7. ~Vpn(l, op.place, m) => Tunnels(h, <<l, n>>, m)' = {} /\ <<h, <<l, n>>, m>> \in docked'
      BY <3>3, <3>4 DEF Tunnels
    <3>8. QED
      BY <1>4, <1>6, <1>9, <2>1, <2>4, <3>1, <3>5, <3>6, <3>7, Arrives
  <2>5. QED
    BY <2>3, <2>4
<1>11. QED
  BY <1>4, <1>9, <1>10 DEF InOrder

\* The rows that are written lead to everything the start has created.
LEMMA StartEnds ==
  ASSUME TypeOK, TypeOK', RequestAgrees, NEW l \in Labs, op.lab = l, InOrder(l), StartReturns
  PROVE  InOrder(l)'
<1>1. Rising(l) /\ Connected(l) /\ op.nets = {} /\ op.nodes = {} /\ op.stage = "start"
      /\ op.joining = {}
  BY DEF StartReturns, InOrder
<1>2. /\ op'.lab # l /\ containers' = containers /\ networks' = networks
      /\ UNCHANGED <<docked, tuns, cut>>
      /\ hubs' = hubs /\ disturbed' = disturbed /\ labRows' = labRows
  BY NodesAssumption, IdleTyped DEF StartReturns, docker, vpn
<1>3. l \in labRows
  BY <1>1, Busy
<1>4. \A h \in Hosts : \A n \in On(h, l)' : <<l, n, h>> \in nodeRows'
  <2>1. \A h \in Hosts : \A n \in On(h, l)' : n \in Members[l] /\ op.place[n] = h
    BY <1>1, <1>2 DEF Rising, On
  <2>2. \A n \in Members[l] : <<l, n, op.place[n]>> \in nodeRows'
    BY DEF StartReturns, NewNodeRows
  <2>3. QED
    BY <2>1, <2>2
<1>5. ASSUME NEW h \in Hosts, NEW m \in Nets, networks'[h][<<l, m>>] # 0
      PROVE  <<l, m, h>> \in netRows'
  <2>1. <<h, m>> \in DockerNets(l, op.place)
    BY <1>1, <1>2, <1>5 DEF Rising
  <2>2. <<l, m, h>> \in NewNetRows
    BY <2>1 DEF NewNetRows
  <2>3. QED
    BY <2>2 DEF StartReturns
<1>6. Recorded(l)'
  BY <1>2, <1>3, <1>4, <1>5 DEF Recorded
<1>7. LeavesDocker(l) /\ LeavesHubs(l)
  BY <1>2 DEF LeavesDocker, LeavesHubs
<1>8. Connected(l)'
  BY <1>1, <1>7, StillConnected
<1>9. QED
  BY <1>2, <1>6, <1>8 DEF InOrder
-----------------------------------------------------------------------------
\* Every step.

\* Other requests than the first step of one keep to their lab.
LEMMA SameLab ==
  ASSUME TypeOK, RequestAgrees, [Next]_vars, \A k \in Labs : ~Restart(k) /\ ~Stop(k)
  PROVE  op'.lab = op.lab \/ op'.lab = NoLab
<1>1. CASE op' = NoRequest
  BY <1>1, IdleTyped
<1>2. CASE SplitAgain
  <2>1. op.lab \in Labs
    BY <1>2, Busy DEF SplitAgain, Stopped
  <2>2. QED
    BY <1>2, <2>1, SplitRequest DEF SplitAgain
<1>3. ASSUME NEW n \in Nodes, CreateContainer(n)
      PROVE  op'.lab = op.lab \/ op'.lab = NoLab
  BY <1>1, <1>3, ContainerOutcome DEF Creates, Raise, TypeOK, Request
<1>11. ASSUME NEW n \in Nodes, NEW m \in Nets, Join(n, m)
      PROVE  op'.lab = op.lab \/ op'.lab = NoLab
  BY <1>11, JoinOutcome DEF TypeOK, Request
<1>4. ASSUME NEW h \in Hosts, NEW m \in Nets, RemoveNetwork(h, m)
      PROVE  op'.lab = op.lab \/ op'.lab = NoLab
  BY <1>1, <1>4, NetworkOutcome DEF Raise, TypeOK, Request
<1>5. ASSUME NEW h \in Hosts, NEW m \in Nets, CreateNetwork(h, m)
      PROVE  op'.lab = op.lab \/ op'.lab = NoLab
  BY <1>5 DEF CreateNetwork, TypeOK, Request
<1>6. ASSUME NEW h \in Hosts, NEW c \in Container, RemoveContainer(h, c)
      PROVE  op'.lab = op.lab \/ op'.lab = NoLab
  BY <1>6 DEF RemoveContainer, TypeOK, Request
<1>7. ASSUME NEW h \in Hosts, RemoveSockets(h) \/ BeginHost(h)
      PROVE  op'.lab = op.lab \/ op'.lab = NoLab
  BY <1>7 DEF RemoveSockets, BeginHost, TypeOK, Request
<1>8. CASE SetupVpn
  BY <1>8 DEF SetupVpn, TypeOK, Request
<1>9. CASE StopReturns \/ StartReturns \/ Abort
  BY <1>1, <1>9 DEF StopReturns, StartReturns, Abort, Raise
<1>10. QED
  BY <1>2, <1>3, <1>4, <1>5, <1>6, <1>7, <1>8, <1>9, <1>11 DEF Next, vars

LEMMA OnlyGrows ==
  ASSUME TypeOK, RequestAgrees, [Next]_vars
  PROVE  failed \subseteq failed'
<1>1. ASSUME NEW n \in Nodes, CreateContainer(n)
      PROVE  failed \subseteq failed'
  BY <1>1, ContainerOutcome DEF Creates, Raise
<1>2. ASSUME NEW h \in Hosts, NEW m \in Nets, RemoveNetwork(h, m)
      PROVE  failed \subseteq failed'
  BY <1>2, NetworkOutcome DEF Raise
<1>3. CASE /\ [Next]_vars
           /\ \A n \in Nodes : ~CreateContainer(n)
           /\ \A h \in Hosts, m \in Nets : ~RemoveNetwork(h, m)
  BY <1>3
     DEF Next, vars, Restart, Stop, RemoveContainer, CreateNetwork, RemoveSockets, StopReturns,
         BeginHost, Join, SplitAgain, SetupVpn, StartReturns, Abort, Raise
<1>4. QED
  BY <1>1, <1>2, <1>3

LEMMA StepOrder ==
  ASSUME Orderly, [Next]_vars, NEW l \in Labs, Sound(l)'
  PROVE  InOrder(l)'
<1>1. /\ TypeOK /\ RowsAgree /\ RequestAgrees /\ TunsInContainers /\ TypeOK'
      /\ Sound(l) /\ InOrder(l)
  BY StepTyped, OnlyGrows DEF Orderly, Sound
<1>2. CASE l # op.lab /\ l # op'.lab
  BY <1>1, <1>2, StepOthers
<1>3. ASSUME NEW k \in Labs, Restart(k) \/ Stop(k), l = op.lab \/ l = op'.lab
      PROVE  InOrder(l)'
  <2>1. op = NoRequest /\ l # op.lab
    BY <1>3, NodesAssumption, IdleTyped DEF Restart, Stop
  <2>2. op'.lab = k
    BY <1>1, <1>3, StopRequest, SplitRequest DEF Restart, Stop
  <2>3. QED
    BY <1>1, <1>3, <2>1, <2>2, Begins
<1>4. CASE (\A k \in Labs : ~Restart(k) /\ ~Stop(k)) /\ (l = op.lab \/ l = op'.lab)
  <2>1. op.lab = l
    BY <1>1, <1>4, SameLab, NodesAssumption
  <2>2. CASE UNCHANGED vars
    <3>1. /\ op' = op /\ containers' = containers /\ networks' = networks
          /\ UNCHANGED <<docked, tuns, cut>>
          /\ hubs' = hubs /\ disturbed' = disturbed
      BY <2>2 DEF vars, docker, vpn
    <3>2. nodeRows' = nodeRows /\ netRows' = netRows /\ labRows' = labRows
      BY <2>2 DEF vars, rows
    <3>3. Connected(l) => Connected(l)'
      <4>1. \A h, n : On(h, l)' = On(h, l) /\ \A m : AsSetUp(l, h, n, m)' = AsSetUp(l, h, n, m)
        BY <3>1 DEF AsSetUp, On
      <4>2. \A h, n, m : Reaches(h, <<l, n>>, m) => Reaches(h, <<l, n>>, m)'
        BY <3>1 DEF Reaches, Tunnels, HubFor
      <4>3. QED
        BY <4>1, <4>2 DEF Connected
    <3>4. Leaving(l) => Leaving(l)'
      BY <3>1, <3>2 DEF Leaving, On, NoHubs
    <3>5. Gone(l) => Gone(l)'
      BY <3>1 DEF Gone, On, NoHubs
    <3>6. Rising(l) => Rising(l)'
      BY <3>1 DEF Rising, On, HubFor, FirstTun, TunsMade, NodeVpns, Vpn
    <3>7. QED
      BY <1>1, <2>1, <3>1, <3>3, <3>4, <3>5, <3>6 DEF InOrder
  <2>3. CASE \/ \E h \in Hosts, c \in Container : RemoveContainer(h, c)
             \/ \E h \in Hosts, m \in Nets : RemoveNetwork(h, m)
             \/ \E h \in Hosts : RemoveSockets(h)
    BY <1>1, <2>1, <2>3, Stopping
  <2>4. CASE StopReturns \/ SplitAgain
    BY <1>1, <2>1, <2>4, StopEnds
  <2>5. CASE SetupVpn
    BY <1>1, <2>1, <2>5, Setup
  <2>6. ASSUME NEW h \in Hosts, NEW m \in Nets, CreateNetwork(h, m)
        PROVE  InOrder(l)'
    BY <1>1, <2>1, <2>6, NetworkCreated
  <2>7. ASSUME NEW n \in Nodes, CreateContainer(n)
        PROVE  InOrder(l)'
    BY <1>1, <2>1, <2>7, ContainerCreated
  <2>8. CASE StartReturns
    BY <1>1, <2>1, <2>8, StartEnds
  <2>9. CASE Abort
    BY <2>1, <2>9 DEF Abort, Raise, Sound
  <2>11. ASSUME NEW n \in Nodes, NEW m \in Nets, Join(n, m)
         PROVE  InOrder(l)'
    BY <1>1, <2>1, <2>11, InterfaceJoined
  <2>12. ASSUME NEW h \in Hosts, BeginHost(h)
         PROVE  InOrder(l)'
    BY <1>1, <2>1, <2>12, HostBegun
  <2>10. QED
    BY <1>4, <2>2, <2>3, <2>4, <2>5, <2>6, <2>7, <2>8, <2>9, <2>11, <2>12 DEF Next
<1>5. QED
  BY <1>2, <1>3, <1>4

\* Only three actions touch the tun devices or what they belong to.
LEMMA TunsKept ==
  ASSUME [Next]_vars,
         \A n \in Nodes : ~CreateContainer(n),
         \A n \in Nodes, m \in Nets : ~Join(n, m),
         \A h \in Hosts, c \in Container : ~RemoveContainer(h, c)
  PROVE  tuns' = tuns /\ containers' = containers
BY DEF Next, vars, docker, Restart, Stop, RemoveNetwork, CreateNetwork, RemoveSockets, BeginHost,
       StopReturns, SplitAgain, SetupVpn, StartReturns, Abort

LEMMA StepTuns ==
  ASSUME TypeOK, RequestAgrees, TunsInContainers, JoiningContainers, [Next]_vars
  PROVE  TunsInContainers'
<1>1. ASSUME NEW n \in Nodes, CreateContainer(n)
      PROVE  TunsInContainers'
  <2>1. \A g \in Hosts : containers[g] \subseteq containers'[g]
    <3>1. CASE containers' = containers
      BY <3>1
    <3>2. CASE Creates(n)
      BY <3>2 DEF Creates, TypeOK
    <3>3. QED
      BY <1>1, <3>1, <3>2, ContainerOutcome
  <2>2. tuns' = tuns
    BY <1>1, ContainerOutcome
  <2>3. QED
    BY <2>1, <2>2 DEF TunsInContainers, TypeOK, Tun
<1>2. ASSUME NEW h \in Hosts, NEW c \in Container, RemoveContainer(h, c)
      PROVE  TunsInContainers'
  <2>1. \A g \in Hosts : containers'[g] = IF g = h THEN containers[g] \ {c} ELSE containers[g]
    BY <1>2 DEF RemoveContainer, TypeOK
  <2>2. SUFFICES ASSUME NEW t \in tuns'
                 PROVE  <<t.lab, t.node>> \in containers'[t.host]
    BY DEF TunsInContainers
  <2>3. t \in tuns /\ t \notin TunsWith(h, c) /\ t.host \in Hosts
    BY <1>2 DEF RemoveContainer, TypeOK, Tun
  <2>4. t.host = h => <<t.lab, t.node>> # c
    BY <2>3 DEF TunsWith
  <2>5. QED
    BY <2>1, <2>3, <2>4 DEF TunsInContainers
<1>3. ASSUME NEW n \in Nodes, NEW m \in Nets, Join(n, m)
      PROVE  TunsInContainers'
  <2>1. /\ op.stage = "start" /\ <<n, m>> \in op.joining /\ containers' = containers
        /\ tuns' \subseteq tuns \cup {NewTun(n, m)}
    BY <1>3, JoinOutcome
  <2>2. <<op.lab, n>> \in containers[op.place[n]]
    BY <2>1 DEF JoiningContainers
  <2>3. NewTun(n, m).lab = op.lab /\ NewTun(n, m).node = n /\ NewTun(n, m).host = op.place[n]
    BY DEF NewTun
  <2>4. QED
    BY <2>1, <2>2, <2>3 DEF TunsInContainers
<1>4. QED
  BY <1>1, <1>2, <1>3, TunsKept DEF TunsInContainers

LEMMA StepJoining ==
  ASSUME TypeOK, RequestAgrees, JoiningContainers, [Next]_vars
  PROVE  JoiningContainers'
<1>1. ASSUME op'.joining = {} \/ op'.stage # "start"
      PROVE  JoiningContainers'
  BY <1>1 DEF JoiningContainers
<1>2. ASSUME op.stage = "start", op'.lab = op.lab, op'.place = op.place,
             op'.joining \subseteq op.joining, containers' = containers
      PROVE  JoiningContainers'
  BY <1>2 DEF JoiningContainers
<1>3. ASSUME NEW n \in Nodes, CreateContainer(n)
      PROVE  JoiningContainers'
  <2>1. CASE Raise
    BY <1>1, <2>1, IdleTyped DEF Raise
  <2>2. CASE Creates(n)
    <3>1. op.place[n] \in Hosts
      BY <1>3, ContainerOutcome
    <3>2. <<op.lab, n>> \in containers'[op.place[n]]
      BY <2>2, <3>1 DEF Creates, TypeOK
    <3>3. /\ op'.lab = op.lab /\ op'.place = op.place
          /\ op'.joining = {n} \X Links[op.lab][n]
      BY <2>2 DEF Creates, TypeOK, Request
    <3>4. QED
      BY <3>2, <3>3 DEF JoiningContainers
  <2>3. QED
    BY <1>3, <2>1, <2>2, ContainerOutcome
<1>4. ASSUME NEW n \in Nodes, NEW m \in Nets, Join(n, m)
      PROVE  JoiningContainers'
  <2>1. op.stage = "start" /\ op' = [op EXCEPT !.joining = @ \ {<<n, m>>}] /\ containers' = containers
    BY <1>4, JoinOutcome
  <2>2. QED
    BY <1>2, <2>1 DEF TypeOK, Request
<1>5. ASSUME NEW h \in Hosts, NEW m \in Nets, CreateNetwork(h, m)
      PROVE  JoiningContainers'
  BY <1>2, <1>5 DEF CreateNetwork, TypeOK, Request
<1>6. ASSUME NEW h \in Hosts, BeginHost(h)
      PROVE  JoiningContainers'
  BY <1>2, <1>6 DEF BeginHost, docker, TypeOK, Request
<1>7. CASE SetupVpn
  <2>1. op.stage = "split" /\ op.joining = {}
    BY <1>7, Busy, IdleTyped DEF SetupVpn, RequestAgrees
  <2>2. op'.joining = {}
    BY <1>7, <2>1 DEF SetupVpn, TypeOK, Request
  <2>3. QED
    BY <1>1, <2>2
<1>8. CASE \/ \E h \in Hosts, c \in Container : RemoveContainer(h, c)
           \/ \E h \in Hosts : RemoveSockets(h)
  BY <1>1, <1>8 DEF RemoveContainer, RemoveSockets, TypeOK, Request
<1>9. ASSUME NEW h \in Hosts, NEW m \in Nets, RemoveNetwork(h, m)
      PROVE  JoiningContainers'
  BY <1>1, <1>9, IdleTyped DEF RemoveNetwork, Raise, TypeOK, Request
<1>10. ASSUME NEW l \in Labs, Restart(l) \/ Stop(l)
       PROVE  JoiningContainers'
  BY <1>1, <1>10, StopRequest, SplitRequest DEF Restart, Stop
<1>11. CASE SplitAgain
  <2>1. op.lab \in Labs
    BY <1>11, Busy DEF SplitAgain, Stopped
  <2>2. QED
    BY <1>1, <1>11, <2>1, SplitRequest DEF SplitAgain
<1>12. CASE StopReturns \/ StartReturns \/ Abort
  BY <1>1, <1>12, IdleTyped DEF StopReturns, StartReturns, Abort, Raise
<1>13. CASE UNCHANGED vars
  BY <1>13 DEF vars, docker, JoiningContainers
<1>14. QED
  BY <1>3, <1>4, <1>5, <1>6, <1>7, <1>8, <1>9, <1>10, <1>11, <1>12, <1>13
     DEF Next

LEMMA StepUnique ==
  ASSUME Orderly, [Next]_vars
  PROVE  TunsUnique'
<1> USE DEF Sound
<1>1. TypeOK /\ RequestAgrees /\ TunsUnique /\ failed \subseteq failed'
  BY OnlyGrows DEF Orderly
<1>2. ASSUME tuns' \subseteq tuns
      PROVE  TunsUnique'
  BY <1>1, <1>2 DEF TunsUnique
<1>3. ASSUME NEW n \in Nodes, NEW m \in Nets, Join(n, m)
      PROVE  TunsUnique'
  <2>1. PICK u : u = NewTun(n, m)
    OBVIOUS
  <2>2. /\ op.lab \in Labs /\ op.stage = "start" /\ <<n, m>> \in op.joining
        /\ tuns' \subseteq tuns \cup {u}
    BY <1>1, <1>3, <2>1, JoinOutcome
  <2>3. u.lab = op.lab /\ u.host = op.place[n] /\ u.index = FirstTun(u.host) /\ u.index \in Nat
    BY <1>1, <2>1, <2>2, TunTyped DEF NewTun
  <2>4. ASSUME NEW t \in tuns, t.lab = u.lab, t.lab \notin failed, t.host = u.host
        PROVE  t.index # u.index
    <3>1. Rising(op.lab)
      BY <2>2, <2>3, <2>4 DEF Orderly, InOrder
    <3>2. t.index < FirstTun(t.host) /\ t.index \in Nat
      BY <1>1, <2>3, <2>4, <3>1 DEF Rising, TypeOK, Tun
    <3>3. QED
      BY <2>3, <2>4, <3>2
  <2>5. SUFFICES ASSUME NEW t \in tuns', NEW v \in tuns', t.lab \notin failed', t # v,
                        t.host = v.host, t.lab = v.lab
                 PROVE  t.index # v.index
    BY DEF TunsUnique
  <2>6. CASE t \in tuns /\ v \in tuns
    BY <1>1, <2>5, <2>6 DEF TunsUnique
  <2>7. CASE t \in tuns /\ v = u
    BY <1>1, <2>4, <2>5, <2>7
  <2>8. CASE t = u /\ v \in tuns
    BY <1>1, <2>4, <2>5, <2>8
  <2>9. QED
    BY <2>2, <2>5, <2>6, <2>7, <2>8
<1>4. ASSUME NEW h \in Hosts, NEW c \in Container, RemoveContainer(h, c)
      PROVE  TunsUnique'
  BY <1>2, <1>4 DEF RemoveContainer
<1>5. ASSUME NEW n \in Nodes, CreateContainer(n)
      PROVE  TunsUnique'
  BY <1>1, <1>2, <1>5, ContainerOutcome
<1>6. QED
  BY <1>2, <1>3, <1>4, <1>5, TunsKept
-----------------------------------------------------------------------------
\* The results.

LEMMA InitOrderly == Init => Orderly
<1> SUFFICES ASSUME Init PROVE Orderly
  OBVIOUS
<1>1. op.lab = NoLab /\ op \in Request /\ op = NoRequest
  BY IdleTyped DEF Init
<1>2. TypeOK
  BY <1>1, BoundAssumption DEF Init, TypeOK
<1>3. RowsAgree /\ RequestAgrees /\ TunsInContainers /\ JoiningContainers /\ TunsUnique
  BY <1>1, IdleTyped
     DEF Init, RowsAgree, RequestAgrees, TunsInContainers, JoiningContainers, TunsUnique
<1>4. ASSUME NEW l \in Labs
      PROVE  InOrder(l)
  <2>1. op.lab # l
    BY <1>1, NodesAssumption
  <2>2. \A h \in Hosts : On(h, l) = {}
    BY DEF Init, On
  <2>3. \A h \in Hosts, m \in Nets : networks[h][<<l, m>>] = 0
    BY DEF Init, LabNetwork
  <2>4. NoHubs(l)
    BY DEF Init, NoHubs
  <2>5. Recorded(l)
    BY <2>2, <2>3, <2>4 DEF Recorded
  <2>6. Connected(l)
    BY <2>2, NothingOn
  <2>7. QED
    BY <2>1, <2>5, <2>6 DEF InOrder
<1>5. QED
  BY <1>2, <1>3, <1>4 DEF Orderly

LEMMA StepOrderly == Orderly /\ [Next]_vars => Orderly'
<1> SUFFICES ASSUME Orderly, [Next]_vars PROVE Orderly'
  OBVIOUS
<1>1. TypeOK /\ RowsAgree /\ RequestAgrees /\ TunsInContainers /\ JoiningContainers
  BY DEF Orderly
<1>2. TypeOK' /\ RowsAgree' /\ RequestAgrees' /\ TunsInContainers' /\ JoiningContainers'
  BY <1>1, StepTyped, StepRows, StepRequest, StepTuns, StepJoining
<1>3. TunsUnique'
  BY StepUnique
<1>4. \A l \in Labs : Sound(l)' => InOrder(l)'
  BY StepOrder
<1>5. QED
  BY <1>2, <1>3, <1>4 DEF Orderly

\* Through any requests, splits and failures: the rows, the request under way, the
\* containers, networks and VPN daemons of start_lab and stop_lab agree as Orderly
\* says, for every lab of which no request has raised, except for the interfaces whose
\* own setup has failed unseen (cut): what ssh_exec returns nobody reads.
THEOREM AlwaysOrderly == Spec => []Orderly
<1>1. Init => Orderly
  BY InitOrderly
<1>2. Orderly /\ [Next]_vars => Orderly'
  BY StepOrderly
<1>3. QED
  BY <1>1, <1>2, PTL DEF Spec

\* The rows, what docker runs on the hosts, the VPN daemons and the request of
\* cluster_runtime keep their types.
THEOREM Typed == Spec => []TypeOK
<1>1. Orderly => TypeOK
  BY DEF Orderly
<1>2. QED
  BY <1>1, AlwaysOrderly, PTL

\* Between requests the Node rows that restart_lab writes after start_lab name the
\* host of every container of a sound lab, however often the lab was split anew: the
\* next stop_lab finds them all.
THEOREM ContainersRecorded == Spec => []RecordedContainers
<1>1. Orderly => RecordedContainers
  <2> SUFFICES ASSUME Orderly, op = NoRequest, NEW h \in Hosts, NEW c \in containers[h],
                      Sound(c[1])
               PROVE  <<c[1], c[2], h>> \in nodeRows
    BY DEF RecordedContainers
  <2>1. c \in Container
    BY DEF Orderly, TypeOK
  <2>2. PICK l \in Labs, n \in Nodes : c = <<l, n>>
    BY <2>1 DEF Container
  <2>3. Recorded(l)
    BY <2>2, IdleTyped, NodesAssumption DEF Orderly, InOrder
  <2>4. QED
    BY <2>2, <2>3 DEF Recorded, On
<1>2. QED
  BY <1>1, AlwaysOrderly, PTL

\* A node of a sound lab never runs on two hosts, although each start of
\* cluster_runtime splits the lab anew.
THEOREM NodesOnOneHost == Spec => []OneHostPerNode
<1>1. Orderly => OneHostPerNode
  <2> SUFFICES ASSUME Orderly, NEW l \in Labs, NEW n \in Nodes, NEW h \in Hosts, NEW k \in Hosts,
                      Sound(l), n \in On(h, l), n \in On(k, l)
               PROVE  h = k
    BY DEF OneHostPerNode, On
  <2>1. RowsAgree /\ RequestAgrees /\ TypeOK /\ InOrder(l)
    BY DEF Orderly
  <2>2. CASE Recorded(l) \/ Leaving(l)
    <3>1. <<l, n, h>> \in nodeRows /\ <<l, n, k>> \in nodeRows
      BY <2>2 DEF Recorded, Leaving
    <3>2. QED
      BY <2>1, <3>1 DEF RowsAgree
  <2>3. CASE Gone(l)
    BY <2>3 DEF Gone
  <2>4. CASE Rising(l)
    BY <2>4 DEF Rising
  <2>5. op.lab # l \/ op.stage \in {"stop", "split", "start"}
    BY <2>1, Busy, NodesAssumption
  <2>6. QED
    BY <2>1, <2>2, <2>3, <2>4, <2>5 DEF InOrder
<1>2. QED
  BY <1>1, AlwaysOrderly, PTL

\* Between requests every running node of a sound lab reaches each of its networks,
\* as the split of start_lab made it: in the docker network of its host, which exists
\* once, or by one VPN daemon and a hub with the keys of the same start, unless the hub
\* has failed or another lab has interfered with it.  Only the interfaces whose own
\* setup has failed unseen are excepted: a failed ssh call does not spread.
THEOREM RunningNodesConnected == Spec => []NodesConnected
<1>1. Orderly => NodesConnected
  <2> SUFFICES ASSUME Orderly, op = NoRequest, NEW h \in Hosts, NEW c \in containers[h],
                      Sound(c[1]), NEW m \in Links[c[1]][c[2]], <<h, c, m>> \notin cut
               PROVE  Reaches(h, c, m)
    BY DEF NodesConnected
  <2>1. c \in Container
    BY DEF Orderly, TypeOK
  <2>2. PICK l \in Labs, n \in Nodes : c = <<l, n>>
    BY <2>1 DEF Container
  <2>3. Connected(l)
    BY <2>2, IdleTyped, NodesAssumption DEF Orderly, InOrder
  <2>4. <<h, <<l, n>>, m>> \notin cut /\ op.lab # l
    BY <2>2, IdleTyped, NodesAssumption
  <2>5. QED
    BY <2>2, <2>3, <2>4 DEF Connected, AsSetUp, On
<1>2. QED
  BY <1>1, AlwaysOrderly, PTL

\* The tun numbers that start_lab counts up on each host give no two daemons of a
\* sound lab the same device, over any number of restarts.
THEOREM DevicesUnique == Spec => []TunsUnique
<1>1. Orderly => TunsUnique
  BY DEF Orderly
<1>2. QED
  BY <1>1, AlwaysOrderly, PTL
=============================================================================
