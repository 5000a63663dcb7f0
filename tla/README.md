# A TLA+ model of MADT

MADT builds a laboratory (a *lab*) of docker containers connected by networks, runs it on
one or several docker hosts and shows what its nodes report. This directory holds the TLA+
modules that model it, the TLC configurations that check them, and the TLAPS proofs.
Paths below are relative to the repository.

## 1. The system

| part | code | state it keeps | operations |
|---|---|---|---|
| lab definition | `madt_lib/network.py`, `node.py`, `subnet.py`, `overlay.py` | nodes, subnets, overlays, local networks of a Network; `configured` | `create_node`, `create_subnet`, `create_overlay`, `create_local_network`, `configure`, `render` |
| lab.json | written by `render` | nodes, networks, links, routes, tc options | read by the runtimes and the web interface |
| docker runtime | `madt_lib/runtimes/docker_runtime.py` | none: containers and networks live in the docker daemon | `start_lab`, `stop_lab`, `restart_lab`, `check_routing`, `tcset_api` |
| cluster runtime | `madt_lib/runtimes/cluster_runtime.py` | none: containers and networks on several docker hosts, tinc and ssh daemons | the same, and `split_lab`, `setup_vpn`, `forward_socket` |
| command line | `madt.py` | none | start, stop, restart with any prefix |
| lab control | `madt_ui/lab_control.py`, `models.py` | rows Lab, Node, Network, Host | `/lab/restart`, `/lab/stop`, lists, statistics |
| monitoring | `madt_ui/lab_messenger.py`, `lab_visualization.py`, `templates/graph.html`, `images/madt_client` | `msg_cache`, one ZeroMQ socket and one task for each Messenger; what each page shows | hosts push, the task records, pages poll |
| traffic control | `madt_ui/net_control.py` | `routers_cache`; rules in the kernel of each container | `/tcset`, `/tcdel`, `/tcget` |
| cluster hosts | `madt_ui/cluster_control.py`, `madt_host/` | rows Host, `/etc/madt/hosts` | connect, status, remove |
| graph | `madt_ui/lab2graph.py` | none | lab.json to nodes and edges |
| user interface | `login.py`, `main.py`, templates, `static/` | session | pages |

How they meet. A lab script calls the library and leaves **lab.json**. Lab control (or
madt.py) calls a runtime with the path of lab.json and a prefix; the runtime reads the file
again at *each* operation and talks to docker. The web interface remembers a running lab only
by its **Lab row** (and, on a cluster, by Node and Network rows that say which host has what).
The runtime removes **lab.sock**, the hosts of the lab wait for that file before they run their
command, and the Messenger made after a successful start creates it. Messages go through that
socket to a task on the event loop of the web interface, which records them in **msg_cache**;
pages take them from there. tc options of a started lab and of later `/tcset` requests end in
`routers_cache`, which colours routers on the page.

What is hard about each, and what makes it correct:

* *Address distribution*: three loops in different orders cut blocks from several ranges.
  Correct when blocks never overlap, each subnet gets exactly one block from the right range,
  failing means the range is full, and what is derived (interfaces, BGP sessions) is consistent.
* *Life cycle in docker*: some dozen calls that each may fail or be the last, no rollback,
  names and files shared by runs, a configuration file that may change in between. Correct when
  nothing runs without a row, a success is a complete and exact lab whatever came before, hosts
  run only after the start and then do run.
* *Life cycle on a cluster*: where a node went is decided anew by each start and known only from
  rows written afterwards. Correct when the rows are right between requests, no node runs twice,
  every network is reachable by all its nodes, and labs do not disturb each other.
* *Monitoring*: several tasks and pages work on one entry, tasks and sockets of earlier runs stay
  alive, entries expire. Correct when messages are neither lost nor counted twice and the newest
  one of every host gets through.
* *Traffic control*: read, merge, write of rules with units, a cache about routers beside it.
* *Definition and graph*: everything is written once, by whoever comes first or last: names across
  local networks, gateways, routes, entries of a node in two networks. Correct when lab.json says the
  same of every node, route and daemon as the definition, and the graph the same as lab.json.
* *Forwarding of lab.sock*: shells nobody waits for. Correct when containers of the current run find a
  live socket, none begins too early, and a stop finds the tunnels.

## 2. Plan

Done, in this order:

1. `Addressing` and `LabControl`, with proofs; `Monitoring`; `ClusterLab`.
2. `TrafficControl`, with proofs.
3. `LabStore`, the abstract specification of a lab, and the proof that `LabControl` implements it;
   two copies of one lab that share lab.sock (a configuration of `LabControl`).
4. `ClusterSockets`, which composes the requests of `ClusterLab` with the shells that forward
   lab.sock and the containers that wait for it.
5. `LabDefinition` (names, gateways, routes, daemons, lab.json) and `LabGraph` on top of it.
6. Proofs of the safety properties of these modules, and of the refinement of `ClusterLab` by
   `ClusterSockets`.
7. Proofs of the properties of `LabDefinition` and `LabGraph`, on lemmas by induction about the
   sequences their tables are filtered, laid end to end and folded into.

Still worth doing: `LabStore` implemented by `ClusterLab`, which holds only for labs no request of
which has raised; several pages of one lab.

There are a dozen runs, one for each question worth asking; a run that only showed a single known
line wrong has given way to the runs of the new modules, and is a note in PROJECT.json ("hazards").
No module of this directory uses RECURSIVE operators.

## 3. Modules

Operators that stand directly before a definition with the same parameters and are used nowhere
(`WorstFit` before `BestFit`, `KeepsSocket` before `BeginStart`, ...) are plausible slips of the
code; replacing the definition by one breaks a property (PROJECT.json, "mutants").

### Addressing

`Network.create_subnet`, `create_overlay` (BGP), `configure` and `render`, `Subnet.set_address`
and `_choose_and_set_address`, and the neighbours of `BGP_Overlay`. A block is a base address and
a prefix length; `Size[len]` is its number of addresses (an assumption says that each prefix has
twice the addresses of the next). State: `subnets` in order of creation, their `members`, the BGP
`systems`, the phase of configure (`configured`, `nextAS`, `work`, `inTransit`, `ranges`,
`pool`), and the result (`addr`, `ifaces`, `sessions`, `lab`). configure() is cut into one action
for each subnet addressed, so that the order of its loops is explicit: inner subnets in the order
of creation, without BGP all subnets by size (a stable sort), with BGP the transit subnets in any
order since they come from a set. `area` records the range the current pool was cut from.
`ceil_power_of_2` is modelled as the length it leads to; its floating-point logarithm is exact
for all sizes that fit in a private range. `Turn` states the loop order; `BestFit` the sort of
the pool; `Remainder` is `address_exclude`. An exception of `next()` on the exhausted filter is
`NoFreeBlock`. `Render` removes lab.json before anything else and may raise then (`RenderRaises`): a
second time when there are routers of an overlay, whose directory exists already, or when the overlay was
declared too late for AS numbers; the lab is gone (`NoLab`). No property depends on it. Not modelled: lists with a node twice, nested local networks (each distributes its
own range by the same method), a second call of configure().

### LabControl

One lab and the requests for it. `op[a]` is the request that actor `a` (web interface or command
line) is at: its prefix, stage, and what is left of the loop. Each docker call that changes
something is an action: `RemoveContainer`, `RemoveNetworks` (docker's filter finds all names in
`Matches`), `CreateNetwork` (a second network of a name is accepted), `CreateContainer` (a name
in use raises), `StartContainer`, `Connect`, and so on to `StartReturns`, which for the web
interface includes the Messenger and so lab.sock. `Abort` may take the place of any of them: the
call raises or the process ends. `Render` writes or removes lab.json. `RunCommand` is the loop in
the entrypoint of a host. Routers run their command at once. A ping test succeeds only when all
hosts are up, and may fail then too; it raises when the chosen host is gone.
Not modelled: what the `exec` commands of a node do (a failure is only printed), stop without
remove (no caller), filters of docker that match another prefix.

### LabStore

What a client of the web interface may rely on, with no word of docker, rows or sockets: `phase`
(stopped, starting, running, stopping, broken), the nodes defined (`defn`), those up, and the hosts
that have begun their command (`ran`). A start creates what is defined one node at a time and
returns only when all are up; a stop removes and returns only when none is; either may fail; no
host begins while a start is at work. `LabControl` defines the four as functions of its own state
(`Phase`, `Defn`, `Up`, `Ran`) and `KeepsPromises` is LabStore's specification under that mapping:
the Lab row decides between stopped and the rest, the stage of the request between starting and
stopping. Networks, sockets, the wait for routing and the command line's copies are stutters.

### Monitoring

The Messengers of one lab. `inbox[r]` and `listener[r]` are the socket and the task of the r-th
Messenger, `entry` is the lab's entry of `msg_cache`. Handlers and tasks share an event loop, so
an action is the code between two awaits: one message of `listen`, a whole request for
messages.json. `Restart` blocks the loop from the removal of the hosts to the new Messenger.
`Faults` turns on what may go wrong in a run: `expire` (the cache drops entries not set for 300
seconds; an open page sets them each second, so only without a page), `partial` (a message
without a status), `unreadable` (lab.json), `crash` (the server). `carried` and `taken` are
history variables for the properties. Replies with no message change no log and are not kept.
Not modelled: `avg_traffic`, colours and killed routers, several pages (they share the messages
between them; MCMonitoring has one), a Messenger whose constructor fails.

### ClusterLab

Labs on several docker hosts, with the rows of `models.py`. A start chooses a placement
(`Placements`: KaHyPar keeps the routers in partition 0), which decides which networks are docker
networks and which use the VPN. `StopWith` takes what `get_host_map` returns. Requests are
handled one at a time, as the handlers block the event loop. A start goes from host to host
(`BeginHost`, after which the tun numbers begin at 0), creates the host's networks, then each container
(`CreateContainer`: created and started), which joins its networks one after the other (`Join`) before
the next is created. A stop visits hosts in any order, a superset of the order of the code.

Two kinds of failure are told apart. A docker call raises: `Abort`, after any step of a request. Nothing
is undone, no row is written, and `failed` (history) remembers the lab; every property excepts it. What
goes by ssh or in a container *never* raises: ssh_exec and write_trough_ssh return a status that no
caller reads (163-192, 526-551), a failing command in the container is only printed (595-600). The
request goes on and may succeed. `FailUnseen` is the setup of one interface that fails so: the VPN
daemon does not come up, or runs with half its configuration, or the docker endpoint has no address.
`cut` (history) has these interfaces until their container is removed. NodesConnected excepts them by
name and the lab stays among those the properties are about, so what it says is that such a failure
never spreads: not to other interfaces of the node, not to other nodes, not to a later run.

`docked` are the connections to docker networks, `tuns` the VPN daemons of nodes, `hubs` those of the
server (`SetupVpn`), one for each VPN network, on devices numbered from 0 in each lab; a hub is `fresh`
while it has the keys of the lab's last start. A stop kills the hubs its prefix matches (`Extensions`:
the prefix of one lab may begin with that of another). What tincd answers is ignored, so a hub that
cannot start fails no request: `disturbed` (history) are the labs with a hub that failed, or that another
lab killed or kept from starting, which the code does nothing about; NodesConnected asks no hub of them.
`RemoveSockets` stands for what stop_lab does on a host before it removes containers.

Not modelled: the files of tinc and ssh, ports (`find_free_port`), a server that is a docker host too and
shares its devices with the nodes' daemons, the wait for routing. A comment of the code wants tun names
unique "across all namespaces" (409); TunsUnique says so of one lab: two labs on one host both count
from 0, in the model as in the code, and as each device is moved into its container's namespace what
comes of that depends on which is sooner.

### ClusterSockets

Extends ClusterLab: each action of a request is taken together with what it does to sockets and tunnels
(`SocketRequest`, `ForwardSocket`, ...), for any number of labs. start_lab leaves a shell behind which
waits for the messenger's socket on the server and then goes from host to host: it makes the directory,
starts an ssh client that makes lab.sock there and answers at it (`OpenTunnel`), and writes the pid of the
newest process with that command line to a file (`RecordPid`). The commands are chained with `;`
and nobody reads how they end (203-211). So a client may make no file (`MakeNoFile`: one is there already,
which sshd does not replace, or it fails), or there is no client at all; the shell goes on in any case.
pgrep's pattern has the port and not the lab, so `Matching` has the shells of all labs, whose own command
line contains that of each client, and every client with a port that begins with the digits of this one
(`PortsLike`).

stop_lab kills what the pid files name that begin with its prefix (`KillRecorded`), which may be those of
labs whose prefix begins with this one: `silenced` (history) are labs of which another lab's stop has
killed a process, a shell or a tunnel; their next start ends that. It then has the socket directory
removed on the hosts that have rows (`RemoveSocketFile`), by an ssh call that may fail unseen. It does
not wait for a shell: `procs` and `live` keep all of them, so that any number up to `MaxStarts` overlap
with later requests. `missed` (history) are the labs and hosts where the last ssh call that was to make or remove the file failed;
`stray` (history) those with a socket file no stop will remove in time: hosts a start used no node of, and
those a shell reached after its start was over. Each property excepts, by lab and host, those of the
three that it cannot hold for; these are the faults of the code, kept visible, and the properties say that
there is no other way for a container to begin too early, to find nobody at its socket or to wait
for ever. `overlapped` (history) says that some request began with a shell at work.

Not modelled: pids are never used twice, and `kill` ends a process at once.

### LabDefinition and LabGraph

The script of a user: nodes, subnets, RIP and OSPF overlays and local networks in any order, then
`Configure` and `Render`. Names are sequences of parts, addresses are pairs of a subnet and a node
(Addressing says which range a subnet gets). The gateway of a subnet is computed when the subnet is
made (`SubnetGateway`), interfaces in the order of configure (`Interfaces`: sorted by size, the
outer network first), routes as in `_get_routes`, the entries of lab.json in the order in which
dictionaries are merged (`Updated`), the daemons in the order of the start script. An exception ends
the script (`raised`). Properties speak of labs that meet what the library does not check and its
documentation asks for (`Sane`): names differ, and local networks hang on the main network
(networks inside a local network are configured but never reach lab.json). LabGraph is
`from_config` as a fold (`Drawing`) of `Visit` over the networks of the nodes (`Visits`), compared
with what a graph of that lab.json should be. Where the code filters a list or takes the first that
fits, the model has `Only` and `First`, which take the *set* of what fits: a lemma can speak of every
set, but not of every condition. Not modelled: changes after configure, a second configure, nodes of another network in a
subnet, contents of files, options, address ranges of local networks other than the default.

### TrafficControl

`rules[n]` are the limits that tc has for container `n`, `wanted[n]` (history) what the requests
that took effect ask for, `killed` is routers_cache with the age of its entries. `Tcset` is the
whole handler: read the rules back (`ContainerRules`, where `Read` is what tcshow's text loses),
merge (`TcsetOptions`), refuse, choose tcset or tcdel (`Commanded`), run it, mark a router.
`Tcdel` is the reset button. `Start`, `ApplyOptions`, `StartReturns` and `Stop` are what the life
cycle does to the limits; new containers have none, and during a start the event loop is blocked,
so no request comes between. A tool succeeds, fails (old limits or none left) or does not end in
25 seconds (the handler raises; any outcome). loss stands for loss, corrupt and duplicate; a value
carries its unit. Assumed of tcshow: a time is printed in the largest unit it is one of, with a
decimal point. Not modelled: tcwrap on cluster hosts, which hides failures; different limits on
the interfaces of one container; starts from the command line; a restart of the web interface,
which empties routers_cache.

## 4. Runs

| run | configuration | what it asks | result |
|---|---|---|---|
| addressing | 14 nodes, up to 3 subnets of 6 shapes, 3 partitions, 64 addresses, symmetry of subnets | all properties of Addressing | pass |
| lab_control | web interface; two lab.json (router, two hosts, two networks with one name part of the other; the same without one network and host); fair | what is left, exactness of a start, progress, and the refinement of LabStore | pass |
| lab_cli | command line, lab.json rendered at any time | what success still means then | pass |
| lab_copies | web interface and command line, one router and one host in each copy; fair | do several copies of one model run at the same time? | refuted: they share the directory of lab.sock |
| monitoring | 2 hosts, 2 runs, 2 messages in a run, 1 page, all faults, fair | counting, keeping and taking of messages | pass |
| monitoring_quiet | 1 run, only expiry, fair | does the page show the newest message? | refuted: the task returns |
| cluster_lab | 2 labs (3 nodes, 2 networks; 2 nodes, a network of the same name), 2 hosts; once, a request raises or the setup of an interface or hub fails unseen | rows, placement, reachability through fresh VPN servers, tun numbers | pass |
| cluster_two_labs | the same | does a request touch its own lab only? | refuted: `get_host_map` |
| cluster_sockets | 2 labs (a host; a router) on 2 hosts, one prefix begins with the other, 2 starts, 1 ssh call fails unseen; fair | when containers begin, who answers at their socket, what a stop finds | pass |
| lab_definition | up to 4 nodes, of which 2 or 3 are there to begin with; 4 subnets, overlays and local networks in all; clashing names possible | what lab.json and the graph say | pass |
| traffic_control | a router of an overlay; 24 requests of the panel and those the tests do not send; two defaults; tools may fail | is no more in force than was asked, a delay under what needs one, by what ways alone is a limit lost, and are limited routers red? | pass |
| traffic_panel | a router of an overlay and a gateway; 14 requests of the panel and the tests, one of them with only a bandwidth; tools do not fail | are the limits those of the requests answered OK? | refuted: a request with only a rate deletes all (net_control.py:275) |

Why the bounds are enough. *Addressing*: three subnets of 4 to 32 addresses in 64 reach exact
fit, split blocks, blocks left over, an exhausted range, nodes in no system, and two routers of
different systems that share two subnets, both addressed and listed in opposite orders: with two or
three systems the transit range has 16 addresses, room for two border subnets of 8, so that the order
in which a peer's interfaces are searched decides (`AddInterfacesInFront` breaks SessionsReciprocal). *LabControl*: two contents of lab.json that differ in a node, a link and a
network whose name contains the other; `MaxNetworks` = 2 lets a duplicate exist, which is what a
third would be; Timeout 20 and Poll 10 give three tests. lab_copies needs one host in each copy. *Monitoring*: two runs give one old
task and socket beside the current; two messages let a host's second overtake its first or
another host's; `MaxReplies` = 1 keeps one reply under way. *ClusterLab*: a lab whose networks
are local to a host in some placements and not in others, a second lab that shares both hosts,
needs a VPN in some placements and has a prefix the first lab's begins with;
`MaxFailures` = 1 as all properties exempt labs of which a request raised and the interfaces that
failed, and the others are what one failure may spread to; `MaxNetworks` saturates the count.
*ClusterSockets*: two starts give two shells beside a request, of one lab or of both; `MaxMissed` = 1
lets one ssh call fail, at a file, a tunnel or both. The labs have no networks, on which nothing of the
sockets depends, and the failures of ClusterLab are off (MaxFailures = 0). Ports of which one begins with
the other (`PortsLike`) are left to the proofs. *LabDefinition*: four parts allow a local network with a
subnet inside, its gateway in a subnet outside and an overlay on either side, or a node with both
daemons in two subnets; three nodes in a subnet give a graph its first node for a network.
*TrafficControl*: containers are independent but for the loop of start_lab, so odd requests need
one; the values cover both thresholds of the units, a fraction at each, 0, and a percentage above
100. The requests of a rate alone, and updates with nothing but zeros, for which `/tcset` deletes the
limits instead of setting them and answers OK (net_control.py:275), are among them: `lost` records that
this has happened, and `AsAsked` says that it, tools that fail and times that are rounded are the only
ways to a difference. What the panel promises is refuted in a run of its own, traffic_panel.

Fairness. `LabControl`: a request in progress goes on (the handlers never wait for anything but
docker calls and the bounded wait), and the entrypoint's loop sees lab.sock; nothing is assumed
about users. `Monitoring`: the task takes messages, an open page polls and its browser handles
replies. `ClusterSockets`: the shells and the entrypoints of containers go on, requests need not.
No restart, stop, message or page is ever assumed to happen. Where TLC refutes a
liveness property, the counterexample is a fair behaviour.
Deadlock is checked except in Addressing and LabDefinition, where a rendered or raised network ends,
and in ClusterSockets, where the bound on starts ends a behaviour.

## 5. Proofs

`Addressing_proofs` proves, for every set of nodes, subnets and partitions and every address
range, with no bound:

* `Typed`: `Spec => [](TypeOK /\ RangesLeft)`. RangesLeft says that there are at least as many
  ranges as systems still to come, and one more; without it `TakeRange` (a `pop()`) would not keep
  its type.
* `AddressesDisjoint`: `Spec => []SubnetsDisjoint`. Not inductive alone: a block is cut from the
  pool, and the pool from a range. `SpaceDisjoint` (theorem `SpaceStaysDisjoint`) adds that used
  blocks, free blocks and ranges not handed out never share an address. It rests on lemmas about
  `Remainder` (its blocks lie in the block cut, are disjoint from each other and from the one
  taken) and `EqualParts` (equal parts are disjoint and inside), which rest on the assumption
  that `Size` halves with each bit of the prefix.

It goes on to the other properties of Addressing. What configure() does is a sequence of loops, so
the invariant (`Configured`, theorem `AlwaysConfigured`) says where each of them stands:

* `Turns`: a subnet waits in `work` or is addressed, never both, once its system has had its turn,
  and the border subnets have been collected on the way. With `SystemsApart` (no subnet is inside
  two systems, since a list of nodes is not empty) it gives `AddressesKept` (AddressedOnce) and
  `AllAddressed` (ConfigureComplete).
* `Connected`: an interface has the address that its place in the list of nodes gives it, in a block
  with room for the list and three more. `HostsApart` (HostAddressesUnique) follows with
  SpaceDisjoint.
* `InOrder`: two nodes get their interfaces in the subnets they share in the same order. This is what
  makes the first shared subnet the same from both ends: `SessionsAtBothEnds` (SessionsReciprocal).
* `RangesApart`: the range of a system shares no address with what is still to be handed out, but for
  the free blocks left of it: `RangesAnnounced` (AnnouncedRangeIsInner).
* `Packed`, an invariant of its own: the pool holds all that is free of its range, and no two of its
  blocks have one length, as the block cut is the longest prefix that fits. Blocks of different
  lengths, all longer than `len`, have fewer than `Size[len]` addresses together (`FewAddresses`,
  by induction from the longest), hence `RunsOutOnlyWhenFull` (RaisesOnlyWhenFull).

`LabControl_proofs` proves, for every set of lab.json contents, names, prefixes and times:

* `Typed`: `Spec => [](TypeOK /\ Loaded)`. Loaded: a request in progress has a lab.json. The
  actions of `Proceed` are taken in three lemmas (stop, start, wait).
* `NothingLeft`: `Kept => (Spec => []NothingLeftWithoutRow)`. Kept is what the theorem needs of
  the world: lab.json is rendered only while the lab is stopped, and no copy of the command line
  has the prefix of the web interface. Without the first a stop reports success while nodes that
  lab.json no longer names go on (docker_runtime.py:228). The
  property is not inductive alone, since the row goes when stop_lab returns and what it removed is
  what lab.json named when it began. `Accounted` adds that a request works on the lab.json of now
  (`Current`), that docker holds nothing that lab.json does not name (`Listed`), and that what the
  loops of stop_lab have passed is gone (`Passed`). Taking away keeps the first two (`Less`), adding
  what lab.json names keeps them while there is a row (`More`), and the command line does not
  touch the copy (`CopyUntouched`).

`LabStore_proofs` extends it, with two more invariants:

* `Progress` says for each copy how far the request at work on it has come: what its loops have
  passed is gone (`Cleared`), or up and attached (`Built`, `Placed`). It needs only that the copies
  of the command line are others than that of the web interface (`Apart`), and lab.json may be
  rendered at any time. From it follow `NodesUp` (`[]StartedNodesUp`) and `StopClears`
  (`StopClearsLoaded`).
* `Exact` adds, under `Kept`, what is *not* there in the copy of the web interface: no container and
  no network beyond what the request has made so far, no host at work while a start is. From both
  (`Web`) follow `Held` (`[]CommandsHeld`) and `AsConfigured` (`[]StartedAsConfigured`).
* `Implements`: under `Kept`, `Spec => KeepsPromises`, the refinement of LabStore. Each action of
  LabControl is mapped to a step of LabStore or a stutter (`StepRefines`; `StopRefines`,
  `StartRefines` and `EndRefines` take the stages); `Web` supplies that a start begins with nothing
  up and ends with what is defined.
* `Reliable`: with LabStore's own invariant, `Spec => []Store!Consistent`: stopped means nothing
  runs, running means that exactly what was defined does.

`TrafficControl_proofs` proves, for every set of nodes, requests, options and values:

* `AllSound`: `Spec => []AllSafe`, types and, for each container, `Sound`: what is in force is
  within what was asked, and (if no tc_options have a delay of 0, `RealDelays`) a delay is under
  what needs one. Sound is inductive since reading back never raises a value and never turns one
  into 0 (`ReadBelow`), and so neither does an update (`CommandedFollows`, `CommandedUnderneath`).
* `NeverMoreThanAsked` and `DelayStaysUnderneath` are its two consequences, `InForceWasAsked` and
  `DelayUnderneath`. The second needs RealDelays: tcset_api takes a delay of 0 for a delay.
* `ExactlyAsAsked` (AsAsked) needs no assumption on requests, times or tools: the limits of a container
  are just those asked for unless its `lost` names a reason, and there are three: a tool has failed on it,
  a request with limits was answered by deleting them, an update has rounded a time it kept. A request
  that gives all anew and is answered by tcset clears them.
* `LimitsMakeRed` (LimitedRoutersRed) needs `ValidDefaults` (no lab starts with a percentage above 100,
  which tcset_api drops, so that the limits in force would not be those of the options), and excepts
  routers on which a tool has failed or whose start a timeout has ended.

`Monitoring_proofs` proves, for every set of hosts, statuses and pages, any number of runs and
messages, and all faults: `Typed`, `MessagesCountedOnce` (CountedOnce) and `NewestNotLost`
(NewestKept). The invariant is `Kept`: messages of a host wait in the socket in the order in which
they were sent and are newer than what the entry has and what was taken (`InSequence`,
`EntryOlder`), an entry belongs to a run whose socket is open (`RunsAgree`), and if nothing was
carried over no older socket has messages (`NothingOlder`); without the last one an older task could
still put an old message over the newest.

`ClusterLab_proofs` proves the properties of ClusterLab for any labs, nodes, networks, hosts and
splits, and any number of requests that raise and of interfaces and hubs that fail unseen: `Typed`, `ContainersRecorded` (RecordedContainers),
`NodesOnOneHost` (OneHostPerNode), `RunningNodesConnected` (NodesConnected) and `DevicesUnique`
(TunsUnique). The invariant is `Orderly`: for each lab no request of which has raised, the state of
docker on all hosts is what the stage of the request asks for (`Recorded` at rest, `Leaving`
while it is stopped, `Gone` when it is split, `Rising` while it is started), and its nodes reach
their networks unless it is being stopped (`Connected`, which excepts the interfaces of `cut` and
nothing else of theirs: the numbers, networks and hubs of all others are as if nothing had failed). It
has to speak of the lab at work and of all the others
at once, as the requests of one lab find the containers and hubs of the others on the same hosts.
`JoiningContainers` and `TunsInContainers` tie the interfaces a start has still to make to the last
container it has created.

`ClusterSockets_proofs` extends it. `SocketsImplementLab`: `SocketsSpec => Spec`, so that all the
above holds of labs with their sockets. The invariant `InService` (`AlwaysInService`) adds what the
shells, tunnels and files do, for each lab by itself: every lab.sock is a stray one, one that a failed
ssh call has left (`missed`), or on a host that stop_lab still visits (`Known`); the file on a host of a
running lab is answered or its shell has still to make it, unless another lab's stop has killed a process
of the lab (`Answered`); and, unless requests overlapped with a shell, each tunnel is in its pid file or
its shell is about to write it (`OneShell`). `Bystander` says when a step for one lab leaves the others
as they are. From it `CommandsAlwaysWait` (CommandsWait), `HostsAlwaysServed` (HostsServed) and
`TunnelsNeverLeak` (NoLeaks), for any labs, prefixes and ports and any number of shells at work at once.

`LabDefinition_proofs` proves all properties of LabDefinition and LabGraph, for every set of names,
every number of nodes, parts and overlays and every script. What the code computes there are lists
made from lists, so the proofs begin with what these operators return:

* `Flattened`, `FlatSet`, `FlatOrder`: sequences laid end to end have the elements of all, in
  the order of the sequences and without repetition if they had none. From these, by induction over
  the naturals (`NatClosed`): what `Only`, `First` and `Last` return (`OnlyThose`, `FirstOfThose`,
  `LastOfThose`), the sorting of subnets (`Sorted`, `SubnetsListed`), the order in which configure()
  visits networks (`Ordering`: each once, the main network first, an outer network before its local
  ones), and the merging of dictionaries (`UpdatedEntries`).
* `LabDefined`: `Spec => []DefInv`, the inductive invariant. TypeOK alone is not inductive: the
  gateway of a subnet is one of its nodes only because a local network's gateway is a node of the
  local network *and* of the outer one (`NetworksNested`), and a node of two networks is a gateway
  (`Homes`). `SubnetsPlaced` says that the gateway of a subnet forwards, and that there is one if the
  network's own is there; `OverlaysApart` that no node has two daemons of one protocol; `Wired` that
  configure() gave a node an interface in each of its subnets, those of the main network first;
  `Written` that lab.json is what render() makes of these tables, which change no more.
* `LabTyped` (TypeOK) follows at once. For the others, `WrittenEntries` says what the entry of a node
  in lab.json is: the one written by the last network the node is in, which for a gateway is a local
  network, hence with `nat_net`. `LabRendered` (RenderedWhole) is about its addresses,
  `LabTranslated` (NatOutside) about `nat_net`, where `MainFirst` makes the way out one
  through the main network, `LabRouted` (HostsRouted) about routes: the next hop of the gateway or of
  the first router is a node that forwards in a subnet of the host (`RouterHopsLead`,
  `GatewayHopsLead`); and `LabAgrees` (OverlaysAgree) about daemons: an overlay sees the
  interfaces its nodes have by then, which include all those of its own network (`UpTo`).
* `LabDrawn` (GraphFaithful): after any number of visits the graph is the one of the members met so
  far (`Drawn`, kept by each of the four cases of `Visit`, `DrawnVisit`): an edge is still possible
  for exactly the networks met twice, and taken back by the third visit. The counts need that no edge is drawn
  twice (`EdgesDrawn`) and a bijection with the members of the networks (`DrawnGraph`). It does not
  need Sane: names that clash are merged in lab.json, and the graph is faithful to what is left.

Assumptions are the named ASSUMEs of the modules, evaluated by TLC in every run: nodes, networks and
hosts are finite sets (`FiniteAssumption`, `HostsAssumption`), since the models count devices and
messages; what stands for no value is none (`NoneAssumption`); a prefix begins with itself and a port too
(`ExtensionsAssumption`, `PortsAssumption`).

Only checked by TLC, not proved:

* liveness and the properties that need fairness, which are out of reach of the prover;
* that each run reaches the cases its properties are about, which a theorem never shows: the
  premises of an implication, such as a lab that is written and Sane, are met by the states of the runs;
* the refuted properties of section 4, which are false.

## 6. Not modelled

Configuration text (quagga, tinc, ssh) beyond what the daemons of a node announce; keys, ports and
the VPN's own start on the server; the topology helpers (`topology.py`: loops over `create_subnet`
that nothing calls, `torus` and `fat_tree` raise at their first call); registration of cluster hosts
(`cluster_control.py`: `remove_host` always raises, so the set of hosts only grows); the user
interface, images and shell scripts; and what the plan in section 2 lists as still to come. PROJECT.json names each part with the reason, and
under "hazards" those that no property covers yet.
