------------------------------ MODULE LabControl ------------------------------
(***************************************************************************)
(* Starting, restarting and stopping one lab in the docker runtime: the    *)
(* web interface (lab_control.py) and the command line (madt.py) run       *)
(* docker_runtime.start_lab, stop_lab and restart_lab against the docker   *)
(* daemon, which outlives them, while lab.json may be rendered again.      *)
(*                                                                         *)
(* A copy of the lab is named by its prefix.  The web interface has one    *)
(* prefix and a Lab row; the command line takes any prefix and keeps       *)
(* nothing.  All copies share lab.json and the directory of lab.sock.      *)
(* A request is a sequence of docker calls, each of which may be the last: *)
(* an exception or the end of the process leaves what was done before it.  *)
(***************************************************************************)
EXTENDS Naturals, FiniteSets

CONSTANTS
  Actors,           \* "web", "cli" or both
  Nodes, Routers,   \* node names of any lab.json, and those that are routers
  Nets,             \* network names of any lab.json
  Matches,          \* Matches[n]: names docker's filter finds for n (substrings)
  Configs,          \* the contents lab.json may have
  NoConfig,         \* no lab.json
  CliPrefixes,      \* prefixes the command line is used with
  WebPrefix,        \* MADT_<lab>_
  NoNode,           \* no container under way
  Timeout, Poll,    \* of the wait for routing, in seconds
  MaxNetworks,      \* bound: docker networks of one name
  RenderAnytime     \* lab.json may be rendered while the lab is started

Prefixes == CliPrefixes \cup {WebPrefix}
Config == [nodes : SUBSET Nodes, nets : SUBSET Nets, links : [Nodes -> SUBSET Nets]]

ASSUME ActorsAssumption == Actors \subseteq {"web", "cli"}
ASSUME RoutersAssumption == Routers \subseteq Nodes /\ NoNode \notin Nodes
ASSUME MatchesAssumption ==
  Matches \in [Nets -> SUBSET Nets] /\ \A n \in Nets : n \in Matches[n]
ASSUME ConfigsAssumption ==
  /\ Configs \subseteq Config /\ NoConfig \notin Config
  /\ \A c \in Configs, n \in Nodes :
       c.links[n] \subseteq IF n \in c.nodes THEN c.nets ELSE {}
ASSUME NoConfigAssumption == \A nodes \in SUBSET Nodes : nodes # NoConfig
ASSUME TimesAssumption == Timeout \in Nat \ {0} /\ Poll \in Nat \ {0}
ASSUME BoundAssumption == MaxNetworks \in Nat \ {0} /\ RenderAnytime \in BOOLEAN

VARIABLES
  lab,         \* lab.json
  row,         \* there is a Lab row for the lab
  socket,      \* lab.sock exists
  containers,  \* docker: state of the container prefix + node
  attached,    \* docker: networks that container is attached to
  networks,    \* docker: number of networks named prefix + net
  op           \* the request each actor is at, or how its last one ended

vars == <<lab, row, socket, containers, attached, networks, op>>
docker == <<containers, attached, networks>>

\* "created": not started; "waiting": its entrypoint polls for lab.sock;
\* "working": it runs the command of the image.
States == {"none", "created", "waiting", "working"}
StopStages == {"containers", "networks"}
StartStages == {"nets", "create", "start", "connect", "wait", "options", "return"}
Ends == {"new", "ok", "failed"}

Idle(end, p, c) == [request |-> "none", prefix |-> p, stage |-> end, config |-> c,
                    nodes |-> {}, nets |-> {}, node |-> NoNode, waited |-> 0]

Init ==
  /\ lab \in Configs
  /\ row = FALSE
  /\ socket = FALSE
  /\ containers = [p \in Prefixes |-> [n \in Nodes |-> "none"]]
  /\ attached = [p \in Prefixes |-> [n \in Nodes |-> {}]]
  /\ networks = [p \in Prefixes |-> [n \in Nets |-> 0]]
  /\ op = [a \in Actors |-> Idle("new", WebPrefix, NoConfig)]

Resting(a) == op[a].request = "none"
Fail(a) == op' = [op EXCEPT ![a] = Idle("failed", op[a].prefix, op[a].config)]
Goto(a, stage) == op' = [op EXCEPT ![a].stage = stage]

\* Another process writes or removes lab.json.
Render(c) ==
  /\ c # lab
  /\ RenderAnytime \/ (~row /\ \A a \in Actors : Resting(a))
  /\ lab' = c
  /\ UNCHANGED <<row, socket, docker, op>>

-----------------------------------------------------------------------------
\* A request begins by loading lab.json; without one the call raises.

Begin(a, request, p, stage) ==
  op' = [op EXCEPT ![a] =
    IF lab = NoConfig THEN Idle("failed", p, NoConfig)
    ELSE [request |-> request, prefix |-> p, stage |-> stage, config |-> lab,
          nodes |-> lab.nodes, nets |-> lab.nets, node |-> NoNode, waited |-> 0]]

\* start_lab removes lab.sock before it creates anything.
KeepsSocket(a, request, p) == /\ Begin(a, request, p, "nets")
                              /\ UNCHANGED socket
BeginStart(a, request, p) == /\ Begin(a, request, p, "nets")
                             /\ socket' = (socket /\ lab = NoConfig)
BeginStop(a, request, p) == /\ Begin(a, request, p, "containers")
                            /\ UNCHANGED socket

\* restart_lab_api: the row is there before docker is asked for anything.
WebStartAgain ==
  /\ "web" \in Actors /\ Resting("web")
  /\ row' = TRUE
  /\ BeginStart("web", "start", WebPrefix)
  /\ UNCHANGED <<lab, docker>>

WebRestart ==
  /\ "web" \in Actors /\ Resting("web")
  /\ row' = TRUE
  /\ IF row THEN BeginStop("web", "restart", WebPrefix)
            ELSE BeginStart("web", "start", WebPrefix)
  /\ UNCHANGED <<lab, docker>>

\* stop_lab_api answers 404 without a row.
WebStopDroppingRow ==
  /\ "web" \in Actors /\ Resting("web") /\ row
  /\ row' = FALSE
  /\ BeginStop("web", "stop", WebPrefix)
  /\ UNCHANGED <<lab, docker>>

WebStop ==
  /\ "web" \in Actors /\ Resting("web") /\ row
  /\ BeginStop("web", "stop", WebPrefix)
  /\ UNCHANGED <<lab, row, docker>>

Cli(request, p) ==
  /\ "cli" \in Actors /\ Resting("cli")
  /\ IF request = "start" THEN BeginStart("cli", request, p) ELSE BeginStop("cli", request, p)
  /\ UNCHANGED <<lab, row, docker>>

-----------------------------------------------------------------------------
\* stop_lab: the containers of lab.json, then its networks.

KillContainer(a, n) ==
  LET p == op[a].prefix
  IN  /\ op[a].stage = "containers" /\ n \in op[a].nodes
      /\ containers' = [containers EXCEPT ![p][n] = IF @ = "none" THEN @ ELSE "created"]
      /\ op' = [op EXCEPT ![a].nodes = @ \ {n}]
      /\ UNCHANGED <<lab, row, socket, attached, networks>>

RemoveContainer(a, n) ==
  LET p == op[a].prefix
  IN  /\ op[a].stage = "containers" /\ n \in op[a].nodes
      /\ containers' = [containers EXCEPT ![p][n] = "none"]
      /\ attached' = [attached EXCEPT ![p][n] = {}]
      /\ op' = [op EXCEPT ![a].nodes = @ \ {n}]
      /\ UNCHANGED <<lab, row, socket, networks>>

ContainersRemoved(a) ==
  /\ op[a].stage = "containers" /\ op[a].nodes = {}
  /\ Goto(a, "networks")
  /\ UNCHANGED <<lab, row, socket, docker>>

Started(p, n) == containers[p][n] \in {"waiting", "working"}
InUse(p, m) == \E n \in Nodes : Started(p, n) /\ m \in attached[p][n]

\* Every network docker finds for the name is removed; one with a running
\* container attached is refused, and those before it in the list are gone.
RemoveNetworks(a, m) ==
  LET p == op[a].prefix
      busy == {k \in Matches[m] : networks[p][k] > 0 /\ InUse(p, k)}
  IN  /\ op[a].stage = "networks" /\ m \in op[a].nets
      /\ IF busy = {}
         THEN /\ networks' = [networks EXCEPT ![p] =
                   [k \in Nets |-> IF k \in Matches[m] THEN 0 ELSE @[k]]]
              /\ op' = [op EXCEPT ![a].nets = @ \ {m}]
         ELSE /\ \E gone \in SUBSET (Matches[m] \ busy) :
                   networks' = [networks EXCEPT ![p] =
                     [k \in Nets |-> IF k \in gone THEN 0 ELSE @[k]]]
              /\ Fail(a)
      /\ UNCHANGED <<lab, row, socket, containers, attached>>

\* The web interface deletes the row once stop_lab has returned.
StopReturns(a) ==
  /\ op[a].stage = "networks" /\ op[a].nets = {}
  /\ op[a].request = "stop"
  /\ op' = [op EXCEPT ![a] = Idle("ok", op[a].prefix, NoConfig)]
  /\ row' = (row /\ a # "web")
  /\ UNCHANGED <<lab, socket, docker>>

\* restart_lab loads lab.json a second time.
RestartAgain(a) ==
  /\ op[a].stage = "networks" /\ op[a].nets = {}
  /\ op[a].request = "restart"
  /\ BeginStop(a, "restart", op[a].prefix)
  /\ UNCHANGED <<lab, row, docker>>
StartAfterStop(a) ==
  /\ op[a].stage = "networks" /\ op[a].nets = {}
  /\ op[a].request = "restart"
  /\ BeginStart(a, "restart", op[a].prefix)
  /\ UNCHANGED <<lab, row, docker>>

-----------------------------------------------------------------------------
\* start_lab.

\* Docker accepts a second network of the same name.
CreateNetwork(a, m) ==
  LET p == op[a].prefix
  IN  /\ op[a].stage = "nets" /\ m \in op[a].nets
      /\ networks[p][m] < MaxNetworks
      /\ networks' = [networks EXCEPT ![p][m] = @ + 1]
      /\ op' = [op EXCEPT ![a].nets = @ \ {m}]
      /\ UNCHANGED <<lab, row, socket, containers, attached>>

NetworksCreated(a) ==
  /\ op[a].stage = "nets" /\ op[a].nets = {}
  /\ Goto(a, "create")
  /\ UNCHANGED <<lab, row, socket, docker>>

\* The name of a container is taken: docker raises.
ReuseContainer(a, n) ==
  LET p == op[a].prefix
  IN  /\ op[a].stage = "create" /\ n \in op[a].nodes
      /\ op' = [op EXCEPT ![a].nodes = @ \ {n}, ![a].node = n,
                          ![a].stage = IF containers[p][n] = "none" THEN "start" ELSE @]
      /\ containers' = [containers EXCEPT ![p][n] = IF @ = "none" THEN "created" ELSE @]
      /\ attached' = attached
      /\ UNCHANGED <<lab, row, socket, networks>>

CreateContainer(a, n) ==
  LET p == op[a].prefix
      links == op[a].config.links[n]
  IN  /\ op[a].stage = "create" /\ n \in op[a].nodes
      /\ \/ /\ containers[p][n] = "none"
            /\ \E first \in IF links = {} THEN {{}} ELSE {{m} : m \in links} :
                 attached' = [attached EXCEPT ![p][n] = first]
            /\ containers' = [containers EXCEPT ![p][n] = "created"]
            /\ op' = [op EXCEPT ![a].nodes = @ \ {n}, ![a].node = n, ![a].stage = "start"]
         \/ /\ containers[p][n] # "none"
            /\ Fail(a)
            /\ UNCHANGED <<containers, attached>>
      /\ UNCHANGED <<lab, row, socket, networks>>

\* Files are copied and the container started; only routers run their command
\* at once.
FirstState(n) == IF n \in Routers THEN "working" ELSE "waiting"

StartContainer(a) ==
  LET p == op[a].prefix
      n == op[a].node
  IN  /\ op[a].stage = "start"
      /\ IF containers[p][n] = "created" /\ \A m \in attached[p][n] : networks[p][m] > 0
         THEN /\ containers' = [containers EXCEPT ![p][n] = FirstState(n)]
              /\ Goto(a, "connect")
         ELSE Fail(a) /\ UNCHANGED containers
      /\ UNCHANGED <<lab, row, socket, attached, networks>>

\* The other networks are connected; a failure of the commands that set
\* addresses and routes is only printed.
Connect(a) ==
  LET p == op[a].prefix
      n == op[a].node
      links == op[a].config.links[n]
  IN  /\ op[a].stage = "connect"
      /\ IF Started(p, n) /\ \A m \in links : networks[p][m] > 0
         THEN /\ attached' = [attached EXCEPT ![p][n] = links]
              /\ Goto(a, "create")
         ELSE Fail(a) /\ UNCHANGED attached
      /\ UNCHANGED <<lab, row, socket, containers, networks>>

NodesStarted(a) ==
  /\ op[a].stage = "create" /\ op[a].nodes = {}
  /\ Goto(a, "wait")
  /\ UNCHANGED <<lab, row, socket, docker>>

\* check_routing: a host pings the others until they all answer.  When time is
\* up start_lab goes on all the same.
Pinging(c) == {n \in c.nodes \ Routers : c.links[n] # {}}
NextPoll(a) == op[a].waited + Poll

TestRouting(a) ==
  LET hosts == Pinging(op[a].config)
      up == {n \in hosts : Started(op[a].prefix, n)}
  IN  \/ /\ up = hosts
         /\ op' = [op EXCEPT ![a].stage = "options"]
      \/ /\ up # {}
         /\ op' = [op EXCEPT ![a].waited = NextPoll(a)]

CheckRoutingForever(a) ==
  /\ op[a].stage = "wait"
  /\ TestRouting(a)
  /\ UNCHANGED <<lab, row, socket, docker>>
CheckRouting(a) ==
  /\ op[a].stage = "wait" /\ op[a].waited < Timeout
  /\ TestRouting(a)
  /\ UNCHANGED <<lab, row, socket, docker>>

WaitOver(a) ==
  /\ op[a].stage = "wait" /\ op[a].waited >= Timeout
  /\ Goto(a, "options")
  /\ UNCHANGED <<lab, row, socket, docker>>

ApplyOptions(a) ==
  /\ op[a].stage = "options"
  /\ Goto(a, "return")
  /\ UNCHANGED <<lab, row, socket, docker>>

\* Only the web interface opens the socket (Messenger) when start_lab returns.
SocketUntouched(a) == socket
SocketOnReturn(a) == socket \/ a = "web"
StartReturns(a) ==
  /\ op[a].stage = "return"
  /\ op' = [op EXCEPT ![a] = Idle("ok", @.prefix, @.config)]
  /\ socket' = SocketOnReturn(a)
  /\ UNCHANGED <<lab, row, docker>>

\* A docker call raises, or the process ends.
Abort(a) ==
  /\ ~Resting(a)
  /\ Fail(a)
  /\ UNCHANGED <<lab, row, socket, docker>>

\* The entrypoint of a host that is not a router finds lab.sock.
RunCommand(p, n) ==
  /\ socket
  /\ containers[p][n] = "waiting"
  /\ containers' = [containers EXCEPT ![p][n] = "working"]
  /\ UNCHANGED <<lab, row, socket, attached, networks, op>>

Proceed(a) ==
  \/ \E n \in Nodes : RemoveContainer(a, n) \/ CreateContainer(a, n)
  \/ \E m \in Nets : RemoveNetworks(a, m) \/ CreateNetwork(a, m)
  \/ ContainersRemoved(a)
  \/ StopReturns(a)
  \/ StartAfterStop(a)
  \/ NetworksCreated(a)
  \/ StartContainer(a)
  \/ Connect(a)
  \/ NodesStarted(a)
  \/ CheckRouting(a)
  \/ WaitOver(a)
  \/ ApplyOptions(a)
  \/ StartReturns(a)

Next ==
  \/ \E c \in Configs \cup {NoConfig} : Render(c)
  \/ WebRestart
  \/ WebStop
  \/ \E p \in CliPrefixes, request \in {"start", "stop", "restart"} : Cli(request, p)
  \/ \E a \in Actors : Proceed(a) \/ Abort(a)
  \/ \E p \in Prefixes, n \in Nodes : RunCommand(p, n)

Spec == Init /\ [][Next]_vars

FairSpec ==
  /\ Spec
  /\ \A a \in Actors : WF_vars(Proceed(a))
  /\ \A p \in Prefixes, n \in Nodes : WF_vars(RunCommand(p, n))

-----------------------------------------------------------------------------
\* Properties.

Op == [request : {"none", "start", "stop", "restart"}, prefix : Prefixes,
       stage : StopStages \cup StartStages \cup Ends, config : Configs \cup {NoConfig},
       nodes : SUBSET Nodes, nets : SUBSET Nets, node : Nodes \cup {NoNode},
       waited : 0..(Timeout + Poll)]

\* Every variable holds a value of the kind the code keeps in it.
TypeOK ==
  /\ lab \in Configs \cup {NoConfig}
  /\ row \in BOOLEAN
  /\ socket \in BOOLEAN
  /\ containers \in [Prefixes -> [Nodes -> States]]
  /\ attached \in [Prefixes -> [Nodes -> SUBSET Nets]]
  /\ networks \in [Prefixes -> [Nets -> 0..MaxNetworks]]
  /\ op \in [Actors -> Op]

\* The Lab row is the only record that something may be running: without it
\* docker holds nothing of the lab, after any failure or crash.
NothingLeftWithoutRow ==
  ~row => /\ \A n \in Nodes : containers[WebPrefix][n] = "none"
          /\ \A m \in Nets : networks[WebPrefix][m] = 0

\* A start or restart that reports success leaves exactly the lab it loaded:
\* its containers, attached to their networks, one docker network for each
\* name and none else, whatever earlier requests left half done.
StartedAsConfigured ==
  \A a \in Actors \cap {"web"} : LET c == op[a].config IN
      op[a].stage = "ok" /\ c # NoConfig =>
        /\ \A n \in Nodes : /\ Started(WebPrefix, n) <=> n \in c.nodes
                            /\ containers[WebPrefix][n] # "created"
                            /\ n \in c.nodes => attached[WebPrefix][n] = c.links[n]
        /\ \A m \in Nets : networks[WebPrefix][m] = IF m \in c.nets THEN 1 ELSE 0

\* Whatever was rendered and left behind before: a start that reports success has
\* every node of the lab.json it loaded up and attached to its networks.
StartedNodesUp ==
  \A a \in Actors : LET p == op[a].prefix  c == op[a].config IN
    op[a].stage = "ok" /\ c # NoConfig =>
      \A n \in c.nodes : Started(p, n) /\ attached[p][n] = c.links[n]

\* A stop that reports success has removed every container and network of the
\* lab.json it loaded, those of other runs that docker's filter finds included.
StopClearsLoaded ==
  [][\A a \in Actors : StopReturns(a) =>
       LET p == op[a].prefix  c == op[a].config
       IN  /\ \A n \in c.nodes : containers[p][n] = "none"
           /\ \A m \in c.nets : networks[p][m] = 0]_vars

\* No host of the web interface runs its command while start_lab is still at
\* work on it: the socket of an earlier run never lets it through.  (KeepsPromises
\* includes it; it is proved on its own.)
CommandsHeld ==
  \A a \in Actors \cap {"web"} : op[a].stage \in StartStages =>
    \A n \in Nodes \ Routers : containers[op[a].prefix][n] # "working"

\* A request ends, also when routing never converges.
RequestsEnd == \A a \in Actors : ~Resting(a) ~> Resting(a)

\* After a successful start every host gets to run its command, unless the next
\* request comes first.
HostsRun(a) ==
  \A n \in Nodes \ Routers :
    (op[a].stage = "ok" /\ op[a].config # NoConfig /\ n \in op[a].config.nodes)
      ~> (containers[op[a].prefix][n] = "working" \/ op[a].stage # "ok")
StartedHostsRun == \A a \in Actors : HostsRun(a)

\* docs/guide.rst: different prefixes allow to run multiple copies of the model
\* at the same time.  The copy of the web interface then runs to its commands
\* also when the command line starts another.
CopiesRun == HostsRun("web")

\* The copy of the web interface as its clients see it.
Phase ==
  IF ~row THEN "stopped"
  ELSE IF ~Resting("web") THEN IF op["web"].stage \in StopStages THEN "stopping" ELSE "starting"
  ELSE IF op["web"].stage = "ok" THEN "running" ELSE "broken"

Defn == IF lab = NoConfig THEN NoConfig ELSE lab.nodes
Up == {n \in Nodes : Started(WebPrefix, n)}
Ran == {n \in Nodes \ Routers : containers[WebPrefix][n] = "working"}

Store == INSTANCE LabStore WITH NoDefinition <- NoConfig, phase <- Phase, defn <- Defn,
                                up <- Up, ran <- Ran

\* The web interface keeps the promises of LabStore, whatever fails and however
\* many copies the command line starts beside it.
KeepsPromises == Store!Spec
=============================================================================
