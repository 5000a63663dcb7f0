---------------------------- MODULE LabStore_proofs ----------------------------
(***************************************************************************)
(* What a request that reports success has done, proved for both actors    *)
(* whatever lab.json becomes meanwhile; and that the copy of the web       *)
(* interface keeps the promises of LabStore.                               *)
(***************************************************************************)
EXTENDS LabControl_proofs

\* No copy of the command line has the prefix of the web interface.
Apart == WebPrefix \notin CliPrefixes

\* Every actor works on copies of its own.
OwnCopy(a) ==
  IF a = "web" THEN op[a].prefix = WebPrefix
               ELSE op[a].stage # "new" => op[a].prefix \in CliPrefixes

\* What the stop stages have passed is gone, of the lab.json the request loaded.
Cleared(a) ==
  LET o == op[a] IN
    /\ o.stage = "containers" =>
         /\ o.nets = o.config.nets
         /\ \A n \in o.config.nodes \ o.nodes : containers[o.prefix][n] = "none"
    /\ o.stage = "networks" =>
         /\ \A n \in o.config.nodes : containers[o.prefix][n] = "none"
         /\ \A m \in o.config.nets \ o.nets : networks[o.prefix][m] = 0

\* Nodes the start still has to bring up.
Pending(o) == o.nodes \cup (IF o.stage \in {"start", "connect"} THEN {o.node} ELSE {})
Placed(o, n) == Started(o.prefix, n) /\ attached[o.prefix][n] = o.config.links[n]

\* What start_lab has passed in its loop over the nodes is up and connected.
Built(a) ==
  LET o == op[a] IN
    /\ o.stage = "nets" => o.nodes = o.config.nodes
    /\ o.stage \in {"wait", "options", "return", "ok"} => o.nodes = {}
    /\ o.stage \in (StartStages \ {"nets"}) \cup {"ok"} /\ o.config # NoConfig =>
         \A n \in o.config.nodes \ Pending(o) : Placed(o, n)

\* The strengthening that makes the results of requests inductive.
Progress == \A a \in Actors : OwnCopy(a) /\ Cleared(a) /\ Built(a)

\* The web interface starts from nothing: what it has not come to is not there,
\* there is one network of each name, and nothing runs before it returns.
Exact ==
  LET o == op["web"] IN
    /\ o.stage = "new" => ~row
    /\ o.stage = "ok" => IF o.config = NoConfig THEN ~row ELSE row /\ o.config = lab
    /\ o.stage \in StartStages =>
         /\ ~socket
         /\ \A n \in Nodes \ Routers : containers[WebPrefix][n] # "working"
         /\ \A n \in o.nodes : ~Exists(n)
    /\ o.stage \in {"start", "connect"} => o.node \in lab.nodes
    /\ o.stage = "nets" => \A m \in Nets :
         networks[WebPrefix][m] = IF m \in o.config.nets \ o.nets THEN 1 ELSE 0
    /\ o.stage \in (StartStages \ {"nets"}) \cup {"ok"} /\ o.config # NoConfig =>
         \A m \in Nets : networks[WebPrefix][m] = IF m \in o.config.nets THEN 1 ELSE 0

-----------------------------------------------------------------------------
\* What requests that report success have done.

Own(a) == OwnCopy(a) /\ Cleared(a) /\ Built(a)

\* A request under way works where no other request does.
LEMMA Elsewhere ==
  ASSUME TypeOK, Loaded, NEW a \in Actors, Proceed(a) \/ Abort(a),
         NEW p \in Prefixes, p # op[a].prefix
  PROVE  /\ containers'[p] = containers[p]
         /\ attached'[p] = attached[p]
         /\ networks'[p] = networks[p]
<1>1. CASE Abort(a)
  BY <1>1 DEF Abort, docker
<1>2. CASE \/ \E n \in Nodes : RemoveContainer(a, n) \/ CreateContainer(a, n)
           \/ StartContainer(a)
           \/ Connect(a)
  BY <1>2 DEF RemoveContainer, CreateContainer, StartContainer, Connect, TypeOK
<1>3. CASE \E m \in Nets : RemoveNetworks(a, m) \/ CreateNetwork(a, m)
  BY <1>3 DEF RemoveNetworks, CreateNetwork, TypeOK
<1>4. CASE \/ ContainersRemoved(a) \/ StopReturns(a) \/ StartAfterStop(a)
           \/ NetworksCreated(a) \/ NodesStarted(a) \/ CheckRouting(a)
           \/ WaitOver(a) \/ ApplyOptions(a) \/ StartReturns(a)
  BY <1>4 DEF ContainersRemoved, StopReturns, StartAfterStop, NetworksCreated, NodesStarted,
              CheckRouting, WaitOver, ApplyOptions, StartReturns, docker
<1>5. QED
  BY <1>1, <1>2, <1>3, <1>4 DEF Proceed

\* A step is taken by a request under way.
LEMMA Working ==
  ASSUME Loaded, NEW a \in Actors, Proceed(a) \/ Abort(a)
  PROVE  ~Resting(a)
BY DEF Abort, Proceed, RemoveContainer, CreateContainer, RemoveNetworks, CreateNetwork,
       ContainersRemoved, StopReturns, StartAfterStop, NetworksCreated, StartContainer, Connect,
       NodesStarted, CheckRouting, WaitOver, ApplyOptions, StartReturns, Loaded, Ends

\* Nothing that holds of one copy is disturbed by work on another.
LEMMA OthersProgress ==
  ASSUME TypeOK, Loaded, Apart, Progress, NEW a \in Actors, Proceed(a) \/ Abort(a),
         NEW b \in Actors \ {a}
  PROVE  Own(b)'
<1>1. op'[b] = op[b]
  BY OthersWait
<1>2. OwnCopy(b)'
  BY <1>1 DEF Progress, OwnCopy
<1>3. CASE op[b].stage = "new"
  BY <1>1, <1>2, <1>3 DEF Own, Cleared, Built, StartStages
<1>4. CASE op[b].stage # "new"
  <2>1. ~Resting(a) /\ op[a].stage # "new"
    BY Working DEF Loaded, Ends
  <2>2. op[b].prefix # op[a].prefix /\ op[b].prefix \in Prefixes
    BY <1>4, <2>1, ActorsAssumption DEF Progress, OwnCopy, Apart, TypeOK, Op
  <2>3. /\ containers'[op[b].prefix] = containers[op[b].prefix]
        /\ attached'[op[b].prefix] = attached[op[b].prefix]
        /\ networks'[op[b].prefix] = networks[op[b].prefix]
    BY <2>2, Elsewhere
  <2>4. Cleared(b)'
    BY <1>1, <2>3 DEF Progress, Cleared
  <2>5. Built(b)'
    BY <1>1, <2>3 DEF Progress, Built, Placed, Started, Pending
  <2>6. QED
    BY <1>2, <2>4, <2>5 DEF Own
<1>5. QED
  BY <1>3, <1>4

\* A request that failed has promised nothing.
LEMMA FailedOwn ==
  ASSUME TypeOK, Loaded, NEW a \in Actors, OwnCopy(a), ~Resting(a), Fail(a)
  PROVE  Own(a)'
BY DEF Fail, Idle, TypeOK, Loaded, Ends, Own, OwnCopy, Cleared, Built, StartStages

\* A request that begins has passed nothing yet.
LEMMA BeganOwn ==
  ASSUME TypeOK, NEW a \in Actors, NEW request, NEW p \in Prefixes,
         NEW stage \in {"containers", "nets"},
         IF a = "web" THEN p = WebPrefix ELSE p \in CliPrefixes,
         Begin(a, request, p, stage)
  PROVE  Own(a)'
<1>1. CASE lab = NoConfig
  BY <1>1 DEF Begin, Idle, TypeOK, Own, OwnCopy, Cleared, Built, StartStages
<1>2. CASE lab # NoConfig
  BY <1>2 DEF Begin, TypeOK, Own, OwnCopy, Cleared, Built, StartStages
<1>3. QED
  BY <1>1, <1>2

LEMMA StopProgress ==
  ASSUME TypeOK, Loaded, Progress, NEW a \in Actors,
         \/ \E n \in Nodes : RemoveContainer(a, n)
         \/ ContainersRemoved(a)
         \/ \E m \in Nets : RemoveNetworks(a, m)
         \/ StopReturns(a)
         \/ StartAfterStop(a)
  PROVE  Own(a)'
<1> DEFINE o == op[a]
<1>1. /\ o \in Op /\ OwnCopy(a) /\ Cleared(a)
      /\ ~Resting(a) /\ o.stage # "new" /\ o.config \in Configs
  BY Working DEF TypeOK, Progress, Proceed, Loaded, Ends
<1>2. o.prefix \in Prefixes /\ o.config.nodes \subseteq Nodes /\ o.config.nets \subseteq Nets
  BY <1>1, ConfigTyped DEF Op
<1>3. ASSUME NEW n \in Nodes, RemoveContainer(a, n) PROVE Own(a)'
  <2>1. /\ o.stage = "containers" /\ o'.stage = "containers" /\ o'.prefix = o.prefix
        /\ o'.config = o.config /\ o'.nets = o.nets /\ o'.nodes = o.nodes \ {n}
    BY <1>1, <1>3 DEF RemoveContainer, TypeOK, Op
  <2>2. containers'[o.prefix] = [containers[o.prefix] EXCEPT ![n] = "none"]
    BY <1>2, <1>3 DEF RemoveContainer, TypeOK
  <2>3. Cleared(a)'
    BY <1>1, <1>2, <2>1, <2>2 DEF Cleared, TypeOK
  <2>4. QED
    BY <1>1, <2>1, <2>3 DEF Own, OwnCopy, Built, StartStages
<1>4. CASE ContainersRemoved(a)
  <2>1. /\ o.stage = "containers" /\ o.nodes = {} /\ o'.stage = "networks"
        /\ o'.prefix = o.prefix /\ o'.config = o.config /\ o'.nets = o.nets
        /\ UNCHANGED docker
    BY <1>1, <1>4 DEF ContainersRemoved, Goto, TypeOK, Op
  <2>2. Cleared(a)'
    BY <1>1, <2>1 DEF Cleared, docker
  <2>3. QED
    BY <1>1, <2>1, <2>2 DEF Own, OwnCopy, Built, StartStages
<1>5. ASSUME NEW m \in Nets, RemoveNetworks(a, m), ~Fail(a) PROVE Own(a)'
  <2>1. /\ o.stage = "networks" /\ o'.stage = "networks" /\ o'.prefix = o.prefix
        /\ o'.config = o.config /\ o'.nets = o.nets \ {m} /\ containers' = containers
    BY <1>1, <1>5 DEF RemoveNetworks, TypeOK, Op
  <2>2. networks'[o.prefix] =
          [k \in Nets |-> IF k \in Matches[m] THEN 0 ELSE networks[o.prefix][k]]
    BY <1>2, <1>5 DEF RemoveNetworks, TypeOK
  <2>3. networks'[o.prefix][m] = 0
    BY <2>2, MatchesAssumption
  <2>4. \A k \in Nets : networks[o.prefix][k] = 0 => networks'[o.prefix][k] = 0
    BY <2>2
  <2>5. Cleared(a)'
    BY <1>1, <1>2, <2>1, <2>3, <2>4 DEF Cleared
  <2>6. QED
    BY <1>1, <2>1, <2>5 DEF Own, OwnCopy, Built, StartStages
<1>6. CASE StopReturns(a)
  BY <1>1, <1>6 DEF StopReturns, Idle, TypeOK, Own, OwnCopy, Cleared, Built, StartStages
<1>7. CASE StartAfterStop(a)
  <2>1. Begin(a, "restart", o.prefix, "nets")
    BY <1>7 DEF StartAfterStop, BeginStart
  <2>2. IF a = "web" THEN o.prefix = WebPrefix ELSE o.prefix \in CliPrefixes
    BY <1>1 DEF OwnCopy
  <2>3. QED
    BY <1>2, <2>1, <2>2, BeganOwn
<1>8. CASE Fail(a)
  BY <1>1, <1>8, FailedOwn
<1>9. QED
  BY <1>3, <1>4, <1>5, <1>6, <1>7, <1>8

LEMMA StartProgress ==
  ASSUME TypeOK, Loaded, Progress, NEW a \in Actors,
         \/ \E m \in Nets : CreateNetwork(a, m)
         \/ NetworksCreated(a)
         \/ \E n \in Nodes : CreateContainer(a, n)
         \/ StartContainer(a)
         \/ Connect(a)
  PROVE  Own(a)'
<1> DEFINE o == op[a]
<1>1. /\ o \in Op /\ OwnCopy(a) /\ Built(a)
      /\ ~Resting(a) /\ o.stage # "new" /\ o.config \in Configs /\ o.config # NoConfig
  BY Working, ConfigTyped DEF TypeOK, Progress, Proceed, Loaded, Ends
<1>2. o.prefix \in Prefixes /\ o.config.nodes \subseteq Nodes
  BY <1>1, ConfigTyped DEF Op
<1>3. ASSUME NEW m \in Nets, CreateNetwork(a, m) PROVE Own(a)'
  <2>1. /\ o.stage = "nets" /\ o'.stage = "nets" /\ o'.prefix = o.prefix
        /\ o'.config = o.config /\ o'.nodes = o.nodes
    BY <1>1, <1>3 DEF CreateNetwork, TypeOK, Op
  <2>2. QED
    BY <1>1, <2>1 DEF Own, OwnCopy, Cleared, Built, StartStages
<1>4. CASE NetworksCreated(a)
  <2>1. /\ o.stage = "nets" /\ o'.stage = "create" /\ o'.prefix = o.prefix
        /\ o'.config = o.config /\ o'.nodes = o.nodes
    BY <1>1, <1>4 DEF NetworksCreated, Goto, TypeOK, Op
  <2>2. QED
    BY <1>1, <2>1 DEF Own, OwnCopy, Cleared, Built, Pending
<1>5. ASSUME NEW n \in Nodes, CreateContainer(a, n), ~Fail(a) PROVE Own(a)'
  <2>1. /\ o.stage = "create" /\ o'.stage = "start" /\ o'.prefix = o.prefix
        /\ o'.config = o.config /\ o'.nodes = o.nodes \ {n} /\ o'.node = n
    <3>1. op' = [op EXCEPT ![a].nodes = @ \ {n}, ![a].node = n, ![a].stage = "start"]
      BY <1>5 DEF CreateContainer
    <3>2. o.stage = "create"
      BY <1>5 DEF CreateContainer
    <3>3. QED
      BY <1>1, <3>1, <3>2 DEF TypeOK, Op
  <2>2. \A k \in Nodes \ {n} : /\ containers'[o.prefix][k] = containers[o.prefix][k]
                               /\ attached'[o.prefix][k] = attached[o.prefix][k]
    <3>1. PICK first : attached' = [attached EXCEPT ![o.prefix][n] = first]
      <4>1. \E first \in IF o.config.links[n] = {} THEN {{}}
                         ELSE {{m} : m \in o.config.links[n]} :
              attached' = [attached EXCEPT ![o.prefix][n] = first]
        BY <1>5 DEF CreateContainer
      <4>2. QED
        BY <4>1
    <3>2. containers' = [containers EXCEPT ![o.prefix][n] = "created"]
      BY <1>5 DEF CreateContainer
    <3>3. QED
      BY <1>2, <3>1, <3>2 DEF TypeOK
  <2>3. Built(a)'
    BY <1>1, <1>2, <2>1, <2>2 DEF Built, Pending, Placed, Started, StartStages
  <2>4. QED
    BY <1>1, <2>1, <2>3 DEF Own, OwnCopy, Cleared
<1>6. CASE StartContainer(a) /\ ~Fail(a)
  <2>1. /\ o.stage = "start" /\ o'.stage = "connect" /\ o'.prefix = o.prefix
        /\ o'.config = o.config /\ o'.nodes = o.nodes /\ o'.node = o.node
    BY <1>1, <1>6 DEF StartContainer, Goto, TypeOK, Op
  <2>2. \A k \in Nodes \ {o.node} : /\ containers'[o.prefix][k] = containers[o.prefix][k]
                                    /\ attached'[o.prefix][k] = attached[o.prefix][k]
    BY <1>2, <1>6 DEF StartContainer, TypeOK
  <2>3. Built(a)'
    BY <1>1, <1>2, <2>1, <2>2 DEF Built, Pending, Placed, Started, StartStages
  <2>4. QED
    BY <1>1, <2>1, <2>3 DEF Own, OwnCopy, Cleared
<1>7. CASE Connect(a) /\ ~Fail(a)
  <2>1. /\ o.stage = "connect" /\ o'.stage = "create" /\ o'.prefix = o.prefix
        /\ o'.config = o.config /\ o'.nodes = o.nodes /\ o'.node = o.node
    BY <1>1, <1>7 DEF Connect, Goto, TypeOK, Op
  <2>2. \A k \in Nodes : /\ containers'[o.prefix][k] = containers[o.prefix][k]
                         /\ k # o.node => attached'[o.prefix][k] = attached[o.prefix][k]
    BY <1>2, <1>7 DEF Connect, TypeOK
  <2>3. ASSUME o.node \in Nodes PROVE Placed(o, o.node)'
    <3>1. attached'[o.prefix][o.node] = o.config.links[o.node]
      BY <1>2, <1>7, <2>3 DEF Connect, TypeOK
    <3>2. Started(o.prefix, o.node) /\ containers' = containers
      BY <1>7 DEF Connect, Goto, Fail
    <3>3. QED
      BY <2>1, <3>1, <3>2 DEF Placed, Started
  <2>4. ASSUME NEW k \in o.config.nodes \ o.nodes PROVE Placed(o, k)'
    <3>1. k # o.node => Placed(o, k)
      BY <1>1, <2>1 DEF Built, Pending, StartStages
    <3>2. QED
      BY <1>2, <2>1, <2>2, <2>3, <3>1 DEF Placed, Started
  <2>5. QED
    BY <1>1, <2>1, <2>4 DEF Own, OwnCopy, Cleared, Built, Pending
<1>8. CASE Fail(a)
  BY <1>1, <1>8, FailedOwn
<1>9. QED
  BY <1>3, <1>4, <1>5, <1>6, <1>7, <1>8

LEMMA WaitProgress ==
  ASSUME TypeOK, Loaded, Progress, NEW a \in Actors,
         \/ NodesStarted(a) \/ CheckRouting(a) \/ WaitOver(a) \/ ApplyOptions(a)
         \/ StartReturns(a) \/ Abort(a)
  PROVE  Own(a)'
<1> DEFINE o == op[a]
<1>1. /\ o \in Op /\ OwnCopy(a) /\ Built(a)
      /\ ~Resting(a) /\ o.stage # "new"
  BY Working DEF TypeOK, Progress, Proceed, Loaded, Ends
<1>2. CASE Abort(a)
  BY <1>1, <1>2, FailedOwn DEF Abort
<1>3. CASE ~Abort(a)
  <2>1. /\ o'.stage \in {"wait", "options", "return", "ok"} /\ o'.prefix = o.prefix
        /\ o'.config = o.config /\ o'.nodes = {}
        /\ o.nodes = {} /\ o.stage \in {"create", "wait", "options", "return"}
    <3>1. CASE NodesStarted(a) \/ WaitOver(a) \/ ApplyOptions(a)
      <4>1. o.nodes = {} /\ o.stage \in {"create", "wait", "options"}
        BY <1>1, <3>1 DEF NodesStarted, WaitOver, ApplyOptions, Built
      <4>2. PICK stage \in {"wait", "options", "return"} : op' = [op EXCEPT ![a].stage = stage]
        BY <3>1 DEF NodesStarted, WaitOver, ApplyOptions, Goto
      <4>3. QED
        BY <1>1, <4>1, <4>2 DEF TypeOK, Op
    <3>2. CASE CheckRouting(a)
      <4>1. /\ \/ op' = [op EXCEPT ![a].stage = "options"]
               \/ op' = [op EXCEPT ![a].waited = NextPoll(a)]
            /\ o.stage = "wait"
        BY <3>2 DEF CheckRouting, TestRouting
      <4>2. CASE op' = [op EXCEPT ![a].stage = "options"]
        BY <1>1, <4>1, <4>2 DEF Built, TypeOK, Op
      <4>3. CASE op' = [op EXCEPT ![a].waited = NextPoll(a)]
        BY <1>1, <4>1, <4>3 DEF Built, TypeOK, Op
      <4>4. QED
        BY <4>1, <4>2, <4>3
    <3>3. CASE StartReturns(a)
      BY <1>1, <3>3 DEF StartReturns, Idle, Built, TypeOK, Op
    <3>4. QED
      BY <1>3, <3>1, <3>2, <3>3
  <2>2. UNCHANGED docker
    BY <1>3 DEF NodesStarted, CheckRouting, WaitOver, ApplyOptions, StartReturns
  <2>3. Pending(o) = {} /\ Pending(o)' = {}
    BY <2>1 DEF Pending
  <2>4. Built(a)'
    BY <1>1, <2>1, <2>2, <2>3 DEF Built, Placed, Started, StartStages, docker
  <2>5. QED
    BY <1>1, <2>1, <2>4 DEF Own, OwnCopy, Cleared
<1>4. QED
  BY <1>2, <1>3

LEMMA ProgressKept ==
  ASSUME TypeOK, Loaded, Apart, Progress, [Next]_vars
  PROVE  Progress'
<1>1. ASSUME NEW c \in Configs \cup {NoConfig}, Render(c) PROVE Progress'
  BY <1>1 DEF Render, Progress, OwnCopy, Cleared, Built, Placed, Started, docker
<1>2. ASSUME NEW a \in Actors, Proceed(a) \/ Abort(a) PROVE Progress'
  <2>1. Own(a)'
    BY <1>2, StopProgress, StartProgress, WaitProgress DEF Proceed
  <2>2. \A b \in Actors \ {a} : Own(b)'
    BY <1>2, OthersProgress
  <2>3. QED
    BY <2>1, <2>2 DEF Progress, Own
<1>3. ASSUME NEW p \in Prefixes, NEW n \in Nodes, RunCommand(p, n) PROVE Progress'
  <2>1. /\ UNCHANGED <<attached, networks, op>>
        /\ containers' = [containers EXCEPT ![p][n] = "working"]
        /\ containers[p][n] = "waiting"
    BY <1>3 DEF RunCommand
  <2>2. \A q \in Prefixes, k \in Nodes :
          /\ Started(q, k) => Started(q, k)'
          /\ containers[q][k] = "none" => containers'[q][k] = "none"
    BY <2>1 DEF Started, TypeOK
  <2>3. ASSUME NEW a \in Actors PROVE Own(a)'
    <3>1. /\ op'[a] = op[a] /\ op[a].prefix \in Prefixes
          /\ op[a].config # NoConfig => op[a].config.nodes \subseteq Nodes
          /\ op[a].stage \in StopStages => op[a].config # NoConfig
      BY <2>1, ConfigTyped DEF TypeOK, Op, Loaded, Ends, StopStages
    <3>2. Cleared(a)'
      BY <2>1, <2>2, <3>1 DEF Progress, Cleared, StopStages
    <3>3. Built(a)'
      BY <2>1, <2>2, <3>1 DEF Progress, Built, Placed, Pending
    <3>4. QED
      BY <2>1, <3>2, <3>3 DEF Progress, Own, OwnCopy
  <2>4. QED
    BY <2>3 DEF Progress, Own
<1>4. CASE \/ WebRestart
           \/ WebStop
           \/ \E p \in CliPrefixes, request \in {"start", "stop", "restart"} : Cli(request, p)
  <2>1. PICK a \in Actors, request \in {"start", "stop", "restart"}, p \in Prefixes :
          /\ BeginStart(a, request, p) \/ BeginStop(a, request, p)
          /\ IF a = "web" THEN p = WebPrefix ELSE p \in CliPrefixes
          /\ UNCHANGED docker
    BY <1>4 DEF WebRestart, WebStop, Cli, Prefixes
  <2>2. PICK stage \in {"containers", "nets"} : Begin(a, request, p, stage)
    BY <2>1 DEF BeginStart, BeginStop
  <2>3. Own(a)'
    BY <2>1, <2>2, BeganOwn
  <2>4. ASSUME NEW b \in Actors \ {a} PROVE Own(b)'
    BY <2>1, <2>2, <2>4 DEF Begin, TypeOK, docker, Progress, Own, OwnCopy, Cleared, Built, Placed,
                            Pending, Started
  <2>5. QED
    BY <2>3, <2>4 DEF Progress, Own
<1>5. CASE UNCHANGED vars
  BY <1>5 DEF vars, docker, Progress, OwnCopy, Cleared, Built, Placed, Started, Pending
<1>6. QED
  BY <1>1, <1>2, <1>3, <1>4, <1>5 DEF Next

\* What every request has done so far, at every step of every behaviour.
LEMMA ProgressHolds == ASSUME Apart PROVE Spec => [](TypeOK /\ Loaded /\ Progress)
<1>1. Init => Progress
  BY DEF Init, Progress, OwnCopy, Cleared, Built, Idle, StartStages
<1>2. TypeOK /\ Loaded /\ Progress /\ [Next]_vars => Progress'
  BY ProgressKept
<1>3. QED
  BY <1>1, <1>2, Typed, PTL DEF Spec

\* Whatever is rendered while requests run and wherever they fail: a start that
\* reports success has every node of the lab.json it loaded up and attached to
\* its networks (docker raises on a container that is in the way).
THEOREM NodesUp == ASSUME Apart PROVE Spec => []StartedNodesUp
<1>1. TypeOK /\ Loaded /\ Progress => StartedNodesUp
  <2>1. SUFFICES ASSUME TypeOK, Loaded, Progress, NEW a \in Actors, op[a].stage = "ok",
                        op[a].config # NoConfig, NEW n \in op[a].config.nodes
                 PROVE  Started(op[a].prefix, n)
                        /\ attached[op[a].prefix][n] = op[a].config.links[n]
    BY DEF StartedNodesUp
  <2>2. op[a].nodes = {}
    BY <2>1 DEF Progress, Built
  <2>3. QED
    BY <2>1, <2>2 DEF Progress, Built, Pending, Placed
<1>2. QED
  BY <1>1, ProgressHolds, PTL

\* A stop that reports success has left no container and no network of the
\* lab.json it loaded, for each actor and copy, whatever was there before.
THEOREM StopClears == ASSUME Apart PROVE Spec => StopClearsLoaded
<1>1. TypeOK /\ Loaded /\ Progress =>
        \A a \in Actors : StopReturns(a) =>
          LET p == op[a].prefix  c == op[a].config
          IN  /\ \A n \in c.nodes : containers[p][n] = "none"
              /\ \A m \in c.nets : networks[p][m] = 0
  BY DEF Progress, Cleared, StopReturns
<1>2. QED
  BY <1>1, ProgressHolds, PTL DEF StopClearsLoaded

-----------------------------------------------------------------------------
\* The copy of the web interface, while lab.json changes only between runs.

\* The web interface at work has everything accounted for.
Web == TypeOK /\ Loaded /\ Accounted /\ Progress /\ Exact

\* Where nothing is left, a start finds nothing.
LEMMA BeganExact ==
  ASSUME TypeOK, Loaded, "web" \in Actors, Exact, NEW request, NEW stage \in {"containers", "nets"},
         Begin("web", request, WebPrefix, stage),
         row', UNCHANGED <<lab, docker>>,
         stage = "nets" => /\ ~socket' \/ lab = NoConfig
                           /\ \A n \in Nodes : ~Exists(n)
                           /\ \A m \in Nets : ~Occupied(m)
  PROVE  Exact'
<1>1. CASE lab = NoConfig
  BY <1>1 DEF Begin, Idle, TypeOK, Exact, StartStages
<1>2. CASE lab # NoConfig
  <2>1. /\ op'["web"].stage = stage /\ op'["web"].config = lab
        /\ op'["web"].nodes = lab.nodes /\ op'["web"].nets = lab.nets
    BY <1>2 DEF Begin, TypeOK
  <2>2. CASE stage = "containers"
    BY <2>1, <2>2 DEF Exact, StartStages
  <2>3. CASE stage = "nets"
    <3>1. lab.nodes \subseteq Nodes
      BY <1>2, ConfigTyped DEF TypeOK
    <3>2. /\ \A n \in Nodes : containers'[WebPrefix][n] = "none"
          /\ \A m \in Nets : networks'[WebPrefix][m] = 0
      BY <2>3 DEF Exists, Occupied, docker
    <3>3. /\ ~socket'
          /\ \A n \in Nodes \ Routers : containers'[WebPrefix][n] # "working"
          /\ \A n \in op'["web"].nodes : ~Exists(n)'
      BY <1>2, <2>1, <2>3, <3>1, <3>2 DEF Exists
    <3>4. \A m \in Nets : networks'[WebPrefix][m] =
            IF m \in op'["web"].config.nets \ op'["web"].nets THEN 1 ELSE 0
      BY <2>1, <3>2
    <3>5. QED
      BY <2>1, <2>3, <3>3, <3>4 DEF Exact, StartStages
  <2>4. QED
    BY <2>2, <2>3
<1>3. QED
  BY <1>1, <1>2

\* A request of the web interface that has loaded a lab.json works on its copy.
LEMMA WebWorking ==
  ASSUME Web, Kept, "web" \in Actors, Proceed("web") \/ Abort("web")
  PROVE  LET o == op["web"] IN
         /\ o \in Op /\ ~Resting("web") /\ o.prefix = WebPrefix /\ row
         /\ o.config = lab /\ lab \in Configs /\ lab # NoConfig
         /\ lab.nodes \subseteq Nodes /\ lab.nets \subseteq Nets
         /\ o.nodes \subseteq lab.nodes /\ o.nets \subseteq lab.nets
<1>1. ~Resting("web")
  BY Working DEF Web
<1>2. Current("web") /\ op["web"].config \in Configs
  BY <1>1 DEF Web, Accounted, Loaded
<1>3. QED
  BY <1>1, <1>2, ConfigTyped DEF Web, TypeOK, Current, Owned

LEMMA StopExact ==
  ASSUME Web, Kept, "web" \in Actors,
         \/ \E n \in Nodes : RemoveContainer("web", n)
         \/ ContainersRemoved("web")
         \/ \E m \in Nets : RemoveNetworks("web", m)
         \/ StopReturns("web")
         \/ StartAfterStop("web")
  PROVE  Exact'
<1> DEFINE o == op["web"]
<1>1. o \in Op /\ o.prefix = WebPrefix /\ row
  BY WebWorking DEF Proceed
<1>2. CASE \/ \E n \in Nodes : RemoveContainer("web", n)
           \/ ContainersRemoved("web")
           \/ \E m \in Nets : RemoveNetworks("web", m)
  <2>1. o'.stage \in {"containers", "networks", "failed"}
    <3>1. CASE Fail("web")
      BY <3>1 DEF Fail, Idle, Web, TypeOK
    <3>2. CASE ContainersRemoved("web")
      BY <1>1, <3>2 DEF ContainersRemoved, Goto, Web, TypeOK, Op
    <3>3. CASE \E n \in Nodes : RemoveContainer("web", n)
      <4>1. PICK n \in Nodes : op' = [op EXCEPT !["web"].nodes = @ \ {n}]
        BY <3>3 DEF RemoveContainer
      <4>2. QED
        BY <1>1, <3>3, <4>1 DEF RemoveContainer, Web, TypeOK, Op
    <3>4. CASE (\E m \in Nets : RemoveNetworks("web", m)) /\ ~Fail("web")
      <4>1. PICK m \in Nets : op' = [op EXCEPT !["web"].nets = @ \ {m}]
        BY <3>4 DEF RemoveNetworks
      <4>2. QED
        BY <1>1, <3>4, <4>1 DEF RemoveNetworks, Web, TypeOK, Op
    <3>5. QED
      BY <1>2, <3>1, <3>2, <3>3, <3>4
  <2>2. QED
    BY <2>1 DEF Exact, StartStages
<1>3. CASE StopReturns("web")
  BY <1>3 DEF StopReturns, Idle, Web, TypeOK, Exact, StartStages
<1>4. CASE StartAfterStop("web")
  <2>1. /\ Begin("web", "restart", WebPrefix, "nets") /\ socket' = (socket /\ lab = NoConfig)
        /\ UNCHANGED <<lab, row, docker>> /\ o.stage = "networks" /\ o.nets = {}
    BY <1>1, <1>4 DEF StartAfterStop, BeginStart
  <2>2. /\ \A n \in Nodes : ~Exists(n)
        /\ \A m \in Nets : ~Occupied(m)
    BY <2>1 DEF Web, Accounted, Passed, StopStages
  <2>3. QED
    BY <1>1, <2>1, <2>2, BeganExact DEF Web
<1>5. QED
  BY <1>2, <1>3, <1>4

LEMMA StartExact ==
  ASSUME Web, Kept, "web" \in Actors,
         \/ \E m \in Nets : CreateNetwork("web", m)
         \/ NetworksCreated("web")
         \/ \E n \in Nodes : CreateContainer("web", n)
         \/ StartContainer("web")
         \/ Connect("web")
  PROVE  Exact'
<1> DEFINE o == op["web"]
<1>1. /\ o \in Op /\ o.prefix = WebPrefix /\ row /\ o.config = lab /\ lab # NoConfig
      /\ lab.nodes \subseteq Nodes /\ o.nodes \subseteq lab.nodes /\ o.nets \subseteq lab.nets
      /\ WebPrefix \in Prefixes
  BY WebWorking DEF Proceed, Prefixes
<1>2. UNCHANGED <<lab, row, socket>>
  BY DEF CreateNetwork, NetworksCreated, CreateContainer, StartContainer, Connect
<1>3. o.stage \in StartStages /\ TypeOK
  BY DEF CreateNetwork, NetworksCreated, CreateContainer, StartContainer, Connect, StartStages, Web
<1>4. /\ ~socket
      /\ \A n \in Nodes \ Routers : containers[WebPrefix][n] # "working"
      /\ \A n \in o.nodes : ~Exists(n)
  BY <1>3 DEF Web, Exact
<1>5. CASE Fail("web")
  BY <1>5 DEF Fail, Idle, Web, TypeOK, Exact, StartStages
<1>6. ASSUME NEW m \in Nets, CreateNetwork("web", m) PROVE Exact'
  <2>1. /\ o.stage = "nets" /\ o'.stage = "nets" /\ o'.config = o.config /\ m \in o.nets
        /\ o'.nodes = o.nodes /\ o'.nets = o.nets \ {m} /\ containers' = containers
    BY <1>1, <1>3, <1>6 DEF CreateNetwork, TypeOK, Op
  <2>2. networks'[WebPrefix] = [networks[WebPrefix] EXCEPT ![m] = @ + 1]
    BY <1>1, <1>3, <1>6 DEF CreateNetwork, TypeOK
  <2>3. \A k \in Nets : networks[WebPrefix][k] = IF k \in o.config.nets \ o.nets THEN 1 ELSE 0
    BY <2>1 DEF Web, Exact
  <2>4. \A k \in Nets :
          networks'[WebPrefix][k] = IF k \in o'.config.nets \ o'.nets THEN 1 ELSE 0
    <3>1. networks[WebPrefix] \in [Nets -> 0..MaxNetworks]
      BY <1>1, <1>3 DEF TypeOK
    <3>2. m \in o.config.nets /\ m \in o.nets
      BY <1>1, <2>1
    <3>3. QED
      BY <2>1, <2>2, <2>3, <3>1, <3>2
  <2>5. \A n \in o'.nodes : ~Exists(n)'
    BY <1>4, <2>1 DEF Exists
  <2>6. QED
    BY <1>2, <1>4, <2>1, <2>4, <2>5 DEF Exact, StartStages
<1>7. CASE NetworksCreated("web")
  <2>1. /\ o.stage = "nets" /\ o'.stage = "create" /\ o'.config = o.config
        /\ o.nets = {} /\ o'.nodes = o.nodes /\ UNCHANGED docker
    BY <1>1, <1>3, <1>7 DEF NetworksCreated, Goto, TypeOK, Op
  <2>2. \A m \in Nets : networks'[WebPrefix][m] = IF m \in o'.config.nets THEN 1 ELSE 0
    BY <2>1 DEF Web, Exact, docker
  <2>3. QED
    BY <1>2, <1>4, <2>1, <2>2 DEF Exact, StartStages, docker, Exists
<1>8. ASSUME o.stage \in StartStages \ {"nets"}, o'.stage \in StartStages \ {"nets"},
             o'.config = o.config, networks' = networks,
             \A n \in Nodes \ Routers : containers'[WebPrefix][n] # "working",
             \A n \in o'.nodes : ~Exists(n)',
             o'.stage \in {"start", "connect"} => o'.node \in lab.nodes
      PROVE  Exact'
  <2>1. \A m \in Nets : networks'[WebPrefix][m] = IF m \in o'.config.nets THEN 1 ELSE 0
    BY <1>1, <1>8 DEF Web, Exact
  <2>2. QED
    BY <1>2, <1>4, <1>8, <2>1 DEF Exact, StartStages
<1>9. ASSUME NEW n \in Nodes, CreateContainer("web", n), ~Fail("web") PROVE Exact'
  <2>1. /\ op' = [op EXCEPT !["web"].nodes = @ \ {n}, !["web"].node = n,
                            !["web"].stage = "start"]
        /\ o.stage = "create" /\ n \in o.nodes /\ networks' = networks
        /\ containers' = [containers EXCEPT ![WebPrefix][n] = "created"]
    BY <1>1, <1>9 DEF CreateContainer
  <2>2. /\ o'.stage = "start" /\ o'.config = o.config
        /\ o'.nodes = o.nodes \ {n} /\ o'.node = n
    BY <1>1, <1>3, <2>1 DEF TypeOK, Op
  <2>3. \A k \in Nodes : containers'[WebPrefix][k] =
          IF k = n THEN "created" ELSE containers[WebPrefix][k]
    BY <1>1, <1>3, <2>1 DEF TypeOK
  <2>4. /\ \A k \in Nodes \ Routers : containers'[WebPrefix][k] # "working"
        /\ \A k \in o'.nodes : ~Exists(k)'
    BY <1>1, <1>4, <2>2, <2>3 DEF Exists
  <2>5. QED
    BY <1>1, <1>8, <2>1, <2>2, <2>4 DEF StartStages
<1>10. CASE StartContainer("web") /\ ~Fail("web")
  <2>1. /\ o.stage = "start" /\ o'.stage = "connect" /\ o'.config = o.config
        /\ o'.nodes = o.nodes /\ o'.node = o.node /\ networks' = networks
    BY <1>1, <1>3, <1>10 DEF StartContainer, Goto, TypeOK, Op
  <2>2. o.node \in lab.nodes
    BY <2>1 DEF Web, Exact
  <2>3. /\ containers[WebPrefix][o.node] = "created"
        /\ \A k \in Nodes : containers'[WebPrefix][k] =
             IF k = o.node THEN FirstState(k) ELSE containers[WebPrefix][k]
    BY <1>1, <1>3, <1>10 DEF StartContainer, TypeOK
  <2>4. /\ \A k \in Nodes \ Routers : containers'[WebPrefix][k] # "working"
        /\ \A k \in o'.nodes : ~Exists(k)'
    BY <1>1, <1>4, <2>1, <2>3 DEF Exists, FirstState
  <2>5. QED
    BY <1>8, <2>1, <2>2, <2>4 DEF StartStages
<1>11. CASE Connect("web") /\ ~Fail("web")
  <2>1. /\ o.stage = "connect" /\ o'.stage = "create" /\ o'.config = o.config
        /\ o'.nodes = o.nodes /\ UNCHANGED <<containers, networks>>
    BY <1>1, <1>3, <1>11 DEF Connect, Goto, TypeOK, Op
  <2>2. QED
    BY <1>4, <1>8, <2>1 DEF StartStages, Exists
<1>12. QED
  BY <1>5, <1>6, <1>7, <1>9, <1>10, <1>11

LEMMA WaitExact ==
  ASSUME Web, Kept, "web" \in Actors,
         \/ NodesStarted("web") \/ CheckRouting("web") \/ WaitOver("web")
         \/ ApplyOptions("web") \/ StartReturns("web") \/ Abort("web")
  PROVE  Exact'
<1> DEFINE o == op["web"]
<1>1. o \in Op /\ row /\ o.config = lab /\ lab # NoConfig /\ TypeOK /\ Exact
  BY WebWorking DEF Proceed, Web
<1>2. CASE Abort("web")
  BY <1>1, <1>2 DEF Abort, Fail, Idle, TypeOK, Exact, StartStages
<1>3. CASE StartReturns("web")
  <2>1. /\ o.stage = "return" /\ o'.stage = "ok" /\ o'.config = o.config
        /\ UNCHANGED <<lab, row, docker>>
    BY <1>1, <1>3 DEF StartReturns, Idle, TypeOK
  <2>2. QED
    BY <1>1, <2>1 DEF Exact, StartStages, docker
<1>4. CASE \/ NodesStarted("web") \/ CheckRouting("web") \/ WaitOver("web")
           \/ ApplyOptions("web")
  <2>1. UNCHANGED <<lab, row, socket, docker>>
        /\ o.stage \in {"create", "wait", "options"}
    BY <1>4 DEF NodesStarted, CheckRouting, WaitOver, ApplyOptions
  <2>2. /\ o'.stage \in {"wait", "options", "return"} /\ o'.config = o.config
        /\ o'.nodes = o.nodes
    <3>1. CASE NodesStarted("web") \/ WaitOver("web") \/ ApplyOptions("web")
      <4>1. PICK stage \in {"wait", "options", "return"} :
              op' = [op EXCEPT !["web"].stage = stage]
        BY <3>1 DEF NodesStarted, WaitOver, ApplyOptions, Goto
      <4>2. QED
        BY <1>1, <4>1 DEF TypeOK, Op
    <3>2. CASE CheckRouting("web")
      <4>1. /\ \/ op' = [op EXCEPT !["web"].stage = "options"]
               \/ op' = [op EXCEPT !["web"].waited = NextPoll("web")]
            /\ o.stage = "wait"
        BY <3>2 DEF CheckRouting, TestRouting
      <4>2. CASE op' = [op EXCEPT !["web"].stage = "options"]
        BY <1>1, <4>1, <4>2 DEF TypeOK, Op
      <4>3. CASE op' = [op EXCEPT !["web"].waited = NextPoll("web")]
        BY <1>1, <4>1, <4>3 DEF TypeOK, Op
      <4>4. QED
        BY <4>1, <4>2, <4>3
    <3>3. QED
      BY <1>4, <3>1, <3>2
  <2>3. QED
    BY <1>1, <2>1, <2>2 DEF Exact, StartStages, docker, Exists
<1>5. QED
  BY <1>2, <1>3, <1>4

\* Copies of the command line never touch the web interface's, and only ever
\* remove the socket.
LEMMA CopyExact ==
  ASSUME Web, Kept, NEW a \in Actors \ {"web"}, Proceed(a) \/ Abort(a), "web" \in Actors
  PROVE  Exact'
<1>1. /\ containers'[WebPrefix] = containers[WebPrefix]
      /\ networks'[WebPrefix] = networks[WebPrefix]
  BY CopyUntouched DEF Web, Accounted
<1>2. lab' = lab /\ row' = row /\ op'["web"] = op["web"]
  BY OthersWait DEF Web
<1>3. socket' => socket
  BY DEF Proceed, Abort, RemoveContainer, CreateContainer, RemoveNetworks, CreateNetwork,
         ContainersRemoved, StopReturns, StartAfterStop, BeginStart, NetworksCreated,
         StartContainer, Connect, NodesStarted, CheckRouting, WaitOver, ApplyOptions,
         StartReturns, SocketOnReturn
<1>4. QED
  BY <1>1, <1>2, <1>3 DEF Web, Exact, Exists

LEMMA RequestExact ==
  ASSUME Web, Kept, "web" \in Actors,
         \/ WebRestart
         \/ WebStop
         \/ \E p \in CliPrefixes, request \in {"start", "stop", "restart"} : Cli(request, p)
  PROVE  Exact'
<1>1. TypeOK /\ Loaded /\ Exact
  BY DEF Web
<1>2. CASE WebRestart /\ ~row
  <2>1. /\ Begin("web", "start", WebPrefix, "nets") /\ socket' = (socket /\ lab = NoConfig)
        /\ row' /\ UNCHANGED <<lab, docker>>
    BY <1>2 DEF WebRestart, BeginStart
  <2>2. /\ \A n \in Nodes : ~Exists(n)
        /\ \A m \in Nets : ~Occupied(m)
    BY <1>2 DEF Web, Accounted, NothingLeftWithoutRow, Exists, Occupied
  <2>3. QED
    BY <1>1, <2>1, <2>2, BeganExact
<1>3. CASE (WebRestart /\ row) \/ WebStop
  <2>1. PICK request \in {"restart", "stop"} : Begin("web", request, WebPrefix, "containers")
    BY <1>3 DEF WebRestart, WebStop, BeginStop
  <2>2. row' /\ UNCHANGED <<lab, docker>>
    BY <1>3 DEF WebRestart, WebStop
  <2>3. QED
    BY <1>1, <2>1, <2>2, BeganExact
<1>4. ASSUME NEW p \in CliPrefixes, NEW request \in {"start", "stop", "restart"}, Cli(request, p)
      PROVE  Exact'
  <2>1. /\ op'["web"] = op["web"] /\ (socket' => socket) /\ UNCHANGED <<lab, row, docker>>
    BY <1>1, <1>4 DEF Cli, BeginStart, BeginStop, Begin, TypeOK
  <2>2. QED
    BY <1>1, <2>1 DEF Exact, Exists, docker
<1>5. QED
  BY <1>2, <1>3, <1>4

LEMMA ExactKept ==
  ASSUME Web, Kept, "web" \in Actors, [Next]_vars
  PROVE  Exact'
<1>1. ASSUME NEW c \in Configs \cup {NoConfig}, Render(c) PROVE Exact'
  <2>1. ~row /\ Resting("web") /\ UNCHANGED <<row, socket, docker, op>>
    BY <1>1 DEF Render, Kept
  <2>2. op["web"].stage \in Ends
    BY <2>1 DEF Web, Loaded
  <2>3. QED
    BY <2>1, <2>2 DEF Web, Exact, Exists, docker, StartStages, Ends
<1>2. ASSUME NEW a \in Actors, Proceed(a) \/ Abort(a) PROVE Exact'
  <2>1. CASE a # "web"
    BY <1>2, <2>1, CopyExact
  <2>2. CASE a = "web"
    BY <1>2, <2>2, StopExact, StartExact, WaitExact DEF Proceed
  <2>3. QED
    BY <2>1, <2>2
<1>3. ASSUME NEW p \in Prefixes, NEW n \in Nodes, RunCommand(p, n) PROVE Exact'
  <2>1. CASE socket
    <3>1. op["web"].stage \notin StartStages
      BY <2>1 DEF Web, Exact
    <3>2. UNCHANGED <<lab, row, networks, op>>
      BY <1>3 DEF RunCommand
    <3>3. QED
      BY <3>1, <3>2 DEF Web, Exact, StartStages
  <2>2. QED
    BY <1>3, <2>1 DEF RunCommand
<1>4. CASE UNCHANGED vars
  BY <1>4 DEF vars, docker, Web, Exact, Exists
<1>5. QED
  BY <1>1, <1>2, <1>3, <1>4, RequestExact DEF Next

\* All that is known of the web interface holds at every step.
LEMMA WebHolds == ASSUME Kept, "web" \in Actors PROVE Spec => []Web
<1>1. Init => Exact
  BY DEF Init, Exact, Idle, StartStages
<1>2. TypeOK /\ Loaded /\ Accounted /\ Progress /\ Exact /\ [Next]_vars => Exact'
  BY ExactKept DEF Web
<1>3. Spec => []Accounted
  BY AccountedHolds
<1>4. Spec => [](TypeOK /\ Loaded /\ Progress)
  BY ProgressHolds DEF Kept, Apart
<1>5. Spec => []Exact
  BY <1>1, <1>2, <1>3, <1>4, PTL DEF Spec
<1>6. Web <=> TypeOK /\ Loaded /\ Accounted /\ Progress /\ Exact
  BY DEF Web
<1>7. QED
  BY <1>3, <1>4, <1>5, <1>6, PTL

\* While the web interface starts a lab none of its hosts runs its command,
\* whatever socket an earlier run left and whatever copies run beside it.
THEOREM Held == ASSUME Kept, "web" \in Actors PROVE Spec => []CommandsHeld
<1>1. Web => CommandsHeld
  BY DEF Web, Progress, OwnCopy, Exact, CommandsHeld
<1>2. QED
  BY <1>1, WebHolds, PTL

\* When the web interface reports a start as done, docker holds the lab.json it
\* loaded: its nodes, attached to their networks, one network of each name, and
\* nothing else under its prefix.
THEOREM AsConfigured == ASSUME Kept, "web" \in Actors PROVE Spec => []StartedAsConfigured
<1>1. Web => StartedAsConfigured
  <2>1. SUFFICES ASSUME Web, op["web"].stage = "ok", op["web"].config # NoConfig
                 PROVE  LET c == op["web"].config IN
                        /\ \A n \in Nodes :
                             /\ Started(WebPrefix, n) <=> n \in c.nodes
                             /\ containers[WebPrefix][n] # "created"
                             /\ n \in c.nodes => attached[WebPrefix][n] = c.links[n]
                        /\ \A m \in Nets : networks[WebPrefix][m] = IF m \in c.nets THEN 1 ELSE 0
    BY DEF StartedAsConfigured
  <2> DEFINE c == op["web"].config
  <2>2. op["web"].prefix = WebPrefix /\ c = lab /\ op["web"].nodes = {}
    BY <2>1 DEF Web, Progress, OwnCopy, Built, Exact
  <2>3. \A n \in c.nodes : Started(WebPrefix, n) /\ attached[WebPrefix][n] = c.links[n]
    BY <2>1, <2>2 DEF Web, Progress, Built, Pending, Placed
  <2>4. \A n \in Nodes : n \notin c.nodes => containers[WebPrefix][n] = "none"
    BY <2>1, <2>2 DEF Web, Accounted, Listed, Exists
  <2>5. \A m \in Nets : networks[WebPrefix][m] = IF m \in c.nets THEN 1 ELSE 0
    BY <2>1 DEF Web, Exact
  <2>6. QED
    BY <2>3, <2>4, <2>5 DEF Started
<1>2. QED
  BY <1>1, WebHolds, PTL

-----------------------------------------------------------------------------
\* Refinement: every step of a request is a step of LabStore, or none.

\* The phase of a request under way.
LEMMA Underway ==
  ASSUME Web, Kept, "web" \in Actors, Proceed("web") \/ Abort("web")
  PROVE  /\ Phase = IF op["web"].stage \in StopStages THEN "stopping" ELSE "starting"
         /\ op["web"].stage \notin StopStages => op["web"].stage \in StartStages
         /\ Defn = lab.nodes /\ lab.nodes # NoConfig /\ row
<1>1. row /\ ~Resting("web") /\ lab # NoConfig /\ lab.nodes \subseteq Nodes
  BY WebWorking
<1>2. op["web"].stage \in StopStages \cup StartStages
  BY <1>1 DEF Web, TypeOK, Loaded, Op
<1>3. QED
  BY <1>1, <1>2, NoConfigAssumption DEF Phase, Defn

\* A request that fails is broken, with everything else as it was.
LEMMA FailStep ==
  ASSUME Web, Kept, "web" \in Actors, Proceed("web") \/ Abort("web"), Fail("web"),
         UNCHANGED <<lab, row, containers>>
  PROVE  Store!Fail
<1>1. Phase' = "broken"
  <2>1. op'["web"].request = "none" /\ op'["web"].stage = "failed"
    BY DEF Fail, Idle, Web, TypeOK
  <2>2. row'
    BY Underway
  <2>3. QED
    BY <2>1, <2>2 DEF Phase, Resting
<1>2. UNCHANGED <<Defn, Up, Ran>>
  BY DEF Defn, Up, Ran, Started
<1>3. QED
  BY <1>1, <1>2, Underway DEF Store!Fail

\* A step that leaves the containers and the phase as they are.
LEMMA StutterStep ==
  ASSUME UNCHANGED <<lab, row>>, containers'[WebPrefix] = containers[WebPrefix],
         Phase' = Phase
  PROVE  UNCHANGED Store!vars
BY DEF Defn, Up, Ran, Started, Store!vars

LEMMA StopRefines ==
  ASSUME Web, Kept, "web" \in Actors,
         \/ \E n \in Nodes : RemoveContainer("web", n)
         \/ ContainersRemoved("web")
         \/ \E m \in Nets : RemoveNetworks("web", m)
         \/ StopReturns("web")
         \/ StartAfterStop("web")
  PROVE  [Store!Next]_Store!vars
<1> DEFINE o == op["web"]
<1>1. /\ o \in Op /\ ~Resting("web") /\ o.prefix = WebPrefix /\ row /\ lab # NoConfig
      /\ WebPrefix \in Prefixes /\ TypeOK
  BY WebWorking DEF Proceed, Prefixes, Web
<1>2. o.stage \in StopStages
  BY DEF RemoveContainer, ContainersRemoved, RemoveNetworks, StopReturns, StartAfterStop,
         StopStages
<1>3. Phase = "stopping" /\ Defn = lab.nodes /\ lab.nodes # NoConfig
  BY <1>2, Underway DEF Proceed
<1>4. CASE Fail("web") /\ \E m \in Nets : RemoveNetworks("web", m)
  BY <1>4, FailStep DEF Proceed, RemoveNetworks, Store!Next
<1>5. ASSUME NEW n \in Nodes, RemoveContainer("web", n) PROVE [Store!Next]_Store!vars
  <2>1. /\ UNCHANGED <<lab, row>> /\ o'.request = o.request /\ o'.stage = o.stage
        /\ containers'[WebPrefix] = [containers[WebPrefix] EXCEPT ![n] = "none"]
    BY <1>1, <1>5 DEF RemoveContainer, TypeOK, Op
  <2>2. Phase' = Phase /\ Defn' = Defn
    BY <2>1 DEF Phase, Resting, Defn
  <2>3. \A k \in Nodes : containers'[WebPrefix][k] =
          IF k = n THEN "none" ELSE containers[WebPrefix][k]
    BY <1>1, <2>1 DEF TypeOK
  <2>4. Up' = Up \ {n} /\ Ran' = Ran \ {n}
    BY <2>3 DEF Up, Ran, Started
  <2>5. CASE n \in Up
    <3>1. Store!Remove(n)
      BY <1>3, <2>2, <2>4, <2>5 DEF Store!Remove
    <3>2. QED
      BY <3>1 DEF Store!Next
  <2>6. CASE n \notin Up
    <3>1. Up' = Up /\ Ran' = Ran
      BY <2>4, <2>6 DEF Up, Ran, Started
    <3>2. QED
      BY <2>2, <3>1 DEF Store!vars
  <2>7. QED
    BY <2>5, <2>6
<1>6. CASE \/ ContainersRemoved("web")
           \/ ~Fail("web") /\ \E m \in Nets : RemoveNetworks("web", m)
  <2>1. o'.request = o.request /\ o'.stage \in StopStages /\ UNCHANGED <<lab, row, containers>>
    <3>1. CASE ContainersRemoved("web")
      BY <1>1, <3>1 DEF ContainersRemoved, Goto, docker, TypeOK, Op, StopStages
    <3>2. CASE ~Fail("web") /\ \E m \in Nets : RemoveNetworks("web", m)
      <4>1. PICK m \in Nets : op' = [op EXCEPT !["web"].nets = @ \ {m}]
        BY <3>2 DEF RemoveNetworks
      <4>2. UNCHANGED <<lab, row, containers>>
        BY <3>2 DEF RemoveNetworks
      <4>3. QED
        BY <1>1, <1>2, <4>1, <4>2 DEF TypeOK, Op
    <3>3. QED
      BY <1>6, <3>1, <3>2
  <2>2. Phase' = Phase
    BY <1>1, <1>3, <2>1 DEF Phase, Resting
  <2>3. QED
    BY <2>1, <2>2, StutterStep
<1>7. CASE StopReturns("web")
  <2>1. /\ UNCHANGED <<lab, docker>> /\ row' = FALSE /\ o.stage = "networks"
    BY <1>7 DEF StopReturns
  <2>2. Up = {}
    BY <2>1 DEF Web, Accounted, Passed, Exists, Up, Started
  <2>3. Phase' = "stopped" /\ UNCHANGED <<Defn, Up, Ran>>
    BY <2>1 DEF Phase, Defn, Up, Ran, Started, docker
  <2>4. Store!StopReturns
    BY <1>3, <2>2, <2>3 DEF Store!StopReturns, Store!Finish
  <2>5. QED
    BY <2>4 DEF Store!Next
<1>8. CASE StartAfterStop("web")
  <2>1. /\ UNCHANGED <<lab, row, docker>> /\ o.stage = "networks"
        /\ o'.request = "restart" /\ o'.stage = "nets"
    BY <1>1, <1>8 DEF StartAfterStop, BeginStart, Begin, TypeOK
  <2>2. Up = {}
    BY <2>1 DEF Web, Accounted, Passed, Exists, Up, Started
  <2>3. Phase' = "starting" /\ UNCHANGED <<Defn, Up, Ran>>
    BY <1>1, <2>1 DEF Phase, Resting, StopStages, Defn, Up, Ran, Started, docker
  <2>4. Store!BeginStart
    BY <1>3, <2>2, <2>3 DEF Store!BeginStart, Store!Begin
  <2>5. QED
    BY <2>4 DEF Store!Next
<1>9. QED
  BY <1>4, <1>5, <1>6, <1>7, <1>8

LEMMA StartRefines ==
  ASSUME Web, Kept, "web" \in Actors,
         \/ \E m \in Nets : CreateNetwork("web", m)
         \/ NetworksCreated("web")
         \/ \E n \in Nodes : CreateContainer("web", n)
         \/ StartContainer("web")
         \/ Connect("web")
         \/ NodesStarted("web")
         \/ CheckRouting("web") \/ WaitOver("web") \/ ApplyOptions("web")
  PROVE  [Store!Next]_Store!vars
<1> DEFINE o == op["web"]
<1>1. /\ o \in Op /\ ~Resting("web") /\ o.prefix = WebPrefix /\ row /\ lab # NoConfig
      /\ lab.nodes \subseteq Nodes /\ o.nodes \subseteq lab.nodes
      /\ WebPrefix \in Prefixes /\ TypeOK
  BY WebWorking DEF Proceed, Prefixes, Web
<1>2. o.stage \in StartStages \ StopStages
  BY DEF CreateNetwork, NetworksCreated, CreateContainer, StartContainer, Connect, NodesStarted,
         CheckRouting, WaitOver, ApplyOptions, StartStages, StopStages
<1>3. Phase = "starting" /\ Defn = lab.nodes /\ lab.nodes # NoConfig
  BY <1>2, Underway DEF Proceed
<1>4. UNCHANGED <<lab, row>>
  BY DEF CreateNetwork, NetworksCreated, CreateContainer, StartContainer, Connect, NodesStarted,
         CheckRouting, WaitOver, ApplyOptions
<1>5. CASE Fail("web")
  <2>1. containers' = containers
    <3>1. op'["web"].stage = "failed"
      BY <1>1, <1>5 DEF Fail, Idle, TypeOK
    <3>2. CASE StartContainer("web")
      BY <1>1, <3>1, <3>2 DEF StartContainer, Goto, TypeOK, Op
    <3>3. CASE \E n \in Nodes : CreateContainer("web", n)
      <4>1. PICK n \in Nodes : CreateContainer("web", n)
        BY <3>3
      <4>2. CASE op' = [op EXCEPT !["web"].nodes = @ \ {n}, !["web"].node = n,
                                  !["web"].stage = "start"]
        BY <1>1, <3>1, <4>2 DEF TypeOK, Op
      <4>3. QED
        BY <4>1, <4>2 DEF CreateContainer
    <3>4. QED
      BY <3>2, <3>3 DEF CreateNetwork, NetworksCreated, Connect, NodesStarted, CheckRouting,
                        WaitOver, ApplyOptions, docker
  <2>2. QED
    BY <1>4, <1>5, <2>1, FailStep DEF Proceed, Store!Next
<1>6. ASSUME o'.request = o.request, o'.stage \in StartStages \ StopStages
      PROVE  Phase' = Phase
  BY <1>1, <1>3, <1>4, <1>6 DEF Phase, Resting
<1>7. CASE StartContainer("web") /\ ~Fail("web")
  <2>1. /\ o.stage = "start" /\ o'.stage = "connect" /\ o'.request = o.request
    BY <1>1, <1>7 DEF StartContainer, Goto, TypeOK, Op
  <2>2. o.node \in lab.nodes
    BY <2>1 DEF Web, Exact
  <2>3. /\ containers[WebPrefix][o.node] = "created"
        /\ \A k \in Nodes : containers'[WebPrefix][k] =
             IF k = o.node THEN FirstState(k) ELSE containers[WebPrefix][k]
    BY <1>1, <1>7 DEF StartContainer, TypeOK
  <2>4. /\ Up' = Up \cup {o.node} /\ o.node \notin Up
        /\ Ran' = Ran
    BY <1>1, <2>2, <2>3 DEF Up, Ran, Started, FirstState
  <2>5. Phase' = Phase /\ Defn' = Defn
    BY <1>4, <1>6, <2>1 DEF Defn, StartStages, StopStages
  <2>6. Store!Create(o.node)
    BY <1>3, <2>2, <2>4, <2>5 DEF Store!Create
  <2>7. QED
    BY <1>1, <2>2, <2>6 DEF Store!Next
<1>8. ASSUME NEW n \in Nodes, CreateContainer("web", n), ~Fail("web")
      PROVE  [Store!Next]_Store!vars
  <2>1. /\ op' = [op EXCEPT !["web"].nodes = @ \ {n}, !["web"].node = n,
                            !["web"].stage = "start"]
        /\ containers[WebPrefix][n] = "none"
        /\ containers' = [containers EXCEPT ![WebPrefix][n] = "created"]
    BY <1>1, <1>8 DEF CreateContainer
  <2>2. o'.stage = "start" /\ o'.request = o.request
    BY <1>1, <2>1 DEF TypeOK, Op
  <2>3. \A k \in Nodes : containers'[WebPrefix][k] =
          IF k = n THEN "created" ELSE containers[WebPrefix][k]
    BY <1>1, <2>1 DEF TypeOK
  <2>4. Up' = Up /\ Ran' = Ran
    BY <2>1, <2>3 DEF Up, Ran, Started
  <2>5. QED
    BY <1>4, <1>6, <2>2, <2>4 DEF Store!vars, Defn, StartStages, StopStages
<1>9. ASSUME o'.request = o.request, o'.stage \in StartStages \ StopStages,
             containers' = containers
      PROVE  [Store!Next]_Store!vars
  BY <1>4, <1>6, <1>9, StutterStep
<1>10. CASE \/ NetworksCreated("web") \/ NodesStarted("web") \/ WaitOver("web")
            \/ ApplyOptions("web") \/ (Connect("web") /\ ~Fail("web"))
  <2>1. PICK stage \in {"create", "wait", "options", "return"} :
          op' = [op EXCEPT !["web"].stage = stage]
    BY <1>10 DEF NetworksCreated, NodesStarted, WaitOver, ApplyOptions, Connect, Goto
  <2>2. containers' = containers
    BY <1>10 DEF NetworksCreated, NodesStarted, WaitOver, ApplyOptions, Connect, docker
  <2>3. o'.request = o.request /\ o'.stage = stage
    BY <1>1, <2>1 DEF TypeOK, Op
  <2>4. QED
    BY <1>9, <2>2, <2>3 DEF StartStages, StopStages
<1>11. CASE CheckRouting("web")
  <2>1. containers' = containers
    BY <1>11 DEF CheckRouting, docker
  <2>2. \/ op' = [op EXCEPT !["web"].stage = "options"]
        \/ op' = [op EXCEPT !["web"].waited = NextPoll("web")]
    BY <1>11 DEF CheckRouting, TestRouting
  <2>3. CASE op' = [op EXCEPT !["web"].stage = "options"]
    <3>1. o'.request = o.request /\ o'.stage = "options"
      BY <1>1, <2>3 DEF TypeOK, Op
    <3>2. QED
      BY <1>9, <2>1, <3>1 DEF StartStages, StopStages
  <2>4. CASE op' = [op EXCEPT !["web"].waited = NextPoll("web")]
    <3>1. o'.request = o.request /\ o'.stage = o.stage
      BY <1>1, <2>4 DEF TypeOK, Op
    <3>2. QED
      BY <1>2, <1>9, <2>1, <3>1
  <2>5. QED
    BY <2>2, <2>3, <2>4
<1>12. CASE \E m \in Nets : CreateNetwork("web", m)
  <2>1. PICK m \in Nets : op' = [op EXCEPT !["web"].nets = @ \ {m}]
    BY <1>12 DEF CreateNetwork
  <2>2. containers' = containers
    BY <1>12 DEF CreateNetwork
  <2>3. o'.request = o.request /\ o'.stage = o.stage
    BY <1>1, <2>1 DEF TypeOK, Op
  <2>4. QED
    BY <1>2, <1>9, <2>2, <2>3
<1>13. QED
  BY <1>5, <1>7, <1>8, <1>10, <1>11, <1>12

LEMMA EndRefines ==
  ASSUME Web, Kept, "web" \in Actors, StartReturns("web") \/ Abort("web")
  PROVE  [Store!Next]_Store!vars
<1>1. CASE Abort("web")
  BY <1>1, FailStep DEF Abort, docker, Store!Next
<1>2. CASE StartReturns("web")
  <2> DEFINE o == op["web"]
  <2>1. o \in Op /\ o.prefix = WebPrefix /\ row /\ o.config = lab /\ lab # NoConfig /\ TypeOK
        /\ lab.nodes \subseteq Nodes
    BY <1>2, WebWorking DEF Proceed, Web
  <2>2. o.stage = "return" /\ UNCHANGED <<lab, row, docker>> /\ o'.request = "none"
        /\ o'.stage = "ok"
    BY <1>2, <2>1 DEF StartReturns, Idle, TypeOK
  <2>3. \A n \in lab.nodes : Started(WebPrefix, n)
    BY <2>1, <2>2 DEF Web, Progress, Built, Pending, Placed, StartStages
  <2>4. \A n \in Nodes : Started(WebPrefix, n) => n \in lab.nodes
    BY DEF Web, Accounted, Listed, Exists, Started
  <2>5. Phase = "starting" /\ Defn = lab.nodes
    BY <1>2, <2>2, Underway DEF Proceed, StopStages
  <2>6. Up = Defn
    BY <2>1, <2>3, <2>4, <2>5 DEF Up
  <2>7. Phase' = "running" /\ UNCHANGED <<Defn, Up, Ran>>
    BY <2>1, <2>2 DEF Phase, Resting, Defn, Up, Ran, Started, docker
  <2>8. Store!StartReturns
    BY <2>5, <2>6, <2>7 DEF Store!StartReturns, Store!Finish
  <2>9. QED
    BY <2>8 DEF Store!Next
<1>3. QED
  BY <1>1, <1>2

LEMMA RequestRefines ==
  ASSUME Web, Kept, "web" \in Actors,
         \/ WebRestart
         \/ WebStop
         \/ \E p \in CliPrefixes, request \in {"start", "stop", "restart"} : Cli(request, p)
  PROVE  [Store!Next]_Store!vars
<1>1. TypeOK /\ Loaded
  BY DEF Web
<1>2. ASSUME NEW p \in CliPrefixes, NEW request \in {"start", "stop", "restart"}, Cli(request, p)
      PROVE  [Store!Next]_Store!vars
  <2>1. op'["web"] = op["web"] /\ UNCHANGED <<lab, row, docker>>
    BY <1>1, <1>2 DEF Cli, BeginStart, BeginStop, Begin, TypeOK
  <2>2. Phase' = Phase
    BY <2>1 DEF Phase, Resting
  <2>3. QED
    BY <2>1, <2>2, StutterStep DEF docker
<1>3. ASSUME NEW request \in {"start", "restart", "stop"}, NEW stage \in {"containers", "nets"},
             Begin("web", request, WebPrefix, stage), Resting("web"), row',
             UNCHANGED <<lab, docker>>
      PROVE  /\ Defn = NoConfig <=> lab = NoConfig
             /\ Phase' = IF Defn = NoConfig THEN "broken"
                         ELSE IF stage = "containers" THEN "stopping" ELSE "starting"
             /\ UNCHANGED <<Defn, Up, Ran>>
  <2>1. lab # NoConfig => lab.nodes \subseteq Nodes /\ NoConfig \notin SUBSET Nodes
    BY <1>1, ConfigTyped, NoConfigAssumption DEF TypeOK
  <2>2. Defn = NoConfig <=> lab = NoConfig
    BY <2>1 DEF Defn
  <2>3. UNCHANGED <<Defn, Up, Ran>>
    BY <1>3 DEF Defn, Up, Ran, Started, docker
  <2>4. CASE lab = NoConfig
    <3>1. op'["web"].request = "none" /\ op'["web"].stage = "failed"
      BY <1>1, <1>3, <2>4 DEF Begin, Idle, TypeOK
    <3>2. QED
      BY <1>3, <2>2, <2>3, <2>4, <3>1 DEF Phase, Resting
  <2>5. CASE lab # NoConfig
    <3>1. op'["web"].request = request /\ op'["web"].stage = stage
      BY <1>1, <1>3, <2>5 DEF Begin, TypeOK
    <3>2. QED
      BY <1>3, <2>2, <2>3, <2>5, <3>1 DEF Phase, Resting, StopStages
  <2>6. QED
    BY <2>4, <2>5
<1>4. CASE WebRestart /\ ~row
  <2>1. Phase = "stopped" /\ Up = {}
    BY <1>4 DEF Phase, Up, Started, Web, Accounted, NothingLeftWithoutRow
  <2>2. Begin("web", "start", WebPrefix, "nets") /\ Resting("web") /\ row'
        /\ UNCHANGED <<lab, docker>>
    BY <1>4 DEF WebRestart, BeginStart
  <2>3. Store!BeginStart
    BY <1>3, <2>1, <2>2 DEF Store!BeginStart, Store!Begin
  <2>4. QED
    BY <2>3 DEF Store!Next
<1>5. CASE (WebRestart \/ WebStop) /\ row
  <2>1. Phase \in {"running", "broken"}
    BY <1>5 DEF WebRestart, WebStop, Phase
  <2>2. PICK request \in {"restart", "stop"} : Begin("web", request, WebPrefix, "containers")
    BY <1>5 DEF WebRestart, WebStop, BeginStop
  <2>3. Resting("web") /\ row' /\ UNCHANGED <<lab, docker>>
    BY <1>5 DEF WebRestart, WebStop
  <2>4. Store!BeginStop
    BY <1>3, <2>1, <2>2, <2>3 DEF Store!BeginStop, Store!Begin
  <2>5. QED
    BY <2>4 DEF Store!Next
<1>6. QED
  BY <1>2, <1>4, <1>5 DEF WebStop

LEMMA StepRefines ==
  ASSUME Web, Kept, "web" \in Actors, [Next]_vars
  PROVE  [Store!Next]_Store!vars
<1>1. ASSUME NEW c \in Configs \cup {NoConfig}, Render(c) PROVE [Store!Next]_Store!vars
  <2>1. ~row /\ UNCHANGED <<row, docker, op>> /\ lab' = c
    BY <1>1 DEF Render, Kept
  <2>2. Phase = "stopped" /\ Phase' = "stopped" /\ UNCHANGED <<Up, Ran>>
    BY <2>1 DEF Phase, Up, Ran, Started, docker
  <2>3. Defn' \in (SUBSET Nodes) \cup {NoConfig}
    BY <2>1, ConfigTyped DEF Defn
  <2>4. Store!Define(Defn')
    BY <2>2 DEF Store!Define
  <2>5. QED
    BY <2>3, <2>4 DEF Store!Next
<1>2. ASSUME NEW a \in Actors \ {"web"}, Proceed(a) \/ Abort(a)
      PROVE  [Store!Next]_Store!vars
  <2>1. containers'[WebPrefix] = containers[WebPrefix]
    BY <1>2, CopyUntouched DEF Web, Accounted
  <2>2. lab' = lab /\ row' = row /\ op'["web"] = op["web"]
    BY <1>2, OthersWait DEF Web
  <2>3. Phase' = Phase
    BY <2>2 DEF Phase, Resting
  <2>4. QED
    BY <2>1, <2>2, <2>3, StutterStep
<1>3. CASE Proceed("web") \/ Abort("web")
  BY <1>3, StopRefines, StartRefines, EndRefines DEF Proceed
<1>4. ASSUME NEW p \in Prefixes, NEW n \in Nodes, RunCommand(p, n)
      PROVE  [Store!Next]_Store!vars
  <2>1. /\ UNCHANGED <<lab, row, op>> /\ socket /\ containers[p][n] = "waiting"
        /\ containers' = [containers EXCEPT ![p][n] = "working"]
    BY <1>4 DEF RunCommand
  <2>2. Phase' = Phase /\ Defn' = Defn
    BY <2>1 DEF Phase, Resting, Defn
  <2>3. CASE p # WebPrefix
    BY <2>1, <2>2, <2>3, StutterStep DEF Web, TypeOK
  <2>4. CASE p = WebPrefix
    <3>1. \A k \in Nodes : containers'[WebPrefix][k] =
            IF k = n THEN "working" ELSE containers[WebPrefix][k]
      BY <2>1, <2>4 DEF Web, TypeOK
    <3>2. Up' = Up /\ n \in Up
      BY <2>1, <2>4, <3>1 DEF Up, Started
    <3>3. CASE n \in Routers
      <4>1. Ran' = Ran
        BY <3>1, <3>3 DEF Ran
      <4>2. QED
        BY <2>2, <3>2, <4>1 DEF Store!vars
    <3>4. CASE n \notin Routers
      <4>1. Ran' = Ran \cup {n}
        BY <3>1, <3>4 DEF Ran
      <4>2. op["web"].stage \notin StartStages
        BY <2>1 DEF Web, Exact
      <4>3. Phase # "starting"
        BY <4>2 DEF Phase, Web, Loaded, TypeOK, Op
      <4>4. Store!Run(n)
        BY <2>2, <3>2, <3>4, <4>1, <4>3 DEF Store!Run
      <4>5. QED
        BY <4>4 DEF Store!Next
    <3>5. QED
      BY <3>3, <3>4
  <2>5. QED
    BY <2>3, <2>4
<1>5. CASE UNCHANGED vars
  <2>1. Phase' = Phase
    BY <1>5 DEF vars, Phase, Resting
  <2>2. QED
    BY <1>5, <2>1, StutterStep DEF vars, docker
<1>6. QED
  BY <1>1, <1>2, <1>3, <1>4, <1>5, RequestRefines DEF Next

\* The web interface keeps the promises of LabStore for every lab, every content
\* of lab.json, any number of copies of the command line and any failures.
THEOREM Implements == ASSUME Kept, "web" \in Actors PROVE Spec => KeepsPromises
<1>1. Init => Store!Init
  <2>1. SUFFICES ASSUME Init PROVE Store!Init
    OBVIOUS
  <2>2. Phase = "stopped" /\ Up = {} /\ Ran = {}
    BY <2>1 DEF Init, Phase, Up, Ran, Started, Prefixes
  <2>3. Defn \in (SUBSET Nodes) \cup {NoConfig}
    BY <2>1, ConfigTyped DEF Init, Defn
  <2>4. QED
    BY <2>2, <2>3 DEF Store!Init
<1>2. Web /\ [Next]_vars => [Store!Next]_Store!vars
  BY StepRefines
<1>3. QED
  BY <1>1, <1>2, WebHolds, PTL DEF Spec, KeepsPromises, Store!Spec

\* What clients of the web interface may rely on: nothing runs of a lab reported
\* stopped, all of lab.json and nothing else of one reported started, and no host
\* has run its command before the start returned.
THEOREM Reliable == ASSUME Kept, "web" \in Actors PROVE Spec => []Store!Consistent
<1>1. Store!Init => Store!Consistent
  BY DEF Store!Init, Store!Consistent, Store!Phases
<1>2. Store!Consistent /\ [Store!Next]_Store!vars => Store!Consistent'
  <2>1. SUFFICES ASSUME Store!Consistent, [Store!Next]_Store!vars PROVE Store!Consistent'
    OBVIOUS
  <2>2. ASSUME NEW d \in (SUBSET Nodes) \cup {NoConfig}, Store!Define(d)
        PROVE  Store!Consistent'
    BY <2>1, <2>2 DEF Store!Define, Store!Consistent
  <2>3. CASE Store!BeginStart \/ Store!BeginStop
    BY <2>1, <2>3 DEF Store!BeginStart, Store!BeginStop, Store!Begin, Store!Consistent,
                      Store!Phases
  <2>4. ASSUME NEW n \in Nodes, Store!Create(n) \/ Store!Remove(n) \/ Store!Run(n)
        PROVE  Store!Consistent'
    BY <2>1, <2>4 DEF Store!Create, Store!Remove, Store!Run, Store!Consistent
  <2>5. CASE Store!StartReturns \/ Store!StopReturns \/ Store!Fail
    BY <2>1, <2>5 DEF Store!StartReturns, Store!StopReturns, Store!Finish, Store!Fail,
                      Store!Consistent, Store!Phases
  <2>6. CASE UNCHANGED Store!vars
    BY <2>1, <2>6 DEF Store!vars, Store!Consistent
  <2>7. QED
    BY <2>1, <2>2, <2>3, <2>4, <2>5, <2>6 DEF Store!Next
<1>3. Spec => Store!Spec
  BY Implements DEF KeepsPromises
<1>4. QED
  BY <1>1, <1>2, <1>3, PTL DEF Store!Spec
=============================================================================
