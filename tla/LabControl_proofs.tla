-------------------------- MODULE LabControl_proofs --------------------------
(***************************************************************************)
(* Proofs about LabControl: the types of its variables, and what docker    *)
(* and the Lab row may disagree about while lab.json changes only when the *)
(* lab is stopped.                                                         *)
(***************************************************************************)
EXTENDS LabControl, TLAPS

\* A request under way has loaded a lab.json.
Loaded ==
  \A a \in Actors : /\ Resting(a) <=> op[a].stage \in Ends
                    /\ ~Resting(a) => op[a].config \in Configs

OpTyped == op \in [Actors -> Op] /\ Loaded

Stages == StopStages \cup StartStages

\* A finished request is a request.
LEMMA IdleTyped ==
  ASSUME NEW end \in Ends, NEW p \in Prefixes, NEW c \in Configs \cup {NoConfig}
  PROVE  Idle(end, p, c) \in Op
BY TimesAssumption DEF Idle, Op

\* What lab.json holds is made of the names of the instance.
LEMMA ConfigTyped ==
  ASSUME NEW c \in Configs
  PROVE  /\ c.nodes \in SUBSET Nodes /\ c.nets \in SUBSET Nets
         /\ c.links \in [Nodes -> SUBSET Nets]
         /\ c # NoConfig
BY ConfigsAssumption DEF Config

LEMMA FailTyped ==
  ASSUME OpTyped, NEW a \in Actors, Fail(a)
  PROVE  OpTyped'
<1>1. Idle("failed", op[a].prefix, op[a].config) \in Op
  BY IdleTyped DEF OpTyped, Op, Ends
<1>2. op' \in [Actors -> Op]
  BY <1>1 DEF Fail, OpTyped
<1>3. Loaded'
  BY DEF Fail, OpTyped, Loaded, Resting, Idle, Ends
<1>4. QED
  BY <1>2, <1>3 DEF OpTyped

LEMMA GotoTyped ==
  ASSUME OpTyped, NEW a \in Actors, op[a].stage \in Stages, NEW stage \in Stages,
         Goto(a, stage)
  PROVE  OpTyped'
<1>1. op' \in [Actors -> Op]
  BY DEF Goto, OpTyped, Op, Stages
<1>2. Loaded'
  BY DEF Goto, OpTyped, Loaded, Resting, Ends, Stages, StopStages, StartStages, Op
<1>3. QED
  BY <1>1, <1>2 DEF OpTyped

LEMMA BeginTyped ==
  ASSUME TypeOK, OpTyped, NEW a \in Actors, NEW request \in {"start", "stop", "restart"},
         NEW p \in Prefixes, NEW stage \in Stages, Begin(a, request, p, stage)
  PROVE  OpTyped'
<1>1. CASE lab = NoConfig
  <2>1. Idle("failed", p, NoConfig) \in Op
    BY IdleTyped DEF Ends
  <2>2. op' \in [Actors -> Op]
    BY <1>1, <2>1 DEF Begin, OpTyped
  <2>3. Loaded'
    BY <1>1 DEF Begin, OpTyped, Loaded, Resting, Idle, Ends
  <2>4. QED
    BY <2>2, <2>3 DEF OpTyped
<1>2. CASE lab # NoConfig
  <2>1. lab \in Configs
    BY <1>2 DEF TypeOK
  <2>2. lab.nodes \in SUBSET Nodes /\ lab.nets \in SUBSET Nets
    BY <2>1, ConfigTyped
  <2>3. op' \in [Actors -> Op]
    BY <1>2, <2>1, <2>2, TimesAssumption DEF Begin, OpTyped, Op, Stages
  <2>4. Loaded'
    BY <1>2, <2>1 DEF Begin, OpTyped, Loaded, Resting, Ends, Stages, StopStages, StartStages
  <2>5. QED
    BY <2>3, <2>4 DEF OpTyped
<1>3. QED
  BY <1>1, <1>2

-----------------------------------------------------------------------------
\* What the actions of a request do to the types.

\* One container changes.
Updated(f, p, n, v) == [f EXCEPT ![p][n] = v]

LEMMA UpdateTyped ==
  ASSUME NEW S, NEW f \in [Prefixes -> [Nodes -> S]], NEW p \in Prefixes, NEW n, NEW v \in S
  PROVE  Updated(f, p, n, v) \in [Prefixes -> [Nodes -> S]]
BY DEF Updated

\* Every action of a request in progress, one step of it.
LEMMA StopTyped ==
  ASSUME TypeOK, Loaded, NEW a \in Actors,
         \/ \E n \in Nodes : RemoveContainer(a, n)
         \/ ContainersRemoved(a)
         \/ \E m \in Nets : RemoveNetworks(a, m)
         \/ StopReturns(a)
         \/ StartAfterStop(a)
  PROVE  TypeOK' /\ Loaded'
<1>1. OpTyped /\ op[a] \in Op
  BY DEF TypeOK, OpTyped
<1>2. op[a].prefix \in Prefixes
  BY <1>1 DEF Op
<1>3. ASSUME NEW n \in Nodes, RemoveContainer(a, n) PROVE TypeOK' /\ Loaded'
  <2>1. op' \in [Actors -> Op] /\ Loaded'
    BY <1>1, <1>3 DEF RemoveContainer, OpTyped, Op, Loaded, Resting
  <2>2. QED
    BY <1>2, <1>3, <2>1 DEF RemoveContainer, TypeOK, States
<1>4. CASE ContainersRemoved(a)
  <2>1. OpTyped'
    BY <1>1, <1>4, GotoTyped DEF ContainersRemoved, Stages, StopStages
  <2>2. QED
    BY <1>4, <2>1 DEF ContainersRemoved, TypeOK, OpTyped, docker
<1>5. ASSUME NEW m \in Nets, RemoveNetworks(a, m) PROVE TypeOK' /\ Loaded'
  <2>1. networks' \in [Prefixes -> [Nets -> 0..MaxNetworks]]
    <3>1. PICK gone \in SUBSET Nets :
            networks' = [networks EXCEPT ![op[a].prefix] =
                           [k \in Nets |-> IF k \in gone THEN 0 ELSE @[k]]]
      BY <1>5, MatchesAssumption DEF RemoveNetworks
    <3>2. networks[op[a].prefix] \in [Nets -> 0..MaxNetworks] /\ 0 \in 0..MaxNetworks
      BY <1>2, BoundAssumption DEF TypeOK
    <3>3. [k \in Nets |-> IF k \in gone THEN 0 ELSE networks[op[a].prefix][k]]
            \in [Nets -> 0..MaxNetworks]
      BY <3>2
    <3>4. QED
      BY <1>2, <3>1, <3>3 DEF TypeOK
  <2>2. OpTyped'
    <3>1. CASE Fail(a)
      BY <1>1, <3>1, FailTyped
    <3>2. CASE op' = [op EXCEPT ![a].nets = @ \ {m}]
      BY <1>1, <3>2 DEF OpTyped, Op, Loaded, Resting
    <3>3. QED
      BY <1>5, <3>1, <3>2 DEF RemoveNetworks
  <2>3. QED
    BY <1>5, <2>1, <2>2 DEF RemoveNetworks, TypeOK, OpTyped
<1>6. CASE StopReturns(a)
  <2>1. Idle("ok", op[a].prefix, NoConfig) \in Op
    BY <1>2, IdleTyped DEF Ends
  <2>2. op' \in [Actors -> Op] /\ Loaded'
    BY <1>1, <1>6, <2>1 DEF StopReturns, OpTyped, Loaded, Resting, Idle, Ends
  <2>3. QED
    BY <1>6, <2>2 DEF StopReturns, TypeOK, docker
<1>7. CASE StartAfterStop(a)
  <2>1. OpTyped'
    BY <1>1, <1>2, <1>7, BeginTyped DEF StartAfterStop, BeginStart, Stages, StartStages
  <2>2. socket' \in BOOLEAN
    BY <1>7 DEF StartAfterStop, BeginStart, TypeOK
  <2>3. QED
    BY <1>7, <2>1, <2>2 DEF StartAfterStop, TypeOK, OpTyped, docker
<1>8. QED
  BY <1>3, <1>4, <1>5, <1>6, <1>7

LEMMA StartTyped ==
  ASSUME TypeOK, Loaded, NEW a \in Actors,
         \/ \E m \in Nets : CreateNetwork(a, m)
         \/ NetworksCreated(a)
         \/ \E n \in Nodes : CreateContainer(a, n)
         \/ StartContainer(a)
         \/ Connect(a)
         \/ NodesStarted(a)
  PROVE  TypeOK' /\ Loaded'
<1>1. OpTyped /\ op[a] \in Op
  BY DEF TypeOK, OpTyped
<1>2. op[a].prefix \in Prefixes
  BY <1>1 DEF Op
<1>3. ASSUME NEW m \in Nets, CreateNetwork(a, m) PROVE TypeOK' /\ Loaded'
  <2>1. networks' \in [Prefixes -> [Nets -> 0..MaxNetworks]]
    BY <1>2, <1>3, BoundAssumption DEF CreateNetwork, TypeOK
  <2>2. op' \in [Actors -> Op] /\ Loaded'
    BY <1>1, <1>3 DEF CreateNetwork, OpTyped, Op, Loaded, Resting
  <2>3. QED
    BY <1>3, <2>1, <2>2 DEF CreateNetwork, TypeOK
<1>4. CASE NetworksCreated(a)
  <2>1. OpTyped'
    BY <1>1, <1>4, GotoTyped DEF NetworksCreated, Stages, StartStages
  <2>2. QED
    BY <1>4, <2>1 DEF NetworksCreated, TypeOK, OpTyped, docker
<1>5. ASSUME NEW n \in Nodes, CreateContainer(a, n) PROVE TypeOK' /\ Loaded'
  <2>1. op[a].config \in Configs
    BY <1>1, <1>5 DEF CreateContainer, OpTyped, Loaded, Ends
  <2>2. op[a].config.links[n] \in SUBSET Nets
    BY <2>1, ConfigTyped
  <2>3. CASE containers[op[a].prefix][n] = "none"
    <3>1. PICK first \in SUBSET Nets : attached' = Updated(attached, op[a].prefix, n, first)
      <4>1. PICK first \in IF op[a].config.links[n] = {} THEN {{}}
                           ELSE {{m} : m \in op[a].config.links[n]} :
              attached' = [attached EXCEPT ![op[a].prefix][n] = first]
        BY <1>5, <2>3 DEF CreateContainer
      <4>2. first \in SUBSET Nets
        BY <2>2
      <4>3. QED
        BY <4>1, <4>2 DEF Updated
    <3>2. attached' \in [Prefixes -> [Nodes -> SUBSET Nets]]
      BY <1>2, <3>1, UpdateTyped DEF TypeOK
    <3>3. containers' \in [Prefixes -> [Nodes -> States]]
      <4>1. containers' = Updated(containers, op[a].prefix, n, "created")
        BY <1>5, <2>3 DEF CreateContainer, Updated
      <4>2. QED
        BY <1>2, <4>1, UpdateTyped DEF TypeOK, States
    <3>4. op' \in [Actors -> Op] /\ Loaded'
      <4>1. /\ op[a].stage = "create"
            /\ op' = [op EXCEPT ![a].nodes = @ \ {n}, ![a].node = n, ![a].stage = "start"]
        BY <1>5, <2>3 DEF CreateContainer
      <4>2. QED
        BY <1>1, <4>1 DEF OpTyped, Op, Loaded, Resting, StartStages, Ends
    <3>5. QED
      BY <1>5, <3>2, <3>3, <3>4 DEF CreateContainer, TypeOK
  <2>4. CASE containers[op[a].prefix][n] # "none"
    <3>1. OpTyped'
      BY <1>1, <1>5, <2>4, FailTyped DEF CreateContainer
    <3>2. QED
      BY <1>5, <2>4, <3>1 DEF CreateContainer, TypeOK, OpTyped
  <2>5. QED
    BY <2>3, <2>4
<1>6. CASE StartContainer(a)
  <2>1. OpTyped'
    <3>1. CASE Fail(a)
      BY <1>1, <3>1, FailTyped
    <3>2. CASE Goto(a, "connect")
      BY <1>1, <1>6, <3>2, GotoTyped DEF StartContainer, Stages, StartStages
    <3>3. QED
      BY <1>6, <3>1, <3>2 DEF StartContainer
  <2>2. containers' \in [Prefixes -> [Nodes -> States]]
    <3>1. \/ containers' = containers
          \/ containers' = Updated(containers, op[a].prefix, op[a].node, FirstState(op[a].node))
      BY <1>6 DEF StartContainer, Updated
    <3>2. FirstState(op[a].node) \in States
      BY DEF FirstState, States
    <3>3. containers \in [Prefixes -> [Nodes -> States]]
      BY DEF TypeOK
    <3>4. Updated(containers, op[a].prefix, op[a].node, FirstState(op[a].node))
            \in [Prefixes -> [Nodes -> States]]
      BY <1>2, <3>2, <3>3, UpdateTyped
    <3>5. QED
      BY <3>1, <3>3, <3>4
  <2>3. QED
    BY <1>6, <2>1, <2>2 DEF StartContainer, TypeOK, OpTyped
<1>7. CASE Connect(a)
  <2>1. op[a].config \in Configs
    BY <1>1, <1>7 DEF Connect, OpTyped, Loaded, Ends
  <2>2. OpTyped'
    <3>1. CASE Fail(a)
      BY <1>1, <3>1, FailTyped
    <3>2. CASE Goto(a, "create")
      BY <1>1, <1>7, <3>2, GotoTyped DEF Connect, Stages, StartStages
    <3>3. QED
      BY <1>7, <3>1, <3>2 DEF Connect
  <2>3. attached' \in [Prefixes -> [Nodes -> SUBSET Nets]]
    <3>1. \/ attached' = attached
          \/ attached' = Updated(attached, op[a].prefix, op[a].node,
                                 op[a].config.links[op[a].node])
      BY <1>7 DEF Connect, Updated
    <3>2. attached \in [Prefixes -> [Nodes -> SUBSET Nets]]
      BY DEF TypeOK
    <3>3. CASE op[a].node \in Nodes
      <4>1. op[a].config.links[op[a].node] \in SUBSET Nets
        BY <2>1, <3>3, ConfigTyped
      <4>2. Updated(attached, op[a].prefix, op[a].node, op[a].config.links[op[a].node])
              \in [Prefixes -> [Nodes -> SUBSET Nets]]
        BY <1>2, <3>2, <4>1, UpdateTyped
      <4>3. QED
        BY <3>1, <3>2, <4>2
    <3>4. CASE op[a].node \notin Nodes
      <4>1. Updated(attached, op[a].prefix, op[a].node, op[a].config.links[op[a].node])
              \in [Prefixes -> [Nodes -> SUBSET Nets]]
        BY <1>2, <3>2, <3>4 DEF Updated
      <4>2. QED
        BY <3>1, <3>2, <4>1
    <3>5. QED
      BY <3>3, <3>4
  <2>4. QED
    BY <1>7, <2>2, <2>3 DEF Connect, TypeOK, OpTyped
<1>8. CASE NodesStarted(a)
  <2>1. OpTyped'
    BY <1>1, <1>8, GotoTyped DEF NodesStarted, Stages, StartStages
  <2>2. QED
    BY <1>8, <2>1 DEF NodesStarted, TypeOK, OpTyped, docker
<1>9. QED
  BY <1>3, <1>4, <1>5, <1>6, <1>7, <1>8

LEMMA WaitTyped ==
  ASSUME TypeOK, Loaded, NEW a \in Actors,
         CheckRouting(a) \/ WaitOver(a) \/ ApplyOptions(a) \/ StartReturns(a)
  PROVE  TypeOK' /\ Loaded'
<1>1. OpTyped /\ op[a] \in Op
  BY DEF TypeOK, OpTyped
<1>2. CASE CheckRouting(a)
  <2>1. op[a].waited \in 0..(Timeout + Poll) /\ op[a].waited < Timeout
    BY <1>1, <1>2 DEF CheckRouting, Op
  <2>2. NextPoll(a) \in 0..(Timeout + Poll)
    BY <2>1, TimesAssumption DEF NextPoll
  <2>3. op' \in [Actors -> Op] /\ Loaded'
    BY <1>1, <1>2, <2>2
       DEF CheckRouting, TestRouting, OpTyped, Op, Loaded, Resting, StartStages, Ends
  <2>4. QED
    BY <1>2, <2>3 DEF CheckRouting, TypeOK, docker
<1>3. CASE WaitOver(a)
  <2>1. OpTyped'
    BY <1>1, <1>3, GotoTyped DEF WaitOver, Stages, StartStages
  <2>2. QED
    BY <1>3, <2>1 DEF WaitOver, TypeOK, OpTyped, docker
<1>4. CASE ApplyOptions(a)
  <2>1. OpTyped'
    BY <1>1, <1>4, GotoTyped DEF ApplyOptions, Stages, StartStages
  <2>2. QED
    BY <1>4, <2>1 DEF ApplyOptions, TypeOK, OpTyped, docker
<1>5. CASE StartReturns(a)
  <2>1. Idle("ok", op[a].prefix, op[a].config) \in Op
    BY <1>1, IdleTyped DEF Op, Ends
  <2>2. op' \in [Actors -> Op] /\ Loaded'
    BY <1>1, <1>5, <2>1 DEF StartReturns, OpTyped, Op, Loaded, Resting, Idle, Ends
  <2>3. QED
    BY <1>5, <2>2 DEF StartReturns, SocketOnReturn, TypeOK, docker
<1>6. QED
  BY <1>2, <1>3, <1>4, <1>5

\* A request begins, or fails for want of a lab.json.
LEMMA RequestTyped ==
  ASSUME TypeOK, Loaded,
         \/ WebRestart
         \/ WebStop
         \/ \E p \in CliPrefixes, request \in {"start", "stop", "restart"} : Cli(request, p)
  PROVE  TypeOK' /\ Loaded'
<1>1. OpTyped
  BY DEF TypeOK, OpTyped
<1>2. PICK a \in Actors, request \in {"start", "stop", "restart"}, p \in Prefixes :
        BeginStart(a, request, p) \/ BeginStop(a, request, p)
  BY DEF WebRestart, WebStop, Cli, Prefixes
<1>3. OpTyped' /\ socket' \in BOOLEAN
  <2>1. CASE BeginStart(a, request, p)
    BY <1>1, <2>1, BeginTyped DEF BeginStart, Stages, StartStages, TypeOK
  <2>2. CASE BeginStop(a, request, p)
    BY <1>1, <2>2, BeginTyped DEF BeginStop, Stages, StopStages, TypeOK
  <2>3. QED
    BY <1>2, <2>1, <2>2
<1>4. row' \in BOOLEAN /\ UNCHANGED <<lab, docker>>
  BY DEF WebRestart, WebStop, Cli, TypeOK
<1>5. QED
  BY <1>3, <1>4 DEF TypeOK, OpTyped, docker

\* Every step of a request in progress.
LEMMA ProceedTyped ==
  ASSUME TypeOK, Loaded, NEW a \in Actors, Proceed(a)
  PROVE  TypeOK' /\ Loaded'
BY StopTyped, StartTyped, WaitTyped DEF Proceed

\* The variables of the lab's life cycle keep their types whatever requests come
\* and wherever they fail; a request in progress always has a lab.json loaded.
THEOREM Typed == Spec => [](TypeOK /\ Loaded)
<1>1. Init => TypeOK /\ Loaded
  <2>1. SUFFICES ASSUME Init PROVE TypeOK /\ Loaded
    OBVIOUS
  <2>2. Idle("new", WebPrefix, NoConfig) \in Op
    BY IdleTyped DEF Ends, Prefixes
  <2>3. op \in [Actors -> Op] /\ Loaded
    BY <2>1, <2>2 DEF Init, Loaded, Resting, Idle, Ends
  <2>4. networks \in [Prefixes -> [Nets -> 0..MaxNetworks]]
    <3>1. 0 \in 0..MaxNetworks
      BY BoundAssumption
    <3>2. QED
      BY <2>1, <3>1 DEF Init
  <2>5. QED
    BY <2>1, <2>3, <2>4 DEF Init, TypeOK, States
<1>2. TypeOK /\ Loaded /\ [Next]_vars => TypeOK' /\ Loaded'
  <2>1. SUFFICES ASSUME TypeOK, Loaded, [Next]_vars PROVE TypeOK' /\ Loaded'
    OBVIOUS
  <2>2. ASSUME NEW c \in Configs \cup {NoConfig}, Render(c) PROVE TypeOK' /\ Loaded'
    BY <2>1, <2>2 DEF Render, TypeOK, Loaded, Resting, docker
  <2>3. ASSUME NEW a \in Actors, Proceed(a) PROVE TypeOK' /\ Loaded'
    BY <2>1, <2>3, ProceedTyped
  <2>4. ASSUME NEW a \in Actors, Abort(a) PROVE TypeOK' /\ Loaded'
    <3>1. OpTyped'
      BY <2>1, <2>4, FailTyped DEF Abort, TypeOK, OpTyped
    <3>2. QED
      BY <2>1, <2>4, <3>1 DEF Abort, TypeOK, OpTyped, docker
  <2>5. ASSUME NEW p \in Prefixes, NEW n \in Nodes, RunCommand(p, n)
        PROVE  TypeOK' /\ Loaded'
    <3>1. containers' = Updated(containers, p, n, "working")
      BY <2>5 DEF RunCommand, Updated
    <3>2. containers' \in [Prefixes -> [Nodes -> States]]
      BY <2>1, <3>1, UpdateTyped DEF TypeOK, States
    <3>3. QED
      BY <2>1, <2>5, <3>2 DEF RunCommand, TypeOK, Loaded, Resting
  <2>6. CASE UNCHANGED vars
    BY <2>1, <2>6 DEF vars, docker, TypeOK, Loaded, Resting
  <2>7. QED
    BY <2>1, <2>2, <2>3, <2>4, <2>5, <2>6, RequestTyped DEF Next
<1>3. QED
  BY <1>1, <1>2, PTL DEF Spec

-----------------------------------------------------------------------------
\* What is left behind.  lab.json changes only while the lab is stopped, and no
\* copy of the command line has the prefix of the web interface.

Kept == ~RenderAnytime /\ WebPrefix \notin CliPrefixes

\* Who works on which copy: the web interface only when there is a row.
Owned(a) == IF a = "web" THEN row /\ op[a].prefix = WebPrefix
                         ELSE op[a].prefix \in CliPrefixes

\* A request in progress works on the lab.json of now.
Current(a) ==
  ~Resting(a) => /\ op[a].config = lab
                 /\ op[a].nodes \subseteq lab.nodes
                 /\ op[a].nets \subseteq lab.nets
                 /\ Owned(a)

Exists(n) == containers[WebPrefix][n] # "none"
Occupied(m) == networks[WebPrefix][m] # 0

\* All that docker holds for the web interface is in the lab.json of now.
Listed ==
  /\ \A n \in Nodes : Exists(n) => lab # NoConfig /\ n \in lab.nodes
  /\ \A m \in Nets : Occupied(m) => lab # NoConfig /\ m \in lab.nets

\* What stop_lab has passed in its loops is gone.
Passed ==
  "web" \in Actors => LET o == op["web"] IN
    /\ o.stage = "containers" => \A n \in Nodes : Exists(n) => n \in o.nodes
    /\ o.stage = "networks" => \A n \in Nodes : ~Exists(n)
    /\ o.stage \in StopStages => \A m \in Nets : Occupied(m) => m \in o.nets

\* The strengthening that makes NothingLeftWithoutRow inductive.
Accounted ==
  /\ NothingLeftWithoutRow
  /\ \A a \in Actors : Current(a)
  /\ Listed
  /\ Passed

\* A step of one request leaves the other alone.
LEMMA OthersWait ==
  ASSUME TypeOK, NEW a \in Actors, Proceed(a) \/ Abort(a)
  PROVE  /\ lab' = lab
         /\ row' = row \/ (a = "web" /\ StopReturns(a))
         /\ \A b \in Actors \ {a} : op'[b] = op[b]
<1>1. CASE Abort(a)
  BY <1>1 DEF Abort, Fail, TypeOK
<1>2. CASE \/ \E n \in Nodes : RemoveContainer(a, n)
           \/ ContainersRemoved(a)
           \/ \E m \in Nets : RemoveNetworks(a, m)
           \/ StopReturns(a)
           \/ StartAfterStop(a)
  BY <1>2 DEF RemoveContainer, ContainersRemoved, RemoveNetworks, StopReturns, StartAfterStop,
              BeginStart, Begin, Goto, Fail, TypeOK
<1>3. CASE \/ \E m \in Nets : CreateNetwork(a, m)
           \/ NetworksCreated(a)
           \/ \E n \in Nodes : CreateContainer(a, n)
           \/ StartContainer(a)
           \/ Connect(a)
           \/ NodesStarted(a)
  BY <1>3 DEF CreateNetwork, NetworksCreated, CreateContainer, StartContainer, Connect,
              NodesStarted, Goto, Fail, TypeOK
<1>4. CASE CheckRouting(a) \/ WaitOver(a) \/ ApplyOptions(a) \/ StartReturns(a)
  BY <1>4 DEF CheckRouting, TestRouting, WaitOver, ApplyOptions, StartReturns, Goto, TypeOK
<1>5. QED
  BY <1>1, <1>2, <1>3, <1>4 DEF Proceed

\* A step that changes only where a request stands keeps it at its work.
LEMMA SameWork ==
  ASSUME TypeOK, NEW a \in Actors, Current(a), lab' = lab, row' = row,
         op'[a].request = op[a].request, op'[a].prefix = op[a].prefix,
         op'[a].config = op[a].config, op'[a].nodes = op[a].nodes, op'[a].nets = op[a].nets
  PROVE  Current(a)'
BY DEF Current, Owned, Resting

\* A step of a request keeps it at work on the same lab.json and copy.
LEMMA StaysCurrent ==
  ASSUME TypeOK, Loaded, NEW a \in Actors, Current(a), Proceed(a) \/ Abort(a)
  PROVE  Current(a)'
<1>1. lab' = lab /\ (row' = row \/ (a = "web" /\ StopReturns(a)))
  BY OthersWait
<1>2. CASE Abort(a)
  BY <1>2 DEF Abort, Fail, Idle, Current, Resting, TypeOK
<1>3. ASSUME NEW n \in Nodes, RemoveContainer(a, n) PROVE Current(a)'
  BY <1>1, <1>3 DEF RemoveContainer, Current, Owned, Resting, TypeOK, Op
<1>4. CASE ContainersRemoved(a) \/ NetworksCreated(a) \/ NodesStarted(a)
             \/ WaitOver(a) \/ ApplyOptions(a)
  <2>1. \E stage \in Stages : Goto(a, stage)
    BY <1>4 DEF ContainersRemoved, NetworksCreated, NodesStarted, WaitOver, ApplyOptions,
                Stages, StopStages, StartStages
  <2>2. row' = row
    BY <1>4 DEF ContainersRemoved, NetworksCreated, NodesStarted, WaitOver, ApplyOptions
  <2>3. QED
    BY <1>1, <2>1, <2>2, SameWork DEF Goto, TypeOK, Op
<1>5. ASSUME NEW m \in Nets, RemoveNetworks(a, m) PROVE Current(a)'
  <2>1. CASE Fail(a)
    BY <2>1 DEF Fail, Idle, Current, Resting, TypeOK
  <2>2. CASE op' = [op EXCEPT ![a].nets = @ \ {m}]
    BY <1>5, <2>2 DEF RemoveNetworks, Current, Owned, Resting, TypeOK, Op
  <2>3. QED
    BY <1>5, <2>1, <2>2 DEF RemoveNetworks
<1>6. CASE StopReturns(a) \/ StartReturns(a)
  BY <1>6 DEF StopReturns, StartReturns, Idle, Current, Resting, TypeOK
<1>7. CASE StartAfterStop(a)
  <2>1. Current(a) /\ ~Resting(a) /\ row' = row
    BY <1>7 DEF StartAfterStop, Resting
  <2>2. CASE lab = NoConfig
    BY <1>1, <1>7, <2>1, <2>2 DEF StartAfterStop, BeginStart, Begin, Idle, Current, Resting, TypeOK
  <2>3. CASE lab # NoConfig
    BY <1>1, <1>7, <2>1, <2>3 DEF StartAfterStop, BeginStart, Begin, Current, Owned, Resting, TypeOK
  <2>4. QED
    BY <2>2, <2>3
<1>8. ASSUME NEW m \in Nets, CreateNetwork(a, m) PROVE Current(a)'
  BY <1>1, <1>8 DEF CreateNetwork, Current, Owned, Resting, TypeOK, Op
<1>9. ASSUME NEW n \in Nodes, CreateContainer(a, n) PROVE Current(a)'
  <2>1. CASE Fail(a)
    BY <2>1 DEF Fail, Idle, Current, Resting, TypeOK
  <2>2. CASE op' = [op EXCEPT ![a].nodes = @ \ {n}, ![a].node = n, ![a].stage = "start"]
    <3>1. op[a] \in Op /\ op[a].stage = "create" /\ row' = row
      BY <1>1, <1>9 DEF CreateContainer, TypeOK
    <3>2. op'[a] = [op[a] EXCEPT !.nodes = @ \ {n}, !.node = n, !.stage = "start"]
      BY <1>1, <2>2 DEF TypeOK
    <3>3. QED
      BY <1>1, <3>1, <3>2 DEF Current, Owned, Resting, Op
  <2>3. QED
    BY <1>9, <2>1, <2>2 DEF CreateContainer
<1>10. CASE StartContainer(a) \/ Connect(a)
  <2>1. CASE Fail(a)
    BY <2>1 DEF Fail, Idle, Current, Resting, TypeOK
  <2>2. CASE Goto(a, "connect") \/ Goto(a, "create")
    <3>1. row' = row
      BY <1>10 DEF StartContainer, Connect
    <3>2. QED
      BY <1>1, <2>2, <3>1, SameWork DEF Goto, TypeOK, Op
  <2>3. QED
    BY <1>10, <2>1, <2>2 DEF StartContainer, Connect
<1>11. CASE CheckRouting(a)
  <2>1. \/ op' = [op EXCEPT ![a].stage = "options"]
        \/ op' = [op EXCEPT ![a].waited = NextPoll(a)]
    BY <1>11 DEF CheckRouting, TestRouting
  <2>2. row' = row
    BY <1>11 DEF CheckRouting
  <2>3. /\ op'[a].request = op[a].request /\ op'[a].prefix = op[a].prefix
        /\ op'[a].config = op[a].config
        /\ op'[a].nodes = op[a].nodes /\ op'[a].nets = op[a].nets
    <3>1. CASE op' = [op EXCEPT ![a].stage = "options"]
      BY <3>1 DEF TypeOK, Op
    <3>2. CASE op' = [op EXCEPT ![a].waited = NextPoll(a)]
      BY <3>2 DEF TypeOK, Op
    <3>3. QED
      BY <2>1, <3>1, <3>2
  <2>4. QED
    BY <1>1, <2>2, <2>3, SameWork
<1>12. QED
  BY <1>2, <1>3, <1>4, <1>5, <1>6, <1>7, <1>8, <1>9, <1>10, <1>11 DEF Proceed

-----------------------------------------------------------------------------
\* The command line works on copies of its own.
LEMMA CopyUntouched ==
  ASSUME TypeOK, Kept, Loaded, NEW a \in Actors \ {"web"}, Current(a), Proceed(a) \/ Abort(a)
  PROVE  /\ containers'[WebPrefix] = containers[WebPrefix]
         /\ networks'[WebPrefix] = networks[WebPrefix]
<1>1. CASE Abort(a)
  BY <1>1 DEF Abort, docker
<1>2. CASE Proceed(a)
  <2>1. ~Resting(a)
    BY <1>2 DEF Proceed, RemoveContainer, CreateContainer, RemoveNetworks, CreateNetwork,
                ContainersRemoved, StopReturns, StartAfterStop, NetworksCreated,
                StartContainer, Connect, NodesStarted, CheckRouting, WaitOver, ApplyOptions,
                StartReturns, Loaded, Ends, StopStages
  <2>2. op[a].prefix \in CliPrefixes /\ op[a].prefix # WebPrefix
    BY <2>1 DEF Current, Owned, Kept
  <2>3. CASE \/ \E n \in Nodes : RemoveContainer(a, n) \/ CreateContainer(a, n)
             \/ StartContainer(a)
    BY <2>2, <2>3 DEF RemoveContainer, CreateContainer, StartContainer, TypeOK, Prefixes
  <2>4. CASE \E m \in Nets : RemoveNetworks(a, m) \/ CreateNetwork(a, m)
    BY <2>2, <2>4 DEF RemoveNetworks, CreateNetwork, TypeOK, Prefixes
  <2>5. CASE \/ ContainersRemoved(a) \/ StopReturns(a) \/ StartAfterStop(a)
             \/ NetworksCreated(a) \/ Connect(a) \/ NodesStarted(a) \/ CheckRouting(a)
             \/ WaitOver(a) \/ ApplyOptions(a) \/ StartReturns(a)
    BY <2>5 DEF ContainersRemoved, StopReturns, StartAfterStop, NetworksCreated, Connect,
                NodesStarted, CheckRouting, WaitOver, ApplyOptions, StartReturns, docker
  <2>6. QED
    BY <1>2, <2>3, <2>4, <2>5 DEF Proceed
<1>3. QED
  BY <1>1, <1>2

\* What the web interface has in docker, and how far its stop has come.
WebAccounted == NothingLeftWithoutRow /\ Listed /\ Passed

\* Taking away, or leaving alone, leaves nothing unaccounted for.
LEMMA Less ==
  ASSUME NothingLeftWithoutRow, Listed, lab' = lab, row' = row,
         \A n \in Nodes : Exists(n)' => Exists(n),
         \A m \in Nets : Occupied(m)' => Occupied(m)
  PROVE  NothingLeftWithoutRow' /\ Listed'
BY DEF NothingLeftWithoutRow, Listed, Exists, Occupied

\* Adding what lab.json names is accounted for while there is a row.
LEMMA More ==
  ASSUME Listed, row, row' = row, lab # NoConfig, lab' = lab,
         \A n \in Nodes : Exists(n)' => Exists(n) \/ n \in lab.nodes,
         \A m \in Nets : Occupied(m)' => Occupied(m) \/ m \in lab.nets
  PROVE  NothingLeftWithoutRow' /\ Listed'
BY DEF NothingLeftWithoutRow, Listed, Exists, Occupied

\* stop_lab: what it takes away, what is left to it, and the row it deletes.
LEMMA WebStops ==
  ASSUME TypeOK, Loaded, WebAccounted, "web" \in Actors, Current("web"),
         \/ \E n \in Nodes : RemoveContainer("web", n)
         \/ ContainersRemoved("web")
         \/ \E m \in Nets : RemoveNetworks("web", m)
         \/ StopReturns("web")
         \/ StartAfterStop("web")
  PROVE  WebAccounted'
<1> DEFINE o == op["web"]
<1>1. o \in Op
  BY DEF TypeOK
<1>2. ~Resting("web")
  BY DEF RemoveContainer, ContainersRemoved, RemoveNetworks, StopReturns, StartAfterStop,
         Loaded, Ends
<1>3. o.prefix = WebPrefix /\ row /\ WebPrefix \in Prefixes
  BY <1>2 DEF Current, Owned, Prefixes
<1>4. ASSUME NEW n \in Nodes, RemoveContainer("web", n) PROVE WebAccounted'
  <2>1. /\ ~Exists(n)' /\ \A k \in Nodes \ {n} : Exists(k)' <=> Exists(k)
        /\ \A m \in Nets : Occupied(m)' <=> Occupied(m)
    BY <1>3, <1>4 DEF RemoveContainer, Exists, Occupied, TypeOK
  <2>2. /\ o.stage = "containers" /\ o'.stage = "containers"
        /\ o'.nodes = o.nodes \ {n} /\ o'.nets = o.nets
    BY <1>1, <1>4 DEF RemoveContainer, TypeOK, Op
  <2>3. Passed'
    BY <2>1, <2>2 DEF Passed, WebAccounted, StopStages
  <2>4. NothingLeftWithoutRow' /\ Listed'
    BY <1>4, <2>1, Less DEF RemoveContainer, WebAccounted
  <2>5. QED
    BY <2>3, <2>4 DEF WebAccounted
<1>5. CASE ContainersRemoved("web")
  <2>1. UNCHANGED docker /\ UNCHANGED <<lab, row>>
    BY <1>5 DEF ContainersRemoved
  <2>2. o.stage = "containers" /\ o.nodes = {} /\ o'.stage = "networks" /\ o'.nets = o.nets
    BY <1>1, <1>5 DEF ContainersRemoved, Goto, TypeOK, Op
  <2>3. /\ \A n \in Nodes : Exists(n)' <=> Exists(n)
        /\ \A m \in Nets : Occupied(m)' <=> Occupied(m)
    BY <2>1 DEF docker, Exists, Occupied
  <2>4. Passed'
    BY <2>2, <2>3 DEF Passed, WebAccounted, StopStages
  <2>5. QED
    BY <2>1, <2>3, <2>4, Less DEF WebAccounted
<1>6. ASSUME NEW m \in Nets, RemoveNetworks("web", m) PROVE WebAccounted'
  <2>1. UNCHANGED <<lab, row>> /\ \A n \in Nodes : Exists(n)' <=> Exists(n)
    BY <1>6 DEF RemoveNetworks, Exists
  <2>2. \A k \in Nets : Occupied(k)' => Occupied(k)
    BY <1>3, <1>6 DEF RemoveNetworks, Occupied, TypeOK
  <2>3. NothingLeftWithoutRow' /\ Listed'
    BY <2>1, <2>2, Less DEF WebAccounted
  <2>4. CASE Fail("web")
    BY <2>3, <2>4 DEF Fail, Idle, TypeOK, Passed, StopStages, WebAccounted
  <2>5. CASE ~Fail("web")
    <3>1. o'.stage = "networks" /\ o.stage = "networks" /\ o'.nets = o.nets \ {m}
      BY <1>1, <1>6, <2>5 DEF RemoveNetworks, TypeOK, Op
    <3>2. ~Occupied(m)'
      BY <1>3, <1>6, <2>5, MatchesAssumption DEF RemoveNetworks, Occupied, TypeOK
    <3>3. QED
      BY <2>1, <2>2, <2>3, <3>1, <3>2 DEF Passed, StopStages, WebAccounted
  <2>6. QED
    BY <2>4, <2>5
<1>7. CASE StopReturns("web")
  <2>1. UNCHANGED <<lab, docker>> /\ o.stage = "networks" /\ o.nets = {} /\ o'.stage = "ok"
    BY <1>7 DEF StopReturns, Idle, TypeOK
  <2>2. /\ \A n \in Nodes : ~Exists(n) /\ ~Exists(n)'
        /\ \A k \in Nets : ~Occupied(k) /\ ~Occupied(k)'
    BY <2>1 DEF docker, Exists, Occupied, Passed, StopStages, WebAccounted
  <2>3. QED
    BY <2>1, <2>2 DEF WebAccounted, NothingLeftWithoutRow, Listed, Passed, Exists, Occupied,
                      StopStages
<1>8. CASE StartAfterStop("web")
  <2>1. UNCHANGED <<lab, row, docker>>
    BY <1>8 DEF StartAfterStop
  <2>2. o'.stage \notin StopStages
    BY <1>8 DEF StartAfterStop, BeginStart, Begin, Idle, TypeOK, StopStages
  <2>3. /\ \A n \in Nodes : Exists(n)' <=> Exists(n)
        /\ \A k \in Nets : Occupied(k)' <=> Occupied(k)
    BY <2>1 DEF docker, Exists, Occupied
  <2>4. QED
    BY <2>1, <2>2, <2>3, Less DEF WebAccounted, Passed, StopStages
<1>9. QED
  BY <1>4, <1>5, <1>6, <1>7, <1>8

\* start_lab: it creates only what lab.json names, for a lab that has a row.
LEMMA WebStarts ==
  ASSUME TypeOK, Loaded, WebAccounted, "web" \in Actors, Current("web"),
         \/ \E m \in Nets : CreateNetwork("web", m)
         \/ NetworksCreated("web")
         \/ \E n \in Nodes : CreateContainer("web", n)
         \/ StartContainer("web")
         \/ Connect("web")
         \/ NodesStarted("web")
         \/ CheckRouting("web") \/ WaitOver("web") \/ ApplyOptions("web")
         \/ StartReturns("web")
         \/ Abort("web")
  PROVE  WebAccounted'
<1> DEFINE o == op["web"]
<1>1. o \in Op
  BY DEF TypeOK
<1>2. ~Resting("web")
  BY DEF CreateNetwork, NetworksCreated, CreateContainer, StartContainer, Connect, NodesStarted,
         CheckRouting, WaitOver, ApplyOptions, StartReturns, Abort, Loaded, Ends
<1>3. /\ o.prefix = WebPrefix /\ row /\ WebPrefix \in Prefixes
      /\ o.nodes \subseteq lab.nodes /\ o.nets \subseteq lab.nets
      /\ lab # NoConfig
  BY <1>2, ConfigTyped DEF Current, Owned, Prefixes, Loaded
<1>4. UNCHANGED <<lab, row>>
  BY DEF CreateNetwork, NetworksCreated, CreateContainer, StartContainer, Connect, NodesStarted,
         CheckRouting, WaitOver, ApplyOptions, StartReturns, Abort
<1>5. o'.stage \notin StopStages
  <2>1. CASE \/ NetworksCreated("web") \/ NodesStarted("web") \/ WaitOver("web")
             \/ ApplyOptions("web")
    BY <1>1, <2>1 DEF NetworksCreated, NodesStarted, WaitOver, ApplyOptions, Goto, TypeOK, Op,
                      StopStages
  <2>2. CASE CheckRouting("web")
    BY <1>1, <2>2 DEF CheckRouting, TestRouting, TypeOK, Op, StopStages
  <2>3. CASE StartReturns("web")
    BY <1>1, <2>3 DEF StartReturns, Idle, TypeOK, Op, StopStages
  <2>4. CASE Fail("web")
    BY <2>4 DEF Fail, Idle, TypeOK, StopStages
  <2>5. CASE (StartContainer("web") \/ Connect("web")) /\ ~Fail("web")
    BY <1>1, <2>5 DEF StartContainer, Connect, Goto, TypeOK, Op, StopStages
  <2>6. CASE \E m \in Nets : CreateNetwork("web", m)
    BY <1>1, <2>6 DEF CreateNetwork, TypeOK, Op, StopStages
  <2>7. CASE (\E n \in Nodes : CreateContainer("web", n)) /\ ~Fail("web")
    <3>1. PICK n \in Nodes :
            op' = [op EXCEPT !["web"].nodes = @ \ {n}, !["web"].node = n,
                             !["web"].stage = "start"]
      BY <2>7 DEF CreateContainer
    <3>2. QED
      BY <1>1, <3>1 DEF TypeOK, Op, StopStages
  <2>8. QED
    BY <2>1, <2>2, <2>3, <2>4, <2>5, <2>6, <2>7 DEF Abort
<1>6. \A n \in Nodes : Exists(n)' => Exists(n) \/ n \in lab.nodes
  <2>1. CASE \E n \in Nodes : CreateContainer("web", n)
    <3>1. PICK n \in lab.nodes \cap Nodes :
            \/ containers' = [containers EXCEPT ![WebPrefix][n] = "created"]
            \/ containers' = containers
      BY <1>3, <2>1 DEF CreateContainer
    <3>2. QED
      BY <1>3, <3>1 DEF Exists, TypeOK
  <2>2. CASE StartContainer("web")
    BY <1>1, <1>3, <2>2 DEF StartContainer, Exists, TypeOK, Op
  <2>3. CASE UNCHANGED containers
    BY <2>3 DEF Exists
  <2>4. QED
    BY <2>1, <2>2, <2>3 DEF CreateNetwork, NetworksCreated, Connect, NodesStarted,
         CheckRouting, WaitOver, ApplyOptions, StartReturns, Abort, docker
<1>7. \A m \in Nets : Occupied(m)' => Occupied(m) \/ m \in lab.nets
  <2>1. CASE \E m \in Nets : CreateNetwork("web", m)
    BY <1>3, <2>1 DEF CreateNetwork, Occupied, TypeOK
  <2>2. CASE UNCHANGED networks
    BY <2>2 DEF Occupied
  <2>3. QED
    BY <2>1, <2>2 DEF NetworksCreated, CreateContainer, StartContainer, Connect, NodesStarted,
         CheckRouting, WaitOver, ApplyOptions, StartReturns, Abort, docker
<1>8. QED
  <2>1. NothingLeftWithoutRow' /\ Listed'
    BY <1>3, <1>4, <1>6, <1>7, More DEF WebAccounted
  <2>2. Passed'
    BY <1>5 DEF Passed, StopStages
  <2>3. QED
    BY <2>1, <2>2 DEF WebAccounted

\* Any step of any request under way keeps everything accounted for.
LEMMA ProceedAccounted ==
  ASSUME TypeOK, Loaded, Kept, Accounted, NEW a \in Actors, Proceed(a) \/ Abort(a)
  PROVE  Accounted'
<1>1. ASSUME NEW b \in Actors PROVE Current(b)'
  <2>1. CASE b = a
    BY <2>1, StaysCurrent DEF Accounted
  <2>2. CASE b # a
    <3>1. op'[b] = op[b] /\ lab' = lab
      BY <2>2, OthersWait
    <3>2. b = "web" => row' = row
      BY <2>2, OthersWait, ActorsAssumption
    <3>3. QED
      BY <3>1, <3>2 DEF Accounted, Current, Owned, Resting
  <2>3. QED
    BY <2>1, <2>2
<1>2. WebAccounted'
  <2>1. CASE a = "web"
    BY <2>1, WebStops, WebStarts DEF Proceed, Accounted, WebAccounted
  <2>2. CASE a # "web"
    <3>1. /\ containers'[WebPrefix] = containers[WebPrefix]
          /\ networks'[WebPrefix] = networks[WebPrefix]
      BY <2>2, CopyUntouched DEF Accounted
    <3>2. lab' = lab /\ row' = row /\ ("web" \in Actors => op'["web"] = op["web"])
      BY <2>2, OthersWait
    <3>3. QED
      BY <3>1, <3>2 DEF Accounted, WebAccounted, NothingLeftWithoutRow, Listed, Passed,
                        Exists, Occupied
  <2>3. QED
    BY <2>1, <2>2
<1>3. QED
  BY <1>1, <1>2 DEF Accounted, WebAccounted

\* A request begins its work on the lab.json of now.
LEMMA RequestAccounted ==
  ASSUME TypeOK, Loaded, Kept, Accounted,
         \/ WebRestart
         \/ WebStop
         \/ \E p \in CliPrefixes, request \in {"start", "stop", "restart"} : Cli(request, p)
  PROVE  Accounted'
<1>1. PICK a \in Actors, request \in {"start", "stop", "restart"}, p \in Prefixes :
        /\ BeginStart(a, request, p) \/ BeginStop(a, request, p)
        /\ IF a = "web" THEN p = WebPrefix /\ row' ELSE p \in CliPrefixes
        /\ UNCHANGED <<lab, docker>> /\ (row => row')
  BY DEF WebRestart, WebStop, Cli, Prefixes
<1>2. PICK stage \in {"containers", "nets"} : Begin(a, request, p, stage)
  BY <1>1 DEF BeginStart, BeginStop
<1>3. ASSUME NEW b \in Actors PROVE Current(b)'
  <2>1. CASE b # a
    BY <1>1, <1>2, <2>1 DEF Begin, TypeOK, Accounted, Current, Owned, Resting
  <2>2. CASE b = a /\ lab = NoConfig
    BY <1>2, <2>2 DEF Begin, Idle, TypeOK, Current, Resting
  <2>3. CASE b = a /\ lab # NoConfig
    BY <1>1, <1>2, <2>3 DEF Begin, TypeOK, Current, Owned, Resting
  <2>4. QED
    BY <2>1, <2>2, <2>3
<1>4. NothingLeftWithoutRow' /\ Listed'
  BY <1>1 DEF Accounted, NothingLeftWithoutRow, Listed, Exists, Occupied, docker
<1>5. Passed'
  <2>1. SUFFICES ASSUME "web" \in Actors PROVE Passed'
    BY DEF Passed
  <2>2. CASE a # "web"
    BY <1>1, <1>2, <2>1, <2>2 DEF Begin, TypeOK, Accounted, Passed, Exists, Occupied, docker
  <2>3. CASE a = "web" /\ lab = NoConfig
    BY <1>2, <2>3 DEF Begin, Idle, TypeOK, Passed, StopStages
  <2>4. CASE a = "web" /\ lab # NoConfig
    <3>1. /\ op'["web"].nodes = lab.nodes /\ op'["web"].nets = lab.nets
          /\ op'["web"].stage # "networks"
      BY <1>2, <2>4 DEF Begin, TypeOK
    <3>2. QED
      BY <1>1, <3>1 DEF Accounted, Listed, Passed, Exists, Occupied, docker
  <2>5. QED
    BY <2>2, <2>3, <2>4
<1>6. QED
  BY <1>3, <1>4, <1>5 DEF Accounted

\* What docker holds for the web interface is accounted for at every step.
LEMMA AccountedHolds == ASSUME Kept PROVE Spec => []Accounted
<1>1. Init => Accounted
  BY DEF Init, Accounted, NothingLeftWithoutRow, Current, Resting, Idle, Listed, Passed,
         Exists, Occupied, StopStages, Prefixes
<1>2. TypeOK /\ Loaded /\ Accounted /\ [Next]_vars => Accounted'
  <2>1. SUFFICES ASSUME TypeOK, Loaded, Accounted, [Next]_vars PROVE Accounted'
    OBVIOUS
  <2>2. ASSUME NEW c \in Configs \cup {NoConfig}, Render(c) PROVE Accounted'
    <3>1. ~row /\ (\A a \in Actors : Resting(a)) /\ UNCHANGED <<row, docker, op>>
      BY <2>2 DEF Render, Kept
    <3>2. \A a \in Actors : Current(a)'
      BY <3>1 DEF Current, Resting
    <3>3. /\ \A n \in Nodes : ~Exists(n)'
          /\ \A m \in Nets : ~Occupied(m)'
      BY <2>1, <3>1 DEF Accounted, NothingLeftWithoutRow, Exists, Occupied, docker
    <3>4. QED
      BY <3>2, <3>3 DEF Accounted, NothingLeftWithoutRow, Listed, Passed, Exists, Occupied
  <2>3. ASSUME NEW a \in Actors, Proceed(a) \/ Abort(a) PROVE Accounted'
    BY <2>1, <2>3, ProceedAccounted
  <2>4. ASSUME NEW p \in Prefixes, NEW n \in Nodes, RunCommand(p, n) PROVE Accounted'
    <3>1. \A k \in Nodes : Exists(k)' <=> Exists(k)
      BY <2>1, <2>4 DEF RunCommand, Exists, TypeOK, Prefixes
    <3>2. \A m \in Nets : Occupied(m)' <=> Occupied(m)
      BY <2>4 DEF RunCommand, Occupied
    <3>3. NothingLeftWithoutRow' /\ Listed'
      BY <2>1, <2>4, <3>1, <3>2, Less DEF RunCommand, Accounted
    <3>4. QED
      BY <2>1, <2>4, <3>1, <3>2, <3>3 DEF RunCommand, Accounted, Current, Owned, Resting, Passed
  <2>5. CASE UNCHANGED vars
    BY <2>1, <2>5 DEF vars, docker, Accounted, NothingLeftWithoutRow, Current, Owned, Resting,
                      Listed, Passed, Exists, Occupied
  <2>6. QED
    BY <2>1, <2>2, <2>3, <2>4, <2>5, RequestAccounted DEF Next
<1>3. QED
  BY <1>1, <1>2, Typed, PTL DEF Spec

\* Where lab.json is rendered only while the lab is stopped and no copy of the
\* command line has the prefix of the web interface: whenever there is no row,
\* docker holds nothing of the lab, whatever requests came and wherever they
\* failed (stop_lab_api deletes the row after docker_runtime.stop_lab).
THEOREM NothingLeft == ASSUME Kept PROVE Spec => []NothingLeftWithoutRow
<1>1. Accounted => NothingLeftWithoutRow
  BY DEF Accounted
<1>2. QED
  BY <1>1, AccountedHolds, PTL
=============================================================================
