----------------------------- MODULE LabDefinition -----------------------------
(***************************************************************************)
(* A lab as a user's script defines it: nodes, subnets, RIP and OSPF       *)
(* overlays and local networks, then configure and render, which writes    *)
(* lab.json.  Nodes, subnets and networks are numbered as they are made;   *)
(* a name is a sequence of parts, and the address of a node in a subnet is *)
(* the pair of the two (module Addressing says which ranges they get).     *)
(* An exception ends the script.                                           *)
(***************************************************************************)
EXTENDS Integers, SequencesExt

CONSTANTS
  NodeNames, SubnetNames, LocalNames,     \* what the script may name things
  MaxNodes,  \* bound: nodes
  MaxParts   \* bound: subnets, overlays and local networks in all

ASSUME NamesAssumption == NodeNames \subseteq Nat /\ SubnetNames \subseteq Nat /\ LocalNames \subseteq Nat
ASSUME BoundsAssumption == MaxNodes \in Nat /\ MaxParts \in Nat

VARIABLES
  nodes,     \* name, type and interfaces of each node
  nets,      \* name, outer network (0: none), gateway and nodes of each network
  subnets,   \* name, network, nodes and gateway of each subnet
  overlays,  \* protocol, network, nodes and announced subnets of each overlay
  configured,
  lab,       \* lab.json
  raised     \* an exception has ended the script

vars == <<nodes, nets, subnets, overlays, configured, lab, raised>>
definition == <<nodes, nets, subnets, overlays>>

Main == 1
NoGateway == 0
NoLab == [entries |-> <<>>, networks |-> <<>>, written |-> FALSE]
Protocols == {"RIP", "OSPF"}

Local(m) == m # Main

\* The elements of a sequence that are in S, in their order; the first of them, 0 if
\* there is none.  Sets, not conditions: what is proved is stated for every S.
Only(seq, S) == FlattenSeq([i \in DOMAIN seq |-> IF seq[i] \in S THEN <<seq[i]>> ELSE <<>>])
First(seq, S) == LET found == Only(seq, S) IN IF found = <<>> THEN 0 ELSE Head(found)

InOrder(table) == [i \in DOMAIN table |-> i]
LocalsOf(m) == Only(InOrder(nets), {k \in DOMAIN nets : nets[k].outer = m})
SubnetsOf(m) == Only(InOrder(subnets), {s \in DOMAIN subnets : subnets[s].net = m})
OverlaysOf(m) == Only(InOrder(overlays), {o \in DOMAIN overlays : overlays[o].net = m})
Has(s, n) == n \in ToSet(subnets[s].nodes)

Init ==
  /\ nodes = <<>> /\ subnets = <<>> /\ overlays = <<>>
  /\ nets = <<[name |-> 0, outer |-> 0, gateway |-> NoGateway, nodes |-> <<>>]>>
  /\ configured = FALSE
  /\ lab = NoLab
  /\ raised = FALSE

-----------------------------------------------------------------------------
\* Defining the lab.  Everything is defined before the lab is configured.

Defining == ~configured /\ ~raised
Room == Len(nets) - 1 + Len(subnets) + Len(overlays) < MaxParts
Raise == raised' = TRUE /\ UNCHANGED <<definition, configured, lab>>

\* A local network puts its name before the node's, after the check.
FullName(m, name) == IF Local(m) THEN <<nets[m].name, name>> ELSE <<name>>
CreateNode(m, name, pc) ==
  /\ Defining /\ Len(nodes) < MaxNodes
  /\ SubnetsOf(m) = <<>> /\ OverlaysOf(m) = <<>> /\ LocalsOf(m) = <<>>
  /\ IF \E n \in ToSet(nets[m].nodes) : nodes[n].name = <<name>>
     THEN Raise
     ELSE /\ nodes' = Append(nodes, [name |-> FullName(m, name),
                                     type |-> IF pc THEN "PC" ELSE "None", ifcs |-> <<>>])
          /\ nets' = [nets EXCEPT ![m].nodes = Append(@, Len(nodes'))]
          /\ UNCHANGED <<subnets, overlays, configured, lab, raised>>

\* The gateway of a subnet is chosen once, from what its nodes are by then.
FirstOfType(members, type) == First(members, {n \in DOMAIN nodes : nodes[n].type = type})
SubnetGatewayAnywhere(m, members) ==
  IF Local(m) THEN nets[m].gateway
  ELSE IF FirstOfType(members, "GATEWAY") # 0 THEN FirstOfType(members, "GATEWAY")
  ELSE FirstOfType(members, "ROUTER")
SubnetGateway(m, members) ==
  IF nets[m].gateway \in ToSet(members) THEN nets[m].gateway
  ELSE IF FirstOfType(members, "GATEWAY") # 0 THEN FirstOfType(members, "GATEWAY")
  ELSE FirstOfType(members, "ROUTER")
CreateSubnet(m, name, members) ==
  /\ Defining /\ Room
  /\ IF \E s \in ToSet(SubnetsOf(m)) : subnets[s].name = name
     THEN Raise
     ELSE /\ subnets' = Append(subnets, [name |-> name, net |-> m, nodes |-> members,
                                         gateway |-> SubnetGateway(m, members)])
          /\ UNCHANGED <<nodes, nets, overlays, configured, lab, raised>>

\* A node joins one overlay of each protocol, and no PC joins any.
InOverlay(n, protocol) ==
  \E o \in ToSet(overlays) : o.protocol = protocol /\ n \in ToSet(o.nodes)
CreateOverlay(m, protocol, members) ==
  /\ Defining /\ Room
  /\ IF \E n \in ToSet(members) : nodes[n].type = "PC" \/ InOverlay(n, protocol)
     THEN Raise
     ELSE /\ overlays' = Append(overlays, [protocol |-> protocol, net |-> m, nodes |-> members,
                                           announced |-> <<>>])
          /\ nodes' = [n \in DOMAIN nodes |->
                         IF n \in ToSet(members) /\ nodes[n].type # "GATEWAY"
                         THEN [nodes[n] EXCEPT !.type = "ROUTER"] ELSE nodes[n]]
          /\ UNCHANGED <<nets, subnets, configured, lab, raised>>

\* The name given is checked; the one made from the number of networks is not.
NewLocal(m, gateway, name) ==
  /\ nets' = Append(nets, [name |-> name, outer |-> m, gateway |-> gateway,
                           nodes |-> <<gateway>>])
  /\ nodes' = [nodes EXCEPT ![gateway].type = "GATEWAY"]
  /\ UNCHANGED <<subnets, overlays, configured, lab, raised>>
CreateNamedLocal(m, gateway, name) ==
  /\ Defining /\ Room
  /\ IF \E k \in ToSet(LocalsOf(m)) : nets[k].name = name
     THEN Raise
     ELSE NewLocal(m, gateway, name)
CreateLocal(m, gateway) ==
  /\ Defining /\ Room
  /\ NewLocal(m, gateway, Len(LocalsOf(m)))

-----------------------------------------------------------------------------
\* configure: a network's subnets get addresses, small ones first, then its overlays
\* are configured, then its local networks.

BySize(seq) ==
  FlattenSeq([size \in 1..MaxNodes |->
                Only(seq, {s \in DOMAIN subnets : Len(subnets[s].nodes) = size})])
ConfigureOrder ==
  LET from[m \in DOMAIN nets] == <<m>> \o FlattenSeq([i \in DOMAIN LocalsOf(m) |-> from[LocalsOf(m)[i]]])
  IN  from[Main]
SubnetsInOrder(order) == FlattenSeq([i \in DOMAIN order |-> BySize(SubnetsOf(order[i]))])
Interfaces(n, order) == Only(SubnetsInOrder(order), {s \in DOMAIN subnets : Has(s, n)})

\* Overlay.configure_node sees the interfaces the node has by then.
UpTo(m) == SubSeq(ConfigureOrder, 1, CHOOSE i \in DOMAIN ConfigureOrder : ConfigureOrder[i] = m)
AnnouncedWhole(o, n) ==
  {s \in ToSet(Interfaces(n, UpTo(o.net))) : ToSet(subnets[s].nodes) \subseteq ToSet(o.nodes)}
Announced(o, n) ==
  {s \in ToSet(Interfaces(n, UpTo(o.net))) :
     \E k \in ToSet(subnets[s].nodes) \ {n} : k \in ToSet(o.nodes)}

\* The script calls it, or render does before anything else.
Configure ==
  /\ Defining
  /\ nodes' = [n \in DOMAIN nodes |-> [nodes[n] EXCEPT !.ifcs = Interfaces(n, ConfigureOrder)]]
  /\ overlays' = [o \in DOMAIN overlays |->
                    [overlays[o] EXCEPT !.announced =
                       [n \in ToSet(overlays[o].nodes) |-> Announced(overlays[o], n)]]]
  /\ configured' = TRUE
  /\ UNCHANGED <<nets, subnets, lab, raised>>

-----------------------------------------------------------------------------
\* render, of a configured lab.

\* _get_routes: keys "default", or "local" for the range all local networks keep.
Key(s) == IF Local(subnets[s].net) THEN "local" ELSE "default"
FindRouter(s) == FirstOfType(subnets[s].nodes, "ROUTER")
Address(s, n) == <<s, n>>
RouterHops(n) ==
  LET routed(key) ==
        First(nodes[n].ifcs, {s \in DOMAIN subnets : Key(s) = key /\ FindRouter(s) # 0})
      keys == {key \in {"default", "local"} : routed(key) # 0}
  IN  [key \in keys |-> Address(routed(key), FindRouter(routed(key)))]
GatewayHops(n) ==
  LET gated == Only(nodes[n].ifcs,
                    {s \in DOMAIN subnets : subnets[s].gateway \notin {NoGateway, n}})
  IN  IF gated = <<>> THEN <<>>
      ELSE [key \in {"default"} |-> Address(Last(gated), subnets[Last(gated)].gateway)]
AllHops(n) ==
  [key \in DOMAIN GatewayHops(n) \cup DOMAIN RouterHops(n) |->
     IF key \in DOMAIN GatewayHops(n) THEN GatewayHops(n)[key] ELSE RouterHops(n)[key]]
Routes(n) ==
  LET hops == AllHops(n)
  IN  IF DOMAIN hops = {"local"} THEN [key \in {"default"} |-> hops["local"]] ELSE hops

\* The networks whose definitions reach lab.json, and their overlays.
Rendered == <<Main>> \o LocalsOf(Main)
RenderedOverlays == FlattenSeq([i \in DOMAIN Rendered |-> OverlaysOf(Rendered[i])])

\* A dictionary keeps the last value given for a key.
Named(seq) ==
  [name \in {subnets[s].name : s \in ToSet(seq)} |->
     Last(Only(seq, {s \in DOMAIN subnets : subnets[s].name = name}))]

\* The daemons of a node in the order of its start script, each with what its file
\* announces and redistributes.
Daemons(n) ==
  LET joined == Only(RenderedOverlays, {o \in DOMAIN overlays : n \in ToSet(overlays[o].nodes)})
  IN  [i \in DOMAIN joined |->
        [protocol |-> overlays[joined[i]].protocol,
         announced |-> overlays[joined[i]].announced[n],
         redistributed |-> {p \in Protocols \ {overlays[joined[i]].protocol} : InOverlay(n, p)}]]

\* The subnet a gateway leaves its local network by.
OutNet(m) == First(nodes[nets[m].gateway].ifcs, {s \in DOMAIN subnets : subnets[s].net # m})

Entry(n, nat) ==
  [name |-> nodes[n].name, router |-> nodes[n].type \in {"ROUTER", "GATEWAY"},
   networks |-> LET last == Named(nodes[n].ifcs)
                IN  [name \in DOMAIN last |-> Address(last[name], n)],
   routes |-> Routes(n), nat |-> nat, daemons |-> Daemons(n)]
EntriesOf(m) ==
  [i \in DOMAIN nets[m].nodes |->
     Entry(nets[m].nodes[i],
           IF Local(m) /\ nets[m].nodes[i] = nets[m].gateway THEN OutNet(m) ELSE 0)]

\* Entries of a later network take the place of earlier ones of the same name.
Updated(entries) ==
  LET same(i) == {j \in DOMAIN entries : entries[j].name = entries[i].name}
      last(i) == CHOOSE j \in same(i) : \A k \in same(i) : k <= j
  IN  FlattenSeq([i \in DOMAIN entries |->
        IF \E j \in same(i) : j < i THEN <<>> ELSE <<entries[last(i)]>>])
MainLast == Reverse(Rendered)
EntriesMainLast == FlattenSeq([i \in DOMAIN Rendered |-> EntriesOf(MainLast[i])])
EntriesInOrder == FlattenSeq([i \in DOMAIN Rendered |-> EntriesOf(Rendered[i])])

LabJsonMainNetworks ==
  [entries |-> Updated(EntriesInOrder),
   networks |-> Named(BySize(SubnetsOf(Main))),
   written |-> TRUE]
LabJson ==
  [entries |-> Updated(EntriesInOrder),
   networks |-> Named(SubnetsInOrder(Rendered)),
   written |-> TRUE]

\* The directory is removed first; a file that a node already has, or a gateway with
\* no way out, ends the rendering with nothing written.
Render ==
  /\ configured /\ ~raised
  /\ IF \/ lab.written /\ RenderedOverlays # <<>>
        \/ \E m \in ToSet(LocalsOf(Main)) : OutNet(m) = 0
     THEN raised' = TRUE /\ lab' = NoLab
     ELSE lab' = LabJson /\ UNCHANGED raised
  /\ UNCHANGED <<definition, configured>>

-----------------------------------------------------------------------------
\* Bound: subnets and overlays connect two nodes of their network or more, in the
\* order of creation.
Members(m) ==
  {Only(InOrder(nodes), S) : S \in {T \in SUBSET ToSet(nets[m].nodes) : Cardinality(T) > 1}}

\* New names are interchangeable: one more than there are nodes is enough.
Next ==
  \/ \E m \in DOMAIN nets :
       \/ \E name \in {k \in NodeNames : k <= 1 + Len(nets[m].nodes)}, pc \in BOOLEAN : CreateNode(m, name, pc)
       \/ \E members \in Members(m) :
            \/ \E name \in {k \in SubnetNames : k <= 1 + Len(subnets)} : CreateSubnet(m, name, members)
            \/ \E protocol \in Protocols : CreateOverlay(m, protocol, members)
       \/ \E gateway \in ToSet(nets[m].nodes) :
            \/ \E name \in LocalNames : CreateNamedLocal(m, gateway, name)
            \/ CreateLocal(m, gateway)
  \/ Configure
  \/ Render

Spec == Init /\ [][Next]_vars

-----------------------------------------------------------------------------
\* Properties of the lab.json that has been written.

\* The numbers in the tables name what they should: a subnet's gateway, chosen when
\* the subnet is made, is one of its own nodes.
Type == {"None", "PC", "ROUTER", "GATEWAY"}
TypeOK ==
  /\ \A n \in DOMAIN nodes : /\ nodes[n].type \in Type
                             /\ ToSet(nodes[n].ifcs) \subseteq DOMAIN subnets
  /\ \A m \in DOMAIN nets : /\ nets[m].outer \in 0..(m - 1)
                            /\ ToSet(nets[m].nodes) \subseteq DOMAIN nodes
                            /\ nets[m].gateway \in {NoGateway} \cup DOMAIN nodes
  /\ \A s \in DOMAIN subnets : /\ subnets[s].net \in DOMAIN nets
                               /\ ToSet(subnets[s].nodes) \subseteq DOMAIN nodes
                               /\ subnets[s].gateway \in {NoGateway} \cup ToSet(subnets[s].nodes)
  /\ \A o \in DOMAIN overlays : overlays[o].protocol \in Protocols
  /\ configured \in BOOLEAN /\ raised \in BOOLEAN /\ lab.written \in BOOLEAN

\* What the definitions must meet, and the library does not check: no network lies
\* deeper than the local networks of the lab, and no two nodes or
\* subnets of the lab have one name.
Flat == \A m \in DOMAIN nets : nets[m].outer \in {0, Main}
Distinct ==
  /\ IsInjective([n \in DOMAIN nodes |-> nodes[n].name])
  /\ IsInjective([s \in DOMAIN subnets |-> subnets[s].name])
Sane == lab.written /\ Flat /\ Distinct

Entries == ToSet(lab.entries)
Addresses(e) == {e.networks[x] : x \in DOMAIN e.networks}
EntryOf(n) == CHOOSE e \in Entries : e.name = nodes[n].name

\* Every node has one entry, with an address in each of its subnets, whichever of the
\* networks it is a node of wrote the entry; and the networks it names are there.
RenderedWhole ==
  Sane => /\ {e.name : e \in Entries} = {nodes[n].name : n \in DOMAIN nodes}
          /\ \A n \in DOMAIN nodes :
               Addresses(EntryOf(n)) = {Address(s, n) : s \in {t \in DOMAIN subnets : Has(t, n)}}
          /\ \A e \in Entries : \A x \in DOMAIN e.networks :
               x \in DOMAIN lab.networks /\ lab.networks[x] = e.networks[x][1]

\* A host that shares a subnet with a router or with the gateway of its network has a
\* default route, and each of its routes leads to a neighbour that forwards.
HostsRouted ==
  Sane => \A n \in DOMAIN nodes :
    LET e == EntryOf(n)
    IN  ~e.router =>
          /\ (\E s \in DOMAIN subnets, k \in DOMAIN nodes :
                /\ Has(s, n) /\ Has(s, k)
                /\ nodes[k].type = "ROUTER" \/ k = nets[subnets[s].net].gateway)
               => "default" \in DOMAIN e.routes
          /\ \A key \in DOMAIN e.routes :
               \E f \in Entries \ {e} :
                 /\ e.routes[key] \in Addresses(f) /\ f.router
                 /\ \E a \in Addresses(e) : a[1] = e.routes[key][1]

\* The gateway of a local network is a router that translates addresses towards a
\* subnet of the lab, if it is connected to one, and never towards its own side.
NatOutside ==
  Sane => \A m \in DOMAIN nets : Local(m) =>
    LET g == nets[m].gateway
        e == EntryOf(g)
    IN  /\ e.router
        /\ e.nat # 0 /\ Has(e.nat, g)
        /\ (\E s \in DOMAIN subnets : Has(s, g) /\ subnets[s].net = Main)
             => subnets[e.nat].net = Main

\* Two nodes of one overlay that share a subnet of its network both run its daemon
\* and announce the subnet, and a node with two daemons has each redistribute the
\* routes of the other.
OverlaysAgree ==
  Sane => \A o \in DOMAIN overlays : \A n \in ToSet(overlays[o].nodes) :
    \E i \in DOMAIN EntryOf(n).daemons :
      LET d == EntryOf(n).daemons[i]
      IN  /\ d.protocol = overlays[o].protocol
          /\ \A s \in DOMAIN subnets, k \in ToSet(overlays[o].nodes) \ {n} :
               Has(s, n) /\ Has(s, k) /\ subnets[s].net = overlays[o].net => s \in d.announced
          /\ d.redistributed = {EntryOf(n).daemons[j].protocol :
                                  j \in DOMAIN EntryOf(n).daemons \ {i}}
=============================================================================
