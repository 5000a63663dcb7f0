----------------------------- MODULE Addressing -----------------------------
(***************************************************************************)
(* Network.configure of madt_lib: how the address range of one network is  *)
(* cut into autonomous-system ranges and then into subnets, how hosts get  *)
(* their interfaces, and which BGP sessions follow.  Subnets are created   *)
(* and a BGP overlay may be declared before the range is distributed, in   *)
(* any order the library allows.                                           *)
(*                                                                         *)
(* The operators that stand before a definition and share its parameters   *)
(* (InnerTouching before Inner, WorstFit before BestFit, ...) are plausible *)
(* slips of the code: each breaks one of the properties below.             *)
(*                                                                         *)
(* A block is a base address and a prefix length; Size gives the number of *)
(* addresses of a prefix.                                                  *)
(***************************************************************************)
EXTENDS Integers, Sequences, SequencesExt, FiniteSetsExt

CONSTANTS
  Subnets,      \* names a subnet can be created under
  Nodes,        \* nodes of the network, all able to run a routing daemon
  NodeLists,    \* lists of nodes a subnet may connect
  Partitions,   \* divisions into autonomous systems a BGP overlay may be given
  Width,        \* bits of an address (32 in the code)
  Size,         \* Size[k]: number of addresses of a block of prefix length k
  Main,         \* the range of the network
  NoBlock       \* a subnet without an address

Lengths == 0..Width
Block == [base : Nat, len : Lengths]

\* Prefix lengths halve: what 2 ** (32 - prefixlen) is.
ASSUME SizeAssumption ==
  /\ Width \in Nat
  /\ Size \in [Lengths -> Nat]
  /\ Size[Width] = 1
  /\ \A k \in 0..(Width - 1) : Size[k] = 2 * Size[k + 1]
ASSUME MainAssumption == Main \in Block /\ NoBlock \notin Block
ASSUME ListsAssumption ==
  \A ns \in NodeLists : /\ ns \in Seq(Nodes) \ {<<>>}
                        /\ \A i, j \in DOMAIN ns : ns[i] = ns[j] => i = j
ASSUME PartitionsAssumption ==
  \A p \in Partitions : /\ p \in Seq(SUBSET Nodes)
                        /\ \A i, j \in DOMAIN p : i # j => p[i] \cap p[j] = {}

VARIABLES
  subnets,    \* network.subnets
  members,    \* subnet.nodes of each subnet, <<>> until it is created
  bgp,        \* network.BGP is not None
  systems,    \* BGP.autonomous_systems, in order
  configured, \* "no", "running", "yes" or "raised": where configure() stands
  ranges,     \* the AS ranges configure() has not handed out yet
  nextAS,     \* the AS the loop of configure() takes next
  work,       \* subnets still to be addressed from the current pool
  transit,    \* transit_subnets of configure()
  inTransit,  \* configure() has passed the loop over the systems
  area,       \* the range waiting_nets was made of
  pool,       \* waiting_nets: the free blocks
  addr,       \* subnet.address
  ifaces,     \* node.interfaces
  sessions,   \* the neighbors of the BGP configuration of each node
  lab,        \* the networks of lab.json: subnets and their addresses
  filed       \* routers have the configuration files of the BGP overlay

editVars == <<subnets, members, bgp>>
placeVars == <<addr, ifaces>>
output == <<lab, filed>>
vars == <<subnets, members, bgp, systems, configured, ranges, nextAS, work,
          transit, inTransit, area, pool, addr, ifaces, sessions, lab, filed>>

NoLab == [s \in {} |-> NoBlock]

Init ==
  /\ subnets = <<>>
  /\ members = [s \in Subnets |-> <<>>]
  /\ bgp = FALSE
  /\ systems = <<>>
  /\ configured = "no"
  /\ ranges = <<>>
  /\ nextAS = 1
  /\ work = {}
  /\ transit = {}
  /\ inTransit = FALSE
  /\ area = NoBlock
  /\ pool = {}
  /\ addr = [s \in Subnets |-> NoBlock]
  /\ ifaces = [n \in Nodes |-> <<>>]
  /\ sessions = [n \in Nodes |-> {}]
  /\ lab = NoLab
  /\ filed = FALSE

-----------------------------------------------------------------------------
\* Building the network: nothing stops a call after configure() has run.

Editable == configured \in {"no", "yes"}

CreateSubnet(s, ns) ==
  /\ Editable
  /\ s \notin ToSet(subnets)
  /\ subnets' = Append(subnets, s)
  /\ members' = [members EXCEPT ![s] = ns]
  /\ UNCHANGED <<bgp, systems, configured, ranges, nextAS, work, transit,
                 inTransit, area, pool, addr, ifaces, sessions, output>>

\* The subnets that lie inside the nodes As, those that cross its border, and
\* its nodes on the border.
InnerTouching(As) == {s \in ToSet(subnets) : ToSet(members[s]) \cap As # {}}
BorderTouching(As) == {s \in ToSet(subnets) : ToSet(members[s]) \cap As # {}}
Inner(As) == {s \in ToSet(subnets) : ToSet(members[s]) \subseteq As}
Border(As) == {s \in ToSet(subnets) : /\ ToSet(members[s]) \cap As # {}
                                      /\ ~(ToSet(members[s]) \subseteq As)}
Gateways(As) == UNION {ToSet(members[s]) \cap As : s \in Border(As)}

CreateBGP(partition) ==
  /\ Editable
  /\ ~bgp
  /\ bgp' = TRUE
  /\ systems' = [i \in DOMAIN partition |->
                   [inner |-> Inner(partition[i]), border |-> Border(partition[i]),
                    gateways |-> Gateways(partition[i]), subnet |-> NoBlock]]
  /\ UNCHANGED <<subnets, members, configured, ranges, nextAS, work, transit,
                 inTransit, area, pool, addr, ifaces, sessions, output>>

-----------------------------------------------------------------------------
\* Distribution of the range.

\* len is the prefix length that 32 - ceil_power_of_2(n) gives.
Fits(len, n) == /\ len \in Lengths
                /\ Size[len] >= n
                /\ len # Width => Size[len + 1] < n

\* main_net.subnets(diff), diff = Width - len: the range in Size[len] equal parts.
EqualParts(len) ==
  LET l == Main.len + (Width - len)
  IN  [i \in 1..Size[len] |-> [base |-> Main.base + (i - 1) * Size[l], len |-> l]]

StartConfigure ==
  /\ configured = "no"
  /\ IF bgp
     THEN \E len \in Lengths :
            /\ Fits(len, Len(systems) + 1)
            /\ IF Main.len + (Width - len) <= Width
               THEN configured' = "running" /\ ranges' = EqualParts(len)
               ELSE configured' = "raised" /\ ranges' = ranges
     ELSE configured' = "running" /\ ranges' = <<Main>>
  /\ UNCHANGED <<editVars, systems, nextAS, work, transit, inTransit, area, pool,
                 placeVars, sessions, output>>

\* transit_subnets.update(AS['border_subnets'])
LastBorderOnly(i) == systems[i].border
Collected(i) == transit \cup systems[i].border

\* waiting_nets = [subnets.pop()]
TakeRange ==
  /\ ranges' = SubSeq(ranges, 1, Len(ranges) - 1)
  /\ area' = ranges[Len(ranges)]
  /\ pool' = {ranges[Len(ranges)]}

NextSystem ==
  /\ configured = "running" /\ ~inTransit /\ work = {}
  /\ nextAS <= Len(systems)
  /\ TakeRange
  /\ nextAS' = nextAS + 1
  /\ systems' = [systems EXCEPT ![nextAS].subnet = area']
  /\ transit' = Collected(nextAS)
  /\ work' = systems[nextAS].inner
  /\ UNCHANGED <<editVars, configured, inTransit, placeVars, sessions, output>>

StartTransit ==
  /\ configured = "running" /\ ~inTransit /\ work = {}
  /\ nextAS > Len(systems)
  /\ TakeRange
  /\ inTransit' = TRUE
  /\ work' = IF bgp THEN transit ELSE ToSet(subnets)
  /\ UNCHANGED <<editVars, systems, configured, nextAS, transit, placeVars,
                 sessions, output>>

\* The order of the loops: inner subnets as created, all subnets sorted by size
\* (a stable sort), the set of border subnets in any order.
Place(s) == CHOOSE p \in DOMAIN subnets : subnets[p] = s
Turn(s) ==
  /\ s \in work
  /\ ~inTransit => \A t \in work : Place(s) <= Place(t)
  /\ inTransit /\ ~bgp =>
       \A t \in work : \/ Len(members[s]) < Len(members[t])
                       \/ /\ Len(members[s]) = Len(members[t])
                          /\ Place(s) <= Place(t)

\* The smallest free block that holds a block of length len.
WorstFit(b, len) == /\ b.len <= len
                    /\ \A c \in pool : c.len <= len => c.len >= b.len
BestFit(b, len) == /\ b.len <= len
                   /\ \A c \in pool : c.len <= len => c.len <= b.len

\* address_exclude: what is left of b once its first block of length len is taken.
RemainderFromStart(b, len) ==
  {[base |-> b.base + Size[k] - Size[len], len |-> k] : k \in (b.len + 1)..len}
Remainder(b, len) ==
  {[base |-> b.base + Size[k], len |-> k] : k \in (b.len + 1)..len}

\* set_address: one address for the bridge, then one for each node in order.
Bridge(b) == b.base + 1
HostAddressFromBridge(b, i) == b.base + i
HostAddress(b, i) == b.base + 1 + i

AddInterfacesInFront(s, b) ==
  LET ns == members[s]
      ifc(n) == [subnet |-> s, ip |-> HostAddress(b, CHOOSE i \in DOMAIN ns : ns[i] = n)]
  IN  ifaces' = [n \in Nodes |-> IF n \notin ToSet(ns) THEN ifaces[n]
                                 ELSE IF n = ns[1] THEN <<ifc(n)>> \o ifaces[n]
                                 ELSE Append(ifaces[n], ifc(n))]
AddInterfaces(s, b) ==
  LET ns == members[s]
  IN  ifaces' = [n \in Nodes |->
        IF n \in ToSet(ns)
        THEN Append(ifaces[n], [subnet |-> s,
                                ip |-> HostAddress(b, CHOOSE i \in DOMAIN ns : ns[i] = n)])
        ELSE ifaces[n]]

Demand(s) == Len(members[s]) + 3

\* Subnet._choose_and_set_address.
Allocate(s) ==
  /\ configured = "running" /\ Turn(s)
  /\ \E len \in Lengths, b \in pool :
       LET taken == [base |-> b.base, len |-> len]
       IN  /\ Fits(len, Demand(s))
           /\ BestFit(b, len)
           /\ addr' = [addr EXCEPT ![s] = taken]
           /\ pool' = (pool \ {b}) \cup Remainder(b, len)
           /\ AddInterfaces(s, taken)
  /\ work' = work \ {s}
  /\ UNCHANGED <<editVars, systems, configured, ranges, nextAS, transit, inTransit,
                 area, sessions, output>>

\* next() on an exhausted filter: StopIteration leaves configure().
NoBlockFits(s) == \A len \in Lengths : Fits(len, Demand(s)) => \A b \in pool : b.len > len

NoFreeBlock(s) ==
  /\ configured = "running" /\ Turn(s)
  /\ NoBlockFits(s)
  /\ configured' = "raised"
  /\ UNCHANGED <<editVars, systems, ranges, nextAS, work, transit, inTransit, area,
                 pool, placeVars, sessions, output>>

\* BGP_Overlay.configure_node: a gateway peers with every gateway of another
\* system that has an interface in one of its subnets, by the first such one.
SystemOf(n) == CHOOSE i \in DOMAIN systems : n \in systems[i].gateways
Routers == UNION {systems[i].gateways : i \in DOMAIN systems}
SubnetsOf(n) == {ifaces[n][i].subnet : i \in DOMAIN ifaces[n]}
Foreign(n) == {m \in Routers \ {n} : SystemOf(m) # SystemOf(n)}
FirstShared(m, n) ==
  {i \in DOMAIN ifaces[m] : /\ ifaces[m][i].subnet \in SubnetsOf(n)
                            /\ \A j \in 1..(i - 1) : ifaces[m][j].subnet \notin SubnetsOf(n)}
PeersByName(n) == {m \in Foreign(n) : FirstShared(m, n) # {}}
Peers(n) == UNION {{ifaces[m][i].ip : i \in FirstShared(m, n)} : m \in Foreign(n)}

FinishConfigure ==
  /\ configured = "running" /\ inTransit /\ work = {}
  /\ configured' = "yes"
  /\ sessions' = [n \in Nodes |-> IF n \in Routers THEN Peers(n) ELSE {}]
  /\ UNCHANGED <<editVars, systems, ranges, nextAS, work, transit, inTransit, area,
                 pool, placeVars, output>>

\* render() configures only once, and removes the directory before it does anything
\* else.  The routers get their files once: a second time it raises, and so it does
\* if the overlay was declared too late to get AS numbers; lab.json is gone then.
RenderRaises ==
  /\ Routers # {}
  /\ filed \/ \E i \in DOMAIN systems : systems[i].gateways # {} /\ systems[i].subnet = NoBlock
Render ==
  /\ configured = "yes"
  /\ lab' = IF RenderRaises THEN NoLab ELSE [s \in ToSet(subnets) |-> addr[s]]
  /\ filed' = (Routers # {})
  /\ UNCHANGED <<editVars, systems, configured, ranges, nextAS, work, transit,
                 inTransit, area, pool, placeVars, sessions>>

Next ==
  \/ \E s \in Subnets, ns \in NodeLists : CreateSubnet(s, ns)
  \/ \E partition \in Partitions : CreateBGP(partition)
  \/ StartConfigure
  \/ NextSystem
  \/ StartTransit
  \/ \E s \in Subnets : Allocate(s) \/ NoFreeBlock(s)
  \/ FinishConfigure
  \/ Render

Spec == Init /\ [][Next]_vars

-----------------------------------------------------------------------------
\* Properties.

Within(b, c) == c.base <= b.base /\ b.base + Size[b.len] <= c.base + Size[c.len]
Disjoint(b, c) == \/ b.base + Size[b.len] <= c.base
                  \/ c.base + Size[c.len] <= b.base
Placed(s) == addr[s] # NoBlock

System == [inner : SUBSET Subnets, border : SUBSET Subnets, gateways : SUBSET Nodes,
           subnet : Block \cup {NoBlock}]

\* Every variable holds a value of the kind the code keeps in it.
TypeOK ==
  /\ subnets \in Seq(Subnets)
  /\ members \in [Subnets -> Seq(Nodes)]
  /\ bgp \in BOOLEAN
  /\ systems \in Seq(System)
  /\ configured \in {"no", "running", "yes", "raised"}
  /\ ranges \in Seq(Block)
  /\ nextAS \in Nat \ {0}
  /\ work \in SUBSET Subnets
  /\ transit \in SUBSET Subnets
  /\ inTransit \in BOOLEAN
  /\ area \in Block \cup {NoBlock}
  /\ pool \in SUBSET Block
  /\ addr \in [Subnets -> Block \cup {NoBlock}]
  /\ ifaces \in [Nodes -> Seq([subnet : Subnets, ip : Nat])]
  /\ sessions \in [Nodes -> SUBSET Nat]
  /\ filed \in BOOLEAN
  /\ DOMAIN lab \subseteq Subnets
  /\ \A s \in DOMAIN lab : lab[s] \in Block \cup {NoBlock}

\* No address belongs to two subnets, and none lies outside the range of the
\* network, whichever systems and pools the blocks were cut from.
SubnetsDisjoint ==
  /\ \A s \in Subnets : Placed(s) => Within(addr[s], Main)
  /\ \A s, t \in Subnets : s # t /\ Placed(s) /\ Placed(t) => Disjoint(addr[s], addr[t])

\* The strengthening that makes SubnetsDisjoint inductive: the blocks in use, the
\* free blocks of the pool and the ranges not handed out yet share no address.
SpaceDisjoint ==
  /\ SubnetsDisjoint
  /\ \A b \in pool : /\ Within(b, Main)
                     /\ \A c \in pool : b # c => Disjoint(b, c)
                     /\ \A s \in Subnets : Placed(s) => Disjoint(addr[s], b)
  /\ \A i \in DOMAIN ranges :
       /\ Within(ranges[i], Main)
       /\ \A j \in DOMAIN ranges : i # j => Disjoint(ranges[i], ranges[j])
       /\ \A b \in pool : Disjoint(b, ranges[i])
       /\ \A s \in Subnets : Placed(s) => Disjoint(addr[s], ranges[i])
  /\ configured = "no" => pool = {} /\ \A s \in Subnets : ~Placed(s)

\* There is a range for every system still to come and one for the transit
\* subnets: configure() never pops from an empty list.
RangesLeft ==
  /\ configured = "no" => nextAS = 1 /\ ~inTransit /\ (bgp \/ systems = <<>>)
  /\ configured = "running" /\ ~inTransit =>
       nextAS <= Len(systems) + 1 /\ Len(ranges) + nextAS >= Len(systems) + 2

\* Every interface has an address of the current block of its subnet, neither
\* the network's, the broadcast's nor the bridge's, and no other interface has it.
HostAddressesUnique ==
  /\ \A n \in Nodes : \A i \in DOMAIN ifaces[n] :
       LET b == addr[ifaces[n][i].subnet]
       IN  /\ b # NoBlock
           /\ Bridge(b) < ifaces[n][i].ip
           /\ ifaces[n][i].ip < b.base + Size[b.len] - 1
  /\ \A n, m \in Nodes : \A i \in DOMAIN ifaces[n], j \in DOMAIN ifaces[m] :
       <<n, i>> # <<m, j>> => ifaces[n][i].ip # ifaces[m][j].ip

\* An address once given to a subnet is not taken back or given again: no subnet
\* is in two systems, or both inside one and between two.
AddressedOnce == [][\A s \in Subnets : Placed(s) => addr'[s] = addr[s]]_vars

\* configure() runs out of addresses only when the subnet that does not fit asks for
\* more of them than are free in the whole of the current range: taking the smallest
\* sufficient block never leaves enough room in pieces too small to be used.
Addresses(b) == b.base..(b.base + Size[b.len] - 1)
FreeIn(b) == {a \in Addresses(b) : \A t \in Subnets : Placed(t) => a \notin Addresses(addr[t])}
RaisesOnlyWhenFull ==
  configured = "raised" /\ area # NoBlock =>
    \A s \in work, len \in Lengths :
      Turn(s) /\ NoBlockFits(s) /\ Fits(len, Demand(s)) => Cardinality(FreeIn(area)) < Size[len]

\* When configure() returns, every subnet is addressed, except that with BGP
\* those no system touched when the overlay was declared stay without an address.
ConfigureComplete ==
  [][configured = "running" /\ configured' = "yes" =>
       \A s \in ToSet(subnets) : \/ Placed(s)
                                 \/ bgp /\ \A i \in DOMAIN systems :
                                             s \notin systems[i].inner \cup systems[i].border]_vars

\* The range a system announces over BGP holds exactly its inner subnets: no
\* border subnet and no subnet of another system has an address in it.
AnnouncedRangeIsInner ==
  \A i \in DOMAIN systems : systems[i].subnet # NoBlock =>
    \A s \in Subnets : Placed(s) =>
      IF s \in systems[i].inner THEN Within(addr[s], systems[i].subnet)
                                        ELSE Disjoint(addr[s], systems[i].subnet)

\* BGP sessions are configured at both ends: when a router is told to peer with
\* an address, the owner of that address is told to peer with an address of this
\* router in the same subnet (two routers may share several subnets).
SessionsReciprocal ==
  configured = "yes" =>
    \A n \in Nodes : \A ip \in sessions[n] :
      \E m \in Nodes \ {n} : \E i \in DOMAIN ifaces[m], j \in DOMAIN ifaces[n] :
        /\ ifaces[m][i].ip = ip
        /\ ifaces[n][j].subnet = ifaces[m][i].subnet
        /\ ifaces[n][j].ip \in sessions[m]
=============================================================================
