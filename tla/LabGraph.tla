------------------------------- MODULE LabGraph -------------------------------
(***************************************************************************)
(* lab2graph.from_config: the graph that the page of a lab draws of its    *)
(* lab.json, in one pass over the networks of the nodes.                   *)
(***************************************************************************)
EXTENDS LabDefinition

\* A network of three nodes or more becomes a node of the graph; its id begins with
\* "__", which no node's name is taken to do.
PseudoNode(net) == <<0, 0, net>>

\* first: the first node of each network, or "False" once it has two; possible: the
\* edge of a network that has two nodes so far; nodes, edges: the graph.
EmptyGraph == [first |-> <<>>, possible |-> <<>>, nodes |-> <<>>, edges |-> <<>>]

Without(f, x) == [y \in DOMAIN f \ {x} |-> f[y]]
With(f, x, v) == [y \in DOMAIN f \cup {x} |-> IF y = x THEN v ELSE f[y]]

Seen(g, name, net) == [g EXCEPT !.first = With(@, net, <<name>>)]
Pair(g, name, net) ==
  [g EXCEPT !.possible = With(@, net, <<g.first[net][1], name>>), !.first[net] = <<>>]
StarKeepingEdge(g, name, net) ==
  [g EXCEPT !.nodes = Append(@, PseudoNode(net)),
            !.edges = @ \o <<<<g.possible[net][1], PseudoNode(net)>>,
                             <<g.possible[net][2], PseudoNode(net)>>, <<name, PseudoNode(net)>>>>]
Star(g, name, net) ==
  [g EXCEPT !.nodes = Append(@, PseudoNode(net)),
            !.edges = @ \o <<<<g.possible[net][1], PseudoNode(net)>>,
                             <<g.possible[net][2], PseudoNode(net)>>, <<name, PseudoNode(net)>>>>,
            !.possible = Without(@, net)]
Ray(g, name, net) == [g EXCEPT !.edges = Append(@, <<name, PseudoNode(net)>>)]

Visit(g, visit) ==
  LET name == visit[1]
      net == visit[2]
  IN  IF net \notin DOMAIN g.first THEN Seen(g, name, net)
      ELSE IF g.first[net] # <<>> THEN Pair(g, name, net)
      ELSE IF net \in DOMAIN g.possible THEN Star(g, name, net)
      ELSE Ray(g, name, net)

\* The networks are independent of each other: any order of those of a node will do.
Visits(entries) ==
  FlattenSeq([i \in DOMAIN entries |->
    LET names == SetToSeq(DOMAIN entries[i].networks)
    IN  [j \in DOMAIN names |-> <<entries[i].name, names[j]>>]])

Drawing(start, visits) ==
  LET graph[i \in 0..Len(visits)] == IF i = 0 THEN start ELSE Visit(graph[i - 1], visits[i])
  IN  graph[Len(visits)]

from_config(json) ==
  LET names == [i \in DOMAIN json.entries |-> json.entries[i].name]
      g == Drawing([EmptyGraph EXCEPT !.nodes = names], Visits(json.entries))
      left == SetToSeq(DOMAIN g.possible)
  IN  [nodes |-> g.nodes, edges |-> g.edges \o [i \in DOMAIN left |-> g.possible[left[i]]]]

-----------------------------------------------------------------------------
\* Whatever the order of the nodes, each network of two nodes is one edge between
\* them, each of three or more is one node of the graph with an edge from each of its
\* members, and there is nothing else.
GraphFaithful ==
  LET g == from_config(lab)
      members(x) == {e.name : e \in {f \in Entries : x \in DOMAIN f.networks}}
      used == UNION {DOMAIN e.networks : e \in Entries}
      stars == {x \in used : Cardinality(members(x)) > 2}
      pairs == {x \in used : Cardinality(members(x)) = 2}
  IN  /\ IsInjective(g.nodes)
      /\ ToSet(g.nodes) = {e.name : e \in Entries} \cup {PseudoNode(x) : x \in stars}
      /\ {{e[1], e[2]} : e \in ToSet(g.edges)} =
           {members(x) : x \in pairs}
             \cup UNION {{{a, PseudoNode(x)} : a \in members(x)} : x \in stars}
      /\ Len(g.edges) = Cardinality(pairs)
           + Cardinality(UNION {{<<a, x>> : a \in members(x)} : x \in stars})
=============================================================================
