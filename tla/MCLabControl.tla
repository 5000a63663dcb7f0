----------------------------- MODULE MCLabControl -----------------------------
(***************************************************************************)
(* Two versions of a lab: a router, two networks and a host in each; and   *)
(* the same without one network and its host.  The name of that network is *)
(* part of the name of the other.                                          *)
(***************************************************************************)
EXTENDS LabControl

CONSTANTS r, h1, h2, net, net1, CliPrefix

MCNodes == {r, h1, h2}
MCRouters == {r}
MCNets == {net, net1}
MCMatches == [m \in MCNets |-> IF m = net THEN {net, net1} ELSE {m}]

Both == [nodes |-> {r, h1, h2}, nets |-> {net, net1},
         links |-> [n \in MCNodes |-> IF n = r THEN {net, net1}
                                      ELSE IF n = h1 THEN {net1} ELSE {net}]]
One == [nodes |-> {r, h1}, nets |-> {net1},
        links |-> [n \in MCNodes |-> IF n = h2 THEN {} ELSE {net1}]]
MCConfigs == {Both, One}

\* Two copies of one lab at once: a router and a host.
MCOneConfig == {[nodes |-> {r, h1}, nets |-> {net}, links |-> [n \in {r, h1} |-> {net}]]}
MCTwoNodes == {r, h1}
MCOneNet == {net}
MCOneMatch == [m \in MCOneNet |-> {m}]

WebOnly == {}
Copy == {CliPrefix}
=============================================================================
