--------------------------- MODULE MCClusterSockets ---------------------------
(***************************************************************************)
(* Two hosts and two labs: one node that is a host, and one router.  The   *)
(* prefix of the first lab begins with the prefix of the second.  Nothing  *)
(* of the sockets depends on the networks of the nodes: they have none.    *)
(***************************************************************************)
EXTENDS ClusterSockets, TLC

CONSTANTS lab1, lab2, host1, host2, r, a

MCLabs == {lab1, lab2}
MCHosts == {host1, host2}
MCNodes == {r, a}
MCRouters == {r}
MCNets == {}
MCMembers == (lab1 :> {a}) @@ (lab2 :> {r})
MCExtensions == (lab1 :> {lab1}) @@ (lab2 :> {lab1, lab2})
MCLinks == [l \in MCLabs |-> [n \in MCNodes |-> {}]]
MCPortsLike == [h \in MCHosts |-> {h}]
=============================================================================
