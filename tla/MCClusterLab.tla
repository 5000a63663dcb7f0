----------------------------- MODULE MCClusterLab -----------------------------
(***************************************************************************)
(* Two docker hosts and two labs: a router, two hosts and two networks;    *)
(* and a router, a host and a network with names that the first has too.   *)
(* The prefix of the first lab begins with the prefix of the second.       *)
(***************************************************************************)
EXTENDS ClusterLab, TLC

CONSTANTS lab1, lab2, host1, host2, r, a, b, m1, m2

MCLabs == {lab1, lab2}
MCHosts == {host1, host2}
MCNodes == {r, a, b}
MCRouters == {r}
MCNets == {m1, m2}
MCMembers == (lab1 :> {r, a, b}) @@ (lab2 :> {r, a})
MCLinks ==
  [l \in MCLabs |-> [n \in MCNodes |->
     CASE n = a -> {m1}
       [] n = r -> IF l = lab1 THEN {m1, m2} ELSE {m1}
       [] n = b -> IF l = lab1 THEN {m2} ELSE {}]]
MCExtensions == (lab1 :> {lab1}) @@ (lab2 :> {lab1, lab2})
=============================================================================
