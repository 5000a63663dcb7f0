---------------------------- MODULE MCAddressing ----------------------------
(***************************************************************************)
(* A network of fourteen routers and up to three subnets in a range of 64  *)
(* addresses: with one system of a BGP overlay half of them are for        *)
(* transit, with two or three a quarter, room for two border subnets.      *)
(***************************************************************************)
EXTENDS Addressing, TLC

CONSTANTS s1, s2, s3, n1, n2, n3, n4, n5, n6, n7, n8, n9, n10, n11, n12, n13, n14

MCSubnets == {s1, s2, s3}
MCAll == <<n1, n2, n3, n4, n5, n6, n7, n8, n9, n10, n11, n12, n13, n14>>
MCNodes == {MCAll[i] : i \in DOMAIN MCAll}
\* Subnets of 4, 8, 8, 8, 16 and 32 addresses; two routers can meet in several.
MCNodeLists == {<<n1>>, <<n1, n2>>, <<n2, n3, n1>>, <<n3, n4>>, <<n1, n2, n3, n4, n5, n6>>,
                MCAll}
\* One system; two that meet; three that leave n4 out.
MCPartitions == {<<{n1, n2, n3}>>, <<{n1}, {n2, n3}>>, <<{n1}, {n2}, {n3}>>}
MCWidth == 7
MCSize == [k \in 0..MCWidth |-> 2 ^ (MCWidth - k)]
MCMain == [base |-> 64, len |-> 1]

Symmetry == Permutations(MCSubnets)
=============================================================================
