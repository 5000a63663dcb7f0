---------------------------- MODULE MCLabDefinition ----------------------------
(***************************************************************************)
(* Scripts that have made two or three nodes of the main network, the last *)
(* of an image of its own.                                                 *)
(***************************************************************************)
EXTENDS LabGraph

Made(count) ==
  [n \in 1..count |->
     [name |-> <<n>>, type |-> IF n = count THEN "PC" ELSE "None", ifcs |-> <<>>]]

MCInit ==
  \E count \in {2, 3} :
    /\ nodes = Made(count)
    /\ nets = <<[name |-> 0, outer |-> 0, gateway |-> NoGateway, nodes |-> [n \in 1..count |-> n]]>>
    /\ subnets = <<>> /\ overlays = <<>>
    /\ configured = FALSE
    /\ lab = NoLab
    /\ raised = FALSE

MCSpec == MCInit /\ [][Next]_vars
=============================================================================
