----------------------------- MODULE MCMonitoring -----------------------------
(***************************************************************************)
(* Two hosts and one graph page, two runs of the lab.                      *)
(***************************************************************************)
EXTENDS Monitoring

CONSTANTS h1, h2, page, green, red

MCHosts == {h1, h2}
MCViewers == {page}
MCStatuses == {green, red}
MCFalsy == {green}
=============================================================================
