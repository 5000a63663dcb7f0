------------------------------- MODULE LabStore -------------------------------
(***************************************************************************)
(* What the web interface promises about one lab, whatever the runtime:    *)
(* the requests of lab_control.py (start, restart, stop), each of which    *)
(* may fail, seen through the nodes that run and the hosts among them that *)
(* were let through to their command.  LabControl implements it.           *)
(***************************************************************************)
CONSTANTS
  Nodes, Routers,   \* node names of any lab.json, and those that are routers
  NoDefinition      \* no lab.json

VARIABLES
  phase,   \* how far the last request has come
  defn,    \* the nodes of lab.json
  up,      \* the nodes that run
  ran      \* the hosts among them that were let through to their command

vars == <<phase, defn, up, ran>>

\* "broken": the last request failed, or its process ended.
Phases == {"stopped", "starting", "running", "stopping", "broken"}

Init == phase = "stopped" /\ up = {} /\ ran = {}
        /\ defn \in (SUBSET Nodes) \cup {NoDefinition}

\* A lab is defined anew only when it is stopped.
Define(d) ==
  /\ phase = "stopped"
  /\ defn' = d
  /\ UNCHANGED <<phase, up, ran>>

Begin(from, to) ==
  /\ phase \in from
  /\ phase' = IF defn = NoDefinition THEN "broken" ELSE to
  /\ UNCHANGED <<defn, up, ran>>

\* A lab is started from nothing: a request that finds a row first stops it.
BeginStart == up = {} /\ Begin({"stopped", "stopping"}, "starting")
BeginStop == Begin({"running", "broken"}, "stopping")

Create(n) ==
  /\ phase = "starting" /\ n \in defn \ up
  /\ up' = up \cup {n}
  /\ UNCHANGED <<phase, defn, ran>>

Remove(n) ==
  /\ phase = "stopping" /\ n \in up
  /\ up' = up \ {n} /\ ran' = ran \ {n}
  /\ UNCHANGED <<phase, defn>>

Finish(from, to, nodes) ==
  /\ phase = from /\ up = nodes
  /\ phase' = to
  /\ UNCHANGED <<defn, up, ran>>

StartReturns == Finish("starting", "running", defn)
StopReturns == Finish("stopping", "stopped", {})

Fail ==
  /\ phase \in {"starting", "stopping"}
  /\ phase' = "broken"
  /\ UNCHANGED <<defn, up, ran>>

\* The entrypoint of a host finds lab.sock; never while the lab is starting.
Run(n) ==
  /\ phase # "starting" /\ n \in up \ Routers
  /\ ran' = ran \cup {n}
  /\ UNCHANGED <<phase, defn, up>>

Next ==
  \/ \E d \in (SUBSET Nodes) \cup {NoDefinition} : Define(d)
  \/ BeginStart
  \/ BeginStop
  \/ \E n \in Nodes : Create(n) \/ Remove(n) \/ Run(n)
  \/ StartReturns
  \/ StopReturns
  \/ Fail

Spec == Init /\ [][Next]_vars

\* What a client of the interface may rely on: a lab reported stopped or that
\* never started runs nothing, one reported started runs what was defined, and
\* no host runs its command before the start has returned.
Consistent ==
  /\ phase \in Phases
  /\ defn \in (SUBSET Nodes) \cup {NoDefinition}
  /\ up \subseteq Nodes /\ ran \subseteq up \ Routers
  /\ phase = "stopped" => up = {}
  /\ phase = "running" => up = defn
  /\ phase = "starting" => ran = {} /\ defn # NoDefinition /\ up \subseteq defn
  /\ up # {} => defn # NoDefinition /\ up \subseteq defn
=============================================================================
