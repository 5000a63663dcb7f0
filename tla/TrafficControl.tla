---------------------------- MODULE TrafficControl ----------------------------
(***************************************************************************)
(* The limits on the network interfaces of the containers of one lab: the  *)
(* handlers of net_control.py (/tcset, /tcdel and what they read back from *)
(* tcshow), tcset_api and the loop of start_lab that calls it, and         *)
(* routers_cache, which makes routers red in the graph.                    *)
(*                                                                         *)
(* The handlers never leave the event loop between reading the rules of a  *)
(* container and setting them.  The tools (tcset, tcdel) may fail, or not  *)
(* end within 25 seconds.  Times are in microseconds, rates in kbit/s;     *)
(* "loss" stands for loss, corrupt and duplicate, which are alike.         *)
(***************************************************************************)
EXTENDS Naturals, FiniteSets

CONSTANTS
  Nodes,
  Routers,    \* isRouter in lab.json
  Quagga,     \* containers of the image madt/quagga
  Requests,   \* data of a /tcset request, and its "update"
  LabOptions, \* what lab.json may hold at a start: the tc_options of each node
  Defaults,   \* tc_options a lab may be started with
  MayFail     \* tools may fail

Keys == {"rate", "delay", "distro", "loss", "reorder"}
Times == {"delay", "distro"}
Percents == {"loss", "reorder"}

IsOptions(o) == DOMAIN o \subseteq Keys /\ \A k \in DOMAIN o : o[k] \in Nat

ASSUME RoutersAssumption == Routers \subseteq Nodes /\ Quagga \subseteq Routers
ASSUME RequestsAssumption ==
  \A q \in Requests : q.update \in BOOLEAN /\ IsOptions(q.data)
ASSUME OptionsAssumption ==
  /\ \A own \in LabOptions : DOMAIN own = Nodes /\ \A n \in Nodes : IsOptions(own[n])
  /\ \A d \in Defaults : IsOptions(d)
ASSUME MayFailAssumption == MayFail \in BOOLEAN

VARIABLES
  phase,   \* of the lab: "stopped", "starting" (applying options) or "started"
  default, \* default_tc_options of the start
  options, \* tc_options of each node in the lab.json that was loaded
  todo,    \* containers the loop of start_lab has not come to
  rules,   \* the limits in force on each container; 0 is no limit
  wanted,  \* history: the limits that the requests that took effect ask for
  lost,    \* history: why the limits of each container may differ from those wanted
  killed   \* routers_cache: "faded" is an entry older than its 300 seconds

vars == <<phase, default, options, todo, rules, wanted, lost, killed>>

Unlimited == [k \in Keys |-> 0]
NoOptions == [k \in {} |-> 0]
Reasons == {"failed", "deleted", "rounded", "unfinished"}

Init ==
  /\ phase = "stopped"
  /\ default = NoOptions
  /\ options = [n \in Nodes |-> NoOptions]
  /\ todo = {}
  /\ rules = [n \in Nodes |-> Unlimited]
  /\ wanted = [n \in Nodes |-> Unlimited]
  /\ lost = [n \in Nodes |-> {}]
  /\ killed = [n \in Nodes |-> "no"]

\* What tcset sets of the options on its command line.
Limits(o) == [k \in Keys |-> IF k \in DOMAIN o THEN o[k] ELSE 0]

\* A tool that fails leaves what there was or nothing; one that does not end in
\* time may have done its work all the same.
Left(old, new) == {<<old, "error">>, <<Unlimited, "error">>, <<old, "timeout">>,
                   <<Unlimited, "timeout">>, <<new, "timeout">>}
Outcomes(old, new) == {<<new, "ok">>} \cup IF MayFail THEN Left(old, new) ELSE {}

-----------------------------------------------------------------------------
\* get_container_rules: tcshow prints a time in the largest unit that it is one
\* of, with a decimal point; what follows the point is dropped.

Unit(t) == IF t >= 1000000 THEN 1000000 ELSE IF t >= 1000 THEN 1000 ELSE 1
\* "s" looked for before "ms" and "us".
ReadSeconds(k, v) == IF k \in Times THEN 1000000 * (v \div Unit(v)) ELSE v
Read(k, v) == IF k \in Times THEN Unit(v) * (v \div Unit(v)) ELSE v
ContainerRules(n) == [k \in Keys |-> Read(k, rules[n][k])]

-----------------------------------------------------------------------------
\* /tcset.

\* A percentage of any size.
GivenUnchecked(data, k) ==
  /\ k \in DOMAIN data
  /\ k \notin Percents => data[k] > 0

Given(data, k) ==
  /\ k \in DOMAIN data
  /\ IF k \in Percents THEN data[k] <= 100 ELSE data[k] > 0

\* The options on the command line: those given, and with "update" the old ones
\* for the others.
TcsetOptions(q, old) ==
  LET kept == IF q.update THEN {k \in Keys : k = "rate" => old[k] > 0} ELSE {}
  IN  [k \in kept \cup {j \in Keys : Given(q.data, j)} |->
        IF Given(q.data, k) THEN q.data[k] ELSE old[k]]

\* Reordering is not looked at.
RefusedDistro(q, old) ==
  \/ ~Given(q.data, "delay") /\ Given(q.data, "distro")
  \/ DOMAIN TcsetOptions(q, old) = {}

\* Answered 400: distribution and reordering need a delay in the same request.
Refused(q, old) ==
  \/ /\ ~Given(q.data, "delay")
     /\ \/ Given(q.data, "distro")
        \/ Given(q.data, "reorder") /\ q.data["reorder"] > 0
  \/ DOMAIN TcsetOptions(q, old) = {}

\* tcdel --all is run instead of tcset; the rate is not among the keys.
AllZero(data) == \A k \in DOMAIN data \ {"rate", "distro"} : data[k] = 0

\* --overwrite without the options an update keeps.
CommandedAlone(q, old) ==
  IF AllZero(q.data) THEN Unlimited
  ELSE Limits([k \in {j \in Keys : Given(q.data, j)} |-> q.data[k]])

Commanded(q, old) ==
  IF AllZero(q.data) THEN Unlimited ELSE Limits(TcsetOptions(q, old))

\* What the request asks for: an update leaves what it does not give.
Asked(q, before) ==
  [k \in Keys |-> IF Given(q.data, k) THEN q.data[k]
                  ELSE IF q.update THEN before[k] ELSE 0]

\* All routers of lab.json but those of the overlays.
MarkGateway(n) == killed' = [killed EXCEPT ![n] = IF n \notin Quagga THEN "yes" ELSE @]

Mark(n) == killed' = [killed EXCEPT ![n] = IF n \in Quagga THEN "yes" ELSE @]

\* Why what is in force after request q may differ from what it asks for.  A
\* tool failed; limits were deleted although the request sets or keeps some; an
\* update wrote back a time below the precision tcshow has.  A request that gives
\* all limits anew makes good what was lost before.
Failed(answer) == IF answer # "ok" THEN {"failed"} ELSE {}
Deleted(q, before) ==
  IF AllZero(q.data) /\ Asked(q, before) # Unlimited THEN {"deleted"} ELSE {}
Rounded(q, now) ==
  IF q.update /\ ~AllZero(q.data) /\ \E k \in Keys : ~Given(q.data, k) /\ Read(k, now[k]) # now[k]
  THEN {"rounded"} ELSE {}
Remaining(n, q, answer) ==
  IF answer = "ok" /\ (AllZero(q.data) \/ ~q.update) THEN {} ELSE lost[n]

Tcset(n, q) ==
  LET old == ContainerRules(n)
      new == Commanded(q, old)
  IN  /\ phase = "started"
      /\ ~Refused(q, old)
      /\ \E outcome \in Outcomes(rules[n], new) :
           /\ rules' = [rules EXCEPT ![n] = outcome[1]]
           /\ wanted' = IF outcome[1] = new
                        THEN [wanted EXCEPT ![n] = Asked(q, @)] ELSE wanted
           /\ lost' = [lost EXCEPT ![n] = Remaining(n, q, outcome[2]) \cup Failed(outcome[2])
                                            \cup Deleted(q, wanted[n]) \cup Rounded(q, rules[n])]
           /\ IF outcome[2] = "ok" /\ ~AllZero(q.data) THEN Mark(n) ELSE UNCHANGED killed
      /\ UNCHANGED <<phase, default, options, todo>>

\* /tcdel answers OK and forgets the router whatever tcdel returns; it is not
\* reached after a timeout.
Tcdel(n) ==
  /\ phase = "started"
  /\ \E outcome \in Outcomes(rules[n], Unlimited) :
       /\ rules' = [rules EXCEPT ![n] = outcome[1]]
       /\ wanted' = [wanted EXCEPT ![n] = IF outcome[1] = Unlimited THEN Unlimited ELSE @]
       /\ lost' = [lost EXCEPT ![n] = IF outcome[2] = "ok" THEN {} ELSE @ \cup {"failed"}]
       /\ killed' = IF outcome[2] # "timeout" /\ n \in Quagga
                    THEN [killed EXCEPT ![n] = "no"] ELSE killed
  /\ UNCHANGED <<phase, default, options, todo>>

\* The entry of the cache is gone after 300 seconds.
Fade(n) ==
  /\ killed[n] = "yes"
  /\ killed' = [killed EXCEPT ![n] = "faded"]
  /\ UNCHANGED <<phase, default, options, todo, rules, wanted, lost>>

-----------------------------------------------------------------------------
\* start_lab, from the containers it has created anew to its return.

Start(d, own) ==
  /\ phase # "starting"
  /\ phase' = "starting"
  /\ default' = d
  /\ options' = own
  /\ todo' = Nodes
  /\ rules' = [n \in Nodes |-> Unlimited]
  /\ wanted' = [n \in Nodes |-> Unlimited]
  /\ lost' = [n \in Nodes |-> {}]
  /\ UNCHANGED killed

\* tcset_api: negative numbers aside, every option counts, also a delay of 0.
OptionsOf(n) == IF options[n] # NoOptions THEN options[n] ELSE default
Valid(o) == {k \in DOMAIN o : k \in Percents => o[k] <= 100}
RefusedAtStart(o) ==
  \/ "delay" \notin DOMAIN o /\ Valid(o) \cap {"distro", "reorder"} # {}
  \/ Valid(o) = {}

\* A refusal and an error are only printed; a timeout ends the start, and no router
\* is marked for it.
Unfinished(n) ==
  [m \in Nodes |-> lost[m] \cup {"unfinished"} \cup IF m = n THEN {"failed"} ELSE {}]
ApplyOptions(n) ==
  LET o == OptionsOf(n)
      new == Limits([k \in Valid(o) |-> o[k]])
  IN  /\ phase = "starting" /\ n \in todo
      /\ IF o = NoOptions \/ RefusedAtStart(o)
         THEN todo' = todo \ {n} /\ UNCHANGED <<phase, rules, wanted, lost>>
         ELSE \E outcome \in Outcomes(Unlimited, new) :
                /\ rules' = [rules EXCEPT ![n] = outcome[1]]
                /\ wanted' = [wanted EXCEPT ![n] = IF outcome[1] = new THEN new ELSE @]
                /\ IF outcome[2] = "timeout"
                   THEN phase' = "started" /\ todo' = {} /\ lost' = Unfinished(n)
                   ELSE /\ phase' = phase /\ todo' = todo \ {n}
                        /\ lost' = [lost EXCEPT ![n] = Failed(outcome[2])]
      /\ UNCHANGED <<default, options, killed>>

\* restart_lab_api marks the routers with options of their own.
KilledRouters == {n \in Routers : options[n] # NoOptions}
StartReturns ==
  /\ phase = "starting" /\ todo = {}
  /\ phase' = "started"
  /\ killed' = [n \in Nodes |-> IF n \in KilledRouters THEN "yes" ELSE killed[n]]
  /\ UNCHANGED <<default, options, todo, rules, wanted, lost>>

\* The containers go; routers_cache is not touched.
Stop ==
  /\ phase = "started"
  /\ phase' = "stopped"
  /\ rules' = [n \in Nodes |-> Unlimited]
  /\ wanted' = [n \in Nodes |-> Unlimited]
  /\ lost' = [n \in Nodes |-> {}]
  /\ UNCHANGED <<default, options, todo, killed>>

Next ==
  \/ \E n \in Nodes : \/ \E q \in Requests : Tcset(n, q)
                      \/ Tcdel(n)
                      \/ Fade(n)
                      \/ ApplyOptions(n)
  \/ \E d \in Defaults, own \in LabOptions : Start(d, own)
  \/ StartReturns
  \/ Stop

Spec == Init /\ [][Next]_vars

-----------------------------------------------------------------------------
\* Properties.

RuleSet == {limits \in [Keys -> Nat] : \A k \in Percents : limits[k] <= 100}

\* Every variable keeps its type: no percentage is above 100.
TypeOK ==
  /\ phase \in {"stopped", "starting", "started"}
  /\ default \in Defaults \cup {NoOptions}
  /\ options \in LabOptions \cup {[n \in Nodes |-> NoOptions]}
  /\ todo \subseteq Nodes
  /\ rules \in [Nodes -> RuleSet]
  /\ wanted \in [Nodes -> RuleSet]
  /\ lost \in [Nodes -> SUBSET Reasons]
  /\ killed \in [Nodes -> {"no", "yes", "faded"}]

\* Whatever was asked, kept over updates, reset or has failed: no container is
\* limited in a way, or more, than the requests in effect ask for.  An update may
\* lose what lies below the unit tcshow prints, and never adds any.
InForceWasAsked ==
  \A n \in Nodes, k \in Keys : rules[n][k] <= wanted[n][k]

\* netem reorders, and spreads delays, only where there is a delay: no sequence
\* of requests leaves one without the other.
DelayUnderneath ==
  \A n \in Nodes :
    rules[n]["reorder"] > 0 \/ rules[n]["distro"] > 0 => rules[n]["delay"] > 0

\* Only three things ever set other limits than a request asks for: a tool that
\* failed, a request whose limits the code deletes, and an update of a time that
\* tcshow does not print exactly.  Otherwise, after any sequence of requests, what
\* is in force is just what was asked (net_test.py checks two requests).
AsAsked == \A n \in Nodes : lost[n] \subseteq {"unfinished"} => rules[n] = wanted[n]

\* docs/guide.rst:84-86: on the page of a container one can set the bandwidth, the
\* delay and the percentages, and the reset button resets all: with tools that do
\* not fail, the limits are those of the requests that were answered OK.
PanelObeyed == rules = wanted

\* A router of an overlay with limits of its own is red, or was within the last
\* 300 seconds of its limits, unless a tool has failed on it or a timeout has ended
\* the start before it could be marked.
LimitedRoutersRed ==
  phase = "started" => \A n \in Quagga :
    \/ rules[n] \in {Unlimited} \cup {Limits(d) : d \in Defaults}
    \/ killed[n] # "no"
    \/ lost[n] \cap {"failed", "unfinished"} # {}
=============================================================================
