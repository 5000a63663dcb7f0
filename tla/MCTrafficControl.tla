--------------------------- MODULE MCTrafficControl ---------------------------
(***************************************************************************)
(* A router of an overlay, with or without options of its own in lab.json, *)
(* and a gateway.  The requests are those of the panel, which gives every  *)
(* key, and partial ones as the tests send them, with and without          *)
(* "update".                                                               *)
(***************************************************************************)
EXTENDS TrafficControl

CONSTANTS r, g

MCNodes == {r, g}
One == {r}
MCRouters == Nodes \cap {r, g}
MCQuagga == {r}

Panel(rate, delay, distro, loss, reorder) ==
  [update |-> FALSE,
   data |-> [rate |-> rate, delay |-> delay, distro |-> distro,
             loss |-> loss, reorder |-> reorder]]
Partial(update, data) == [update |-> update, data |-> data]

Whole == {[delay |-> 20000], [delay |-> 2000000, distro |-> 500], [loss |-> 50],
          [delay |-> 20000, reorder |-> 70], [delay |-> 20000, rate |-> 1]}
Exact == {Partial(u, d) : u \in BOOLEAN, d \in Whole}
         \cup {Panel(1, 20000, 0, 0, 0), Panel(0, 0, 0, 0, 0), Panel(0, 0, 0, 50, 0)}

\* What the tests do not send: fractions of the unit, percentages out of range,
\* zeros, and options without the delay they need.
Odd == {[delay |-> 1500], [delay |-> 2500000, distro |-> 1500], [loss |-> 101],
        [loss |-> 0], [rate |-> 1], [reorder |-> 70], [distro |-> 1000],
        [delay |-> 0, loss |-> 50], [delay |-> 500, reorder |-> 70]}
All == {Partial(u, d) : u \in BOOLEAN, d \in Odd} \cup {Partial(FALSE, [loss |-> 50])}

None == [k \in {} |-> 0]
Plain == [n \in Nodes |-> IF n = g THEN [reorder |-> 20] ELSE None]
Delayed == [n \in Nodes |-> IF n = r THEN [delay |-> 1500, reorder |-> 20] ELSE [loss |-> 10]]
MCLabOptions == {Plain, Delayed}
MCDefaults == {None, [delay |-> 100000]}

\* The panel with nothing but a bandwidth.
OnlyRate == Exact \cup {Panel(1, 0, 0, 0, 0)}
Every ==
  All \cup {Panel(1, 0, 0, 0, 0), Panel(0, 0, 0, 0, 0), Panel(1, 20000, 0, 50, 0)}
      \cup {Partial(u, [delay |-> 20000, reorder |-> 70]) : u \in BOOLEAN}
=============================================================================
