------------------------ MODULE TrafficControl_proofs ------------------------
(***************************************************************************)
(* Proofs about TrafficControl for all requests and options: the limits in *)
(* force never exceed those asked for, and what needs a delay has one; but *)
(* for three named causes they are just what was asked; and routers with   *)
(* limits are red unless a tool has failed on them.                        *)
(***************************************************************************)
EXTENDS TrafficControl, TLAPS

\* What tcshow prints never reads as more than what is in force, and never as
\* nothing when there is something.
LEMMA ReadBelow ==
  ASSUME NEW k \in Keys, NEW v \in Nat
  PROVE  /\ Read(k, v) \in Nat /\ Read(k, v) <= v
         /\ v > 0 => Read(k, v) > 0
<1>1. CASE k \notin Times
  BY <1>1 DEF Read
<1>2. CASE k \in Times /\ v >= 1000000
  <2>1. Read(k, v) = 1000000 * (v \div 1000000)
    BY <1>2 DEF Read, Unit
  <2>2. QED
    BY <1>2, <2>1
<1>3. CASE k \in Times /\ v < 1000000 /\ v >= 1000
  <2>1. Read(k, v) = 1000 * (v \div 1000)
    BY <1>3 DEF Read, Unit
  <2>2. QED
    BY <1>3, <2>1
<1>4. CASE k \in Times /\ v < 1000
  <2>1. Read(k, v) = 1 * (v \div 1)
    BY <1>4 DEF Read, Unit
  <2>2. QED
    BY <1>4, <2>1
<1>5. QED
  BY <1>1, <1>2, <1>3, <1>4

LEMMA RulesRead ==
  ASSUME TypeOK, NEW n \in Nodes
  PROVE  /\ ContainerRules(n) \in RuleSet
         /\ \A k \in Keys : /\ ContainerRules(n)[k] <= rules[n][k]
                            /\ rules[n][k] > 0 => ContainerRules(n)[k] > 0
<1>1. rules[n] \in [Keys -> Nat] /\ \A k \in Percents : rules[n][k] <= 100
  BY DEF TypeOK, RuleSet
<1>2. \A k \in Keys : /\ Read(k, rules[n][k]) \in Nat /\ Read(k, rules[n][k]) <= rules[n][k]
                      /\ rules[n][k] > 0 => Read(k, rules[n][k]) > 0
  BY <1>1, ReadBelow
<1>3. \A k \in Percents : k \in Keys /\ Read(k, rules[n][k]) = rules[n][k]
  BY DEF Percents, Keys, Times, Read
<1>4. QED
  BY <1>1, <1>2, <1>3 DEF ContainerRules, RuleSet

LEMMA LimitsTyped ==
  ASSUME NEW o, IsOptions(o), \A k \in DOMAIN o : k \in Percents => o[k] <= 100
  PROVE  Limits(o) \in RuleSet
BY DEF Limits, RuleSet, IsOptions, Percents, Keys

LEMMA UnlimitedTyped == Unlimited \in RuleSet /\ \A k \in Keys : Unlimited[k] = 0
BY DEF Unlimited, RuleSet, Percents, Keys

LEMMA CommandedTyped ==
  ASSUME NEW q \in Requests, NEW old \in RuleSet
  PROVE  Commanded(q, old) \in RuleSet
<1>1. IsOptions(TcsetOptions(q, old))
      /\ \A k \in DOMAIN TcsetOptions(q, old) :
           k \in Percents => TcsetOptions(q, old)[k] <= 100
  BY RequestsAssumption DEF TcsetOptions, IsOptions, RuleSet, Given, Keys, Percents
<1>2. QED
  BY <1>1, LimitsTyped, UnlimitedTyped DEF Commanded

LEMMA AskedTyped ==
  ASSUME NEW q \in Requests, NEW before \in RuleSet
  PROVE  Asked(q, before) \in RuleSet
BY RequestsAssumption DEF Asked, IsOptions, RuleSet, Given, Keys, Percents

\* The options start_lab applies to a node.
LEMMA StartTyped ==
  ASSUME TypeOK, NEW n \in Nodes
  PROVE  /\ IsOptions(OptionsOf(n))
         /\ Limits([k \in Valid(OptionsOf(n)) |-> OptionsOf(n)[k]]) \in RuleSet
<1>1. IsOptions(NoOptions)
  BY DEF IsOptions, NoOptions
<1>2. IsOptions(OptionsOf(n))
  BY <1>1, OptionsAssumption DEF OptionsOf, TypeOK
<1>3. IsOptions([k \in Valid(OptionsOf(n)) |-> OptionsOf(n)[k]])
  BY <1>2 DEF IsOptions, Valid
<1>4. QED
  BY <1>2, <1>3, LimitsTyped DEF Valid

\* Whatever the tool does, what it leaves is what there was, nothing, or new.
LEMMA OutcomesAre ==
  ASSUME NEW old, NEW new, NEW outcome \in Outcomes(old, new)
  PROVE  outcome[1] \in {old, Unlimited, new}
BY DEF Outcomes, Left

\* What two copies of the limits say of each other, and the limits of each other.
Follows(now, asked) == \A k \in Keys : now[k] <= asked[k]
Underneath(now) == now["reorder"] > 0 \/ now["distro"] > 0 => now["delay"] > 0

\* A request answered from rules within what was wanted stays within it.
LEMMA CommandedFollows ==
  ASSUME NEW q \in Requests, NEW old \in RuleSet, NEW before \in RuleSet,
         Follows(old, before)
  PROVE  Follows(Commanded(q, old), Asked(q, before))
<1>1. CASE AllZero(q.data)
  <2>1. Asked(q, before) \in RuleSet
    BY AskedTyped
  <2>2. QED
    BY <1>1, <2>1, UnlimitedTyped DEF Commanded, Follows, RuleSet
<1>2. CASE ~AllZero(q.data)
  <2>1. SUFFICES ASSUME NEW k \in Keys
                 PROVE  Limits(TcsetOptions(q, old))[k] <= Asked(q, before)[k]
    BY <1>2 DEF Commanded, Follows
  <2>2. /\ Given(q.data, k) => q.data[k] \in Nat
        /\ old[k] \in Nat /\ before[k] \in Nat /\ old[k] <= before[k]
    BY RequestsAssumption DEF Given, IsOptions, RuleSet, Follows
  <2>3. CASE Given(q.data, k)
    BY <2>2, <2>3 DEF Limits, TcsetOptions, Asked
  <2>4. CASE ~Given(q.data, k)
    BY <2>2, <2>4, RequestsAssumption DEF Limits, TcsetOptions, Asked
  <2>5. QED
    BY <2>3, <2>4
<1>3. QED
  BY <1>1, <1>2

\* A request that is not refused keeps a delay under what needs one.
LEMMA CommandedUnderneath ==
  ASSUME NEW q \in Requests, NEW old \in RuleSet, Underneath(old), ~Refused(q, old)
  PROVE  Underneath(Commanded(q, old))
<1>1. CASE AllZero(q.data)
  BY <1>1 DEF Commanded, Underneath, Unlimited, Keys
<1>2. CASE ~AllZero(q.data)
  <2> DEFINE new == Limits(TcsetOptions(q, old))
  <2>1. \A k \in Keys : new[k] = IF Given(q.data, k) THEN q.data[k]
                                 ELSE IF q.update THEN old[k] ELSE 0
    BY RequestsAssumption DEF Limits, TcsetOptions, RuleSet
  <2>2. Given(q.data, "delay") => new["delay"] > 0
    BY <2>1 DEF Given, Percents, Keys
  <2>3. ~Given(q.data, "delay") =>
          /\ ~Given(q.data, "distro")
          /\ Given(q.data, "reorder") => ~(q.data["reorder"] > 0)
    BY DEF Refused
  <2>4. Underneath(new)
    BY <2>1, <2>2, <2>3 DEF Underneath, Keys, RuleSet
  <2>5. QED
    BY <1>2, <2>4 DEF Commanded
<1>3. QED
  BY <1>1, <1>2

\* A delay in tc_options is a delay: the code accepts "delay": 0 as one.
RealDelays ==
  /\ \A o \in Defaults : "delay" \in DOMAIN o => o["delay"] > 0
  /\ \A own \in LabOptions, n \in Nodes : "delay" \in DOMAIN own[n] => own[n]["delay"] > 0

LEMMA StartUnderneath ==
  ASSUME TypeOK, RealDelays, NEW n \in Nodes, ~RefusedAtStart(OptionsOf(n))
  PROVE  Underneath(Limits([k \in Valid(OptionsOf(n)) |-> OptionsOf(n)[k]]))
<1>1. PICK o : o = OptionsOf(n)
  OBVIOUS
<1>2. "delay" \in DOMAIN o => o["delay"] > 0
  BY <1>1 DEF OptionsOf, RealDelays, TypeOK, NoOptions
<1>3. IsOptions(o)
  BY <1>1, StartTyped
<1>4. "delay" \in DOMAIN o \/ ("distro" \notin Valid(o) /\ "reorder" \notin Valid(o))
  BY <1>1 DEF RefusedAtStart
<1>5. "delay" \in DOMAIN o => "delay" \in Valid(o)
  BY DEF Valid, Percents
<1>6. Underneath(Limits([k \in Valid(o) |-> o[k]]))
  BY <1>2, <1>4, <1>5 DEF Limits, Underneath, Keys
<1>7. QED
  BY <1>1, <1>6

\* The invariant of all three: each container's limits, whatever else happens.
Sound(n) == Follows(rules[n], wanted[n]) /\ (RealDelays => Underneath(rules[n]))

\* A step that changes the limits of one container.
LEMMA OneChanged ==
  ASSUME TypeOK, \A m \in Nodes : Sound(m), NEW n \in Nodes,
         NEW now \in RuleSet, NEW asked \in RuleSet,
         Follows(now, asked), RealDelays => Underneath(now),
         rules' = [rules EXCEPT ![n] = now], wanted' = [wanted EXCEPT ![n] = asked]
  PROVE  /\ rules' \in [Nodes -> RuleSet] /\ wanted' \in [Nodes -> RuleSet]
         /\ \A m \in Nodes : Sound(m)'
BY DEF TypeOK, Sound

LEMMA UnlimitedSound ==
  /\ \A asked \in RuleSet : Follows(Unlimited, asked)
  /\ Underneath(Unlimited)
BY UnlimitedTyped DEF Follows, Underneath, RuleSet, Keys

LEMMA TcsetSound ==
  ASSUME TypeOK, \A m \in Nodes : Sound(m), NEW n \in Nodes, NEW q \in Requests, Tcset(n, q)
  PROVE  TypeOK' /\ \A m \in Nodes : Sound(m)'
<1> DEFINE old == ContainerRules(n)
           new == Commanded(q, old)
<1>1. /\ rules[n] \in RuleSet /\ wanted[n] \in RuleSet /\ old \in RuleSet /\ new \in RuleSet
      /\ Asked(q, wanted[n]) \in RuleSet
  BY RulesRead, CommandedTyped, AskedTyped DEF TypeOK
<1>2. Follows(old, wanted[n])
  BY <1>1, RulesRead DEF Sound, Follows, RuleSet
<1>3. RealDelays => Underneath(old)
  BY <1>1, RulesRead DEF Sound, Underneath, RuleSet, Keys
<1>4. Follows(new, Asked(q, wanted[n])) /\ (RealDelays => Underneath(new))
  BY <1>1, <1>2, <1>3, CommandedFollows, CommandedUnderneath DEF Tcset
<1>5. PICK outcome \in Outcomes(rules[n], new) :
        /\ rules' = [rules EXCEPT ![n] = outcome[1]]
        /\ wanted' = IF outcome[1] = new THEN [wanted EXCEPT ![n] = Asked(q, wanted[n])] ELSE wanted
  BY DEF Tcset
<1>6. outcome[1] \in {rules[n], Unlimited, new}
  BY OutcomesAre
<1>7. rules' \in [Nodes -> RuleSet] /\ wanted' \in [Nodes -> RuleSet] /\ \A m \in Nodes : Sound(m)'
  <2>1. CASE outcome[1] = new
    BY <1>1, <1>4, <1>5, <2>1, OneChanged
  <2>2. CASE outcome[1] # new
    <3>1. wanted' = [wanted EXCEPT ![n] = wanted[n]]
      BY <1>5, <2>2 DEF TypeOK
    <3>2. Follows(outcome[1], wanted[n]) /\ (RealDelays => Underneath(outcome[1]))
      <4>1. CASE outcome[1] = rules[n]
        BY <4>1 DEF Sound
      <4>2. CASE outcome[1] = Unlimited
        BY <1>1, <4>2, UnlimitedSound
      <4>3. QED
        BY <1>6, <2>2, <4>1, <4>2
    <3>3. QED
      BY <1>1, <1>5, <1>6, <2>2, <3>1, <3>2, UnlimitedTyped, OneChanged
  <2>3. QED
    BY <2>1, <2>2
<1>8. \A answer : Remaining(n, q, answer) \cup Failed(answer) \cup Deleted(q, wanted[n])
                   \cup Rounded(q, rules[n]) \subseteq Reasons
  BY DEF Remaining, Failed, Deleted, Rounded, Reasons, TypeOK
<1>9. lost' \in [Nodes -> SUBSET Reasons]
  BY <1>8 DEF Tcset, TypeOK
<1>10. killed' \in [Nodes -> {"no", "yes", "faded"}]
  BY DEF Tcset, Mark, TypeOK
<1>11. QED
  BY <1>7, <1>9, <1>10 DEF Tcset, TypeOK

LEMMA TcdelSound ==
  ASSUME TypeOK, \A m \in Nodes : Sound(m), NEW n \in Nodes, Tcdel(n)
  PROVE  TypeOK' /\ \A m \in Nodes : Sound(m)'
<1>1. rules[n] \in RuleSet /\ wanted[n] \in RuleSet
  BY DEF TypeOK
<1>2. PICK outcome \in Outcomes(rules[n], Unlimited) :
        /\ rules' = [rules EXCEPT ![n] = outcome[1]]
        /\ wanted' = [wanted EXCEPT ![n] = IF outcome[1] = Unlimited THEN Unlimited ELSE wanted[n]]
  BY DEF Tcdel
<1>3. outcome[1] \in {rules[n], Unlimited}
  BY OutcomesAre
<1>4. rules' \in [Nodes -> RuleSet] /\ wanted' \in [Nodes -> RuleSet] /\ \A m \in Nodes : Sound(m)'
  <2>1. CASE outcome[1] = Unlimited
    BY <1>1, <1>2, <2>1, UnlimitedTyped, UnlimitedSound, OneChanged
  <2>2. CASE outcome[1] # Unlimited
    BY <1>1, <1>2, <1>3, <2>2, OneChanged DEF Sound
  <2>3. QED
    BY <2>1, <2>2
<1>5. lost' \in [Nodes -> SUBSET Reasons]
  BY DEF Tcdel, TypeOK, Reasons
<1>6. killed' \in [Nodes -> {"no", "yes", "faded"}]
  BY DEF Tcdel, TypeOK
<1>7. QED
  BY <1>4, <1>5, <1>6 DEF Tcdel, TypeOK

LEMMA ApplySound ==
  ASSUME TypeOK, \A m \in Nodes : Sound(m), NEW n \in Nodes, ApplyOptions(n)
  PROVE  TypeOK' /\ \A m \in Nodes : Sound(m)'
<1> DEFINE o == OptionsOf(n)
           new == Limits([k \in Valid(o) |-> o[k]])
<1>1. rules[n] \in RuleSet /\ wanted[n] \in RuleSet /\ new \in RuleSet
  BY StartTyped DEF TypeOK
<1>2. CASE UNCHANGED <<phase, rules, wanted, lost>> /\ todo' = todo \ {n}
  BY <1>2 DEF ApplyOptions, TypeOK, Sound
<1>3. CASE ~RefusedAtStart(o) /\ \E outcome \in Outcomes(Unlimited, new) :
             /\ rules' = [rules EXCEPT ![n] = outcome[1]]
             /\ wanted' = [wanted EXCEPT ![n] = IF outcome[1] = new THEN new ELSE wanted[n]]
             /\ \/ phase' = "started" /\ todo' = {}
                \/ phase' = phase /\ todo' = todo \ {n}
             /\ lost' \in {Unfinished(n), [lost EXCEPT ![n] = Failed(outcome[2])]}
  <2>0. lost' \in [Nodes -> SUBSET Reasons]
    BY <1>3 DEF Unfinished, Failed, Reasons, TypeOK
  <2>1. PICK outcome \in Outcomes(Unlimited, new) :
             /\ rules' = [rules EXCEPT ![n] = outcome[1]]
             /\ wanted' = [wanted EXCEPT ![n] = IF outcome[1] = new THEN new ELSE wanted[n]]
    BY <1>3
  <2>2. outcome[1] \in {Unlimited, new}
    BY OutcomesAre
  <2>3. Follows(new, new) /\ (RealDelays => Underneath(new))
    BY <1>1, <1>3, StartUnderneath DEF Follows, RuleSet
  <2>4. rules' \in [Nodes -> RuleSet] /\ wanted' \in [Nodes -> RuleSet]
        /\ \A m \in Nodes : Sound(m)'
    <3>1. CASE outcome[1] = new
      BY <1>1, <2>1, <2>3, <3>1, OneChanged
    <3>2. CASE outcome[1] # new
      BY <1>1, <2>1, <2>2, <3>2, UnlimitedTyped, UnlimitedSound, OneChanged
    <3>3. QED
      BY <3>1, <3>2
  <2>5. QED
    BY <1>3, <2>0, <2>4 DEF ApplyOptions, TypeOK
<1>4. QED
  BY <1>2, <1>3 DEF ApplyOptions

\* The inductive invariant.
AllSafe == TypeOK /\ \A n \in Nodes : Sound(n)

\* For all requests, options and failures: types, and each container sound.
THEOREM AllSound == Spec => []AllSafe
<1>1. Init => AllSafe
  BY UnlimitedTyped, UnlimitedSound DEF AllSafe, Init, TypeOK, Sound
<1>2. AllSafe /\ [Next]_vars => AllSafe'
  <2>1. SUFFICES ASSUME TypeOK, \A n \in Nodes : Sound(n), [Next]_vars
                 PROVE  TypeOK' /\ \A n \in Nodes : Sound(n)'
    BY DEF AllSafe
  <2>2. ASSUME NEW n \in Nodes, Fade(n) PROVE TypeOK' /\ \A m \in Nodes : Sound(m)'
    BY <2>1, <2>2 DEF Fade, TypeOK, Sound
  <2>3. ASSUME NEW d \in Defaults, NEW own \in LabOptions, Start(d, own) PROVE TypeOK' /\ \A m \in Nodes : Sound(m)'
    BY <2>1, <2>3, UnlimitedTyped, UnlimitedSound DEF Start, TypeOK, Sound
  <2>4. CASE StartReturns
    BY <2>1, <2>4 DEF StartReturns, TypeOK, Sound
  <2>5. CASE Stop
    BY <2>1, <2>5, UnlimitedTyped, UnlimitedSound DEF Stop, TypeOK, Sound
  <2>6. CASE UNCHANGED vars
    BY <2>1, <2>6 DEF vars, TypeOK, Sound
  <2>7. QED
    BY <2>1, <2>2, <2>3, <2>4, <2>5, <2>6, TcsetSound, TcdelSound, ApplySound DEF Next
<1>3. QED
  BY <1>1, <1>2, PTL DEF Spec

\* No container is ever limited more than the requests in effect ask for: for all
\* requests and times, also those that tcshow does not print exactly.
THEOREM NeverMoreThanAsked == Spec => []InForceWasAsked
<1>1. AllSafe => InForceWasAsked
  BY DEF AllSafe, Sound, Follows, InForceWasAsked
<1>2. QED
  BY <1>1, AllSound, PTL

\* Where no tc_options give a delay of 0, reordering and distribution always have
\* a delay, over updates, refusals and failures.
THEOREM DelayStaysUnderneath == ASSUME RealDelays PROVE Spec => []DelayUnderneath
<1>1. AllSafe => DelayUnderneath
  BY DEF AllSafe, Sound, Underneath, DelayUnderneath
<1>2. QED
  BY <1>1, AllSound, PTL

\* Whatever was asked and whatever fails, every variable keeps its type: no
\* percentage in force is above 100.
THEOREM Typed == Spec => []TypeOK
<1>1. AllSafe => TypeOK
  BY DEF AllSafe
<1>2. QED
  BY <1>1, AllSound, PTL

-----------------------------------------------------------------------------
\* A tool that answers ok has done what it was told; otherwise the container is
\* among those a tool has failed on.
LEMMA OkOutcome ==
  ASSUME NEW old, NEW new, NEW outcome \in Outcomes(old, new)
  PROVE  /\ outcome[2] = "ok" => outcome[1] = new
         /\ Failed(outcome[2]) = {} => outcome[2] = "ok"
         /\ outcome[2] # "ok" => "failed" \in Failed(outcome[2])
BY DEF Outcomes, Left, Failed

\* The limits that need no mark: none, or those the lab was started with.
Listed == {Unlimited} \cup {Limits(d) : d \in Defaults}

Struck(n) == lost[n] \cap {"failed", "unfinished"} # {}

\* A router of an overlay has such limits, or is marked, or a tool has failed on
\* it or ended the start, or it is about to be marked: StartReturns marks all routers with options of
\* their own.
Red(n) ==
  \/ rules[n] \in Listed
  \/ killed[n] # "no"
  \/ Struck(n)
  \/ phase = "starting" /\ options[n] # NoOptions

AllRed == TypeOK /\ \A n \in Quagga : Red(n)

\* No lab is started with a percentage above 100, which tcset_api would drop.
ValidDefaults == \A d \in Defaults : Valid(d) = DOMAIN d

LEMMA DefaultListed ==
  ASSUME TypeOK, ValidDefaults, default # NoOptions
  PROVE  Limits([k \in Valid(default) |-> default[k]]) \in Listed
<1>1. default \in Defaults /\ Valid(default) = DOMAIN default
  BY DEF TypeOK, ValidDefaults
<1>2. Limits([k \in Valid(default) |-> default[k]]) = Limits(default)
  BY <1>1 DEF Limits
<1>3. QED
  BY <1>1, <1>2 DEF Listed

LEMMA ApplyRed ==
  ASSUME ValidDefaults, AllRed, NEW n \in Nodes, ApplyOptions(n)
  PROVE  \A m \in Quagga : Red(m)'
<1> DEFINE o == OptionsOf(n)
           new == Limits([k \in Valid(o) |-> o[k]])
<1>1. phase = "starting" /\ UNCHANGED <<killed, options>>
  BY DEF ApplyOptions
<1>2. CASE UNCHANGED <<phase, rules, wanted, lost>>
  BY <1>1, <1>2 DEF AllRed, Red, Struck
<1>3. CASE o # NoOptions /\ \E outcome \in Outcomes(Unlimited, new) :
             /\ rules' = [rules EXCEPT ![n] = outcome[1]]
             /\ IF outcome[2] = "timeout"
                THEN phase' = "started" /\ todo' = {} /\ lost' = Unfinished(n)
                ELSE /\ phase' = phase /\ todo' = todo \ {n}
                     /\ lost' = [lost EXCEPT ![n] = Failed(outcome[2])]
  <2>1. PICK outcome \in Outcomes(Unlimited, new) :
             /\ rules' = [rules EXCEPT ![n] = outcome[1]]
             /\ outcome[2] = "timeout" => lost' = Unfinished(n)
             /\ outcome[2] # "timeout" =>
                  phase' = phase /\ lost' = [lost EXCEPT ![n] = Failed(outcome[2])]
    BY <1>3
  <2>2. CASE outcome[2] = "timeout"
    BY <2>1, <2>2, RoutersAssumption DEF Unfinished, Red, Struck
  <2>3. CASE outcome[2] # "timeout"
    <3>1. \A m \in Nodes \ {n} : rules'[m] = rules[m] /\ lost'[m] = lost[m]
      BY <2>1, <2>3 DEF AllRed, TypeOK
    <3>2. rules'[n] = outcome[1] /\ lost'[n] = Failed(outcome[2])
      BY <2>1, <2>3 DEF AllRed, TypeOK
    <3>3. options[n] = NoOptions => new \in Listed
      <4>1. options[n] = NoOptions => o = default
        BY DEF OptionsOf
      <4>2. QED
        BY <1>3, <4>1, DefaultListed DEF AllRed
    <3>4. outcome[1] = new \/ Struck(n)'
      BY <3>2, OkOutcome DEF Struck
    <3>5. QED
      BY <1>1, <2>1, <2>3, <3>1, <3>2, <3>3, <3>4, RoutersAssumption DEF AllRed, Red, Struck
  <2>4. QED
    BY <2>2, <2>3
<1>4. QED
  BY <1>2, <1>3 DEF ApplyOptions

LEMMA TcsetRed ==
  ASSUME AllRed, NEW n \in Nodes, NEW q \in Requests, Tcset(n, q)
  PROVE  \A m \in Quagga : Red(m)'
<1> DEFINE new == Commanded(q, ContainerRules(n))
<1>1. PICK outcome \in Outcomes(rules[n], new) :
        /\ rules' = [rules EXCEPT ![n] = outcome[1]]
        /\ lost' = [lost EXCEPT ![n] = Remaining(n, q, outcome[2]) \cup Failed(outcome[2])
                              \cup Deleted(q, wanted[n]) \cup Rounded(q, rules[n])]
        /\ IF outcome[2] = "ok" /\ ~AllZero(q.data) THEN Mark(n) ELSE UNCHANGED killed
  BY DEF Tcset
<1>2. UNCHANGED <<phase, options>>
  BY DEF Tcset
<1>3. \A m \in Nodes \ {n} : rules'[m] = rules[m] /\ lost'[m] = lost[m] /\ killed'[m] = killed[m]
  BY <1>1 DEF AllRed, TypeOK, Mark
<1>4. n \in Quagga => Red(n)'
  <2>1. CASE outcome[2] # "ok"
    <3>1. "failed" \in lost'[n]
      BY <1>1, <2>1, OkOutcome DEF AllRed, TypeOK
    <3>2. QED
      BY <3>1 DEF Red, Struck
  <2>2. CASE outcome[2] = "ok" /\ AllZero(q.data)
    <3>1. rules'[n] = Unlimited
      BY <1>1, <2>2, OkOutcome DEF Commanded, AllRed, TypeOK
    <3>2. QED
      BY <3>1 DEF Red, Listed
  <2>3. CASE outcome[2] = "ok" /\ ~AllZero(q.data)
    <3>1. n \in Quagga => killed'[n] = "yes"
      BY <1>1, <2>3 DEF Mark, AllRed, TypeOK
    <3>2. QED
      BY <3>1 DEF Red
  <2>4. QED
    BY <2>1, <2>2, <2>3
<1>5. QED
  BY <1>2, <1>3, <1>4, RoutersAssumption DEF AllRed, Red, Struck

LEMMA TcdelRed ==
  ASSUME AllRed, NEW n \in Nodes, Tcdel(n)
  PROVE  \A m \in Quagga : Red(m)'
<1>1. PICK outcome \in Outcomes(rules[n], Unlimited) :
        /\ rules' = [rules EXCEPT ![n] = outcome[1]]
        /\ lost' = [lost EXCEPT ![n] = IF outcome[2] = "ok" THEN {} ELSE lost[n] \cup {"failed"}]
        /\ killed' = IF outcome[2] # "timeout" /\ n \in Quagga
                     THEN [killed EXCEPT ![n] = "no"] ELSE killed
  BY DEF Tcdel
<1>2. UNCHANGED <<phase, options>>
  BY DEF Tcdel
<1>3. \A m \in Nodes \ {n} : rules'[m] = rules[m] /\ lost'[m] = lost[m] /\ killed'[m] = killed[m]
  BY <1>1 DEF AllRed, TypeOK
<1>4. Red(n)'
  <2>1. CASE outcome[2] = "ok"
    BY <1>1, <2>1, OkOutcome DEF Red, Listed, AllRed, TypeOK
  <2>2. CASE outcome[2] # "ok"
    BY <1>1, <2>2 DEF Red, Struck, AllRed, TypeOK
  <2>3. QED
    BY <2>1, <2>2
<1>5. QED
  BY <1>2, <1>3, <1>4, RoutersAssumption DEF AllRed, Red, Struck

\* Where no lab starts with a percentage above 100, a router of an overlay never
\* has limits of its own without having been marked, but for tools that failed on it
\* or ended its start: over starts, requests, resets and restarts, in any order.
THEOREM LimitsMakeRed ==
  ASSUME ValidDefaults
  PROVE  Spec => []LimitedRoutersRed
<1>1. Init => \A n \in Quagga : Red(n)
  BY RoutersAssumption DEF Init, Red, Listed
<1>2. AllRed /\ [Next]_vars => \A n \in Quagga : Red(n)'
  <2>1. SUFFICES ASSUME AllRed, [Next]_vars
                 PROVE  \A n \in Quagga : Red(n)'
    OBVIOUS
  <2>2. ASSUME NEW n \in Nodes, Fade(n) PROVE \A m \in Quagga : Red(m)'
    BY <2>1, <2>2 DEF Fade, AllRed, Red, Struck, TypeOK
  <2>3. ASSUME NEW d \in Defaults, NEW own \in LabOptions, Start(d, own)
        PROVE  \A m \in Quagga : Red(m)'
    BY <2>3, RoutersAssumption DEF Start, Red, Listed
  <2>4. CASE StartReturns
    <3>1. \A m \in Quagga : m \in Nodes /\ m \in Routers
      BY RoutersAssumption
    <3>2. \A m \in Quagga : options[m] # NoOptions => killed'[m] = "yes"
      BY <2>4, <3>1 DEF StartReturns, KilledRouters
    <3>3. \A m \in Quagga : killed[m] # "no" => killed'[m] # "no"
      BY <2>4, <3>1 DEF StartReturns
    <3>4. QED
      BY <2>1, <2>4, <3>2, <3>3 DEF StartReturns, AllRed, Red, Struck
  <2>5. CASE Stop
    BY <2>5, RoutersAssumption DEF Stop, Red, Listed
  <2>6. CASE UNCHANGED vars
    BY <2>1, <2>6 DEF vars, AllRed, Red, Struck
  <2>7. QED
    BY <2>1, <2>2, <2>3, <2>4, <2>5, <2>6, TcsetRed, TcdelRed, ApplyRed DEF Next
<1>3. AllRed => LimitedRoutersRed
  BY DEF AllRed, Red, Struck, Listed, LimitedRoutersRed
<1>4. QED
  <2>1. (\A n \in Quagga : Red(n)) /\ TypeOK <=> AllRed
    BY DEF AllRed
  <2>2. AllRed /\ TypeOK' /\ [Next]_vars => AllRed'
    BY <1>2 DEF AllRed
  <2>3. QED
    BY <1>1, <1>3, <2>1, <2>2, Typed, PTL DEF Spec

-----------------------------------------------------------------------------
\* A request that deletes nothing it asks for and rounds nothing it keeps sets what
\* it asks for: alone if it gives all limits anew, or else from those in force.
LEMMA CommandedAsAsked ==
  ASSUME TypeOK, NEW n \in Nodes, NEW q \in Requests, NEW before \in RuleSet,
         Deleted(q, before) = {}, Rounded(q, rules[n]) = {},
         AllZero(q.data) \/ ~q.update \/ rules[n] = before
  PROVE  Commanded(q, ContainerRules(n)) = Asked(q, before)
<1>1. CASE AllZero(q.data)
  BY <1>1 DEF Deleted, Commanded
<1>2. CASE ~AllZero(q.data)
  <2> DEFINE old == ContainerRules(n)
  <2>1. old \in RuleSet /\ \A k \in Keys : old[k] = Read(k, rules[n][k])
    BY RulesRead DEF ContainerRules
  <2>2. q.update => \A k \in Keys : Given(q.data, k) \/ Read(k, rules[n][k]) = rules[n][k]
    BY <1>2 DEF Rounded
  <2>3. q.update => \A k \in Keys : Given(q.data, k) \/ old[k] = before[k]
    BY <1>2, <2>1, <2>2
  <2>4. \A k \in Keys : Limits(TcsetOptions(q, old))[k] =
           IF Given(q.data, k) THEN q.data[k] ELSE IF q.update THEN old[k] ELSE 0
    BY <2>1, RequestsAssumption DEF Limits, TcsetOptions, RuleSet
  <2>5. \A k \in Keys : Limits(TcsetOptions(q, old))[k] = Asked(q, before)[k]
    BY <2>3, <2>4, RequestsAssumption DEF Asked
  <2>6. Limits(TcsetOptions(q, old)) = Asked(q, before)
    BY <2>5 DEF Limits, Asked
  <2>7. QED
    BY <1>2, <2>6 DEF Commanded
<1>3. QED
  BY <1>1, <1>2

LEMMA TcsetObeyed ==
  ASSUME TypeOK, AsAsked, NEW n \in Nodes, NEW q \in Requests, Tcset(n, q)
  PROVE  AsAsked'
<1> DEFINE new == Commanded(q, ContainerRules(n))
<1>1. PICK outcome \in Outcomes(rules[n], new) :
        /\ rules' = [rules EXCEPT ![n] = outcome[1]]
        /\ wanted' = IF outcome[1] = new THEN [wanted EXCEPT ![n] = Asked(q, wanted[n])] ELSE wanted
        /\ lost' = [lost EXCEPT ![n] = Remaining(n, q, outcome[2]) \cup Failed(outcome[2])
                              \cup Deleted(q, wanted[n]) \cup Rounded(q, rules[n])]
  BY DEF Tcset
<1>2. \A m \in Nodes \ {n} : rules'[m] = rules[m] /\ lost'[m] = lost[m] /\ wanted'[m] = wanted[m]
  BY <1>1 DEF TypeOK
<1>3. ASSUME lost'[n] \subseteq {"unfinished"} PROVE rules'[n] = wanted'[n]
  <2>1. /\ Remaining(n, q, outcome[2]) \subseteq {"unfinished"}
        /\ Failed(outcome[2]) = {} /\ Deleted(q, wanted[n]) = {} /\ Rounded(q, rules[n]) = {}
    BY <1>1, <1>3 DEF TypeOK, Failed, Deleted, Rounded
  <2>2. outcome[2] = "ok" /\ outcome[1] = new
    BY <2>1, OkOutcome
  <2>3. AllZero(q.data) \/ ~q.update \/ rules[n] = wanted[n]
    BY <2>1, <2>2 DEF Remaining, AsAsked
  <2>4. wanted[n] \in RuleSet
    BY DEF TypeOK
  <2>5. new = Asked(q, wanted[n])
    BY <2>1, <2>3, <2>4, CommandedAsAsked
  <2>6. QED
    BY <1>1, <2>2, <2>5 DEF TypeOK
<1>4. QED
  BY <1>2, <1>3 DEF AsAsked

LEMMA TcdelObeyed ==
  ASSUME TypeOK, AsAsked, NEW n \in Nodes, Tcdel(n)
  PROVE  AsAsked'
<1>1. PICK outcome \in Outcomes(rules[n], Unlimited) :
        /\ rules' = [rules EXCEPT ![n] = outcome[1]]
        /\ wanted' = [wanted EXCEPT ![n] = IF outcome[1] = Unlimited THEN Unlimited ELSE wanted[n]]
        /\ lost' = [lost EXCEPT ![n] = IF outcome[2] = "ok" THEN {} ELSE lost[n] \cup {"failed"}]
  BY DEF Tcdel
<1>2. outcome[2] = "ok" => outcome[1] = Unlimited
  BY OkOutcome
<1>3. QED
  BY <1>1, <1>2 DEF TypeOK, AsAsked

LEMMA ApplyObeyed ==
  ASSUME TypeOK, AsAsked, NEW n \in Nodes, ApplyOptions(n)
  PROVE  AsAsked'
<1> DEFINE o == OptionsOf(n)
           new == Limits([k \in Valid(o) |-> o[k]])
<1>1. CASE UNCHANGED <<phase, rules, wanted, lost>>
  BY <1>1 DEF AsAsked
<1>2. CASE \E outcome \in Outcomes(Unlimited, new) :
             /\ rules' = [rules EXCEPT ![n] = outcome[1]]
             /\ wanted' = [wanted EXCEPT ![n] = IF outcome[1] = new THEN new ELSE wanted[n]]
             /\ \/ outcome[2] # "ok" /\ lost' = Unfinished(n)
                \/ lost' = [lost EXCEPT ![n] = Failed(outcome[2])]
  <2>1. PICK outcome \in Outcomes(Unlimited, new) :
             /\ rules' = [rules EXCEPT ![n] = outcome[1]]
             /\ wanted' = [wanted EXCEPT ![n] = IF outcome[1] = new THEN new ELSE wanted[n]]
             /\ \/ outcome[2] # "ok" /\ lost' = Unfinished(n)
                \/ lost' = [lost EXCEPT ![n] = Failed(outcome[2])]
    BY <1>2
  <2>2. \A m \in Nodes \ {n} :
          /\ rules'[m] = rules[m] /\ wanted'[m] = wanted[m]
          /\ lost[m] \subseteq lost'[m]
    BY <2>1 DEF TypeOK, Unfinished
  <2>3. outcome[2] # "ok" => "failed" \in lost'[n]
    BY <2>1, OkOutcome DEF TypeOK, Unfinished
  <2>4. outcome[2] = "ok" => rules'[n] = wanted'[n]
    BY <2>1, OkOutcome DEF TypeOK
  <2>5. QED
    BY <2>2, <2>3, <2>4 DEF AsAsked
<1>3. QED
  BY <1>1, <1>2 DEF ApplyOptions

\* For all requests, options, times and failures: the limits in force are those
\* asked for on every container no tool has failed on, no request with limits of its
\* own was answered by deleting them, and no update has rounded a time it kept.
THEOREM ExactlyAsAsked == Spec => []AsAsked
<1>1. Init => AsAsked
  BY DEF Init, AsAsked
<1>2. TypeOK /\ AsAsked /\ [Next]_vars => AsAsked'
  <2>1. SUFFICES ASSUME TypeOK, AsAsked, [Next]_vars
                 PROVE  AsAsked'
    OBVIOUS
  <2>2. ASSUME UNCHANGED <<rules, wanted, lost>> PROVE AsAsked'
    BY <2>1, <2>2 DEF AsAsked
  <2>3. ASSUME NEW d \in Defaults, NEW own \in LabOptions, Start(d, own) PROVE AsAsked'
    BY <2>3 DEF Start, AsAsked
  <2>4. CASE Stop
    BY <2>4 DEF Stop, AsAsked
  <2>5. QED
    BY <2>1, <2>2, <2>3, <2>4, TcsetObeyed, TcdelObeyed, ApplyObeyed
       DEF Next, Fade, StartReturns, vars
<1>3. QED
  BY <1>1, <1>2, Typed, PTL DEF Spec
=============================================================================
