-------------------------- MODULE Monitoring_proofs --------------------------
(***************************************************************************)
(* Proofs about Monitoring for any hosts, statuses, pages and numbers of   *)
(* runs and messages: what is counted, and that the newest message of a    *)
(* host is not lost between the socket, the entry and the pages.           *)
(***************************************************************************)
EXTENDS Monitoring, FiniteSetTheorems, SequenceTheorems, TLAPS

\* A run that has not begun has no messages, and an entry is of a run whose socket
\* is open.
RunsAgree ==
  /\ \A r \in Runs : r > run => inbox[r] = <<>>
  /\ up \/ entry # None => run \in Runs
  /\ entry # None => listener[run] # "closed"
  /\ \A r \in Runs : \A i \in Counted(inbox[r]) : inbox[r][i].run = r

\* The messages of a host wait in the order in which it sent them, and are newer
\* than what was taken.
InSequence ==
  /\ \A h \in Hosts : taken[h] <= sent[h]
  /\ run \in Runs =>
       \A i \in Counted(inbox[run]) :
         /\ inbox[run][i].number <= sent[inbox[run][i].host]
         /\ taken[inbox[run][i].host] < inbox[run][i].number
         /\ \A j \in Counted(inbox[run]) :
              j < i /\ inbox[run][j].host = inbox[run][i].host =>
                inbox[run][j].number < inbox[run][i].number

\* What the entry has of a host is older than what waits, and newer than what was
\* taken.
EntryOlder ==
  entry # None =>
    \A h \in Hosts : IsCurrent(entry.all[h]) =>
      /\ taken[h] < entry.all[h].number
      /\ entry.all[h].number <= sent[h]
      /\ \A i \in Counted(inbox[run]) :
           inbox[run][i].host = h => entry.all[h].number < inbox[run][i].number

\* When nothing was carried over, no older run has messages.
NothingOlder ==
  entry # None /\ carried = 0 => \A r \in Runs : r < run => Counted(inbox[r]) = {}

\* The inductive invariant.
Kept ==
  /\ TypeOK
  /\ RunsAgree
  /\ InSequence
  /\ EntryOlder
  /\ NothingOlder
  /\ CountedOnce
  /\ NewestKept
-----------------------------------------------------------------------------
\* How many messages a queue has, and all queues.

Queue == Seq(Message \cup Partial)
Marked(box) == UNION {{r} \X Counted(box[r]) : r \in Runs}

LEMMA RunsFinite == IsFiniteSet(Runs) /\ MaxRuns \in Nat /\ MaxSent \in Nat
BY BoundsAssumption, FS_Interval DEF Runs

LEMMA CountedFinite ==
  ASSUME NEW q \in Queue
  PROVE  IsFiniteSet(Counted(q)) /\ Counted(q) \subseteq 1..Len(q) /\ Cardinality(Counted(q)) \in Nat
<1>1. Len(q) \in Nat /\ DOMAIN q = 1..Len(q)
  BY LenProperties DEF Queue
<1>2. IsFiniteSet(1..Len(q))
  BY <1>1, FS_Interval
<1>3. Counted(q) \subseteq 1..Len(q)
  BY <1>1 DEF Counted
<1>4. QED
  BY <1>2, <1>3, FS_Subset, FS_CardinalityType

\* Its first message leaves the queue.
LEMMA CountedTail ==
  ASSUME NEW q \in Queue, q # <<>>
  PROVE  /\ Tail(q) \in Queue
         /\ \A i \in Counted(Tail(q)) : i + 1 \in Counted(q) /\ Tail(q)[i] = q[i + 1]
         /\ \A i \in Counted(q) : i # 1 => i - 1 \in Counted(Tail(q))
         /\ Head(q) \in Message <=> 1 \in Counted(q)
         /\ Cardinality(Counted(q)) =
              Cardinality(Counted(Tail(q))) + (IF Head(q) \in Message THEN 1 ELSE 0)
<1> DEFINE rest == Counted(Tail(q))
<1>1. /\ Len(q) \in Nat \ {0} /\ DOMAIN q = 1..Len(q) /\ Head(q) = q[1]
      /\ Tail(q) \in Queue /\ Len(Tail(q)) = Len(q) - 1 /\ DOMAIN Tail(q) = 1..(Len(q) - 1)
      /\ \A i \in 1..(Len(q) - 1) : Tail(q)[i] = q[i + 1]
  BY EmptySeq, LenProperties, HeadTailProperties DEF Queue
<1>2. \A i \in rest : i \in Nat /\ i + 1 \in Counted(q) \ {1} /\ Tail(q)[i] = q[i + 1]
  BY <1>1 DEF Counted
<1>3. \A i \in Counted(q) \ {1} : i \in Nat /\ i - 1 \in rest
  BY <1>1 DEF Counted
<1>4. 1 \in Counted(q) <=> Head(q) \in Message
  BY <1>1 DEF Counted
<1>5. Cardinality(Counted(q) \ {1}) = Cardinality(rest)
  <2> DEFINE shift == [i \in rest |-> i + 1]
  <2>1. shift \in [rest -> Counted(q) \ {1}]
    BY <1>2
  <2>2. \A i, j \in rest : shift[i] = shift[j] => i = j
    BY <1>2
  <2>3. \A i \in Counted(q) \ {1} : \E j \in rest : shift[j] = i
    BY <1>3
  <2>4. shift \in Bijection(rest, Counted(q) \ {1})
    BY <2>1, <2>2, <2>3 DEF Bijection, Injection, Surjection, IsInjective
  <2>5. ExistsBijection(rest, Counted(q) \ {1})
    BY <2>4 DEF ExistsBijection
  <2>6. IsFiniteSet(rest)
    BY <1>1, CountedFinite
  <2>7. QED
    BY <2>5, <2>6, FS_Bijection
<1>6. IsFiniteSet(Counted(q)) /\ Cardinality(rest) \in Nat /\ Cardinality(Counted(q)) \in Nat
  BY <1>1, CountedFinite
<1>7. Cardinality(Counted(q) \ {1}) =
        IF 1 \in Counted(q) THEN Cardinality(Counted(q)) - 1 ELSE Cardinality(Counted(q))
  BY <1>6, FS_RemoveElement
<1>8. Cardinality(Counted(q)) = Cardinality(rest) + (IF Head(q) \in Message THEN 1 ELSE 0)
  BY <1>4, <1>5, <1>6, <1>7
<1>9. /\ \A i \in rest : i + 1 \in Counted(q) /\ Tail(q)[i] = q[i + 1]
      /\ \A i \in Counted(q) : i # 1 => i - 1 \in rest
  BY <1>2, <1>3
<1>10. QED
  BY <1>1, <1>4, <1>8, <1>9

\* A message joins the queue.
LEMMA CountedAppend ==
  ASSUME NEW q \in Queue, NEW m \in Message \cup Partial
  PROVE  /\ Append(q, m) \in Queue
         /\ \A i \in Counted(q) : Append(q, m)[i] = q[i] /\ i < Len(q) + 1
         /\ Append(q, m)[Len(q) + 1] = m
         /\ Counted(Append(q, m)) =
              Counted(q) \cup (IF m \in Message THEN {Len(q) + 1} ELSE {})
         /\ Cardinality(Counted(Append(q, m))) =
              Cardinality(Counted(q)) + (IF m \in Message THEN 1 ELSE 0)
<1>1. /\ Len(q) \in Nat /\ DOMAIN q = 1..Len(q)
      /\ Append(q, m) \in Queue /\ DOMAIN Append(q, m) = 1..(Len(q) + 1)
      /\ \A i \in 1..Len(q) : Append(q, m)[i] = q[i]
      /\ Append(q, m)[Len(q) + 1] = m
  BY LenProperties, AppendProperties DEF Queue
<1>2. Counted(Append(q, m)) = Counted(q) \cup (IF m \in Message THEN {Len(q) + 1} ELSE {})
  BY <1>1 DEF Counted
<1>3. /\ IsFiniteSet(Counted(q)) /\ Cardinality(Counted(q)) \in Nat
      /\ Counted(q) \subseteq 1..Len(q) /\ Len(q) + 1 \notin Counted(q)
  BY <1>1, CountedFinite
<1>4. Cardinality(Counted(q) \cup {Len(q) + 1}) = Cardinality(Counted(q)) + 1
  BY <1>3, FS_AddElement
<1>5. Cardinality(Counted(Append(q, m))) = Cardinality(Counted(q)) + (IF m \in Message THEN 1 ELSE 0)
  <2>1. CASE m \in Message
    BY <1>2, <1>4, <2>1
  <2>2. CASE m \notin Message
    <3>1. Counted(Append(q, m)) = Counted(q)
      BY <1>2, <2>2
    <3>2. QED
      BY <1>3, <2>2, <3>1
  <2>3. QED
    BY <2>1, <2>2
<1>6. \A i \in Counted(q) : Append(q, m)[i] = q[i] /\ i < Len(q) + 1
  BY <1>1, <1>3
<1>7. Append(q, m) \in Queue /\ Append(q, m)[Len(q) + 1] = m
  BY <1>1
<1>8. QED
  BY <1>2, <1>5, <1>6, <1>7, Zenon

\* What waits in all queues changes by what waits in the one that changes.
LEMMA WaitingChange ==
  ASSUME NEW box \in [Runs -> Queue], NEW r \in Runs, NEW q \in Queue
  PROVE  \E w \in Nat :
           /\ Cardinality(Marked(box)) = w + Cardinality(Counted(box[r]))
           /\ Cardinality(Marked([box EXCEPT ![r] = q])) = w + Cardinality(Counted(q))
<1> DEFINE others == UNION {{k} \X Counted(box[k]) : k \in Runs \ {r}}
<1>1. \A s \in Queue : /\ IsFiniteSet({r} \X Counted(s))
                       /\ Cardinality({r} \X Counted(s)) = Cardinality(Counted(s))
  <2>1. TAKE s \in Queue
  <2>2. IsFiniteSet(Counted(s)) /\ Cardinality(Counted(s)) \in Nat
    BY CountedFinite
  <2>3. IsFiniteSet({r}) /\ Cardinality({r}) = 1
    BY FS_Singleton
  <2>4. /\ IsFiniteSet({r} \X Counted(s))
        /\ Cardinality({r} \X Counted(s)) = Cardinality({r}) * Cardinality(Counted(s))
    BY <2>2, <2>3, FS_Product
  <2>5. QED
    BY <2>2, <2>3, <2>4
<1>2. IsFiniteSet(others)
  <2>1. \A k \in Runs : IsFiniteSet({k} \X Counted(box[k]))
    BY CountedFinite, FS_Singleton, FS_Product
  <2>2. IsFiniteSet(Runs \ {r})
    BY RunsFinite, FS_Subset
  <2>3. IsFiniteSet({{k} \X Counted(box[k]) : k \in Runs \ {r}})
    <3> DEFINE marks == {{k} \X Counted(box[k]) : k \in Runs \ {r}}
               mark == [k \in Runs \ {r} |-> {k} \X Counted(box[k])]
    <3>1. mark \in Surjection(Runs \ {r}, marks)
      BY DEF Surjection
    <3>2. QED
      BY <2>2, <3>1, FS_Surjection
  <2>4. QED
    BY <2>1, <2>3, FS_UNION
<1>3. Cardinality(others) \in Nat
  BY <1>2, FS_CardinalityType
<1>4. ASSUME NEW s \in Queue
      PROVE  Cardinality(others \cup ({r} \X Counted(s))) = Cardinality(others) + Cardinality(Counted(s))
  <2>1. others \cap ({r} \X Counted(s)) = {}
    OBVIOUS
  <2>2. Cardinality({}) = 0
    BY FS_EmptySet
  <2>3. Cardinality(others \cup ({r} \X Counted(s))) =
          Cardinality(others) + Cardinality({r} \X Counted(s)) - Cardinality({})
    BY <1>1, <1>2, <2>1, FS_Union
  <2>4. Cardinality(Counted(s)) \in Nat
    BY CountedFinite
  <2>5. Cardinality({r} \X Counted(s)) = Cardinality(Counted(s))
    BY <1>1
  <2>6. QED
    BY <1>3, <2>2, <2>3, <2>4, <2>5
<1>5. Marked(box) = others \cup ({r} \X Counted(box[r]))
  BY Zenon DEF Marked
<1>6. Marked([box EXCEPT ![r] = q]) = others \cup ({r} \X Counted(q))
  BY DEF Marked
<1>7. QED
  BY <1>3, <1>4, <1>5, <1>6
\* What the hosts have sent grows by one with each message.
SentBy(f) == UNION {{h} \X (1..f[h]) : h \in Hosts}

LEMMA SentFinite ==
  ASSUME NEW f \in [Hosts -> Nat]
  PROVE  IsFiniteSet(SentBy(f)) /\ Cardinality(SentBy(f)) \in Nat
<1> DEFINE parts == {{h} \X (1..f[h]) : h \in Hosts}
           part == [h \in Hosts |-> {h} \X (1..f[h])]
<1>1. part \in Surjection(Hosts, parts)
  BY DEF Surjection
<1>2. IsFiniteSet(parts)
  BY <1>1, HostsAssumption, FS_Surjection
<1>3. ASSUME NEW h \in Hosts
      PROVE  IsFiniteSet({h} \X (1..f[h]))
  <2>1. f[h] \in Int /\ 1 \in Int
    OBVIOUS
  <2>2. IsFiniteSet(1..f[h]) /\ IsFiniteSet({h})
    BY <2>1, FS_Interval, FS_Singleton
  <2>3. QED
    BY <2>2, FS_Product
<1>4. IsFiniteSet(UNION parts)
  BY <1>2, <1>3, FS_UNION
<1>5. QED
  BY <1>4, FS_CardinalityType DEF SentBy

LEMMA SentGrows ==
  ASSUME NEW f \in [Hosts -> Nat], NEW h \in Hosts
  PROVE  /\ Cardinality(SentBy([f EXCEPT ![h] = @ + 1])) = Cardinality(SentBy(f)) + 1
         /\ f[h] <= Cardinality(SentBy(f))
<1>1. SentBy([f EXCEPT ![h] = @ + 1]) = SentBy(f) \cup {<<h, f[h] + 1>>}
  BY DEF SentBy
<1>2. <<h, f[h] + 1>> \notin SentBy(f)
  BY DEF SentBy
<1>3. Cardinality(SentBy(f) \cup {<<h, f[h] + 1>>}) = Cardinality(SentBy(f)) + 1
  BY <1>2, SentFinite, FS_AddElement
<1>4. {h} \X (1..f[h]) \subseteq SentBy(f)
  BY DEF SentBy
<1>5. Cardinality({h} \X (1..f[h])) <= Cardinality(SentBy(f))
  BY <1>4, SentFinite, FS_Subset
<1>6. /\ IsFiniteSet(1..f[h]) /\ Cardinality(1..f[h]) = f[h]
      /\ IsFiniteSet({h}) /\ Cardinality({h}) = 1
  <2>1. f[h] \in Nat /\ f[h] \in Int /\ 1 \in Int
    OBVIOUS
  <2>2. IsFiniteSet(1..f[h]) /\ Cardinality(1..f[h]) = IF 1 > f[h] THEN 0 ELSE f[h] - 1 + 1
    BY <2>1, FS_Interval
  <2>3. Cardinality(1..f[h]) = f[h]
    BY <2>1, <2>2
  <2>4. QED
    BY <2>2, <2>3, FS_Singleton
<1>7. Cardinality({h} \X (1..f[h])) = Cardinality({h}) * Cardinality(1..f[h])
  BY <1>6, FS_Product
<1>8. f[h] <= Cardinality(SentBy(f))
  BY <1>5, <1>6, <1>7
<1>9. QED
  BY <1>1, <1>3, <1>8

LEMMA NothingSent == Cardinality(SentBy([h \in Hosts |-> 0])) = 0
<1>1. SentBy([h \in Hosts |-> 0]) = {}
  BY DEF SentBy
<1>2. QED
  BY <1>1, FS_EmptySet

\* In the state of the system.
LEMMA Sums ==
  /\ Waiting = Cardinality(Marked(inbox)) /\ SentInRun = Cardinality(SentBy(sent))
  /\ Waiting' = Cardinality(Marked(inbox')) /\ SentInRun' = Cardinality(SentBy(sent'))
BY DEF Waiting, Marked, SentInRun, SentBy

LEMMA SumsTyped ==
  ASSUME TypeOK
  PROVE  /\ sent \in [Hosts -> Nat] /\ SentInRun \in Nat
         /\ inbox \in [Runs -> Queue]
         /\ Runs # {} => Waiting \in Nat
<1>1. sent \in [Hosts -> Nat] /\ inbox \in [Runs -> Queue]
  BY RunsFinite DEF TypeOK, Queue
<1>2. SentInRun \in Nat
  BY <1>1, SentFinite, Sums
<1>3. ASSUME NEW r \in Runs
      PROVE  Waiting \in Nat
  <2>1. inbox[r] \in Queue
    BY <1>1
  <2>2. PICK w \in Nat : Cardinality(Marked(inbox)) = w + Cardinality(Counted(inbox[r]))
    BY <1>1, <2>1, WaitingChange
  <2>3. QED
    BY <2>1, <2>2, CountedFinite, Sums
<1>4. QED
  BY <1>1, <1>2, <1>3
-----------------------------------------------------------------------------
\* Types.

LEMMA EntryTyped ==
  /\ NewEntry \in Entry /\ NewEntry.all = Nothing /\ NewEntry.total = 0 /\ Nothing \in Latest
  /\ \A e \in Entry :
       /\ Drained(e) \in Entry /\ Drained(e).all = Nothing /\ Drained(e).total = e.total
       /\ \A m \in Message :
            /\ Recorded(e, m) \in Entry /\ Recorded(e, m).total = e.total + 1
            /\ \A h \in Hosts : Recorded(e, m).all[h] = IF h = m.host THEN m ELSE e.all[h]
<1>1. Nothing \in Latest
  BY DEF Nothing, Latest
<1>2. NewEntry \in Entry /\ NewEntry.all = Nothing /\ NewEntry.total = 0
  BY <1>1 DEF NewEntry, FreshEntry, Entry
<1>3. \A e \in Entry : /\ Drained(e) \in Entry /\ Drained(e).all = Nothing
                       /\ Drained(e).total = e.total
  BY <1>1 DEF Drained, Entry
<1>4. ASSUME NEW e \in Entry, NEW m \in Message
      PROVE  /\ Recorded(e, m) \in Entry /\ Recorded(e, m).total = e.total + 1
             /\ \A h \in Hosts : Recorded(e, m).all[h] = IF h = m.host THEN m ELSE e.all[h]
  <2> DEFINE all == [e.all EXCEPT ![m.host] = m]
             counts == [e.counts EXCEPT ![m.status] = IF m.status \in Falsy THEN @ ELSE @ + 1]
  <2>1. Recorded(e, m) = [all |-> all, counts |-> counts, total |-> e.total + 1]
    BY DEF Recorded
  <2>2. all \in Latest
    BY DEF Entry, Latest, Message
  <2>3. counts \in [Statuses -> Nat]
    BY DEF Entry, Message
  <2>4. \A h \in Hosts : all[h] = IF h = m.host THEN m ELSE e.all[h]
    BY DEF Entry, Latest
  <2>5. e.total + 1 \in Nat
    BY DEF Entry
  <2>6. QED
    BY <2>1, <2>2, <2>3, <2>4, <2>5 DEF Entry
<1>5. QED
  BY <1>1, <1>2, <1>3, <1>4

LEMMA TakenTyped ==
  ASSUME TypeOK, entry # None
  PROVE  TakenFrom(entry) \in [Hosts -> 0..MaxSent]
<1>1. \A h \in Hosts : IsCurrent(entry.all[h]) => entry.all[h].number \in 0..MaxSent
  BY RunsFinite DEF TypeOK, Entry, Latest, IsCurrent, Message
<1>2. QED
  BY <1>1 DEF TakenFrom, TypeOK
\* A message that is sent has a number within the bound.
LEMMA SentTyped ==
  ASSUME TypeOK, RunsAgree, NEW h \in Hosts, NEW s \in Statuses, Send(h, s)
  PROVE  /\ run \in Runs /\ sent[h] + 1 <= MaxSent
         /\ [host |-> h, run |-> run, number |-> sent[h] + 1, status |-> s] \in Message
<1>1. run \in Runs
  BY DEF RunsAgree, Send
<1>2. sent \in [Hosts -> Nat] /\ SentInRun \in Nat /\ SentInRun < MaxSent
  BY SumsTyped DEF Send
<1>3. sent[h] <= SentInRun
  BY <1>2, SentGrows, Sums
<1>4. sent[h] \in Nat /\ sent[h] + 1 <= MaxSent
  BY <1>2, <1>3, RunsFinite
<1>5. sent[h] + 1 \in 1..MaxSent
  BY <1>4, RunsFinite
<1>6. QED
  BY <1>1, <1>4, <1>5 DEF Message

LEMMA StepTyped ==
  ASSUME TypeOK, RunsAgree, [Next]_vars
  PROVE  TypeOK'
<1>1. CASE UNCHANGED vars
  BY <1>1 DEF vars, server, view, TypeOK
<1>2. CASE Restart
  <2>1. run + 1 \in Runs /\ run + 1 \in 0..MaxRuns
    BY <1>2, RunsFinite DEF Restart, TypeOK, Runs
  <2>2. Waiting \in Nat
    BY <2>1, SumsTyped
  <2>3. 0 \in 0..MaxSent
    BY RunsFinite
  <2>4. QED
    BY <1>2, <2>1, <2>2, <2>3, EntryTyped DEF Restart, view, TypeOK
<1>3. CASE RestartFails
  BY <1>3 DEF RestartFails, server, view, TypeOK
<1>4. CASE Stop
  BY <1>4 DEF Stop, view, TypeOK
<1>5. CASE Crash
  <2>1. inbox' \in [Runs -> Seq(Message \cup Partial)]
    BY <1>5, EmptySeq DEF Crash
  <2>2. QED
    BY <1>5, <2>1 DEF Crash, TypeOK
<1>6. ASSUME NEW h \in Hosts, NEW s \in Statuses, Send(h, s)
      PROVE  TypeOK'
  <2> DEFINE m == [host |-> h, run |-> run, number |-> sent[h] + 1, status |-> s]
  <2>1. run \in Runs /\ sent[h] + 1 <= MaxSent /\ m \in Message
    BY <1>6, SentTyped
  <2>2. sent' \in [Hosts -> 0..MaxSent]
    BY <1>6, <2>1, RunsFinite DEF Send, TypeOK
  <2>3. inbox' \in [Runs -> Seq(Message \cup Partial)]
    <3>1. Append(inbox[run], m) \in Seq(Message \cup Partial)
      BY <2>1, AppendProperties DEF TypeOK
    <3>2. inbox' = inbox \/ inbox' = [inbox EXCEPT ![run] = Append(@, m)]
      BY <1>6 DEF Send
    <3>3. QED
      BY <2>1, <3>1, <3>2 DEF TypeOK
  <2>4. QED
    BY <1>6, <2>2, <2>3 DEF Send, view, TypeOK
<1>7. ASSUME NEW h \in Hosts, SendPartial(h)
      PROVE  TypeOK'
  <2>1. run \in Runs /\ [host |-> h] \in Partial
    BY <1>7 DEF SendPartial, RunsAgree, Partial
  <2>2. Append(inbox[run], [host |-> h]) \in Seq(Message \cup Partial)
    BY <2>1, AppendProperties DEF TypeOK
  <2>3. inbox' \in [Runs -> Seq(Message \cup Partial)]
    BY <1>7, <2>1, <2>2 DEF SendPartial, TypeOK
  <2>4. QED
    BY <1>7, <2>3 DEF SendPartial, view, TypeOK
<1>8. ASSUME NEW r \in Runs, Listen(r)
      PROVE  TypeOK'
  <2>1. inbox[r] \in Seq(Message \cup Partial) /\ inbox[r] # <<>>
    BY <1>8 DEF Listen, TypeOK
  <2>2. Tail(inbox[r]) \in Seq(Message \cup Partial)
    BY <2>1, HeadTailProperties
  <2>3. inbox' \in [Runs -> Seq(Message \cup Partial)]
    BY <1>8, <2>2 DEF Listen, TypeOK
  <2>4. \/ entry' = entry /\ listener' = [listener EXCEPT ![r] = "ended"]
        \/ /\ entry # None /\ Head(inbox[r]) \in Message
           /\ entry' = Recorded(entry, Head(inbox[r])) /\ listener' = listener
    BY <1>8 DEF Listen
  <2>5. listener' \in [Runs -> {"none", "running", "ended", "closed"}]
    BY <2>4 DEF TypeOK
  <2>6. entry' # None => entry' \in Entry
    <3>1. entry # None => entry \in Entry
      BY DEF TypeOK
    <3>2. \A e \in Entry : \A m \in Message : Recorded(e, m) \in Entry
      BY EntryTyped
    <3>3. QED
      BY <2>4, <3>1, <3>2
  <2>7. QED
    BY <1>8, <2>3, <2>5, <2>6 DEF Listen, view, TypeOK
<1>9. CASE Expire
  BY <1>9 DEF Expire, view, TypeOK
<1>10. ASSUME NEW v \in Viewers, Open(v) \/ Close(v)
      PROVE  TypeOK'
  BY <1>10, EntryTyped DEF Open, Close, server, TypeOK
<1>11. ASSUME NEW v \in Viewers, Poll(v) \/ PollFails(v)
      PROVE  TypeOK'
  <2>1. entry # None /\ entry' = Drained(entry) /\ taken' = TakenFrom(entry)
    BY <1>11 DEF Poll, PollFails
  <2>2. entry' \in Entry /\ taken' \in [Hosts -> 0..MaxSent]
    BY <2>1, EntryTyped, TakenTyped DEF TypeOK
  <2>3. entry.all \in Latest
    BY <2>1 DEF TypeOK, Entry
  <2>4. replies' \in [Viewers -> SUBSET Latest]
    <3>1. CASE PollFails(v)
      BY <3>1 DEF PollFails, view, TypeOK
    <3>2. CASE Poll(v)
      BY <2>3, <3>2 DEF Poll, TypeOK
    <3>3. QED
      BY <1>11, <3>1, <3>2
  <2>5. QED
    BY <1>11, <2>2, <2>4 DEF Poll, PollFails, view, TypeOK
<1>12. ASSUME NEW v \in Viewers, Show(v)
      PROVE  TypeOK'
  <2>1. PICK reply \in replies[v] :
          /\ shown' = [shown EXCEPT ![v] = [h \in Hosts |->
                         IF reply[h] = None THEN @[h] ELSE reply[h]]]
          /\ replies' = [replies EXCEPT ![v] = @ \ {reply}]
          /\ UNCHANGED <<run, up, sent, server, pages, carried, taken>>
    BY <1>12 DEF Show
  <2>2. reply \in Latest /\ shown[v] \in Latest
    BY DEF TypeOK
  <2>3. [h \in Hosts |-> IF reply[h] = None THEN shown[v][h] ELSE reply[h]] \in Latest
    BY <2>2 DEF Latest
  <2>4. shown' \in [Viewers -> Latest] /\ replies' \in [Viewers -> SUBSET Latest]
    BY <2>1, <2>3 DEF TypeOK
  <2>5. QED
    BY <2>1, <2>4 DEF server, TypeOK
<1>13. QED
  BY <1>1, <1>2, <1>3, <1>4, <1>5, <1>6, <1>7, <1>8, <1>9, <1>10, <1>11, <1>12 DEF Next
-----------------------------------------------------------------------------
\* Each action keeps the invariant.

\* The entry stays, goes, or is emptied by a page.
LEMMA KeptByRest ==
  ASSUME Kept, TypeOK', UNCHANGED <<run, sent, inbox, listener, carried>>, up' => up,
         \/ entry' = entry /\ taken' = taken
         \/ entry' = None /\ taken' = taken
         \/ entry # None /\ entry' = Drained(entry) /\ taken' = TakenFrom(entry)
  PROVE  Kept'
<1>1. /\ TypeOK /\ RunsAgree /\ InSequence /\ EntryOlder /\ NothingOlder
      /\ CountedOnce /\ NewestKept
  BY DEF Kept
<1>2. Waiting' = Waiting /\ SentInRun' = SentInRun
  BY DEF Waiting, SentInRun
<1>3. RunsAgree' /\ NothingOlder'
  BY <1>1 DEF RunsAgree, NothingOlder
<1>4. CASE entry' = entry /\ taken' = taken
  <2>1. EntryOlder' /\ CountedOnce' /\ NewestKept' /\ InSequence'
    BY <1>1, <1>2, <1>4 DEF EntryOlder, CountedOnce, NewestKept, IsCurrent, InSequence
  <2>2. QED
    BY <1>3, <2>1 DEF Kept
<1>5. CASE entry' = None /\ taken' = taken
  <2>1. InSequence'
    BY <1>1, <1>5 DEF InSequence
  <2>2. QED
    BY <1>3, <1>5, <2>1 DEF Kept, EntryOlder, CountedOnce, NewestKept
<1>6. CASE entry # None /\ entry' = Drained(entry) /\ taken' = TakenFrom(entry)
  <2>1. entry \in Entry
    BY <1>1, <1>6 DEF TypeOK
  <2>2. entry'.total = entry.total /\ \A h \in Hosts : entry'.all[h] = None
    BY <1>6, <2>1, EntryTyped DEF Nothing
  <2>3. EntryOlder' /\ CountedOnce'
    BY <1>1, <1>2, <1>6, <2>2 DEF EntryOlder, CountedOnce, IsCurrent
  <2>4. NewestKept'
    <3>1. SUFFICES ASSUME NEW h \in Hosts, sent[h] > taken'[h], carried = 0
                   PROVE  \E i \in Counted(inbox[run]) :
                            inbox[run][i].host = h /\ inbox[run][i].number = sent[h]
      BY <1>1 DEF NewestKept, TypeOK
    <3>2. taken'[h] = IF IsCurrent(entry.all[h]) THEN entry.all[h].number ELSE taken[h]
      BY <1>6 DEF TakenFrom
    <3>3. ~(IsCurrent(entry.all[h]) /\ entry.all[h].number = sent[h])
      BY <1>1, <3>1, <3>2 DEF TypeOK
    <3>4. CASE IsCurrent(entry.all[h])
      <4>1. sent[h] > taken[h]
        BY <1>1, <1>6, <3>4, RunsFinite DEF EntryOlder, TypeOK, Entry, Latest, IsCurrent, Message
      <4>2. QED
        BY <1>1, <1>6, <3>1, <3>3, <4>1 DEF NewestKept
    <3>5. CASE ~IsCurrent(entry.all[h])
      BY <1>1, <1>6, <3>1, <3>2, <3>5 DEF NewestKept
    <3>6. QED
      BY <3>4, <3>5
  <2>5. InSequence'
    <3>1. \A h \in Hosts : taken'[h] = IF IsCurrent(entry.all[h]) THEN entry.all[h].number
                                       ELSE taken[h]
      BY <1>6 DEF TakenFrom
    <3>2. \A h \in Hosts : taken'[h] <= sent[h]
      BY <1>1, <1>6, <3>1 DEF InSequence, EntryOlder
    <3>3. ASSUME run \in Runs, NEW i \in Counted(inbox[run])
          PROVE  taken'[inbox[run][i].host] < inbox[run][i].number
      <4>1. inbox[run][i].host \in Hosts
        BY <3>3 DEF Counted, Message
      <4>2. QED
        BY <1>1, <1>6, <3>1, <3>3, <4>1 DEF InSequence, EntryOlder
    <3>4. QED
      BY <1>1, <3>2, <3>3 DEF InSequence
  <2>6. QED
    BY <1>3, <2>3, <2>4, <2>5 DEF Kept
<1>7. QED
  BY <1>4, <1>5, <1>6
LEMMA KeptByCrash ==
  ASSUME Kept, TypeOK', Crash
  PROVE  Kept'
<1>1. RunsAgree /\ InSequence /\ TypeOK
  BY DEF Kept
<1>2. entry' = None /\ \A r \in Runs : inbox'[r] = <<>> /\ Counted(inbox'[r]) = {}
  BY DEF Crash, Counted
<1>3. RunsAgree' /\ InSequence'
  BY <1>1, <1>2 DEF Crash, RunsAgree, InSequence
<1>4. QED
  BY <1>2, <1>3 DEF Kept, EntryOlder, NothingOlder, CountedOnce, NewestKept

\* The entry is new, and the sockets keep what they have.
LEMMA KeptByRestart ==
  ASSUME Kept, TypeOK', Restart
  PROVE  Kept'
<1>1. RunsAgree /\ TypeOK /\ run \in Nat /\ run + 1 \in Runs
  BY RunsFinite DEF Kept, TypeOK, Restart, Runs
<1>2. /\ run' = run + 1 /\ inbox' = inbox /\ inbox'[run + 1] = <<>>
      /\ Counted(inbox'[run + 1]) = {}
  BY <1>1, RunsFinite DEF Restart, RunsAgree, Runs, Counted
<1>3. /\ \A h \in Hosts : taken'[h] = 0 /\ sent'[h] = 0
      /\ entry'.total = 0 /\ \A h \in Hosts : entry'.all[h] = None
  BY EntryTyped DEF Restart, Nothing
<1>4. RunsAgree'
  <2>1. \A r \in Runs : r > run + 1 => inbox'[r] = <<>>
    BY <1>1, <1>2, RunsFinite DEF RunsAgree, Runs
  <2>2. listener'[run'] = "running"
    BY <1>1, <1>2 DEF Restart, TypeOK
  <2>3. QED
    BY <1>1, <1>2, <2>1, <2>2 DEF RunsAgree
<1>5. InSequence' /\ EntryOlder' /\ NewestKept'
  BY <1>2, <1>3 DEF InSequence, EntryOlder, NewestKept, IsCurrent
<1>6. Waiting' = Waiting /\ Waiting \in Nat
  BY <1>1, <1>2, SumsTyped DEF Waiting
<1>7. CountedOnce'
  <2>1. SentInRun' = 0
    BY NothingSent, Sums DEF Restart
  <2>2. carried' = Waiting
    BY DEF Restart
  <2>3. QED
    BY <1>3, <1>6, <2>1, <2>2 DEF CountedOnce
<1>8. NothingOlder'
  <2>1. ASSUME carried' = 0, NEW r \in Runs
        PROVE  Counted(inbox[r]) = {}
    <3>1. Cardinality(Marked(inbox)) = 0
      BY <2>1, Sums DEF Restart
    <3>2. inbox \in [Runs -> Queue] /\ inbox[r] \in Queue
      BY <1>1, SumsTyped
    <3>3. PICK w \in Nat : Cardinality(Marked(inbox)) = w + Cardinality(Counted(inbox[r]))
      BY <3>2, WaitingChange
    <3>4. IsFiniteSet(Counted(inbox[r])) /\ Cardinality(Counted(inbox[r])) \in Nat
      BY <3>2, CountedFinite
    <3>5. Cardinality(Counted(inbox[r])) = 0
      BY <3>1, <3>3, <3>4
    <3>6. QED
      BY <3>4, <3>5, FS_EmptySet
  <2>2. QED
    BY <1>2, <2>1 DEF NothingOlder
<1>9. QED
  BY <1>4, <1>5, <1>7, <1>8 DEF Kept

\* A message that the socket of the run receives, counted or not.
LEMMA Received ==
  ASSUME TypeOK, run \in Runs, NEW m \in Message \cup Partial,
         inbox' = [inbox EXCEPT ![run] = Append(@, m)]
  PROVE  /\ \A r \in Runs : r # run => inbox'[r] = inbox[r]
         /\ \A i \in Counted(inbox[run]) :
              i \in Counted(inbox'[run]) /\ inbox'[run][i] = inbox[run][i]
         /\ \A i \in Counted(inbox'[run]) :
              \/ i \in Counted(inbox[run])
              \/ /\ m \in Message /\ inbox'[run][i] = m
                 /\ \A j \in Counted(inbox[run]) : j < i
         /\ \A i, j \in Counted(inbox'[run]) \ Counted(inbox[run]) : i = j
         /\ m \in Message => \E i \in Counted(inbox'[run]) : inbox'[run][i] = m
         /\ Waiting \in Nat /\ Waiting' = Waiting + (IF m \in Message THEN 1 ELSE 0)
<1> DEFINE q == inbox[run]
<1>1. inbox \in [Runs -> Queue] /\ q \in Queue
  BY SumsTyped
<1>2. inbox'[run] = Append(q, m) /\ \A r \in Runs : r # run => inbox'[r] = inbox[r]
  BY <1>1
<1>3. /\ Append(q, m) \in Queue
      /\ \A i \in Counted(q) : Append(q, m)[i] = q[i] /\ i < Len(q) + 1
      /\ Append(q, m)[Len(q) + 1] = m
      /\ Counted(Append(q, m)) = Counted(q) \cup (IF m \in Message THEN {Len(q) + 1} ELSE {})
      /\ Cardinality(Counted(Append(q, m))) =
           Cardinality(Counted(q)) + (IF m \in Message THEN 1 ELSE 0)
  BY <1>1, CountedAppend, Zenon
<1>4. PICK w \in Nat :
        /\ Cardinality(Marked(inbox)) = w + Cardinality(Counted(q))
        /\ Cardinality(Marked([inbox EXCEPT ![run] = Append(q, m)])) =
             w + Cardinality(Counted(Append(q, m)))
  BY <1>1, <1>3, WaitingChange
<1>5. Cardinality(Counted(q)) \in Nat
  BY <1>1, CountedFinite
<1>6. Waiting \in Nat /\ Waiting' = Waiting + (IF m \in Message THEN 1 ELSE 0)
  BY <1>3, <1>4, <1>5, Sums
<1>7. \A i \in Counted(q) : i \in Counted(inbox'[run]) /\ inbox'[run][i] = q[i]
  BY <1>2, <1>3
<1>8. \A i \in Counted(inbox'[run]) :
        \/ i \in Counted(q)
        \/ m \in Message /\ inbox'[run][i] = m /\ \A j \in Counted(q) : j < i
  BY <1>2, <1>3
<1>9. m \in Message => \E i \in Counted(inbox'[run]) : inbox'[run][i] = m
  BY <1>2, <1>3
<1>10. \A i, j \in Counted(inbox'[run]) \ Counted(q) : i = j
  BY <1>2, <1>3
<1>11. QED
  BY <1>2, <1>6, <1>7, <1>8, <1>9, <1>10
LEMMA KeptBySend ==
  ASSUME Kept, TypeOK', NEW h \in Hosts, NEW s \in Statuses, Send(h, s)
  PROVE  Kept'
<1> DEFINE m == [host |-> h, run |-> run, number |-> sent[h] + 1, status |-> s]
<1>1. /\ TypeOK /\ RunsAgree /\ InSequence /\ EntryOlder /\ NothingOlder /\ CountedOnce /\ NewestKept
      /\ run \in Runs /\ m \in Message
  BY SentTyped DEF Kept
<1>2. /\ run' = run /\ listener' = listener /\ entry' = entry /\ taken' = taken /\ carried' = carried
      /\ sent' = [sent EXCEPT ![h] = @ + 1]
  BY DEF Send
<1>3. /\ sent \in [Hosts -> Nat]
      /\ \A k \in Hosts : sent'[k] = IF k = h THEN sent[k] + 1 ELSE sent[k]
  BY <1>1, <1>2, SumsTyped
<1>4. SentInRun \in Nat /\ SentInRun' = SentInRun + 1
  BY <1>1, <1>2, <1>3, SumsTyped, SentGrows, Sums
<1>5. CASE listener[run] = "closed"
  <2>1. entry' = None /\ inbox' = inbox
    BY <1>1, <1>2, <1>5 DEF RunsAgree, Send
  <2>2. RunsAgree'
    BY <1>1, <1>2, <2>1 DEF RunsAgree
  <2>3. InSequence'
    <3>0a. \A k \in Hosts : taken[k] \in Nat /\ sent[k] \in Nat /\ taken[k] <= sent[k]
      BY <1>1, RunsFinite DEF InSequence, TypeOK
    <3>1. \A k \in Hosts : taken[k] \in Nat /\ taken[k] <= sent[k] /\ taken[k] <= sent'[k]
      BY <1>3, <3>0a
    <3>2. \A i \in Counted(inbox[run]) : inbox[run][i].number <= sent'[inbox[run][i].host]
      BY <1>1, <1>3 DEF InSequence, Counted, Message
    <3>3. QED
      BY <1>1, <1>2, <2>1, <3>1, <3>2 DEF InSequence
  <2>4. QED
    BY <2>1, <2>2, <2>3 DEF Kept, EntryOlder, NothingOlder, CountedOnce, NewestKept
<1>6. CASE listener[run] # "closed"
  <2>1. inbox' = [inbox EXCEPT ![run] = Append(@, m)]
    BY <1>6 DEF Send
  <2>2. /\ \A r \in Runs : r # run => inbox'[r] = inbox[r]
        /\ \A i \in Counted(inbox[run]) :
             i \in Counted(inbox'[run]) /\ inbox'[run][i] = inbox[run][i]
        /\ \A i \in Counted(inbox'[run]) :
             \/ i \in Counted(inbox[run])
             \/ inbox'[run][i] = m /\ \A j \in Counted(inbox[run]) : j < i
        /\ \A i, j \in Counted(inbox'[run]) \ Counted(inbox[run]) : i = j
        /\ \E i \in Counted(inbox'[run]) : inbox'[run][i] = m
        /\ Waiting \in Nat /\ Waiting' = Waiting + 1
    BY <1>1, <2>1, Received
  <2>3. m.host = h /\ m.run = run /\ m.number = sent[h] + 1
    OBVIOUS
  <2> HIDE DEF m
  <2>4. RunsAgree'
    <3>1. \A r \in Runs : r > run => inbox'[r] = <<>>
      BY <1>1, <2>2, RunsFinite DEF RunsAgree, TypeOK, Runs
    <3>2. ASSUME NEW r \in Runs, NEW i \in Counted(inbox'[r])
          PROVE  inbox'[r][i].run = r
      <4>1. CASE r = run
        BY <1>1, <2>2, <2>3, <3>2, <4>1 DEF RunsAgree
      <4>2. CASE r # run
        BY <1>1, <2>2, <3>2, <4>2 DEF RunsAgree
      <4>3. QED
        BY <4>1, <4>2
    <3>3. QED
      BY <1>1, <1>2, <3>1, <3>2 DEF RunsAgree
  <2>5. \A i \in Counted(inbox[run]) : /\ inbox[run][i].host \in Hosts
                                       /\ inbox[run][i].number \in Nat /\ i \in Nat
    <3>1. inbox[run] \in Queue
      BY <1>1, SumsTyped
    <3>2. Counted(inbox[run]) \subseteq 1..Len(inbox[run])
      BY <3>1, CountedFinite
    <3>3. QED
      BY <3>2 DEF Counted, Message
  <2>5a. \A i \in Counted(inbox'[run]) : i \in Nat
    <3>1. inbox'[run] \in Queue
      BY <1>1 DEF TypeOK, Queue
    <3>2. Counted(inbox'[run]) \subseteq 1..Len(inbox'[run])
      BY <3>1, CountedFinite
    <3>3. QED
      BY <3>2
  <2>6. \A k \in Hosts : taken[k] \in Nat /\ taken[k] <= sent[k] /\ sent[k] <= sent'[k]
    <3>1. \A k \in Hosts : taken[k] \in Nat /\ sent[k] \in Nat
      BY <1>1, RunsFinite DEF TypeOK
    <3>2. \A k \in Hosts : taken[k] <= sent[k]
      BY <1>1 DEF InSequence
    <3>3. \A k \in Hosts : sent[k] <= sent'[k]
      BY <1>3, <3>1
    <3>4. QED
      BY <3>1, <3>2, <3>3
  <2>7. InSequence'
    <3>1. ASSUME NEW i \in Counted(inbox'[run])
          PROVE  /\ inbox'[run][i].number <= sent'[inbox'[run][i].host]
                 /\ taken[inbox'[run][i].host] < inbox'[run][i].number
      <4>1. CASE i \in Counted(inbox[run])
        BY <1>1, <1>3, <2>2, <2>5, <2>6, <4>1 DEF InSequence
      <4>2. CASE inbox'[run][i] = m
        BY <1>3, <2>3, <2>6, <4>2
      <4>3. QED
        BY <2>2, <4>1, <4>2
    <3>2. ASSUME NEW i \in Counted(inbox'[run]), NEW j \in Counted(inbox'[run]), j < i,
                 inbox'[run][j].host = inbox'[run][i].host
          PROVE  inbox'[run][j].number < inbox'[run][i].number
      <4>1. CASE i \in Counted(inbox[run])
        <5>1. j \in Counted(inbox[run])
          <6>1. CASE \A k \in Counted(inbox[run]) : k < j
            BY <2>5, <2>5a, <3>2, <4>1, <6>1
          <6>2. QED
            BY <2>2, <6>1
        <5>2. QED
          BY <1>1, <2>2, <3>2, <4>1, <5>1 DEF InSequence
      <4>2. CASE i \notin Counted(inbox[run])
        <5>1. inbox'[run][i] = m
          BY <2>2, <4>2
        <5>2. j \in Counted(inbox[run])
          BY <2>2, <2>5a, <3>2, <4>2
        <5>3. inbox[run][j].number <= sent[h]
          BY <1>1, <2>2, <2>3, <3>2, <5>1, <5>2 DEF InSequence
        <5>4. QED
          BY <1>3, <2>2, <2>3, <2>5, <5>1, <5>2, <5>3
      <4>3. QED
        BY <4>1, <4>2
    <3>3. \A k \in Hosts : taken[k] <= sent'[k]
      BY <1>3, <2>6
    <3>4. QED
      BY <1>2, <3>1, <3>2, <3>3 DEF InSequence
  <2>8. EntryOlder'
    <3>1. SUFFICES ASSUME entry # None, NEW k \in Hosts, entry.all[k] # None, entry.all[k].run = run
                   PROVE  /\ taken[k] < entry.all[k].number
                          /\ entry.all[k].number <= sent'[k]
                          /\ \A i \in Counted(inbox'[run]) :
                               inbox'[run][i].host = k => entry.all[k].number < inbox'[run][i].number
      BY <1>2 DEF EntryOlder, IsCurrent
    <3>2. /\ entry.all[k].number \in Nat /\ taken[k] < entry.all[k].number
          /\ entry.all[k].number <= sent[k]
          /\ \A i \in Counted(inbox[run]) :
               inbox[run][i].host = k => entry.all[k].number < inbox[run][i].number
      <4>1. entry.all[k] \in Message
        BY <1>1, <3>1 DEF TypeOK, Entry, Latest
      <4>2. entry.all[k].number \in Nat
        BY <4>1 DEF Message
      <4>3. QED
        BY <1>1, <3>1, <4>2 DEF EntryOlder, IsCurrent
    <3>3. entry.all[k].number <= sent'[k]
      BY <1>3, <2>6, <3>2
    <3>4. ASSUME NEW i \in Counted(inbox'[run]), inbox'[run][i].host = k
          PROVE  entry.all[k].number < inbox'[run][i].number
      <4>1. CASE i \in Counted(inbox[run])
        BY <2>2, <3>2, <3>4, <4>1
      <4>2. CASE inbox'[run][i] = m
        BY <1>3, <2>3, <3>2, <3>4, <4>2
      <4>3. QED
        BY <2>2, <4>1, <4>2
    <3>5. QED
      BY <3>2, <3>3, <3>4
  <2>9. NothingOlder'
    BY <1>1, <1>2, <2>2, RunsFinite DEF NothingOlder, Runs
  <2>10. CountedOnce'
    <3>1. SUFFICES ASSUME entry # None
                   PROVE  entry.total + Waiting' = SentInRun' + carried
      BY <1>2 DEF CountedOnce
    <3>2. entry.total \in Nat /\ carried \in Nat /\ entry.total + Waiting = SentInRun + carried
      BY <1>1, <3>1 DEF CountedOnce, TypeOK, Entry
    <3>3. QED
      BY <1>4, <2>2, <3>2
  <2>11. NewestKept'
    <3>1. SUFFICES ASSUME NEW k \in Hosts, entry # None, sent'[k] > taken[k], ~(carried > 0),
                          ~(IsCurrent(entry.all[k]) /\ entry.all[k].number = sent'[k])
                   PROVE  \E i \in Counted(inbox'[run]) :
                            inbox'[run][i].host = k /\ inbox'[run][i].number = sent'[k]
      BY <1>2 DEF NewestKept, IsCurrent
    <3>2. CASE k = h
      BY <1>3, <2>2, <2>3, <3>2
    <3>3. CASE k # h
      <4>1. sent'[k] = sent[k]
        BY <1>3, <3>3
      <4>2. PICK i \in Counted(inbox[run]) :
              inbox[run][i].host = k /\ inbox[run][i].number = sent[k]
        BY <1>1, <3>1, <4>1 DEF NewestKept
      <4>3. QED
        BY <2>2, <4>1, <4>2
    <3>4. QED
      BY <3>2, <3>3
  <2>12. QED
    BY <2>4, <2>7, <2>8, <2>9, <2>10, <2>11 DEF Kept
<1>7. QED
  BY <1>5, <1>6

LEMMA KeptBySendPartial ==
  ASSUME Kept, TypeOK', NEW h \in Hosts, SendPartial(h)
  PROVE  Kept'
<1> DEFINE m == [host |-> h]
<1>1. /\ TypeOK /\ RunsAgree /\ InSequence /\ EntryOlder /\ NothingOlder /\ CountedOnce /\ NewestKept
      /\ run \in Runs
  BY DEF Kept, SendPartial, RunsAgree
<1>2. m \in Partial /\ m \notin Message
  BY DEF Partial, Message
<1>3. /\ run' = run /\ listener' = listener /\ entry' = entry /\ taken' = taken /\ carried' = carried
      /\ sent' = sent /\ up' = up
  BY DEF SendPartial
<1>4. inbox' = [inbox EXCEPT ![run] = Append(@, m)]
  BY DEF SendPartial
<1> HIDE DEF m
<1>5. /\ \A r \in Runs : r # run => inbox'[r] = inbox[r]
      /\ \A i \in Counted(inbox[run]) :
           i \in Counted(inbox'[run]) /\ inbox'[run][i] = inbox[run][i]
      /\ Counted(inbox'[run]) \subseteq Counted(inbox[run])
      /\ Waiting \in Nat /\ Waiting' = Waiting
  <2>1. /\ \A r \in Runs : r # run => inbox'[r] = inbox[r]
        /\ \A i \in Counted(inbox[run]) :
             i \in Counted(inbox'[run]) /\ inbox'[run][i] = inbox[run][i]
        /\ \A i \in Counted(inbox'[run]) : i \in Counted(inbox[run])
        /\ Waiting \in Nat /\ Waiting' = Waiting + 0
    BY <1>1, <1>2, <1>4, Received
  <2>2. QED
    BY <2>1
<1>6. Counted(inbox'[run]) = Counted(inbox[run])
  BY <1>5
<1>7. RunsAgree'
  <2>1. \A r \in Runs : r > run => inbox'[r] = <<>>
    BY <1>1, <1>5, RunsFinite DEF RunsAgree, Runs
  <2>2. \A r \in Runs : \A i \in Counted(inbox'[r]) : inbox'[r][i].run = r
    BY <1>1, <1>5 DEF RunsAgree
  <2>3. QED
    BY <1>1, <1>3, <2>1, <2>2 DEF RunsAgree
<1>8. InSequence'
  BY <1>1, <1>3, <1>5, <1>6 DEF InSequence
<1>9. EntryOlder'
  BY <1>1, <1>3, <1>5, <1>6 DEF EntryOlder, IsCurrent
<1>10. NothingOlder'
  BY <1>1, <1>3, <1>5, RunsFinite DEF NothingOlder, Runs
<1>11. SentInRun' = SentInRun
  BY <1>3 DEF SentInRun
<1>12. CountedOnce'
  BY <1>1, <1>3, <1>5, <1>11 DEF CountedOnce
<1>13. NewestKept'
  BY <1>1, <1>3, <1>5, <1>6 DEF NewestKept, IsCurrent
<1>14. QED
  BY <1>7, <1>8, <1>9, <1>10, <1>12, <1>13 DEF Kept
\* What the task of one Messenger takes from the head of its queue.
LEMMA Heard ==
  ASSUME TypeOK, RunsAgree, NEW r \in Runs, Listen(r)
  PROVE  /\ r <= run /\ r \in Nat /\ run \in Runs
         /\ \A k \in Runs : k # r => inbox'[k] = inbox[k]
         /\ \A i \in Counted(inbox'[r]) :
              i \in Nat \ {0} /\ i + 1 \in Counted(inbox[r]) /\ inbox'[r][i] = inbox[r][i + 1]
         /\ \A i \in Counted(inbox[r]) : i # 1 =>
              \E j \in Counted(inbox'[r]) : inbox'[r][j] = inbox[r][i]
         /\ Head(inbox[r]) = inbox[r][1]
         /\ 1 \in Counted(inbox[r]) <=> Head(inbox[r]) \in Message
         /\ Waiting \in Nat /\ Waiting' \in Nat
         /\ Waiting = Waiting' + (IF Head(inbox[r]) \in Message THEN 1 ELSE 0)
<1> DEFINE q == inbox[r]
<1>1. inbox \in [Runs -> Queue] /\ q \in Queue /\ q # <<>>
  BY SumsTyped DEF Listen
<1>2. inbox' = [inbox EXCEPT ![r] = Tail(q)] /\ inbox'[r] = Tail(q)
      /\ \A k \in Runs : k # r => inbox'[k] = inbox[k]
  BY <1>1 DEF Listen
<1>3. /\ Tail(q) \in Queue
      /\ \A i \in Counted(Tail(q)) : i + 1 \in Counted(q) /\ Tail(q)[i] = q[i + 1]
      /\ \A i \in Counted(q) : i # 1 => i - 1 \in Counted(Tail(q))
      /\ Head(q) \in Message <=> 1 \in Counted(q)
      /\ Cardinality(Counted(q)) =
           Cardinality(Counted(Tail(q))) + (IF Head(q) \in Message THEN 1 ELSE 0)
  BY <1>1, CountedTail, Zenon
<1>4. /\ Counted(Tail(q)) \subseteq 1..Len(Tail(q)) /\ Cardinality(Counted(Tail(q))) \in Nat
      /\ Counted(q) \subseteq 1..Len(q)
  BY <1>1, <1>3, CountedFinite
<1>5. PICK w \in Nat :
        /\ Cardinality(Marked(inbox)) = w + Cardinality(Counted(q))
        /\ Cardinality(Marked([inbox EXCEPT ![r] = Tail(q)])) = w + Cardinality(Counted(Tail(q)))
  BY <1>1, <1>3, WaitingChange
<1>6. /\ Waiting \in Nat /\ Waiting' \in Nat
      /\ Waiting = Waiting' + (IF Head(q) \in Message THEN 1 ELSE 0)
  <2>1. Waiting = w + Cardinality(Counted(q))
    BY <1>5, Sums
  <2>2. Waiting' = w + Cardinality(Counted(Tail(q)))
    BY <1>2, <1>5, Sums
  <2>3. QED
    BY <1>3, <1>4, <2>1, <2>2
<1>7. \A i \in Counted(q) : i # 1 => \E j \in Counted(Tail(q)) : Tail(q)[j] = q[i]
  <2>1. SUFFICES ASSUME NEW i \in Counted(q), i # 1
                 PROVE  \E j \in Counted(Tail(q)) : Tail(q)[j] = q[i]
    OBVIOUS
  <2>2. PICK j : j = i - 1
    OBVIOUS
  <2>3. j \in Counted(Tail(q)) /\ j + 1 = i
    BY <1>3, <1>4, <2>1, <2>2
  <2>4. Tail(q)[j] = q[i]
    BY <1>3, <2>3
  <2>5. QED
    BY <2>3, <2>4
<1>8. Head(q) = q[1]
  BY <1>1, HeadTailProperties DEF Queue
<1>9. r <= run /\ r \in Nat /\ run \in Runs
  BY <1>1, RunsFinite DEF RunsAgree, TypeOK, Runs
<1>10. \A i \in Counted(Tail(q)) : i \in Nat \ {0}
  BY <1>4
<1>11. QED
  BY <1>2, <1>3, <1>6, <1>7, <1>8, <1>9, <1>10

LEMMA KeptByListen ==
  ASSUME Kept, TypeOK', NEW r \in Runs, Listen(r)
  PROVE  Kept'
<1> DEFINE m == Head(inbox[r])
<1>1. /\ TypeOK /\ RunsAgree /\ InSequence /\ EntryOlder /\ NothingOlder /\ CountedOnce /\ NewestKept
  BY DEF Kept
<1>2. /\ run' = run /\ taken' = taken /\ carried' = carried /\ sent' = sent /\ up' = up
      /\ listener' = listener \/ listener' = [listener EXCEPT ![r] = "ended"]
      /\ \/ entry' = entry /\ (entry = None \/ m \notin Message)
         \/ entry # None /\ m \in Message /\ entry' = Recorded(entry, m)
  BY DEF Listen
<1>3. /\ r <= run /\ r \in Nat /\ run \in Runs
      /\ \A k \in Runs : k # r => inbox'[k] = inbox[k]
      /\ \A i \in Counted(inbox'[r]) :
           i \in Nat \ {0} /\ i + 1 \in Counted(inbox[r]) /\ inbox'[r][i] = inbox[r][i + 1]
      /\ \A i \in Counted(inbox[r]) : i # 1 =>
           \E j \in Counted(inbox'[r]) : inbox'[r][j] = inbox[r][i]
      /\ m = inbox[r][1]
      /\ 1 \in Counted(inbox[r]) <=> m \in Message
      /\ Waiting \in Nat /\ Waiting' \in Nat
      /\ Waiting = Waiting' + (IF m \in Message THEN 1 ELSE 0)
  BY <1>1, Heard
<1>4. m \in Message =>
        /\ m.run = r /\ m.host \in Hosts /\ m.number \in Nat /\ m # None
        /\ r = run => m.number <= sent[m.host] /\ taken[m.host] < m.number
  BY <1>1, <1>3, NoneAssumption DEF RunsAgree, InSequence, Message
<1>5. entry # None /\ m \in Message =>
        /\ entry \in Entry /\ entry'.total = entry.total + 1
        /\ \A h \in Hosts : entry'.all[h] = IF h = m.host THEN m ELSE entry.all[h]
  <2> HIDE DEF m
  <2>1. SUFFICES ASSUME entry # None, m \in Message
                 PROVE  /\ entry \in Entry /\ entry'.total = entry.total + 1
                        /\ \A h \in Hosts :
                             entry'.all[h] = IF h = m.host THEN m ELSE entry.all[h]
    OBVIOUS
  <2>2. entry' = Recorded(entry, m) /\ entry \in Entry
    BY <1>1, <1>2, <2>1 DEF TypeOK
  <2>3. /\ Recorded(entry, m).total = entry.total + 1
        /\ \A h \in Hosts :
             Recorded(entry, m).all[h] = IF h = m.host THEN m ELSE entry.all[h]
    BY <2>1, <2>2, EntryTyped
  <2>4. QED
    BY <2>2, <2>3
<1> HIDE DEF m
<1>6. RunsAgree'
  <2>1. \A k \in Runs : k > run => inbox'[k] = <<>>
    BY <1>1, <1>3, RunsFinite DEF RunsAgree, Runs
  <2>2. ASSUME NEW k \in Runs, NEW i \in Counted(inbox'[k])
        PROVE  inbox'[k][i].run = k
    <3>1. PICK j \in Counted(inbox[k]) : inbox'[k][i] = inbox[k][j]
      BY <1>3, <2>2
    <3>2. QED
      BY <1>1, <3>1 DEF RunsAgree
  <2>3. listener[run] # "closed" => listener'[run] # "closed"
    BY <1>1, <1>2, <1>3 DEF TypeOK
  <2>4. entry' # None => entry # None
    BY <1>2
  <2>5. QED
    BY <1>1, <1>2, <1>3, <2>1, <2>2, <2>3, <2>4 DEF RunsAgree
<1>7. InSequence'
  <2>1. CASE r # run
    BY <1>1, <1>2, <1>3, <2>1 DEF InSequence
  <2>2. CASE r = run
    <3>1. \A i \in Counted(inbox'[run]) :
            /\ inbox'[run][i].number <= sent[inbox'[run][i].host]
            /\ taken[inbox'[run][i].host] < inbox'[run][i].number
      BY <1>1, <1>3, <2>2 DEF InSequence
    <3>2. ASSUME NEW i \in Counted(inbox'[run]), NEW j \in Counted(inbox'[run]), j < i,
                 inbox'[run][j].host = inbox'[run][i].host
          PROVE  inbox'[run][j].number < inbox'[run][i].number
      <4>1. /\ i + 1 \in Counted(inbox[run]) /\ j + 1 \in Counted(inbox[run]) /\ j + 1 < i + 1
            /\ inbox'[run][i] = inbox[run][i + 1] /\ inbox'[run][j] = inbox[run][j + 1]
        BY <1>3, <2>2, <3>2
      <4>2. QED
        BY <1>1, <1>3, <3>2, <4>1 DEF InSequence
    <3>3. QED
      BY <1>1, <1>2, <3>1, <3>2 DEF InSequence
  <2>3. QED
    BY <2>1, <2>2
<1>8. EntryOlder'
  <2>1. SUFFICES ASSUME entry' # None, NEW h \in Hosts, entry'.all[h] # None,
                        entry'.all[h].run = run
                 PROVE  /\ taken[h] < entry'.all[h].number
                        /\ entry'.all[h].number <= sent[h]
                        /\ \A i \in Counted(inbox'[run]) : inbox'[run][i].host = h =>
                             entry'.all[h].number < inbox'[run][i].number
    BY <1>2 DEF EntryOlder, IsCurrent
  <2>2. CASE entry'.all[h] = entry.all[h] /\ entry # None
    <3>1. /\ taken[h] < entry.all[h].number /\ entry.all[h].number <= sent[h]
          /\ \A i \in Counted(inbox[run]) : inbox[run][i].host = h =>
               entry.all[h].number < inbox[run][i].number
      BY <1>1, <2>1, <2>2 DEF EntryOlder, IsCurrent
    <3>2. \A i \in Counted(inbox'[run]) : \E j \in Counted(inbox[run]) : inbox'[run][i] = inbox[run][j]
      BY <1>3
    <3>3. QED
      BY <2>2, <3>1, <3>2
  <2>3. CASE m \in Message /\ entry'.all[h] = m /\ h = m.host
    <3>1. r = run
      BY <1>4, <2>1, <2>3
    <3>2. ASSUME NEW i \in Counted(inbox'[run]), inbox'[run][i].host = h
          PROVE  m.number < inbox'[run][i].number
      <4>1. /\ i + 1 \in Counted(inbox[run]) /\ inbox'[run][i] = inbox[run][i + 1] /\ 1 < i + 1
            /\ 1 \in Counted(inbox[run]) /\ m = inbox[run][1]
        BY <1>3, <2>3, <3>1
      <4>2. inbox[run][1].host = inbox[run][i + 1].host
        BY <2>3, <3>2, <4>1
      <4>3. QED
        BY <1>1, <1>3, <4>1, <4>2 DEF InSequence
    <3>3. QED
      BY <1>4, <2>3, <3>1, <3>2
  <2>4. QED
    BY <1>2, <1>5, <2>1, <2>2, <2>3
<1>9. NothingOlder'
  <2>1. SUFFICES ASSUME entry # None, carried = 0, NEW k \in Runs, k < run
                 PROVE  Counted(inbox'[k]) = {}
    BY <1>2 DEF NothingOlder
  <2>2. Counted(inbox[k]) = {}
    BY <1>1, <2>1 DEF NothingOlder
  <2>3. QED
    BY <1>3, <2>2
<1>10. CountedOnce'
  <2>1. SentInRun' = SentInRun /\ SentInRun \in Nat
    BY <1>1, <1>2, SumsTyped DEF SentInRun
  <2>2. SUFFICES ASSUME entry' # None
                 PROVE  entry'.total + Waiting' = SentInRun + carried
    BY <1>2, <2>1 DEF CountedOnce
  <2>3. entry # None /\ entry.total \in Nat /\ entry.total + Waiting = SentInRun + carried
    BY <1>1, <1>2, <2>2 DEF CountedOnce, TypeOK, Entry
  <2>4. carried \in Nat
    BY <1>1 DEF TypeOK
  <2>5. CASE m \in Message
    <3>1. entry'.total = entry.total + 1 /\ Waiting = Waiting' + 1
      BY <1>3, <1>5, <2>3, <2>5
    <3>2. QED
      BY <1>3, <2>1, <2>3, <2>4, <3>1
  <2>6. CASE m \notin Message
    <3>1. entry' = entry /\ Waiting = Waiting'
      BY <1>2, <1>3, <2>6
    <3>2. QED
      BY <2>3, <3>1
  <2>7. QED
    BY <2>5, <2>6
<1>11. NewestKept'
  <2>1. SUFFICES ASSUME NEW h \in Hosts, entry' # None, sent[h] > taken[h], ~(carried > 0)
                 PROVE  \/ \E i \in Counted(inbox'[run]) :
                             inbox'[run][i].host = h /\ inbox'[run][i].number = sent[h]
                        \/ /\ entry'.all[h] # None /\ entry'.all[h].run = run
                           /\ entry'.all[h].number = sent[h]
    BY <1>2 DEF NewestKept, IsCurrent
  <2>2. entry # None /\ carried = 0
    BY <1>1, <1>2, <2>1 DEF TypeOK
  <2>3. CASE \E i \in Counted(inbox[run]) :
               inbox[run][i].host = h /\ inbox[run][i].number = sent[h]
    <3>1. PICK i \in Counted(inbox[run]) :
               inbox[run][i].host = h /\ inbox[run][i].number = sent[h]
      BY <2>3
    <3>2. CASE r = run /\ i = 1
      <4>1. m \in Message /\ m.host = h /\ m.number = sent[h] /\ m.run = run /\ m # None
        BY <1>3, <1>4, <3>1, <3>2
      <4>2. QED
        BY <1>5, <2>2, <4>1
    <3>3. CASE r = run /\ i # 1
      BY <1>3, <3>1, <3>3
    <3>4. CASE r # run
      BY <1>3, <3>1, <3>4
    <3>5. QED
      BY <3>2, <3>3, <3>4
  <2>4. CASE /\ entry.all[h] # None /\ entry.all[h].run = run
             /\ entry.all[h].number = sent[h]
    <3>1. CASE m \in Message /\ m.host = h
      <4>1. CASE r = run
        <5>1. sent[h] < m.number /\ m.number <= sent[h] /\ m.number \in Nat
          BY <1>1, <1>3, <1>4, <2>2, <2>4, <3>1, <4>1 DEF EntryOlder, IsCurrent
        <5>2. sent[h] \in Nat
          BY <1>1, RunsFinite DEF TypeOK
        <5>3. QED
          BY <5>1, <5>2
      <4>2. CASE r # run
        <5>1. r < run
          BY <1>3, <4>2, RunsFinite DEF Runs
        <5>2. Counted(inbox[r]) = {}
          BY <1>1, <2>2, <5>1 DEF NothingOlder
        <5>3. QED
          BY <1>3, <3>1, <5>2
      <4>3. QED
        BY <4>1, <4>2
    <3>2. CASE ~(m \in Message /\ m.host = h)
      <4>1. entry'.all[h] = entry.all[h]
        BY <1>2, <1>5, <2>2, <3>2
      <4>2. QED
        BY <2>4, <4>1
    <3>3. QED
      BY <3>1, <3>2
  <2>5. QED
    BY <1>1, <2>1, <2>2, <2>3, <2>4 DEF NewestKept, IsCurrent
<1>12. QED
  BY <1>6, <1>7, <1>8, <1>9, <1>10, <1>11 DEF Kept
-----------------------------------------------------------------------------
\* The results.

LEMMA InitKept == Init => Kept
<1> SUFFICES ASSUME Init PROVE Kept
  OBVIOUS
<1>1. \A r \in Runs : inbox[r] = <<>> /\ Counted(inbox[r]) = {}
  BY DEF Init, Counted
<1>2. TypeOK
  <2>1. inbox \in [Runs -> Seq(Message \cup Partial)]
    BY EmptySeq DEF Init
  <2>2. shown \in [Viewers -> Latest] /\ replies \in [Viewers -> SUBSET Latest]
    BY EntryTyped DEF Init
  <2>3. 0 \in 0..MaxRuns /\ 0 \in 0..MaxSent
    BY RunsFinite
  <2>4. sent \in [Hosts -> 0..MaxSent] /\ taken \in [Hosts -> 0..MaxSent]
    BY <2>3 DEF Init
  <2>5. listener \in [Runs -> {"none", "running", "ended", "closed"}]
    BY DEF Init
  <2>6. QED
    BY <2>1, <2>2, <2>3, <2>4, <2>5 DEF Init, TypeOK
<1>3. RunsAgree
  BY <1>1 DEF Init, RunsAgree
<1>4. InSequence
  BY <1>1 DEF Init, InSequence
<1>5. QED
  BY <1>2, <1>3, <1>4 DEF Init, Kept, EntryOlder, NothingOlder, CountedOnce, NewestKept

LEMMA StepKept == Kept /\ [Next]_vars => Kept'
<1> SUFFICES ASSUME Kept, [Next]_vars PROVE Kept'
  OBVIOUS
<1>1. TypeOK'
  BY StepTyped DEF Kept
<1>2. CASE UNCHANGED vars
  BY <1>1, <1>2, KeptByRest DEF vars, server
<1>3. CASE Restart
  BY <1>1, <1>3, KeptByRestart
<1>4. CASE RestartFails \/ Stop \/ Expire
  BY <1>1, <1>4, KeptByRest DEF RestartFails, Stop, Expire, server
<1>5. CASE Crash
  BY <1>1, <1>5, KeptByCrash
<1>6. ASSUME NEW h \in Hosts, NEW s \in Statuses, Send(h, s)
      PROVE  Kept'
  BY <1>1, <1>6, KeptBySend
<1>7. ASSUME NEW h \in Hosts, SendPartial(h)
      PROVE  Kept'
  BY <1>1, <1>7, KeptBySendPartial
<1>8. ASSUME NEW r \in Runs, Listen(r)
      PROVE  Kept'
  BY <1>1, <1>8, KeptByListen
<1>9. ASSUME NEW v \in Viewers, Open(v) \/ Close(v) \/ Show(v)
      PROVE  Kept'
  BY <1>1, <1>9, KeptByRest DEF Open, Close, Show, server
<1>10. ASSUME NEW v \in Viewers, Poll(v) \/ PollFails(v)
      PROVE  Kept'
  BY <1>1, <1>10, KeptByRest DEF Poll, PollFails
<1>11. QED
  BY <1>2, <1>3, <1>4, <1>5, <1>6, <1>7, <1>8, <1>9, <1>10 DEF Next

\* Through restarts, crashes and any interleaving of the hosts, the tasks of all
\* Messengers and the pages: the sockets, the entry and what was taken of each host
\* stay in the order in which the host sent its messages.
THEOREM AlwaysKept == Spec => []Kept
<1>1. Kept /\ [Next]_vars => Kept'
  BY StepKept
<1>2. QED
  BY <1>1, InitKept, PTL DEF Spec

\* The Messengers, their queues, msg_cache and the graph pages keep their types.
THEOREM Typed == Spec => []TypeOK
<1>1. Kept => TypeOK
  BY DEF Kept
<1>2. QED
  BY <1>1, AlwaysKept, PTL

\* The statistics that listen keeps count each message of the run once, and beside
\* them only those that waited in older sockets when the run began.
THEOREM MessagesCountedOnce == Spec => []CountedOnce
<1>1. Kept => CountedOnce
  BY DEF Kept
<1>2. QED
  BY <1>1, AlwaysKept, PTL

\* Until a page has taken it, the newest message of a host is in the socket of its run
\* or in the entry of msg_cache: listen and get_messages never undo each other, unless
\* an older run left messages.
THEOREM NewestNotLost == Spec => []NewestKept
<1>1. Kept => NewestKept
  BY DEF Kept
<1>2. QED
  BY <1>1, AlwaysKept, PTL
=============================================================================
