------------------------------ MODULE Monitoring ------------------------------
(***************************************************************************)
(* The monitoring of one lab: the hosts push messages into the socket of   *)
(* the Messenger that was made when the lab was last started; a task of    *)
(* each Messenger moves them into the lab's entry of msg_cache, and the    *)
(* graph pages take them out, once a second.                               *)
(*                                                                         *)
(* The handlers and the tasks run on one event loop and give way only      *)
(* where they await, so each action is one stretch between two awaits.     *)
(* A restart blocks the loop from the removal of the old hosts to the new  *)
(* Messenger; the old task and its socket stay.                            *)
(***************************************************************************)
EXTENDS Naturals, Sequences, FiniteSets

CONSTANTS
  Hosts,       \* hosts of the lab that send messages
  Statuses,    \* statuses they send
  Falsy,       \* the statuses python takes for false: the integer 0
  Viewers,     \* graph pages
  None,        \* no entry, no message
  MaxRuns,     \* bound: times the lab is started
  MaxSent,     \* bound: messages of all hosts in a run
  MaxReplies,  \* bound: replies under way to one page
  Faults       \* what may go wrong: "expire", "partial", "unreadable", "crash"

ASSUME HostsAssumption == IsFiniteSet(Hosts)
ASSUME FalsyAssumption == Falsy \subseteq Statuses
ASSUME BoundsAssumption == {MaxRuns, MaxSent, MaxReplies} \subseteq Nat
ASSUME FaultsAssumption == Faults \subseteq {"expire", "partial", "unreadable", "crash"}

VARIABLES
  run,       \* number of the current Messenger
  up,        \* the hosts of the current run are alive
  sent,      \* messages each host has sent in the current run
  inbox,     \* what the PULL socket of each Messenger has received
  listener,  \* the listen task of each Messenger
  entry,     \* the lab's entry of msg_cache
  pages,     \* the graph pages that are open
  replies,   \* replies of messages.json on their way to each page
  shown,     \* the last message in the log each page keeps of a host
  carried,   \* messages left in older sockets when the entry was made
  taken      \* newest message of this run that messages.json took, per host

server == <<inbox, listener, entry>>
view == <<pages, replies, shown>>
vars == <<run, up, sent, server, view, carried, taken>>

Runs == 1..MaxRuns
Message == [host : Hosts, run : Runs, number : 1..MaxSent, status : Statuses]
Partial == [host : Hosts]      \* a message without a status
ASSUME NoneAssumption == None \notin Message

Nothing == [h \in Hosts |-> None]

Init ==
  /\ run = 0
  /\ up = FALSE
  /\ sent = [h \in Hosts |-> 0]
  /\ inbox = [r \in Runs |-> <<>>]
  /\ listener = [r \in Runs |-> "none"]
  /\ entry = None
  /\ pages = {}
  /\ replies = [v \in Viewers |-> {}]
  /\ shown = [v \in Viewers |-> Nothing]
  /\ carried = 0
  /\ taken = [h \in Hosts |-> 0]

Counted(q) == {i \in DOMAIN q : q[i] \in Message}
Waiting == Cardinality(UNION {{r} \X Counted(inbox[r]) : r \in Runs})

-----------------------------------------------------------------------------
\* Starting and stopping the lab.

\* Messenger.__init__: a fresh entry, a new socket and a new task.
FreshEntry == [all |-> Nothing, counts |-> [s \in Statuses |-> 0], total |-> 0]
KeptEntry == IF entry = None THEN FreshEntry ELSE [entry EXCEPT !.all = Nothing]
NewEntry == FreshEntry

Restart ==
  /\ run < MaxRuns
  /\ run' = run + 1
  /\ up' = TRUE
  /\ sent' = [h \in Hosts |-> 0]
  /\ listener' = [listener EXCEPT ![run + 1] = "running"]
  /\ entry' = NewEntry
  /\ carried' = Waiting
  /\ taken' = [h \in Hosts |-> 0]
  /\ UNCHANGED <<inbox, view>>

\* The hosts are removed and start_lab raises: no new Messenger.
RestartFails ==
  /\ up
  /\ up' = FALSE
  /\ UNCHANGED <<run, sent, server, view, carried, taken>>

Stop ==
  /\ run > 0
  /\ up' = FALSE
  /\ entry' = None
  /\ UNCHANGED <<run, sent, inbox, listener, view, carried, taken>>

\* The server ends; hosts and pages stay, all it held in memory goes.
Crash ==
  /\ "crash" \in Faults
  /\ listener' = [r \in Runs |-> IF listener[r] = "none" THEN "none" ELSE "closed"]
  /\ inbox' = [r \in Runs |-> <<>>]
  /\ entry' = None
  /\ replies' = [v \in Viewers |-> {}]
  /\ UNCHANGED <<run, up, sent, pages, shown, carried, taken>>

-----------------------------------------------------------------------------
\* Messages.

SentInRun == Cardinality(UNION {{h} \X (1..sent[h]) : h \in Hosts})

Send(h, s) ==
  /\ up /\ SentInRun < MaxSent
  /\ sent' = [sent EXCEPT ![h] = @ + 1]
  /\ inbox' = IF listener[run] = "closed" THEN inbox
              ELSE [inbox EXCEPT ![run] =
                     Append(@, [host |-> h, run |-> run, number |-> sent[h] + 1, status |-> s])]
  /\ UNCHANGED <<run, up, listener, entry, view, carried, taken>>

SendPartial(h) ==
  /\ "partial" \in Faults
  /\ up /\ listener[run] = "running" /\ Counted(inbox[run]) = DOMAIN inbox[run]
  /\ inbox' = [inbox EXCEPT ![run] = Append(@, [host |-> h])]
  /\ UNCHANGED <<run, up, sent, listener, entry, view, carried, taken>>

\* One message of listen: it goes to whatever entry the lab has now.
OnlyNewest(e, m) == [e EXCEPT !.all = [Nothing EXCEPT ![m.host] = m], !.total = @ + 1]
Recorded(e, m) ==
  [all |-> [e.all EXCEPT ![m.host] = m],
   counts |-> [e.counts EXCEPT ![m.status] = IF m.status \in Falsy THEN @ ELSE @ + 1],
   total |-> e.total + 1]

\* Without an entry the task returns; a missing field ends it with a KeyError.
Listen(r) ==
  /\ listener[r] = "running" /\ inbox[r] # <<>>
  /\ LET m == Head(inbox[r]) IN
       IF entry = None \/ m \notin Message
       THEN /\ listener' = [listener EXCEPT ![r] = "ended"]
            /\ UNCHANGED entry
       ELSE /\ entry' = Recorded(entry, m)
            /\ UNCHANGED listener
  /\ inbox' = [inbox EXCEPT ![r] = Tail(@)]
  /\ UNCHANGED <<run, up, sent, view, carried, taken>>

\* An entry nobody sets for five minutes is gone; an open page sets it.
Expire ==
  /\ "expire" \in Faults
  /\ pages = {} /\ entry # None
  /\ entry' = None
  /\ UNCHANGED <<run, up, sent, inbox, listener, view, carried, taken>>

-----------------------------------------------------------------------------
\* Graph pages.

Open(v) ==
  /\ v \notin pages
  /\ pages' = pages \cup {v}
  /\ UNCHANGED <<run, up, sent, server, replies, shown, carried, taken>>

Close(v) ==
  /\ v \in pages
  /\ pages' = pages \ {v}
  /\ replies' = [replies EXCEPT ![v] = {}]
  /\ shown' = [shown EXCEPT ![v] = Nothing]
  /\ UNCHANGED <<run, up, sent, server, carried, taken>>

\* messages.json: get_messages empties the entry before lab.json is read.
DrainedWithoutAll(e) == [e EXCEPT !.all = None]
Drained(e) == [e EXCEPT !.all = Nothing]

IsCurrent(m) == m # None /\ m.run = run
TakenFrom(e) == [h \in Hosts |-> IF IsCurrent(e.all[h]) THEN e.all[h].number ELSE taken[h]]

PollOnce(v) ==
  /\ v \in pages /\ entry # None
  /\ replies[v] = {} /\ shown[v] = Nothing
  /\ entry' = Drained(entry)
  /\ replies' = [replies EXCEPT ![v] = IF entry.all = Nothing THEN @ ELSE @ \cup {entry.all}]
  /\ taken' = TakenFrom(entry)
  /\ UNCHANGED <<run, up, sent, inbox, listener, pages, shown, carried>>

Poll(v) ==
  /\ v \in pages /\ entry # None
  /\ Cardinality(replies[v]) < MaxReplies
  /\ entry' = Drained(entry)
  /\ replies' = [replies EXCEPT ![v] = IF entry.all = Nothing THEN @ ELSE @ \cup {entry.all}]
  /\ taken' = TakenFrom(entry)
  /\ UNCHANGED <<run, up, sent, inbox, listener, pages, shown, carried>>

PollFails(v) ==
  /\ "unreadable" \in Faults
  /\ v \in pages /\ entry # None
  /\ entry' = Drained(entry)
  /\ taken' = TakenFrom(entry)
  /\ UNCHANGED <<run, up, sent, inbox, listener, view, carried>>

\* update_colors, in the order in which the replies happen to arrive.  Only the
\* colour of a host changes when a reply has no message of it.
Show(v) ==
  \E reply \in replies[v] :
    /\ shown' = [shown EXCEPT ![v] = [h \in Hosts |->
                   IF reply[h] = None THEN @[h] ELSE reply[h]]]
    /\ replies' = [replies EXCEPT ![v] = @ \ {reply}]
    /\ UNCHANGED <<run, up, sent, server, pages, carried, taken>>

Next ==
  \/ Restart
  \/ RestartFails
  \/ Stop
  \/ Crash
  \/ \E h \in Hosts, s \in Statuses : Send(h, s)
  \/ \E h \in Hosts : SendPartial(h)
  \/ \E r \in Runs : Listen(r)
  \/ Expire
  \/ \E v \in Viewers : Open(v) \/ Close(v) \/ Poll(v) \/ PollFails(v) \/ Show(v)

Spec == Init /\ [][Next]_vars
FairSpec ==
  /\ Spec
  /\ \A r \in Runs : WF_vars(Listen(r))
  /\ \A v \in Viewers : WF_vars(Poll(v)) /\ WF_vars(Show(v))

-----------------------------------------------------------------------------
\* Properties.

Latest == [Hosts -> Message \cup {None}]
Entry == [all : Latest, counts : [Statuses -> Nat], total : Nat]

\* Every variable holds a value of the kind the code keeps in it.
TypeOK ==
  /\ run \in 0..MaxRuns
  /\ up \in BOOLEAN
  /\ sent \in [Hosts -> 0..MaxSent]
  /\ inbox \in [Runs -> Seq(Message \cup Partial)]
  /\ listener \in [Runs -> {"none", "running", "ended", "closed"}]
  /\ entry # None => entry \in Entry
  /\ pages \subseteq Viewers
  /\ replies \in [Viewers -> SUBSET Latest]
  /\ shown \in [Viewers -> Latest]
  /\ carried \in Nat
  /\ taken \in [Hosts -> 0..MaxSent]

\* Every message of the hosts is counted once in the statistics of the run, and
\* beside them only those that waited in older sockets when the run began; what
\* is not counted yet still waits.
CountedOnce ==
  entry # None => entry.total + Waiting = SentInRun + carried

\* The newest message of a host leaves the socket only for the entry, and the
\* entry only for a page: the tasks that record and the pages that empty the
\* same entry never undo each other.  What an older run left may hide it.
NewestKept ==
  \A h \in Hosts : entry # None /\ sent[h] > taken[h] =>
    \/ \E i \in Counted(inbox[run]) : inbox[run][i].host = h /\ inbox[run][i].number = sent[h]
    \/ IsCurrent(entry.all[h]) /\ entry.all[h].number = sent[h]
    \/ carried > 0

\* While a page is open, what a host sends is taken out by a page sooner or later,
\* up to its last message, unless its run ends, the entry or the task is gone or
\* an older run hides it.
NewestTaken ==
  \A v \in Viewers, h \in Hosts :
    (up /\ v \in pages /\ sent[h] > taken[h])
      ~> (~up \/ v \notin pages \/ sent[h] = taken[h]
          \/ listener[run] # "running" \/ entry = None \/ carried > 0)

\* docs/guide.rst: the server receives the messages and lets users examine them.
\* An open page shows the newest message of every host sooner or later.
NewestShown ==
  \A v \in Viewers, h \in Hosts, k \in 1..MaxSent :
    (up /\ v \in pages /\ sent[h] = k)
      ~> (~up \/ v \notin pages \/ sent[h] # k
          \/ (IsCurrent(shown[v][h]) /\ shown[v][h].number = k))
=============================================================================
