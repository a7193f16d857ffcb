---------------------------- MODULE ServerTesting ----------------------------
(***************************************************************************)
(* Health tests of the servers, and what the connection flows decide on    *)
(* them.                                                                   *)
(*                                                                         *)
(* The sources are RunBulk of internal/tester, Rank and Select of          *)
(* internal/selector, and testServers, quickTest, reviveCheck,             *)
(* markCurrentUnhealthy, failover, connectLocked and reconnectWith of      *)
(* cmd/connectived/main.go.  A round of tests fans out goroutines behind a *)
(* semaphore; their results go through an unbuffered channel to one        *)
(* consumer, which takes d.mu for each.  The round of a connection flow is *)
(* modelled step by step; rounds of the user beside it by their results.   *)
(* The catalog changes under both.                                         *)
(*                                                                         *)
(* Slices and pointers are modelled as Go has them: d.serverList is a      *)
(* window on an array of pointers to records.  hRemoveServer moves the     *)
(* pointers behind the removed one in place, in the array that a round     *)
(* over d.serverList itself still reads; an edit puts a new record in the  *)
(* place of the old one, to which a flow may still hold a pointer.         *)
(*                                                                         *)
(* An id names one record of the list.  That a refresh can give it to two  *)
(* records of one node is Catalog's concern and left out here.             *)
(***************************************************************************)
EXTENDS ServerScores, Sequences, FiniteSets

CONSTANTS
  Ids,          \* server ids
  NoServer,     \* no id: machine.ServerID() before the first connection
  Initial,      \* the ids of the list at the start,
  Spare,        \* and the places its array has left
  Wanted,       \* ids the user may ask to connect to
  Latencies,    \* the latencies a test may measure, in ms
  Concurrency,  \* tests a round runs at a time
  FlapLimit,    \* failovers in a row before all servers are tested: 2 in the code
  MaxEdits      \* bound on the changes of the catalog

ASSUME IdsAssumption ==
  /\ NoServer \notin Ids /\ Initial \in Seq(Ids) /\ Wanted \subseteq Ids
  /\ \A i, j \in DOMAIN Initial : Initial[i] = Initial[j] => i = j
ASSUME LatenciesAssumption == Latencies \subseteq Nat
ASSUME BoundsAssumption ==
  {Concurrency, FlapLimit} \subseteq Nat \ {0} /\ {Spare, MaxEdits} \subseteq Nat

VARIABLES
  cells,     \* the array under d.serverList, to its capacity
  size,      \* len(d.serverList)
  grade,     \* latency and health of every record there ever was
  round,     \* the round of tests the flow waits for
  flow,      \* the flow that holds connMu
  current,   \* machine.ServerID()
  failing,   \* "yes" from markCurrentUnhealthy to the failover after it
  flaps,     \* d.flapCount
  suspects,  \* ids marked by a health probe with no good test since (history)
  drawn,     \* ids given to a server so far: NewID never repeats one
  edits      \* how much of MaxEdits is used up

vars == <<cells, size, grade, round, flow, current, failing, flaps, suspects,
          drawn, edits>>

\* A record; an edit makes the next one of the same server.
Rec  == [id : Ids, rev : 0..MaxEdits]
Void == [id |-> NoServer, rev |-> 0]    \* an unused place of the array

Unknown == [latencyMs |-> -1, health |-> "unknown"]

List    == SubSeq(cells, 1, size)
Listed  == {cells[k] : k \in 1..size}
Sick(x) == grade[x].health = "unhealthy"
Elements(q) == {q[k] : k \in DOMAIN q}

\* What the loop of RunBulk still has to read of its slice: the pointers of a copy,
\* or the places from next to last of the array itself.
Idle == [pc |-> "idle", copy |-> <<>>, next |-> 1, last |-> 0,
         ctx |-> "live", tests |-> {}]

OverCopy(q) == [Idle EXCEPT !.pc = "fan", !.copy = q]
OverList    == [Idle EXCEPT !.pc = "fan", !.last = size]

NoFlow == [pc |-> "idle", all |-> {}, choice |-> NoServer]

\* A goroutine of the round, in its slot of the semaphore.
Test == [slot : 1..Concurrency, id : Ids \cup {NoServer}]

TypeOK ==
  /\ cells \in Seq(Rec \cup {Void}) /\ size \in 0..Len(cells)
  /\ grade \in [Rec -> [latencyMs : {-1} \cup Latencies, health : Health]]
  /\ round \in [pc : {"idle", "fan", "drain", "closed"},
                copy : Seq(Rec), next : Nat, last : Nat,
                ctx : {"live", "over"}, tests : SUBSET Test]
  /\ flow \in [pc : {"idle", "connect", "reconnect", "revive"},
               all : SUBSET Rec, choice : Ids \cup {NoServer}]
  /\ current \in Ids \cup {NoServer}
  /\ failing \in {"yes", "no"} /\ flaps \in 0..FlapLimit
  /\ suspects \in SUBSET Ids /\ drawn \in SUBSET Ids /\ edits \in 0..MaxEdits

Init ==
  /\ cells = [k \in 1..(Len(Initial) + Spare) |->
                IF k <= Len(Initial) THEN [id |-> Initial[k], rev |-> 0] ELSE Void]
  /\ size = Len(Initial)
  /\ grade = [x \in Rec |-> Unknown]
  /\ round = Idle
  /\ flow = NoFlow /\ current = NoServer
  /\ failing = "no" /\ flaps = 0 /\ suspects = {}
  /\ drawn = Elements(Initial) /\ edits = 0

catalog == <<cells, size, drawn, edits>>
session == <<flow, current, failing, flaps>>

----------------------------------------------------------------------------
\* RunBulk.

Left == round.copy # <<>> \/ round.next <= round.last

\* The next pointer, read when the semaphore lets the loop go on.
Pointer == IF round.copy # <<>> THEN Head(round.copy) ELSE cells[round.next]

Dispatch ==
  /\ round.pc = "fan" /\ Left
  /\ \E slot \in 1..Concurrency :
       /\ \A t \in round.tests : t.slot # slot
       /\ \A free \in 1..(slot - 1) : \E t \in round.tests : t.slot = free
       /\ round' = [round EXCEPT
            !.tests = @ \cup {[slot |-> slot, id |-> Pointer.id]},
            !.copy = IF @ # <<>> THEN Tail(@) ELSE @,
            !.next = IF round.copy # <<>> THEN @ ELSE @ + 1]
  /\ UNCHANGED <<catalog, session, grade, suspects>>

\* The loop is over, or the context is: what was not started is never tested.
LoopEnds ==
  /\ round.pc = "fan"
  /\ ~Left \/ round.ctx = "over"
  /\ round' = [Idle EXCEPT !.pc = "drain", !.ctx = round.ctx, !.tests = round.tests]
  /\ UNCHANGED <<catalog, session, grade, suspects>>

\* The result goes to the record that has the id by now, if there is one.
Graded(id, latency) ==
  /\ \/ /\ \A x \in Listed : x.id # id
        /\ UNCHANGED grade
     \/ \E x \in Listed : x.id = id /\ grade' = [grade EXCEPT ![x] = Outcome(latency)]
  /\ suspects' = IF latency >= 0 THEN suspects \ {id} ELSE suspects

\* Mutation: the consumer leaves its loop when the time is over.
EndsInTime(t, latency) ==
  /\ t \in round.tests /\ round.ctx = "live"
  /\ round' = [round EXCEPT !.tests = @ \ {t}]
  /\ Graded(t.id, latency)
  /\ UNCHANGED <<catalog, session>>

\* The dials of a test are done, by an error when the time is over; the consumer takes the
\* result and grades the record under d.mu; the goroutine lets go of its slot.
TestEnds(t, latency) ==
  /\ t \in round.tests
  /\ round' = [round EXCEPT !.tests = @ \ {t}]
  /\ Graded(t.id, latency)
  /\ UNCHANGED <<catalog, session>>

\* Mutation: out is closed without waiting for the goroutines.
ClosesEarly ==
  /\ round.pc = "drain"
  /\ round' = [Idle EXCEPT !.pc = "closed", !.tests = round.tests]
  /\ UNCHANGED <<catalog, session, grade, suspects>>

\* wg.Wait and close(out).
Close ==
  /\ round.pc = "drain" /\ round.tests = {}
  /\ round' = [Idle EXCEPT !.pc = "closed", !.tests = round.tests]
  /\ UNCHANGED <<catalog, session, grade, suspects>>

\* The 15 s of quickTest or the 10 min of testServers are over.
TimeOver ==
  /\ round.pc \in {"fan", "drain"} /\ round.ctx = "live"
  /\ round' = [round EXCEPT !.ctx = "over"]
  /\ UNCHANGED <<catalog, session, grade, suspects>>

\* Another round, of testServers, runs beside: any record may get any result.
UserResult(x, latency) ==
  /\ x \in Listed
  /\ Graded(x.id, latency)
  /\ UNCHANGED <<catalog, session, round>>

----------------------------------------------------------------------------
\* The catalog changes under the rounds.

Edit == edits < MaxEdits /\ edits' = edits + 1 /\ UNCHANGED <<session, suspects>>

\* A new array: rounds over the old one keep reading it.
Frozen == [round EXCEPT !.copy = IF @ # <<>> THEN @ ELSE SubSeq(cells, round.next, round.last),
                        !.next = 1, !.last = 0]

NewRec(x) == [id |-> x.id, rev |-> edits + 1]

\* New records take over the grades of old ones; the grade of an old one is dropped
\* with it, unless the flow still has a pointer to it.
Copied(old) ==
  [x \in Rec |->
     CASE \E y \in old : x = NewRec(y) -> grade[CHOOSE y \in old : x = NewRec(y)]
       [] x \in old \ flow.all -> Unknown
       [] OTHER -> grade[x]]

\* Mutation: the edited record starts without test results.
EditsBlank(k) ==
  /\ Edit /\ k \in 1..size
  /\ cells' = [cells EXCEPT ![k] = NewRec(cells[k])]
  /\ grade' = grade
  /\ UNCHANGED <<size, round, drawn>>

\* hUpdateServer: another record in the same place, with the same grade.
UpdateServer(k) ==
  /\ Edit /\ k \in 1..size
  /\ cells' = [cells EXCEPT ![k] = NewRec(cells[k])]
  /\ grade' = Copied({cells[k]})
  /\ UNCHANGED <<size, round, drawn>>

\* hRemoveServer: append(list[:i], list[i+1:]...) moves the tail in place.  The
\* server of a session is protected while the machine is connected, that is, while
\* no flow drives it.
RemoveServer(k) ==
  /\ Edit /\ k \in 1..size
  /\ flow.pc = "idle" => cells[k].id # current
  /\ cells' = [j \in DOMAIN cells |-> IF j \in k..(size - 1) THEN cells[j + 1] ELSE cells[j]]
  /\ size' = size - 1
  /\ UNCHANGED <<grade, round, drawn>>

\* hAddServer: append writes behind the list if the array has a place left.
AddServer(id) ==
  /\ Edit
  /\ id \notin drawn /\ drawn' = drawn \cup {id}
  /\ size' = size + 1
  /\ cells' = IF size < Len(cells) THEN [cells EXCEPT ![size + 1] = NewRec([id |-> id])]
                                   ELSE Append(cells, NewRec([id |-> id]))
  /\ round' = IF size < Len(cells) THEN round ELSE Frozen
  /\ UNCHANGED grade

\* refreshSubscriptions: a new list.  The servers of the subscription come last, in
\* the order fetched, with new records that keep id and grade (Merge).
Refresh(fetched) ==
  /\ Edit /\ fetched # {}
  /\ \E p \in [1..size -> 1..size] :
       /\ \A i, j \in 1..size : i < j =>
            /\ p[i] # p[j]
            /\ cells[p[i]] \in fetched => cells[p[j]] \in fetched
            /\ cells[p[j]] \notin fetched => p[i] < p[j]
       /\ cells' = [k \in 1..size |-> LET x == cells[p[k]]
                                      IN  IF x \in fetched THEN NewRec(x) ELSE x]
  /\ grade' = Copied(fetched)
  /\ round' = Frozen
  /\ UNCHANGED <<size, drawn>>

----------------------------------------------------------------------------
\* Selection.

\* usableServers: a copy of the healthy part, in order, or, if there is none, the list.
Usable ==
  LET well == {k \in 1..size : ~Sick(cells[k])}
  IN  IF well = {} THEN {OverList}
      ELSE {OverCopy([k \in DOMAIN p |-> cells[p[k]]]) :
              p \in {f \in [1..Cardinality(well) -> well] :
                       \A i, j \in DOMAIN f : i < j => f[i] < f[j]}}

UsableSet == IF \E x \in Listed : ~Sick(x) THEN {x \in Listed : ~Sick(x)} ELSE Listed

\* Rank: sick servers only if there is no other.  sort.Slice is not stable: of
\* several best ones Select returns any.
Ranked(targets) == IF \E x \in targets : ~Sick(x)
                   THEN {x \in targets : ~Sick(x)} ELSE targets

Select(targets, incumbent) ==
  {x \in Ranked(targets) : \A y \in Ranked(targets) :
     Score(grade[x], x.id = incumbent) >= Score(grade[y], y.id = incumbent)}

----------------------------------------------------------------------------
\* The flows.  They hold connMu, so there is one at a time.

Starts(kind, choice) ==
  /\ flow' = [pc |-> kind, all |-> UsableSet, choice |-> choice]
  /\ round' \in Usable

\* connectLocked, to the round; with an empty list it is refused.
Connect(choice) ==
  /\ flow.pc = "idle" /\ size > 0
  /\ Starts("connect", choice)
  /\ UNCHANGED <<catalog, grade, current, failing, flaps, suspects>>

\* reconnectLocked, for whoever asks: the network watcher or a failover.
Reconnect ==
  /\ flow.pc = "idle" /\ current # NoServer
  /\ Starts("reconnect", current)
  /\ UNCHANGED <<catalog, grade, current, failing, flaps, suspects>>

\* checkHealth after a second failed probe.  The id is read after the probe.  The
\* latency stays in the record, but nobody looks at that of an unhealthy one.
MarkCurrentUnhealthy ==
  /\ current # NoServer /\ failing = "no"
  /\ failing' = "yes"
  /\ \/ /\ \A x \in Listed : x.id # current
        /\ UNCHANGED <<grade, suspects>>
     \/ \E x \in Listed :
          /\ x.id = current
          /\ grade' = [grade EXCEPT ![x] = Outcome(-1)]
          /\ suspects' = suspects \cup {current}
  /\ UNCHANGED <<catalog, round, flow, current, flaps>>

\* failover waited for connMu, and the machine is not connected any more.
StandDown ==
  /\ failing = "yes" /\ flow.pc = "idle"
  /\ failing' = "no"
  /\ UNCHANGED <<catalog, grade, round, flow, current, flaps, suspects>>

Candidates == {x \in UsableSet : x.id # current}

\* No alternative: retry the current server twice, then hold.
FailoverAlone ==
  /\ failing = "yes" /\ failing' = "no"
  /\ flow.pc = "idle" /\ current # NoServer /\ Candidates = {}
  /\ \/ flaps >= FlapLimit /\ UNCHANGED <<flaps, flow, round>>
     \/ /\ flaps < FlapLimit /\ flaps' = flaps + 1
        /\ \/ UsableSet = {} /\ UNCHANGED <<flow, round>>
           \/ UsableSet # {} /\ Starts("reconnect", current)
  /\ UNCHANGED <<catalog, grade, current, suspects>>

\* The switch, inside the running core, or by a restart on the server chosen:
\* reconnectWith then tests and selects anew.
Switch(id, flap) ==
  /\ current' = id
  /\ \/ flaps' \in {0, flap} /\ flow' = NoFlow
        /\ round' = Idle
     \/ flaps' = flap /\ Starts("reconnect", id)

Failover ==
  /\ failing = "yes" /\ failing' = "no"
  /\ flow.pc = "idle" /\ current # NoServer
  /\ \E best \in Select(Candidates, NoServer) :
       \/ flaps < FlapLimit /\ Switch(best.id, flaps + 1)
       \/ /\ flaps >= FlapLimit     \* reviveCheck, over a copy of the list
          /\ flow' = [pc |-> "revive", all |-> {}, choice |-> best.id]
          /\ round' = OverCopy(List)
          /\ UNCHANGED <<current, flaps>>
  /\ UNCHANGED <<catalog, grade, suspects>>

\* Mutation: connectLocked selects from the servers it listed before the round.
DecidesOnOldList ==
  /\ flow.pc = "connect" /\ round.pc = "closed"
  /\ \E x \in Select(IF flow.choice = NoServer THEN flow.all
                     ELSE {x \in Listed : x.id = flow.choice}, current) : current' = x.id
  /\ flow' = NoFlow /\ round' = Idle
  /\ UNCHANGED <<catalog, grade, failing, flaps, suspects>>

\* connectLocked lists the usable servers again; a server the user asked for is
\* taken even if it is marked.
Targets == IF flow.choice = NoServer THEN UsableSet
           ELSE {x \in Listed : x.id = flow.choice}

ConnectDecides ==
  /\ flow.pc = "connect" /\ round.pc = "closed"
  /\ \/ Targets = {} /\ UNCHANGED current
     \/ \E x \in Select(Targets, current) : current' = x.id
  /\ flow' = NoFlow /\ round' = Idle
  /\ UNCHANGED <<catalog, grade, failing, flaps, suspects>>

\* reconnectWith selects from the records it had before the round.
ReconnectDecides ==
  /\ flow.pc = "reconnect" /\ round.pc = "closed"
  /\ \/ flow.all = {} /\ UNCHANGED current
     \/ \E x \in Select(flow.all, flow.choice) : current' = x.id
  /\ flow' = NoFlow /\ round' = Idle
  /\ UNCHANGED <<catalog, grade, failing, flaps, suspects>>

\* reviveCheck answers true if any server is up: then failover goes on to the one it
\* chose before the round, and otherwise holds.
ReviveDecides ==
  /\ flow.pc = "revive" /\ round.pc = "closed"
  /\ \/ /\ \E x \in Listed : grade[x].health \in {"healthy", "degraded"}
        /\ Switch(flow.choice, 1)
     \/ /\ \A x \in Listed : grade[x].health \notin {"healthy", "degraded"}
        /\ flow' = NoFlow /\ round' = Idle
        /\ UNCHANGED <<current, flaps>>
  /\ UNCHANGED <<catalog, grade, failing, suspects>>

\* A good probe.
HealthOk ==
  /\ flow.pc = "idle" /\ flaps > 0 /\ flaps' = 0
  /\ UNCHANGED <<catalog, grade, round, flow, current, failing, suspects>>

----------------------------------------------------------------------------
Testing ==
  \/ Dispatch \/ LoopEnds \/ Close \/ TimeOver
  \/ \E t \in round.tests, latency \in {-1} \cup Latencies : TestEnds(t, latency)

User ==
  \/ \E x \in Listed, latency \in {-1} \cup Latencies : UserResult(x, latency)
  \/ \E choice \in {NoServer} \cup Wanted : Connect(choice)
  \/ \E k \in 1..size : UpdateServer(k) \/ RemoveServer(k)
  \/ \E id \in Ids : AddServer(id)

Decides == ConnectDecides \/ ReconnectDecides \/ ReviveDecides

Health_ == MarkCurrentUnhealthy \/ HealthOk \/ StandDown \/ FailoverAlone \/ Failover

Next ==
  \/ Testing \/ Decides \/ Reconnect \/ Health_ \/ User
  \/ \E fetched \in SUBSET Listed : Refresh(fetched)

\* The goroutines of a round run, a dial has a timeout, the consumer ranges over its
\* channel, and the flow goes on when its round is over.
Fairness ==
  /\ WF_vars(Dispatch) /\ WF_vars(LoopEnds) /\ WF_vars(Close) /\ WF_vars(Decides)
  /\ WF_vars(\E t \in round.tests, latency \in {-1} \cup Latencies : TestEnds(t, latency))

Spec == Init /\ [][Next]_vars /\ Fairness

----------------------------------------------------------------------------
\* Properties.

\* When a round is over nobody is left to send on its closed channel, and a flow
\* that decides has all the results there will be.
NobodyLeftBehind ==
  /\ round.pc \in {"idle", "closed"} => round.tests = {}
  /\ flow.pc = "idle" <=> round.pc = "idle"

\* Whatever the tests, the timeouts and the catalog do, a flow gets its results and
\* gives connMu back.
FlowDecides == flow.pc # "idle" ~> flow.pc = "idle"

\* Auto connect takes a server of the list as it is when it decides, and none that
\* is known to be sick if another is not: edits, refreshes and tests of the user
\* during its round included.
PicksLive ==
  flow.pc = "connect" /\ flow.choice = NoServer /\ flow'.pc = "idle" =>
    \/ Listed = {}
    \/ \E x \in Listed : x.id = current' /\ (Sick(x) => \A y \in Listed : Sick(y))

ConnectPicksLive == [][PicksLive]_vars

FailsOverTo(id) ==
  /\ flow.pc = "idle" /\ failing = "yes" /\ failing' = "no"
  /\ \/ current' = id /\ current # id
     \/ flow'.pc = "revive" /\ flow'.choice = id

\* checkHealth: a server that failed its probes is recorded so that selection never
\* picks it back until a fresh test proves otherwise.  A failover keeps to that
\* through edits and refreshes of the record, unless every alternative is sick.
SuspectWaits ==
  [][\A id \in suspects : FailsOverTo(id) =>
       \A x \in Listed : x.id # current => Sick(x)]_vars
=============================================================================
