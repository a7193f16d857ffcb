----------------------- MODULE ServerTesting_proofs -----------------------
(***************************************************************************)
(* Proofs about the scores, and about the flows that wait for a round of   *)
(* tests: for any catalog, any latencies and any number of edits, rounds   *)
(* and goroutines.                                                         *)
(***************************************************************************)
EXTENDS ServerTesting, FiniteSetTheorems, SequenceTheorems, TLAPS

----------------------------------------------------------------------------
\* Scores.

Grades == [latencyMs : {-1} \cup Nat, health : Health]

LEMMA LatencyRange ==
  ASSUME NEW l \in {-1} \cup Nat
  PROVE  LatencyComponent(l) \in Nat /\ LatencyComponent(l) <= 33000
<1>1. CASE l < 0 \/ l >= 3000
  <2>1. LatencyComponent(l) = 0
    BY SMT, <1>1 DEF LatencyComponent, MaxLatencyMs
  <2> QED  BY SMT, <2>1
<1>2. CASE ~(l < 0 \/ l >= 3000)
  <2>1. LatencyComponent(l) = 33000 - 11 * l
    BY SMT, <1>2 DEF LatencyComponent, MaxLatencyMs
  <2> QED  BY SMT, <1>2, <2>1
<1> QED  BY <1>1, <1>2

LEMMA HealthRange ==
  ASSUME NEW h \in Health, h # "unhealthy"
  PROVE  /\ HealthComponent(h) \in Nat
         /\ HealthComponent(h) >= 9000 /\ HealthComponent(h) <= 18000
<1>1. CASE h = "healthy"
  BY SMT, <1>1 DEF HealthComponent
<1>2. CASE h = "degraded"
  BY SMT, <1>2 DEF HealthComponent
<1>3. CASE h = "unknown"
  BY SMT, <1>3 DEF HealthComponent
<1> QED  BY <1>1, <1>2, <1>3 DEF Health

\* The base score of a server that is not sick lies above that of one that is, by
\* more than the incumbent's bonus, and none comes near the cap without the bonus.
LEMMA BaseBounds ==
  ASSUME NEW g \in Grades
  PROVE  /\ Base(g) \in Nat
         /\ g.health = "unhealthy" => Base(g) = 9000
         /\ g.health # "unhealthy" => Base(g) >= 14400
         /\ Base(g) <= 56400
<1>1. g.latencyMs \in {-1} \cup Nat /\ g.health \in Health
  BY SMT DEF Grades
<1>2. CASE g.health = "unhealthy"
  BY SMT, <1>2 DEF Base, UnhealthyCap
<1>3. CASE g.health # "unhealthy" /\ ~Tested(g)
  BY SMT, <1>3 DEF Base, UntestedScore
<1>4. CASE g.health # "unhealthy" /\ Tested(g)
  <2> DEFINE lat  == LatencyComponent(g.latencyMs)
             well == HealthComponent(g.health)
  <2>1. lat \in Nat /\ lat <= 33000
    BY SMT, <1>1, LatencyRange
  <2>2. well \in Nat /\ well >= 9000 /\ well <= 18000
    BY SMT, <1>1, <1>4, HealthRange
  <2>3. Base(g) = lat + well + 5400
    BY SMT, <1>4 DEF Base, StabilityComponent
  <2> HIDE DEF lat, well
  <2>4. Base(g) \in Nat /\ Base(g) >= 14400 /\ Base(g) <= 56400
    BY SMT, <2>1, <2>2, <2>3
  <2> QED  BY SMT, <1>4, <2>4
<1> QED  BY SMT, <1>2, <1>3, <1>4

\* A sick server ranks below every other, were it the incumbent: its bonus does not
\* lift it over the slowest of the others.
THEOREM SickRanksLast ==
  ASSUME NEW g \in Grades, NEW h \in Grades, NEW i \in BOOLEAN, NEW j \in BOOLEAN,
         g.health = "unhealthy", h.health # "unhealthy"
  PROVE  Score(g, i) < Score(h, j)
<1>1. Base(g) = 9000 /\ Base(h) \in Nat /\ Base(h) >= 14400 /\ Base(h) <= 56400
  BY BaseBounds
<1>2. Score(g, i) \in {180000, 207000}
  BY <1>1 DEF Score, Cap
<1>3. Score(h, j) >= 288000
  <2>1. CASE j  BY <1>1, <2>1 DEF Score, Cap
  <2>2. CASE ~j  BY <1>1, <2>2 DEF Score, Cap
  <2> QED  BY <2>1, <2>2
<1>4. Score(h, j) \in Int
  BY <1>1 DEF Score, Cap
<1> QED  BY <1>2, <1>3, <1>4

\* The bonus that Rank gives the incumbent is the margin of ShouldSwitch: a
\* challenger outranks the incumbent exactly if it is worth the switch, cap or not.
THEOREM BonusIsHysteresis ==
  ASSUME NEW g \in Grades, NEW h \in Grades
  PROVE  Score(h, FALSE) > Score(g, TRUE) <=> ShouldSwitch(Base(g), Base(h))
<1> DEFINE b == Base(g)
           c == Base(h)
           top == 20 * Cap
<1>1. b \in Nat /\ c \in Nat /\ c <= 56400
  BY BaseBounds
<1>2. top = 1200000
  BY SMT DEF Cap
<1>3. Score(h, FALSE) = IF 20 * c > top THEN top ELSE 20 * c
  BY Zenon DEF Score
<1>4. Score(g, TRUE) = IF 23 * b > top THEN top ELSE 23 * b
  BY Zenon DEF Score
<1>5. ShouldSwitch(Base(g), Base(h)) <=> 20 * c > 23 * b
  BY Zenon DEF ShouldSwitch
<1> HIDE DEF b, c, top
<1>6. ~(20 * c > top) /\ (23 * b > top => ~(20 * c > 23 * b))
  BY SMT, <1>1, <1>2
<1>7. Score(h, FALSE) = 20 * c
  BY Zenon, <1>3, <1>6
<1>8. CASE 23 * b > top
  <2>1. Score(g, TRUE) = top
    BY Zenon, <1>4, <1>8
  <2> QED  BY Zenon, <1>5, <1>6, <1>7, <1>8, <2>1
<1>9. CASE ~(23 * b > top)
  <2>1. Score(g, TRUE) = 23 * b
    BY Zenon, <1>4, <1>9
  <2> QED  BY Zenon, <1>5, <1>7, <2>1
<1> QED  BY Zenon, <1>8, <1>9

\* Of two servers of equal health the one that answered faster ranks higher, up to
\* the latency that counts as nothing.
THEOREM FasterIsBetter ==
  ASSUME NEW g \in Grades, NEW h \in Grades,
         g.health = h.health, g.health # "unhealthy", Tested(g), Tested(h),
         g.latencyMs < h.latencyMs, g.latencyMs < MaxLatencyMs
  PROVE  Score(g, FALSE) > Score(h, FALSE)
<1>1. g.latencyMs \in Nat /\ h.latencyMs \in Nat
  BY DEF Grades, Tested
<1>2. LatencyComponent(g.latencyMs) > LatencyComponent(h.latencyMs)
  BY <1>1 DEF LatencyComponent, MaxLatencyMs
<1>3. /\ LatencyComponent(g.latencyMs) \in Int /\ LatencyComponent(h.latencyMs) \in Int
      /\ HealthComponent(g.health) \in Int
  BY <1>1 DEF LatencyComponent, HealthComponent, MaxLatencyMs
<1>4. /\ Base(g) = LatencyComponent(g.latencyMs) + HealthComponent(g.health) + 5400
      /\ Base(h) = LatencyComponent(h.latencyMs) + HealthComponent(g.health) + 5400
  BY DEF Base, StabilityComponent
<1>5. Base(g) > Base(h) /\ Base(g) \in Nat /\ Base(h) \in Nat
  BY <1>2, <1>3, <1>4, BaseBounds
<1>6. Base(g) <= 56400
  BY BaseBounds
<1>7. Score(g, FALSE) = 20 * Base(g) /\ Score(h, FALSE) = 20 * Base(h)
  BY <1>5, <1>6, BaseBounds DEF Score, Cap
<1> DEFINE b == Base(g)
           c == Base(h)
<1>8. b > c /\ b \in Nat /\ c \in Nat
  BY <1>5
<1> HIDE DEF b, c
<1>9. 20 * b > 20 * c
  BY <1>8
<1> QED  BY <1>7, <1>9 DEF b, c

----------------------------------------------------------------------------
\* Rounds.

\* round is a record: what its updates leave alone keeps its value.
IsRound ==
  round = [pc |-> round.pc, copy |-> round.copy, next |-> round.next,
           last |-> round.last, ctx |-> round.ctx, tests |-> round.tests]

RoundInv == IsRound /\ NobodyLeftBehind

\* A flow takes up a round when it starts, and gives it up when it decides.
LEMMA RoundStep ==
  ASSUME RoundInv, [Next]_vars
  PROVE  RoundInv'
<1>1. /\ round = [pc |-> round.pc, copy |-> round.copy, next |-> round.next,
                  last |-> round.last, ctx |-> round.ctx, tests |-> round.tests]
      /\ round.pc \in {"idle", "closed"} => round.tests = {}
      /\ flow.pc = "idle" <=> round.pc = "idle"
  BY DEF RoundInv, IsRound, NobodyLeftBehind
<1>2. ASSUME UNCHANGED <<flow, round>>  PROVE RoundInv'
  BY <1>1, <1>2 DEF RoundInv, IsRound, NobodyLeftBehind
<1>3. ASSUME NEW r, round' = r, r.pc = round.pc, r.tests = round.tests, flow' = flow,
             r = [pc |-> r.pc, copy |-> r.copy, next |-> r.next, last |-> r.last,
                  ctx |-> r.ctx, tests |-> r.tests]
      PROVE  RoundInv'
  BY <1>1, <1>3 DEF RoundInv, IsRound, NobodyLeftBehind
<1>4. ASSUME NEW r, round' = r, r.pc \in {"fan", "drain"},
             r = [pc |-> r.pc, copy |-> r.copy, next |-> r.next, last |-> r.last,
                  ctx |-> r.ctx, tests |-> r.tests],
             flow'.pc # "idle"
      PROVE  RoundInv'
  BY <1>4 DEF RoundInv, IsRound, NobodyLeftBehind
<1>5. ASSUME round' = Idle, flow' = NoFlow  PROVE RoundInv'
  BY <1>5 DEF RoundInv, IsRound, NobodyLeftBehind, Idle, NoFlow
<1>6. ASSUME NEW q, round' = OverCopy(q), flow'.pc # "idle"  PROVE RoundInv'
  BY <1>6 DEF RoundInv, IsRound, NobodyLeftBehind, OverCopy, Idle
<1>7. ASSUME NEW kind, NEW choice, Starts(kind, choice), kind # "idle"  PROVE RoundInv'
  <2>1. flow'.pc # "idle"
    BY <1>7 DEF Starts
  <2>2. CASE round' = OverList
    BY <2>1, <2>2 DEF RoundInv, IsRound, NobodyLeftBehind, OverList, Idle
  <2>3. round' = OverList \/ \E q : round' = OverCopy(q)
    BY <1>7 DEF Starts, Usable
  <2> QED  BY <1>6, <2>1, <2>2, <2>3
<1>8. CASE Dispatch
  <2>1. PICK slot \in 1..Concurrency :
          round' = [round EXCEPT
            !.tests = @ \cup {[slot |-> slot, id |-> Pointer.id]},
            !.copy = IF @ # <<>> THEN Tail(@) ELSE @,
            !.next = IF round.copy # <<>> THEN @ ELSE @ + 1]
    BY <1>8 DEF Dispatch
  <2>2. round.pc = "fan" /\ flow' = flow
    BY <1>8 DEF Dispatch, session
  <2> DEFINE t == round.tests \cup {[slot |-> slot, id |-> Pointer.id]}
             c == IF round.copy # <<>> THEN Tail(round.copy) ELSE round.copy
             n == IF round.copy # <<>> THEN round.next ELSE round.next + 1
  <2>3. round' = [round EXCEPT !.tests = t, !.copy = c, !.next = n]
    BY <2>1
  <2> HIDE DEF t, c, n
  <2>4. round' = [pc |-> "fan", copy |-> c, next |-> n, last |-> round.last,
                  ctx |-> round.ctx, tests |-> t]
    BY <1>1, <2>2, <2>3
  <2> QED  BY <1>1, <2>2, <2>4 DEF RoundInv, IsRound, NobodyLeftBehind
<1>9. CASE LoopEnds
  <2>1. /\ round.pc = "fan" /\ flow' = flow
        /\ round' = [Idle EXCEPT !.pc = "drain", !.ctx = round.ctx, !.tests = round.tests]
    BY <1>9 DEF LoopEnds, session
  <2>2. round' = [pc |-> "drain", copy |-> <<>>, next |-> 1, last |-> 0,
                  ctx |-> round.ctx, tests |-> round.tests]
    BY <2>1 DEF Idle
  <2> QED  BY <1>1, <2>1, <2>2 DEF RoundInv, IsRound, NobodyLeftBehind
<1>10. CASE Close
  <2>1. /\ round.pc = "drain" /\ round.tests = {} /\ flow' = flow
        /\ round' = [Idle EXCEPT !.pc = "closed", !.tests = round.tests]
    BY <1>10 DEF Close, session
  <2>2. round' = [pc |-> "closed", copy |-> <<>>, next |-> 1, last |-> 0,
                  ctx |-> "live", tests |-> {}]
    BY <2>1 DEF Idle
  <2> QED  BY <1>1, <2>1, <2>2 DEF RoundInv, IsRound, NobodyLeftBehind
<1>11. CASE TimeOver
  <2>1. /\ round.pc \in {"fan", "drain"} /\ flow' = flow
        /\ round' = [round EXCEPT !.ctx = "over"]
    BY <1>11 DEF TimeOver, session
  <2>2. round' = [pc |-> round.pc, copy |-> round.copy, next |-> round.next,
                  last |-> round.last, ctx |-> "over", tests |-> round.tests]
    BY <1>1, <2>1
  <2> QED  BY <1>1, <2>1, <2>2 DEF RoundInv, IsRound, NobodyLeftBehind
<1>12. ASSUME NEW t \in round.tests, NEW latency \in {-1} \cup Latencies, TestEnds(t, latency)
       PROVE  RoundInv'
  <2>1. flow' = flow /\ round' = [round EXCEPT !.tests = @ \ {t}]
    BY <1>12 DEF TestEnds, session
  <2>2. round' = [pc |-> round.pc, copy |-> round.copy, next |-> round.next,
                  last |-> round.last, ctx |-> round.ctx, tests |-> round.tests \ {t}]
    BY <1>1, <2>1
  <2> QED  BY <1>1, <2>1, <2>2 DEF RoundInv, IsRound, NobodyLeftBehind
<1>13. ASSUME flow' = flow, round' = Frozen  PROVE RoundInv'
  <2> DEFINE c == IF round.copy # <<>> THEN round.copy ELSE SubSeq(cells, round.next, round.last)
  <2>1. round' = [round EXCEPT !.copy = c, !.next = 1, !.last = 0]
    BY <1>13 DEF Frozen
  <2> HIDE DEF c
  <2>2. round' = [pc |-> round.pc, copy |-> c, next |-> 1, last |-> 0,
                  ctx |-> round.ctx, tests |-> round.tests]
    BY <1>1, <2>1
  <2> QED  BY <1>1, <1>13, <2>2 DEF RoundInv, IsRound, NobodyLeftBehind
<1>14. CASE Testing
  BY <1>8, <1>9, <1>10, <1>11, <1>12, <1>14 DEF Testing
<1>15. CASE Decides
  <2>1. CASE ConnectDecides \/ ReconnectDecides
    BY <1>5, <2>1 DEF ConnectDecides, ReconnectDecides
  <2>2. CASE ReviveDecides
    BY <1>5, <1>7, <2>2 DEF ReviveDecides, Switch
  <2> QED  BY <1>15, <2>1, <2>2 DEF Decides
<1>16. CASE Reconnect  BY <1>7, <1>16 DEF Reconnect
<1>17. CASE Health_
  <2>1. CASE MarkCurrentUnhealthy \/ HealthOk \/ StandDown
    BY <1>2, <2>1 DEF MarkCurrentUnhealthy, HealthOk, StandDown
  <2>2. CASE FailoverAlone
    BY <1>2, <1>7, <2>2 DEF FailoverAlone
  <2>3. CASE Failover
    <3>1. PICK best \in Select(Candidates, NoServer) :
            \/ Switch(best.id, flaps + 1)
            \/ /\ flow' = [pc |-> "revive", all |-> {}, choice |-> best.id]
               /\ round' = OverCopy(List)
      BY <2>3 DEF Failover
    <3>2. CASE Switch(best.id, flaps + 1)  BY <1>5, <1>7, <3>2 DEF Switch
    <3>3. CASE /\ flow' = [pc |-> "revive", all |-> {}, choice |-> best.id]
               /\ round' = OverCopy(List)
      <4>1. flow'.pc # "idle"
        BY <3>3
      <4> QED  BY <1>6, <3>3, <4>1
    <3> QED  BY <3>1, <3>2, <3>3
  <2> QED  BY <1>17, <2>1, <2>2, <2>3 DEF Health_
<1>18. CASE User
  <2>1. ASSUME NEW x \in Listed, NEW latency \in {-1} \cup Latencies, UserResult(x, latency)
        PROVE  RoundInv'
    BY <1>2, <2>1 DEF UserResult, session
  <2>2. ASSUME NEW choice \in {NoServer} \cup Wanted, Connect(choice)  PROVE RoundInv'
    BY <1>7, <2>2 DEF Connect
  <2>3. ASSUME NEW k \in 1..size, UpdateServer(k) \/ RemoveServer(k)  PROVE RoundInv'
    BY <1>2, <2>3 DEF UpdateServer, RemoveServer, Edit, session
  <2>4. ASSUME NEW id \in Ids, AddServer(id)  PROVE RoundInv'
    BY <1>2, <1>13, <2>4 DEF AddServer, Edit, session
  <2> QED  BY <1>18, <2>1, <2>2, <2>3, <2>4 DEF User
<1>19. ASSUME NEW fetched \in SUBSET Listed, Refresh(fetched)  PROVE RoundInv'
  BY <1>13, <1>19 DEF Refresh, Edit, session
<1>20. CASE UNCHANGED vars  BY <1>2, <1>20 DEF vars
<1> QED
  BY <1>14, <1>15, <1>16, <1>17, <1>18, <1>19, <1>20 DEF Next

\* No goroutine is left to send on the closed channel of its round, and a flow that
\* decides has every result: for any concurrency, list and timeouts.
THEOREM SpecNobodyLeftBehind == Spec => []NobodyLeftBehind
<1>1. Init => RoundInv
  BY DEF Init, RoundInv, IsRound, NobodyLeftBehind, Idle, NoFlow
<1>2. RoundInv /\ [Next]_vars => RoundInv'
  BY RoundStep
<1>3. RoundInv => NobodyLeftBehind
  BY DEF RoundInv
<1> QED  BY <1>1, <1>2, <1>3, PTL DEF Spec

----------------------------------------------------------------------------
\* The decision of a connect.

\* Select takes no sick server while another is listed.
LEMMA SelectsWell ==
  ASSUME NEW x \in Select(UsableSet, current)
  PROVE  x \in Listed /\ (Sick(x) => \A y \in Listed : Sick(y))
<1>1. x \in Ranked(UsableSet)
  BY DEF Select
<1>2. CASE \E y \in Listed : ~Sick(y)
  <2>1. UsableSet = {y \in Listed : ~Sick(y)}
    BY <1>2 DEF UsableSet
  <2> QED  BY <1>1, <2>1 DEF Ranked
<1>3. CASE \A y \in Listed : Sick(y)
  <2>1. UsableSet = Listed
    BY <1>3 DEF UsableSet
  <2> QED  BY <1>1, <1>3, <2>1 DEF Ranked
<1> QED  BY <1>2, <1>3

\* Auto connect decides on the list as it is after its round, with whatever edits,
\* refreshes and results of other rounds came in between.
THEOREM SpecConnectPicksLive == Spec => ConnectPicksLive
<1>1. [Next]_vars => [PicksLive]_vars
  <2> SUFFICES ASSUME Next, flow.pc = "connect", flow.choice = NoServer, flow'.pc = "idle"
               PROVE  \/ Listed = {}
                      \/ \E x \in Listed : /\ x.id = current'
                                           /\ Sick(x) => \A y \in Listed : Sick(y)
    BY DEF PicksLive
  <2>1. ~UNCHANGED flow
    OBVIOUS
  <2>2. ConnectDecides
    BY <2>1 DEF Next, Testing, Dispatch, LoopEnds, Close, TimeOver, TestEnds, Decides,
       ReconnectDecides, ReviveDecides, Reconnect, Health_, MarkCurrentUnhealthy, HealthOk,
       StandDown, FailoverAlone, Failover, User, UserResult, Connect, UpdateServer,
       RemoveServer, AddServer, Refresh, Edit, session
  <2>3. Targets = UsableSet
    BY DEF Targets
  <2>4. CASE Targets = {}
    BY <2>3, <2>4 DEF UsableSet
  <2>5. CASE \E x \in Select(Targets, current) : current' = x.id
    BY <2>3, <2>5, SelectsWell
  <2> QED  BY <2>2, <2>4, <2>5 DEF ConnectDecides
<1> QED  BY <1>1, PTL DEF Spec, ConnectPicksLive
----------------------------------------------------------------------------
\* The list and its grades.

\* The list holds records that are no newer than the edits so far, of ids that were
\* given out, each once.
Fits == \A k \in 1..size :
  cells[k] \in Rec /\ cells[k].rev <= edits /\ cells[k].id \in drawn
OneEach == \A j, k \in 1..size : cells[j].id = cells[k].id => j = k

\* Whoever failed a probe is still graded sick, in whatever record it has by now.
SuspectsSick ==
  suspects \subseteq drawn /\ \A x \in Listed : x.id \in suspects => Sick(x)

\* A round over the array itself reads records only, also past the list's end.
Reaches ==
  /\ round.next >= 1 /\ round.last <= Len(cells)
  /\ \A k \in 1..round.last : cells[k] \in Rec

ListInv == TypeOK /\ Fits /\ OneEach /\ SuspectsSick /\ Reaches

Marks  == [latencyMs : {-1} \cup Latencies, health : Health]
Rounds == [pc : {"idle", "fan", "drain", "closed"}, copy : Seq(Rec), next : Nat,
           last : Nat, ctx : {"live", "over"}, tests : SUBSET Test]
Flows  == [pc : {"idle", "connect", "reconnect", "revive"},
           all : SUBSET Rec, choice : Ids \cup {NoServer}]

LEMMA OutcomeTyped ==
  ASSUME NEW l \in {-1} \cup Latencies
  PROVE  Outcome(l) \in Marks /\ (Outcome(l).health = "unhealthy" <=> l < 0)
  BY SMT, LatenciesAssumption DEF Outcome, Marks, Health, DegradedAbove

\* A result leaves the suspects sick: it clears the one it does not find sick.
LEMMA GradedStep ==
  ASSUME ListInv, NEW id, NEW l \in {-1} \cup Latencies, Graded(id, l),
         UNCHANGED catalog
  PROVE  /\ grade' \in [Rec -> Marks] /\ suspects' \subseteq suspects
         /\ (Fits /\ OneEach /\ SuspectsSick)'
<1> USE DEF ListInv
<1>1. grade \in [Rec -> Marks] /\ suspects \subseteq drawn
  BY DEF TypeOK, Marks, SuspectsSick
<1>2. /\ UNCHANGED <<cells, size, drawn, edits>> /\ Listed' = Listed
      /\ Listed \subseteq Rec
  BY DEF catalog, Listed, Fits
<1>3. (Fits /\ OneEach)'
  BY <1>2 DEF Fits, OneEach
<1>4. suspects' \subseteq suspects /\ (l >= 0 => id \notin suspects')
  BY DEF Graded
<1>5. CASE UNCHANGED grade
  BY <1>1, <1>2, <1>3, <1>4, <1>5 DEF SuspectsSick, Sick
<1>6. ASSUME NEW x \in Listed, x.id = id, grade' = [grade EXCEPT ![x] = Outcome(l)]
      PROVE  grade' \in [Rec -> Marks] /\ SuspectsSick'
  <2>1. x \in Rec /\ Outcome(l) \in Marks
    BY <1>2, <1>6, OutcomeTyped
  <2>2. grade' \in [Rec -> Marks]
    BY <1>1, <1>6, <2>1
  <2>3. l < 0 \/ l >= 0
    BY LatenciesAssumption
  <2>4. ASSUME NEW y \in Listed, y.id \in suspects'  PROVE Sick(y)'
    <3>1. CASE y = x
      <4>1. l < 0
        BY <1>4, <1>6, <2>3, <2>4, <3>1
      <4> QED  BY <1>1, <1>6, <2>1, <3>1, <4>1, OutcomeTyped DEF Sick
    <3>2. CASE y # x
      <4>1. grade'[y] = grade[y] /\ Sick(y)
        BY <1>1, <1>2, <1>4, <1>6, <2>4, <3>2 DEF SuspectsSick
      <4> QED  BY <4>1 DEF Sick
    <3> QED  BY <3>1, <3>2
  <2> QED  BY <1>1, <1>2, <1>4, <2>2, <2>4 DEF SuspectsSick
<1> QED  BY <1>3, <1>4, <1>5, <1>6 DEF Graded

\* The record that takes the place of an old one has its grade, and all others of
\* the list keep theirs.
LEMMA CopiedGrades ==
  ASSUME ListInv, edits < MaxEdits, NEW old \in SUBSET Listed
  PROVE  /\ Copied(old) \in [Rec -> Marks]
         /\ \A y \in old : NewRec(y) \in Rec /\ Copied(old)[NewRec(y)] = grade[y]
         /\ \A x \in Listed \ old : Copied(old)[x] = grade[x]
<1>1. /\ grade \in [Rec -> Marks] /\ edits \in Nat /\ edits + 1 <= MaxEdits
      /\ MaxEdits \in Nat
  BY BoundsAssumption DEF ListInv, TypeOK, Marks
<1>2. \A x \in Listed : x \in Rec /\ x.rev <= edits /\ x.rev \in Nat
  BY DEF ListInv, Fits, Listed, Rec
<1>3. \A x, y \in Listed : x.id = y.id => x = y
  BY DEF ListInv, OneEach, Listed
<1>4. Unknown \in Marks
  BY DEF Unknown, Marks, Health
<1>5. \A y \in Listed : NewRec(y) \in Rec
  BY <1>1, <1>2 DEF NewRec, Rec
<1>6. \A x, y \in Listed : x # NewRec(y)
  BY <1>1, <1>2 DEF NewRec
<1>7. \A y, z \in Listed : NewRec(y) = NewRec(z) => y = z
  BY <1>3 DEF NewRec
<1>8. ASSUME NEW y \in old  PROVE Copied(old)[NewRec(y)] = grade[y]
  <2>1. (CHOOSE z \in old : NewRec(y) = NewRec(z)) = y
    BY <1>7, <1>8
  <2>2. NewRec(y) \in Rec /\ NewRec(y) \notin old
    BY <1>5, <1>6, <1>8
  <2>3. Copied(old)[NewRec(y)] = grade[CHOOSE z \in old : NewRec(y) = NewRec(z)]
    BY <1>8, <2>2 DEF Copied
  <2> QED  BY <2>1, <2>3
<1>9. ASSUME NEW x \in Listed \ old  PROVE Copied(old)[x] = grade[x]
  BY <1>2, <1>6, <1>9 DEF Copied
<1>10. ASSUME NEW x \in Rec  PROVE Copied(old)[x] \in Marks
  <2>1. CASE \E y \in old : x = NewRec(y)
    BY <1>1, <1>2, <1>8, <2>1
  <2>2. CASE ~\E y \in old : x = NewRec(y)
    BY <1>1, <1>4, <1>10, <2>2 DEF Copied
  <2> QED  BY <2>1, <2>2
<1>11. Copied(old) \in [Rec -> Marks]
  BY <1>10 DEF Copied
<1> QED  BY <1>5, <1>8, <1>9, <1>11
\* What every edit has to show, its round left aside.
ListHolds ==
  /\ cells \in Seq(Rec \cup {Void}) /\ size \in 0..Len(cells)
  /\ grade \in [Rec -> Marks] /\ drawn \in SUBSET Ids /\ edits \in 0..MaxEdits
  /\ Fits /\ OneEach /\ SuspectsSick

LEMMA ListFacts ==
  ASSUME ListInv
  PROVE  /\ cells \in Seq(Rec \cup {Void}) /\ size \in Nat /\ size <= Len(cells)
         /\ grade \in [Rec -> Marks] /\ drawn \in SUBSET Ids
         /\ edits \in Nat /\ edits <= MaxEdits /\ MaxEdits \in Nat
         /\ Listed \subseteq Rec
         /\ \A x \in Listed : x.rev <= edits /\ x.rev \in Nat /\ x.id \in drawn
         /\ \A x, y \in Listed : x.id = y.id => x = y
         /\ \A k \in 1..size : cells[k] \in Listed
         /\ suspects \subseteq drawn
<1>1. /\ cells \in Seq(Rec \cup {Void}) /\ size \in Nat /\ size <= Len(cells)
      /\ grade \in [Rec -> Marks] /\ drawn \in SUBSET Ids
      /\ edits \in Nat /\ edits <= MaxEdits /\ MaxEdits \in Nat
  BY BoundsAssumption DEF ListInv, TypeOK, Marks
<1>2. \A k \in 1..size : cells[k] \in Listed
  BY DEF Listed
<1>3. \A x \in Listed : \E k \in 1..size : x = cells[k]
  BY DEF Listed
<1>4. \A k \in 1..size :
        cells[k] \in Rec /\ cells[k].rev <= edits /\ cells[k].id \in drawn
  BY DEF ListInv, Fits
<1>5. \A x \in Listed : x \in Rec /\ x.rev <= edits /\ x.id \in drawn
  BY <1>3, <1>4
<1>6. \A x \in Rec : x.rev \in Nat
  BY <1>1 DEF Rec
<1>7. \A x, y \in Listed : x.id = y.id => x = y
  BY <1>3 DEF ListInv, OneEach
<1>8. suspects \subseteq drawn
  BY DEF ListInv, SuspectsSick
<1> QED  BY <1>1, <1>2, <1>5, <1>6, <1>7, <1>8

LEMMA NewRecFacts ==
  ASSUME ListInv, edits < MaxEdits, NEW x \in Listed
  PROVE  NewRec(x) \in Rec /\ NewRec(x).id = x.id /\ NewRec(x).rev = edits + 1
  BY ListFacts DEF NewRec, Rec

LEMMA UpdateStep ==
  ASSUME ListInv, NEW k \in 1..size, UpdateServer(k)
  PROVE  ListHolds'
<1> DEFINE x == cells[k]
<1>1. /\ edits < MaxEdits /\ edits' = edits + 1 /\ suspects' = suspects
      /\ cells' = [cells EXCEPT ![k] = NewRec(x)]
      /\ grade' = Copied({x}) /\ size' = size /\ drawn' = drawn
  BY DEF UpdateServer, Edit
<1>2. x \in Listed /\ {x} \in SUBSET Listed
  BY ListFacts
<1>3. NewRec(x) \in Rec /\ NewRec(x).id = x.id /\ NewRec(x).rev = edits + 1
  BY <1>1, <1>2, NewRecFacts
<1>4. /\ grade' \in [Rec -> Marks] /\ grade'[NewRec(x)] = grade[x]
      /\ \A y \in Listed \ {x} : grade'[y] = grade[y]
  BY <1>1, <1>2, CopiedGrades
<1> HIDE DEF x
<1>5. /\ cells' \in Seq(Rec \cup {Void}) /\ Len(cells') = Len(cells)
      /\ cells'[k] = NewRec(x)
      /\ \A j \in 1..size : j # k => cells'[j] = cells[j]
  BY <1>1, <1>3, ListFacts
<1>6. cells[k] = x
  BY DEF x
<1>7. Fits' /\ OneEach'
  <2>1. ASSUME NEW j \in 1..size
        PROVE  cells'[j] \in Rec /\ cells'[j].rev <= edits' /\ cells'[j].id = cells[j].id
    BY <1>1, <1>2, <1>3, <1>5, <1>6, ListFacts
  <2> QED  BY <1>1, <2>1, ListFacts DEF Fits, OneEach, ListInv
<1>8. SuspectsSick'
  <2>1. ASSUME NEW j \in 1..size, cells'[j].id \in suspects
        PROVE  grade'[cells'[j]].health = "unhealthy"
    <3>1. CASE j = k
      BY <1>2, <1>3, <1>4, <1>5, <2>1, <3>1 DEF ListInv, SuspectsSick, Sick
    <3>2. CASE j # k
      <4>1. cells'[j] = cells[j] /\ cells[j] \in Listed /\ cells[j] # x
        BY <1>5, <1>6, <3>2, ListFacts DEF ListInv, OneEach
      <4> QED  BY <1>4, <2>1, <4>1 DEF ListInv, SuspectsSick, Sick
    <3> QED  BY <3>1, <3>2
  <2> QED  BY <1>1, <2>1, ListFacts DEF SuspectsSick, Sick, Listed
<1>9. /\ size' \in 0..Len(cells') /\ drawn' \in SUBSET Ids
      /\ edits' \in 0..MaxEdits
  BY <1>1, <1>5, ListFacts
<1> QED  BY <1>4, <1>5, <1>7, <1>8, <1>9 DEF ListHolds

LEMMA RemoveStep ==
  ASSUME ListInv, NEW k \in 1..size, RemoveServer(k)
  PROVE  ListHolds'
<1>1. /\ edits < MaxEdits /\ edits' = edits + 1 /\ suspects' = suspects
      /\ cells' = [j \in DOMAIN cells |->
                     IF j \in k..(size - 1) THEN cells[j + 1] ELSE cells[j]]
      /\ size' = size - 1 /\ grade' = grade /\ drawn' = drawn
  BY DEF RemoveServer, Edit
<1>2. /\ DOMAIN cells = 1..Len(cells) /\ Len(cells) \in Nat
      /\ \A j \in 1..Len(cells) : cells[j] \in Rec \cup {Void}
      /\ k \in Nat /\ k >= 1 /\ k <= size
  BY ListFacts
<1>3. cells' \in Seq(Rec \cup {Void}) /\ Len(cells') = Len(cells)
  <2>1. cells' = [j \in 1..Len(cells) |->
                    IF j \in k..(size - 1) THEN cells[j + 1] ELSE cells[j]]
    BY <1>1, <1>2
  <2>2. \A j \in 1..Len(cells) : j \in k..(size - 1) => j + 1 \in 1..Len(cells)
    BY <1>2, ListFacts
  <2>3. \A j \in 1..Len(cells) : cells'[j] \in Rec \cup {Void}
    BY <1>2, <2>1, <2>2
  <2>4. cells' \in [1..Len(cells) -> Rec \cup {Void}]
    BY <2>1, <2>3
  <2> QED  BY <1>2, <2>4
<1>4. \A j \in 1..size' : cells'[j] = IF j < k THEN cells[j] ELSE cells[j + 1]
  BY <1>1, <1>2, ListFacts
<1>5. \A j \in 1..size' : j \in 1..size /\ j + 1 \in 1..size
  BY <1>1, <1>2, ListFacts
<1>6. Fits'
  <2>1. ASSUME NEW j \in 1..size'
        PROVE  cells'[j] \in Rec /\ cells'[j].rev <= edits' /\ cells'[j].id \in drawn'
    BY <1>1, <1>4, <1>5, ListFacts
  <2> QED  BY <2>1 DEF Fits
<1>7. OneEach'
  <2>1. ASSUME NEW i \in 1..size', NEW j \in 1..size', cells'[i].id = cells'[j].id
        PROVE  i = j
    <3> DEFINE a == IF i < k THEN i ELSE i + 1
               b == IF j < k THEN j ELSE j + 1
    <3>1. a \in 1..size /\ b \in 1..size /\ cells'[i] = cells[a] /\ cells'[j] = cells[b]
      BY <1>4, <1>5
    <3>2. a = b
      BY <2>1, <3>1 DEF ListInv, OneEach
    <3> QED  BY <1>2, <1>5, <3>2
  <2> QED  BY <2>1 DEF OneEach
<1>8. Listed' \subseteq Listed
  BY <1>4, <1>5 DEF Listed
<1>9. SuspectsSick'
  BY <1>1, <1>8 DEF ListInv, SuspectsSick, Sick
<1> QED  BY <1>1, <1>2, <1>3, <1>6, <1>7, <1>9, ListFacts DEF ListHolds

LEMMA AddStep ==
  ASSUME ListInv, NEW id \in Ids, AddServer(id)
  PROVE  /\ ListHolds'
         /\ size < Len(cells) => /\ Len(cells') = Len(cells)
                                 /\ \A k \in 1..Len(cells) :
                                      cells'[k] = cells[k] \/ cells'[k] \in Rec
<1> DEFINE x == NewRec([id |-> id])
<1>1. /\ edits < MaxEdits /\ edits' = edits + 1 /\ suspects' = suspects
      /\ cells' = IF size < Len(cells) THEN [cells EXCEPT ![size + 1] = x]
                                       ELSE Append(cells, x)
      /\ size' = size + 1 /\ grade' = grade /\ id \notin drawn /\ drawn' = drawn \cup {id}
  BY DEF AddServer, Edit
<1>2. x \in Rec /\ x.id = id /\ x.rev = edits + 1
  BY <1>1, ListFacts DEF NewRec, Rec
<1> HIDE DEF x
<1>3. /\ cells' \in Seq(Rec \cup {Void}) /\ size' <= Len(cells')
      /\ size < Len(cells) => /\ Len(cells') = Len(cells)
                              /\ \A k \in 1..Len(cells) :
                                   cells'[k] = cells[k] \/ cells'[k] \in Rec
      /\ cells'[size + 1] = x
      /\ \A j \in 1..size : cells'[j] = cells[j]
  <2>1. CASE size < Len(cells)
    BY <1>1, <1>2, <2>1, ListFacts
  <2>2. CASE size = Len(cells)
    BY <1>1, <1>2, <2>2, ListFacts
  <2> QED  BY <2>1, <2>2, ListFacts
<1>4. \A j \in 1..size' : j = size + 1 \/ j \in 1..size
  BY <1>1, ListFacts
<1>5. Fits'
  <2>1. ASSUME NEW j \in 1..size'
        PROVE  cells'[j] \in Rec /\ cells'[j].rev <= edits' /\ cells'[j].id \in drawn'
    BY <1>1, <1>2, <1>3, <1>4, ListFacts
  <2> QED  BY <2>1 DEF Fits
<1>6. OneEach'
  <2>1. \A j \in 1..size : cells'[j].id = cells[j].id /\ cells'[j].id # id
    BY <1>1, <1>3, ListFacts
  <2> QED  BY <1>2, <1>3, <1>4, <2>1 DEF OneEach, ListInv
<1>7. SuspectsSick'
  <2>1. ASSUME NEW j \in 1..size', cells'[j].id \in suspects
        PROVE  grade'[cells'[j]].health = "unhealthy"
    <3>1. j \in 1..size /\ cells'[j] = cells[j] /\ cells[j] \in Listed
      BY <1>1, <1>2, <1>3, <1>4, <2>1, ListFacts
    <3> QED  BY <1>1, <2>1, <3>1 DEF ListInv, SuspectsSick, Sick
  <2> QED  BY <1>1, <2>1, ListFacts DEF SuspectsSick, Sick, Listed
<1> QED  BY <1>1, <1>3, <1>5, <1>6, <1>7, ListFacts DEF ListHolds

LEMMA RefreshStep ==
  ASSUME ListInv, NEW fetched \in SUBSET Listed, Refresh(fetched)
  PROVE  ListHolds'
<1> DEFINE New(x) == IF x \in fetched THEN NewRec(x) ELSE x
<1>1. /\ edits < MaxEdits /\ edits' = edits + 1 /\ suspects' = suspects
      /\ grade' = Copied(fetched) /\ size' = size /\ drawn' = drawn
  BY DEF Refresh, Edit
<1>2. PICK p \in [1..size -> 1..size] :
         /\ \A i, j \in 1..size : i < j => p[i] # p[j]
         /\ cells' = [k \in 1..size |-> New(cells[p[k]])]
  BY DEF Refresh
<1>3. /\ grade' \in [Rec -> Marks]
      /\ \A x \in fetched : NewRec(x) \in Rec /\ grade'[NewRec(x)] = grade[x]
      /\ \A x \in Listed \ fetched : grade'[x] = grade[x]
  BY <1>1, CopiedGrades
<1>4. ASSUME NEW x \in Listed
      PROVE  /\ New(x) \in Rec /\ New(x).rev <= edits + 1 /\ New(x).id = x.id
             /\ grade'[New(x)] = grade[x]
  <2>1. CASE x \in fetched
    BY <1>1, <1>3, <1>4, <2>1, NewRecFacts, ListFacts
  <2>2. CASE x \notin fetched
    BY <1>3, <1>4, <2>2, ListFacts
  <2> QED  BY <2>1, <2>2
<1> HIDE DEF New
<1>5. \A k \in 1..size : cells[p[k]] \in Listed /\ cells'[k] = New(cells[p[k]])
  BY <1>2, ListFacts
<1>6. \A k \in 1..size : cells'[k] \in Rec
  BY <1>4, <1>5
<1>7. cells' \in Seq(Rec \cup {Void}) /\ Len(cells') = size
  BY <1>2, <1>6, ListFacts
<1>8. Fits'
  <2>1. ASSUME NEW k \in 1..size
        PROVE  cells'[k] \in Rec /\ cells'[k].rev <= edits' /\ cells'[k].id \in drawn'
    <3> DEFINE x == cells[p[k]]
    <3>1. x \in Listed /\ cells'[k] = New(x)
      BY <1>5
    <3>2. x.id \in drawn
      BY <3>1, ListFacts
    <3> HIDE DEF x
    <3>3. New(x) \in Rec /\ New(x).rev <= edits + 1 /\ New(x).id = x.id
      BY <1>4, <3>1
    <3> QED  BY <1>1, <3>1, <3>2, <3>3
  <2> QED  BY <1>1, <2>1 DEF Fits
<1>9. OneEach'
  <2>1. ASSUME NEW i \in 1..size, NEW j \in 1..size, cells'[i].id = cells'[j].id
        PROVE  i = j
    <3>1. cells[p[i]].id = cells[p[j]].id
      BY <1>4, <1>5, <2>1
    <3>2. p[i] = p[j]
      BY <1>2, <3>1 DEF ListInv, OneEach
    <3>3. i < j \/ j < i \/ i = j
      BY ListFacts
    <3> QED  BY <1>2, <3>2, <3>3
  <2> QED  BY <1>1, <2>1 DEF OneEach
<1>10. SuspectsSick'
  <2>1. ASSUME NEW k \in 1..size, cells'[k].id \in suspects
        PROVE  grade'[cells'[k]].health = "unhealthy"
    <3>1. /\ cells[p[k]] \in Listed /\ cells[p[k]].id \in suspects
          /\ grade'[cells'[k]] = grade[cells[p[k]]]
      BY <1>4, <1>5, <2>1
    <3> QED  BY <3>1 DEF ListInv, SuspectsSick, Sick
  <2> QED  BY <1>1, <2>1, ListFacts DEF SuspectsSick, Sick, Listed
<1> QED  BY <1>1, <1>3, <1>7, <1>8, <1>9, <1>10, ListFacts DEF ListHolds
\* What a round r over an array c may read.
RoundFits(r, c) ==
  /\ r \in Rounds /\ r.next >= 1 /\ r.last <= Len(c)
  /\ \A k \in 1..r.last : c[k] \in Rec

\* What the flow and its decisions leave behind.
FlowHolds ==
  /\ flow \in Flows /\ current \in Ids \cup {NoServer}
  /\ failing \in {"yes", "no"} /\ flaps \in 0..FlapLimit

LEMMA ListInvParts ==
  ASSUME IdsAssumption
  PROVE  /\ ListInv <=> ListHolds /\ FlowHolds /\ RoundFits(round, cells)
         /\ ListInv' <=> ListHolds' /\ FlowHolds' /\ RoundFits(round, cells)'
  BY DEF ListInv, ListHolds, FlowHolds, RoundFits, TypeOK, Marks, Rounds, Flows,
         Reaches, SuspectsSick

LEMMA IdleFits ==
  /\ Idle \in Rounds /\ Idle.next = 1 /\ Idle.last = 0
  /\ \A c : Len(c) \in Nat => RoundFits(Idle, c)
<1>1. Idle = [pc |-> "idle", copy |-> <<>>, next |-> 1, last |-> 0,
              ctx |-> "live", tests |-> {}]
  BY DEF Idle
<1>2. <<>> \in Seq(Rec)
  OBVIOUS
<1>3. Idle \in Rounds /\ Idle.next = 1 /\ Idle.last = 0
  BY <1>1, <1>2 DEF Rounds
<1> QED  BY <1>3 DEF RoundFits

LEMMA CopyFits ==
  ASSUME NEW q \in Seq(Rec), NEW c, Len(c) \in Nat
  PROVE  RoundFits(OverCopy(q), c)
<1>1. OverCopy(q) = [Idle EXCEPT !.pc = "fan", !.copy = q]
  BY DEF OverCopy
<1>2. OverCopy(q) \in Rounds /\ OverCopy(q).next = 1 /\ OverCopy(q).last = 0
  BY <1>1, IdleFits DEF Rounds
<1> QED  BY <1>2 DEF RoundFits

LEMMA UsableFits ==
  ASSUME ListInv, NEW r \in Usable
  PROVE  RoundFits(r, cells)
<1> DEFINE well == {k \in 1..size : ~Sick(cells[k])}
<1>1. CASE r = OverList
  <2>1. r = [pc |-> "fan", copy |-> <<>>, next |-> 1, last |-> size,
             ctx |-> "live", tests |-> {}]
    BY <1>1 DEF OverList, Idle
  <2>2. <<>> \in Seq(Rec)
    OBVIOUS
  <2> QED  BY <2>1, <2>2, ListFacts DEF RoundFits, Rounds
<1>2. CASE \E p \in [1..Cardinality(well) -> well] :
             r = OverCopy([k \in DOMAIN p |-> cells[p[k]]])
  <2>1. PICK p \in [1..Cardinality(well) -> well] :
               r = OverCopy([k \in DOMAIN p |-> cells[p[k]]])
    BY <1>2
  <2>2. Cardinality(well) \in Nat
    <3>1. IsFiniteSet(1..size)
      BY ListFacts, FS_Interval
    <3>2. IsFiniteSet(well)
      BY <3>1, FS_Subset
    <3> QED  BY <3>2, FS_CardinalityType
  <2>3. \A k \in DOMAIN p : cells[p[k]] \in Rec
    BY ListFacts
  <2>4. [k \in DOMAIN p |-> cells[p[k]]] \in Seq(Rec)
    BY <2>2, <2>3
  <2> QED  BY <2>1, <2>4, CopyFits, ListFacts
<1> QED  BY <1>1, <1>2 DEF Usable

LEMMA FrozenFits ==
  ASSUME ListInv, NEW c, Len(c) \in Nat
  PROVE  RoundFits(Frozen, c)
<1> DEFINE q == IF round.copy # <<>> THEN round.copy
                ELSE SubSeq(cells, round.next, round.last)
<1>1. round \in Rounds /\ round.next >= 1 /\ \A k \in 1..round.last : cells[k] \in Rec
  BY DEF ListInv, TypeOK, Rounds, Reaches
<1>2. round.copy \in Seq(Rec) /\ round.next \in Nat /\ round.last \in Nat
  BY <1>1 DEF Rounds
<1>3. \A i \in round.next..round.last : cells[i] \in Rec
  BY <1>1, <1>2
<1>4. SubSeq(cells, round.next, round.last) \in Seq(Rec)
  BY <1>2, <1>3, SubSeqProperties
<1>5. q \in Seq(Rec)
  BY <1>2, <1>4
<1>6. Frozen = [round EXCEPT !.copy = q, !.next = 1, !.last = 0]
  BY DEF Frozen
<1> HIDE DEF q
<1>7. Frozen \in Rounds /\ Frozen.next = 1 /\ Frozen.last = 0
  BY <1>1, <1>5, <1>6 DEF Rounds
<1> QED  BY <1>7 DEF RoundFits

\* A flow that starts takes its own copy of the list, or the array as it is.
LEMMA StartsFits ==
  ASSUME ListInv, NEW kind \in {"connect", "reconnect", "revive"},
         NEW choice \in Ids \cup {NoServer}, Starts(kind, choice), cells' = cells
  PROVE  flow' \in Flows /\ RoundFits(round, cells)'
<1>1. UsableSet \subseteq Rec
  BY ListFacts DEF UsableSet
<1>2. round' \in Usable /\ flow' = [pc |-> kind, all |-> UsableSet, choice |-> choice]
  BY DEF Starts
<1>3. RoundFits(round', cells)
  BY <1>2, UsableFits
<1> QED  BY <1>1, <1>2, <1>3 DEF Flows, RoundFits

\* The steps of a round.
LEMMA TestingStep ==
  ASSUME ListInv, Testing
  PROVE  ListHolds' /\ FlowHolds' /\ RoundFits(round, cells)'
<1>0. ListHolds /\ FlowHolds /\ RoundFits(round, cells)
  BY ListInvParts, IdsAssumption
<1>1. UNCHANGED session => FlowHolds'
  BY <1>0 DEF session, FlowHolds
<1>2. ASSUME UNCHANGED <<catalog, grade, suspects>>  PROVE ListHolds'
  BY <1>0, <1>2 DEF catalog, ListHolds, Fits, OneEach, SuspectsSick, Sick, Listed
<1>3. /\ round \in Rounds /\ round.next >= 1 /\ round.next \in Nat /\ round.last \in Nat
      /\ round.last <= Len(cells) /\ round.copy \in Seq(Rec)
      /\ \A k \in 1..round.last : cells[k] \in Rec
      /\ round.tests \in SUBSET Test
  BY <1>0 DEF RoundFits, Rounds
<1>4. CASE Dispatch
  <2>1. PICK slot \in 1..Concurrency :
          round' = [round EXCEPT
            !.tests = @ \cup {[slot |-> slot, id |-> Pointer.id]},
            !.copy = IF @ # <<>> THEN Tail(@) ELSE @,
            !.next = IF round.copy # <<>> THEN @ ELSE @ + 1]
    BY <1>4 DEF Dispatch
  <2>2. Pointer \in Rec
    BY <1>3, <1>4 DEF Dispatch, Pointer, Left
  <2>3. [slot |-> slot, id |-> Pointer.id] \in Test
    BY <2>2 DEF Rec, Test
  <2> DEFINE t == round.tests \cup {[slot |-> slot, id |-> Pointer.id]}
             q == IF round.copy # <<>> THEN Tail(round.copy) ELSE round.copy
             n == IF round.copy # <<>> THEN round.next ELSE round.next + 1
  <2>4. t \in SUBSET Test /\ q \in Seq(Rec) /\ n \in Nat /\ n >= 1
    BY <1>3, <2>3
  <2>5. round' = [round EXCEPT !.tests = t, !.copy = q, !.next = n]
    BY <2>1
  <2> HIDE DEF t, q, n
  <2>6. round' \in Rounds /\ round'.next >= 1 /\ round'.last = round.last
    BY <1>3, <2>4, <2>5 DEF Rounds
  <2>7. cells' = cells /\ ListHolds' /\ FlowHolds'
    BY <1>1, <1>2, <1>4 DEF Dispatch, catalog
  <2> QED  BY <1>3, <2>6, <2>7 DEF RoundFits
<1>5. CASE LoopEnds
  <2>1. round' = [Idle EXCEPT !.pc = "drain", !.ctx = round.ctx, !.tests = round.tests]
    BY <1>5 DEF LoopEnds
  <2>2. round' = [pc |-> "drain", copy |-> <<>>, next |-> 1, last |-> 0,
                  ctx |-> round.ctx, tests |-> round.tests]
    BY <2>1 DEF Idle
  <2>3. <<>> \in Seq(Rec)
    OBVIOUS
  <2>4. round' \in Rounds /\ round'.next = 1 /\ round'.last = 0
    BY <1>3, <2>2, <2>3 DEF Rounds
  <2>5. cells' = cells /\ ListHolds' /\ FlowHolds'
    BY <1>1, <1>2, <1>5 DEF LoopEnds, catalog
  <2> QED  BY <1>3, <2>4, <2>5, ListFacts DEF RoundFits
<1>6. CASE Close
  <2>1. round' = [Idle EXCEPT !.pc = "closed", !.tests = round.tests]
    BY <1>6 DEF Close
  <2>2. round' = [pc |-> "closed", copy |-> <<>>, next |-> 1, last |-> 0,
                  ctx |-> "live", tests |-> round.tests]
    BY <2>1 DEF Idle
  <2>3. <<>> \in Seq(Rec)
    OBVIOUS
  <2>4. round' \in Rounds /\ round'.next = 1 /\ round'.last = 0
    BY <1>3, <2>2, <2>3 DEF Rounds
  <2>5. cells' = cells /\ ListHolds' /\ FlowHolds'
    BY <1>1, <1>2, <1>6 DEF Close, catalog
  <2> QED  BY <1>3, <2>4, <2>5, ListFacts DEF RoundFits
<1>7. CASE TimeOver
  <2>1. round' \in Rounds /\ round'.next = round.next /\ round'.last = round.last
    BY <1>3, <1>7 DEF Rounds, TimeOver
  <2>2. cells' = cells /\ ListHolds' /\ FlowHolds'
    BY <1>1, <1>2, <1>7 DEF TimeOver, catalog
  <2> QED  BY <1>3, <2>1, <2>2 DEF RoundFits
<1>8. ASSUME NEW t \in round.tests, NEW l \in {-1} \cup Latencies, TestEnds(t, l)
      PROVE  ListHolds' /\ FlowHolds' /\ RoundFits(round, cells)'
  <2>1. round' \in Rounds /\ round'.next = round.next /\ round'.last = round.last
    BY <1>3, <1>8 DEF Rounds, TestEnds
  <2>2. /\ grade' \in [Rec -> Marks] /\ (Fits /\ OneEach /\ SuspectsSick)'
        /\ UNCHANGED catalog /\ FlowHolds'
    BY <1>1, <1>8, GradedStep DEF TestEnds
  <2> QED  BY <1>0, <1>3, <2>1, <2>2 DEF RoundFits, ListHolds, catalog
<1> QED  BY <1>4, <1>5, <1>6, <1>7, <1>8 DEF Testing
\* A decision takes a server of the list, or of the records the flow began with.
LEMMA DecisionStep ==
  ASSUME ListInv, Decides \/ Reconnect \/ Health_
  PROVE  ListHolds' /\ FlowHolds' /\ RoundFits(round, cells)'
<1>0. ListHolds /\ FlowHolds /\ RoundFits(round, cells)
  BY ListInvParts, IdsAssumption
<1>1. /\ flow.pc \in {"idle", "connect", "reconnect", "revive"} /\ flow.all \subseteq Rec
      /\ flow.choice \in Ids \cup {NoServer} /\ flaps \in Nat /\ flaps <= FlapLimit
      /\ FlapLimit \in Nat \ {0} /\ current \in Ids \cup {NoServer}
      /\ failing \in {"yes", "no"} /\ flow \in Flows
  BY <1>0, BoundsAssumption DEF FlowHolds, Flows
<1>2. UNCHANGED <<catalog, grade, suspects>> => ListHolds' /\ cells' = cells
  BY <1>0 DEF catalog, ListHolds, Fits, OneEach, SuspectsSick, Sick, Listed
<1>3. cells' = cells /\ round' = round => RoundFits(round, cells)'
  BY <1>0 DEF RoundFits
<1>4. cells' = cells /\ round' = Idle => RoundFits(round, cells)'
  <2>1. RoundFits(Idle, cells)
    BY IdleFits, ListFacts
  <2> QED  BY <2>1 DEF RoundFits
<1>5. NoFlow \in Flows
  BY DEF NoFlow, Flows
<1>6. Listed \subseteq Rec /\ UsableSet \subseteq Rec /\ \A x \in Rec : x.id \in Ids
  BY ListFacts DEF UsableSet, Rec
<1>7. \A targets, i : Select(targets, i) \subseteq targets
  BY DEF Select, Ranked
<1>8. CASE ConnectDecides
  <2>1. Targets \subseteq Rec
    BY <1>6 DEF Targets
  <2>2. current' \in Ids \cup {NoServer}
    BY <1>1, <1>6, <1>7, <1>8, <2>1 DEF ConnectDecides
  <2>3. UNCHANGED <<catalog, grade, suspects, failing, flaps>> /\ flow' = NoFlow /\ round' = Idle
    BY <1>8 DEF ConnectDecides
  <2> QED  BY <1>1, <1>2, <1>4, <1>5, <2>2, <2>3 DEF FlowHolds
<1>9. CASE ReconnectDecides
  <2>1. current' \in Ids \cup {NoServer}
    BY <1>1, <1>6, <1>7, <1>9 DEF ReconnectDecides
  <2>2. UNCHANGED <<catalog, grade, suspects, failing, flaps>> /\ flow' = NoFlow /\ round' = Idle
    BY <1>9 DEF ReconnectDecides
  <2> QED  BY <1>1, <1>2, <1>4, <1>5, <2>1, <2>2 DEF FlowHolds
<1>10. ASSUME NEW id \in Ids \cup {NoServer}, NEW flap \in 0..FlapLimit, Switch(id, flap),
              UNCHANGED <<catalog, grade, suspects>>, failing' \in {"yes", "no"}
       PROVE  ListHolds' /\ FlowHolds' /\ RoundFits(round, cells)'
  <2>1. CASE Starts("reconnect", id)
    <3>1. flow' \in Flows /\ RoundFits(round, cells)'
      BY <1>2, <1>10, <2>1, StartsFits
    <3>2. current' = id /\ flaps' \in {0, flap}
      BY <1>10, <2>1 DEF Switch
    <3> QED  BY <1>1, <1>2, <1>10, <3>1, <3>2 DEF FlowHolds
  <2>2. CASE flaps' \in {0, flap} /\ flow' = NoFlow /\ round' = Idle
    <3>1. current' = id
      BY <1>10 DEF Switch
    <3> QED  BY <1>1, <1>2, <1>4, <1>5, <1>10, <2>2, <3>1 DEF FlowHolds
  <2> QED  BY <1>10, <2>1, <2>2 DEF Switch
<1>11. CASE ReviveDecides
  <2>1. UNCHANGED <<catalog, grade, suspects>> /\ failing' = failing
    BY <1>11 DEF ReviveDecides
  <2>2. CASE Switch(flow.choice, 1)
    <3>1. 1 \in 0..FlapLimit
      BY <1>1
    <3> QED  BY <1>1, <1>10, <2>1, <2>2, <3>1
  <2>3. CASE flow' = NoFlow /\ round' = Idle /\ UNCHANGED <<current, flaps>>
    BY <1>1, <1>2, <1>4, <1>5, <2>1, <2>3 DEF FlowHolds
  <2> QED  BY <1>11, <2>2, <2>3 DEF ReviveDecides
<1>12. CASE Reconnect
  <2>1. UNCHANGED <<catalog, grade, suspects, current, failing, flaps>>
    BY <1>12 DEF Reconnect
  <2>2. flow' \in Flows /\ RoundFits(round, cells)'
    BY <1>1, <1>2, <1>12, <2>1, StartsFits DEF Reconnect
  <2> QED  BY <1>1, <1>2, <2>1, <2>2 DEF FlowHolds
<1>13. CASE MarkCurrentUnhealthy
  <2>1. UNCHANGED <<cells, size, drawn, edits, round, flow, current, flaps>> /\ failing' = "yes"
    BY <1>13 DEF MarkCurrentUnhealthy, catalog
  <2>2. Listed' = Listed /\ (Fits /\ OneEach)'
    BY <1>0, <2>1 DEF ListHolds, Fits, OneEach, Listed
  <2>3. CASE UNCHANGED <<grade, suspects>>
    BY <1>0, <1>1, <1>2, <1>3, <2>1, <2>3 DEF FlowHolds, catalog
  <2>4. ASSUME NEW x \in Listed, x.id = current, grade' = [grade EXCEPT ![x] = Outcome(-1)],
               suspects' = suspects \cup {current}
        PROVE  grade' \in [Rec -> Marks] /\ SuspectsSick'
    <3>1. Outcome(-1) \in Marks /\ Outcome(-1).health = "unhealthy"
      BY OutcomeTyped
    <3>2. x \in Rec /\ x.id \in drawn /\ suspects \subseteq drawn
      BY <2>4, ListFacts
    <3>3. grade' \in [Rec -> Marks] /\ grade'[x] = Outcome(-1)
      BY <2>4, <3>1, <3>2, ListFacts
    <3>4. ASSUME NEW y \in Listed, y.id \in suspects'  PROVE grade'[y].health = "unhealthy"
      <4>1. CASE y = x
        BY <3>1, <3>3, <4>1
      <4>2. CASE y # x
        <5>1. y.id \in suspects /\ y \in Rec
          BY <2>4, <3>4, <4>2, ListFacts
        <5>2. grade'[y] = grade[y]
          BY <2>4, <4>2, <5>1, ListFacts
        <5> QED  BY <3>4, <5>1, <5>2 DEF ListInv, SuspectsSick, Sick
      <4> QED  BY <4>1, <4>2
    <3> QED  BY <2>1, <2>2, <2>4, <3>2, <3>3, <3>4 DEF SuspectsSick, Sick
  <2>5. grade' \in [Rec -> Marks] /\ SuspectsSick'  => ListHolds'
    BY <1>0, <2>1, <2>2 DEF ListHolds
  <2> QED
    BY <1>1, <1>3, <1>13, <2>1, <2>3, <2>4, <2>5 DEF FlowHolds, MarkCurrentUnhealthy
<1>14. CASE HealthOk \/ StandDown
  <2>1. /\ UNCHANGED <<catalog, grade, suspects, round, flow, current>>
        /\ failing' \in {"yes", "no"} /\ flaps' \in {0, flaps}
    BY <1>1, <1>14 DEF HealthOk, StandDown
  <2> QED  BY <1>1, <1>2, <1>3, <2>1 DEF FlowHolds
<1>15. CASE FailoverAlone
  <2>1. /\ UNCHANGED <<catalog, grade, suspects, current>> /\ failing' = "no"
        /\ flaps' \in 0..FlapLimit
    BY <1>1, <1>15 DEF FailoverAlone
  <2>2. flow' \in Flows /\ RoundFits(round, cells)'
    <3>1. CASE UNCHANGED <<flow, round>>  BY <1>1, <1>2, <1>3, <2>1, <3>1
    <3>2. CASE Starts("reconnect", current)  BY <1>1, <1>2, <2>1, <3>2, StartsFits
    <3> QED  BY <1>15, <3>1, <3>2 DEF FailoverAlone
  <2> QED  BY <1>1, <1>2, <2>1, <2>2 DEF FlowHolds
<1>16. CASE Failover
  <2>1. UNCHANGED <<catalog, grade, suspects>> /\ failing' = "no"
    BY <1>16 DEF Failover
  <2>2. PICK best \in Select(Candidates, NoServer) :
          \/ flaps < FlapLimit /\ Switch(best.id, flaps + 1)
          \/ /\ flow' = [pc |-> "revive", all |-> {}, choice |-> best.id]
             /\ round' = OverCopy(List)
             /\ UNCHANGED <<current, flaps>>
    BY <1>16 DEF Failover
  <2>3. best.id \in Ids
    BY <1>6, <1>7 DEF Candidates
  <2>4. CASE flaps < FlapLimit /\ Switch(best.id, flaps + 1)
    <3>1. flaps + 1 \in 0..FlapLimit
      BY <1>1, <2>4
    <3> QED  BY <1>10, <2>1, <2>3, <2>4, <3>1
  <2>5. CASE /\ flow' = [pc |-> "revive", all |-> {}, choice |-> best.id]
             /\ round' = OverCopy(List)
             /\ UNCHANGED <<current, flaps>>
    <3>1. List \in Seq(Rec)
      <4>1. \A k \in 1..size : cells[k] \in Rec
        BY ListFacts
      <4> QED  BY <4>1, ListFacts, SubSeqProperties DEF List
    <3>2. RoundFits(OverCopy(List), cells)
      BY <3>1, CopyFits, ListFacts
    <3>3. flow' \in Flows
      BY <2>3, <2>5 DEF Flows
    <3>4. RoundFits(round, cells)'
      BY <1>2, <2>1, <2>5, <3>2 DEF RoundFits
    <3> QED  BY <1>1, <1>2, <2>1, <2>5, <3>3, <3>4 DEF FlowHolds
  <2> QED  BY <2>2, <2>4, <2>5
<1> QED
  BY <1>8, <1>9, <1>11, <1>12, <1>13, <1>14, <1>15, <1>16 DEF Decides, Health_

\* What the user does, and a refresh, beside a round.
LEMMA UserStep ==
  ASSUME ListInv, User \/ \E fetched \in SUBSET Listed : Refresh(fetched)
  PROVE  ListHolds' /\ FlowHolds' /\ RoundFits(round, cells)'
<1>0. ListHolds /\ FlowHolds /\ RoundFits(round, cells)
  BY ListInvParts, IdsAssumption
<1>1. UNCHANGED session => FlowHolds'
  BY <1>0 DEF session, FlowHolds
<1>2. /\ round \in Rounds /\ round.next >= 1 /\ round.last \in Nat
      /\ round.last <= Len(cells) /\ \A k \in 1..round.last : cells[k] \in Rec
  BY <1>0 DEF RoundFits, Rounds
<1>3. ASSUME ListHolds', round' = Frozen  PROVE RoundFits(round, cells)'
  <2>1. Len(cells') \in Nat
    BY <1>3 DEF ListHolds
  <2>2. RoundFits(Frozen, cells')
    BY <2>1, FrozenFits
  <2> QED  BY <1>3, <2>2 DEF RoundFits
<1>4. ASSUME round' = round, Len(cells') = Len(cells),
             \A k \in 1..round.last : cells'[k] \in Rec
      PROVE  RoundFits(round, cells)'
  BY <1>2, <1>4 DEF RoundFits
<1>5. ASSUME NEW x \in Listed, NEW l \in {-1} \cup Latencies, UserResult(x, l)
      PROVE  ListHolds' /\ FlowHolds' /\ RoundFits(round, cells)'
  <2>1. /\ grade' \in [Rec -> Marks] /\ (Fits /\ OneEach /\ SuspectsSick)'
        /\ UNCHANGED <<catalog, round>> /\ FlowHolds'
    BY <1>1, <1>5, GradedStep DEF UserResult
  <2> QED  BY <1>0, <2>1 DEF RoundFits, ListHolds, catalog
<1>6. ASSUME NEW choice \in {NoServer} \cup Wanted, Connect(choice)
      PROVE  ListHolds' /\ FlowHolds' /\ RoundFits(round, cells)'
  <2>1. choice \in Ids \cup {NoServer}
    BY IdsAssumption
  <2>2. UNCHANGED <<cells, size, drawn, edits, grade, suspects, current, failing, flaps>>
    BY <1>6 DEF Connect, catalog
  <2>3. flow' \in Flows /\ RoundFits(round, cells)'
    BY <1>6, <2>1, <2>2, StartsFits DEF Connect
  <2>4. ListHolds'
    BY <1>0, <2>2 DEF ListHolds, Fits, OneEach, SuspectsSick, Sick, Listed
  <2> QED  BY <1>0, <2>2, <2>3, <2>4 DEF FlowHolds
<1>7. ASSUME NEW k \in 1..size, UpdateServer(k)
      PROVE  ListHolds' /\ FlowHolds' /\ RoundFits(round, cells)'
  <2>1. /\ ListHolds' /\ FlowHolds' /\ round' = round /\ edits < MaxEdits
        /\ cells' = [cells EXCEPT ![k] = NewRec(cells[k])]
    BY <1>1, <1>7, UpdateStep DEF UpdateServer, Edit
  <2>2. NewRec(cells[k]) \in Rec
    BY <2>1, NewRecFacts, ListFacts
  <2>3. Len(cells') = Len(cells) /\ \A j \in 1..round.last : cells'[j] \in Rec
    BY <1>2, <2>1, <2>2, ListFacts
  <2> QED  BY <1>4, <2>1, <2>3
<1>8. ASSUME NEW k \in 1..size, RemoveServer(k)
      PROVE  ListHolds' /\ FlowHolds' /\ RoundFits(round, cells)'
  <2>1. /\ ListHolds' /\ FlowHolds' /\ round' = round
        /\ cells' = [j \in DOMAIN cells |->
                       IF j \in k..(size - 1) THEN cells[j + 1] ELSE cells[j]]
    BY <1>1, <1>8, RemoveStep DEF RemoveServer, Edit
  <2>2. DOMAIN cells' = DOMAIN cells /\ Len(cells) \in Nat /\ DOMAIN cells = 1..Len(cells)
    BY <2>1, ListFacts
  <2>3. Len(cells') = Len(cells)
    <3>1. Len(cells') \in Nat /\ DOMAIN cells' = 1..Len(cells')
      BY <2>1 DEF ListHolds
    <3> QED  BY <2>2, <3>1
  <2>4. \A j \in 1..round.last : cells'[j] \in Rec
    BY <1>2, <2>1, <2>2, ListFacts
  <2> QED  BY <1>4, <2>1, <2>3, <2>4
<1>9. ASSUME NEW id \in Ids, AddServer(id)
      PROVE  ListHolds' /\ FlowHolds' /\ RoundFits(round, cells)'
  <2>1. ListHolds' /\ FlowHolds'
    BY <1>1, <1>9, AddStep DEF AddServer, Edit
  <2>2. CASE size < Len(cells)
    <3>1. /\ Len(cells') = Len(cells)
          /\ \A k \in 1..Len(cells) : cells'[k] = cells[k] \/ cells'[k] \in Rec
      BY <1>9, <2>2, AddStep
    <3>2. \A k \in 1..round.last : cells'[k] \in Rec
      BY <1>2, <3>1, ListFacts
    <3> QED  BY <1>4, <1>9, <2>1, <2>2, <3>1, <3>2 DEF AddServer
  <2>3. CASE ~(size < Len(cells))
    BY <1>3, <1>9, <2>1, <2>3 DEF AddServer
  <2> QED  BY <2>2, <2>3
<1>10. ASSUME NEW fetched \in SUBSET Listed, Refresh(fetched)
       PROVE  ListHolds' /\ FlowHolds' /\ RoundFits(round, cells)'
  BY <1>1, <1>3, <1>10, RefreshStep DEF Refresh, Edit
<1> QED  BY <1>5, <1>6, <1>7, <1>8, <1>9, <1>10 DEF User

\* What SpecTypeOK and SpecSuspectWaits have in common.
LEMMA ListInvStep == ListInv /\ [Next]_vars => ListInv'
<1> SUFFICES ASSUME ListInv, [Next]_vars  PROVE ListInv'
  OBVIOUS
<1>1. CASE Next
  BY <1>1, ListInvParts, IdsAssumption, TestingStep, DecisionStep, UserStep DEF Next
<1>2. CASE UNCHANGED vars
  BY <1>2 DEF vars, ListInv, TypeOK, Fits, OneEach, SuspectsSick, Sick, Listed, Reaches
<1> QED  BY <1>1, <1>2

LEMMA InitListInv == Init => ListInv
<1> SUFFICES ASSUME Init  PROVE ListInv
  OBVIOUS
<1>1. /\ Len(Initial) \in Nat /\ Spare \in Nat /\ MaxEdits \in Nat
      /\ DOMAIN Initial = 1..Len(Initial) /\ \A k \in 1..Len(Initial) : Initial[k] \in Ids
  BY IdsAssumption, BoundsAssumption
<1>2. cells = [k \in 1..(Len(Initial) + Spare) |->
                 IF k <= Len(Initial) THEN [id |-> Initial[k], rev |-> 0] ELSE Void]
  BY DEF Init
<1>3. ASSUME NEW k \in 1..Len(Initial)
      PROVE  cells[k] \in Rec /\ cells[k].rev = 0 /\ cells[k].id = Initial[k]
  <2>1. cells[k] = [id |-> Initial[k], rev |-> 0]
    BY <1>1, <1>2
  <2>2. 0 \in 0..MaxEdits
    BY <1>1
  <2> QED  BY <1>1, <2>1, <2>2 DEF Rec
<1>4. cells \in Seq(Rec \cup {Void}) /\ Len(cells) = Len(Initial) + Spare
  <2>1. \A k \in 1..(Len(Initial) + Spare) : cells[k] \in Rec \cup {Void}
    BY <1>1, <1>2, <1>3
  <2> QED  BY <1>1, <1>2, <2>1
<1>5. grade \in [Rec -> Marks]
  BY DEF Init, Unknown, Marks, Health
<1>6. size = Len(Initial) /\ drawn \in SUBSET Ids /\ edits = 0 /\ suspects = {}
  BY <1>1 DEF Init, Elements
<1>7. Fits /\ OneEach /\ SuspectsSick
  <2>1. \A k \in 1..Len(Initial) : Initial[k] \in drawn
    BY <1>1 DEF Init, Elements
  <2>2. Fits
    BY <1>3, <1>6, <2>1 DEF Fits
  <2>3. OneEach
    BY <1>1, <1>3, <1>6, IdsAssumption DEF OneEach
  <2>4. SuspectsSick
    BY <1>6 DEF SuspectsSick
  <2> QED  BY <2>2, <2>3, <2>4
<1>8. ListHolds
  BY <1>1, <1>4, <1>5, <1>6, <1>7 DEF ListHolds
<1>9. FlowHolds
  BY BoundsAssumption DEF Init, FlowHolds, Flows, NoFlow
<1>10. RoundFits(round, cells)
  <2>1. Len(cells) \in Nat /\ round = Idle
    BY <1>1, <1>4 DEF Init
  <2> QED  BY <2>1, IdleFits
<1> QED  BY <1>8, <1>9, <1>10, ListInvParts, IdsAssumption

\* Every variable keeps its type: no round reads a place of the array that holds no
\* record, whatever was removed or added under it.
THEOREM SpecTypeOK == Spec => [](TypeOK /\ Reaches)
<1>1. ListInv => TypeOK /\ Reaches
  BY DEF ListInv
<1> QED  BY <1>1, InitListInv, ListInvStep, PTL DEF Spec

\* A server that failed its probes is graded sick until a good test, in every record
\* that an edit or a refresh makes of it.
THEOREM SpecSuspectsSick == Spec => []SuspectsSick
<1>1. ListInv => SuspectsSick
  BY DEF ListInv
<1> QED  BY <1>1, InitListInv, ListInvStep, PTL DEF Spec

\* And so no failover goes to it while an alternative is not known to be sick: for any
\* catalog, any number of edits and refreshes and any results of other rounds.
THEOREM SpecSuspectWaits == Spec => SuspectWaits
<1> DEFINE Waits == \A id \in suspects : FailsOverTo(id) =>
                      \A x \in Listed : x.id # current => Sick(x)
<1>1. ListInv /\ [Next]_vars => [Waits]_vars
  <2> SUFFICES ASSUME ListInv, Next, NEW id \in suspects, FailsOverTo(id),
                      NEW x \in Listed, x.id # current
               PROVE  Sick(x)
    OBVIOUS
  <2>1. Failover
    BY DEF FailsOverTo, Next, Testing, Dispatch, LoopEnds, Close, TimeOver, TestEnds,
       Decides, ConnectDecides, ReconnectDecides, ReviveDecides, Reconnect, Health_,
       MarkCurrentUnhealthy, HealthOk, StandDown, FailoverAlone, Starts, User, UserResult,
       Connect, UpdateServer, RemoveServer, AddServer, Refresh, Edit, session
  <2>2. PICK best \in Select(Candidates, NoServer) :
          \/ flaps < FlapLimit /\ Switch(best.id, flaps + 1)
          \/ flow' = [pc |-> "revive", all |-> {}, choice |-> best.id] /\ current' = current
    BY <2>1 DEF Failover
  <2>3. best.id = id
    <3>1. CASE Switch(best.id, flaps + 1)
      <4>1. current' = best.id /\ flow'.pc # "revive"
        BY <3>1 DEF Switch, Starts, NoFlow
      <4> QED  BY <4>1 DEF FailsOverTo
    <3>2. CASE flow' = [pc |-> "revive", all |-> {}, choice |-> best.id] /\ current' = current
      BY <3>2 DEF FailsOverTo
    <3> QED  BY <2>2, <3>1, <3>2
  <2>4. best \in Ranked(Candidates) /\ best \in UsableSet /\ best \in Listed
    BY DEF Select, Ranked, Candidates, UsableSet
  <2>5. Sick(best)
    BY <2>3, <2>4 DEF ListInv, SuspectsSick
  <2> QED  BY <2>4, <2>5 DEF UsableSet
<1> QED  BY <1>1, InitListInv, ListInvStep, PTL DEF Spec, SuspectWaits
=============================================================================
