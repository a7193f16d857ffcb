-------------------- MODULE ConnectionLifecycle_proofs --------------------
(***************************************************************************)
(* Proofs about ConnectionLifecycle, for any catalog and any number of     *)
(* monitor generations.                                                    *)
(***************************************************************************)
EXTENDS ConnectionLifecycle, TLAPS

\* What the properties leave out: connMu is held exactly while a flow is under
\* way, and a flow knows the server it needs.
FlowKnows ==
  /\ owner = "none" <=> at = "idle"
  /\ at \in {"revive", "switch"} => want \in Servers
  /\ at \in {"test", "pick"} /\ owner = "user" => want # None

\* Each step of a flow finds the core and the monitors as the steps before it
\* left them.
FlowHoldings ==
  phase = "running" =>
    /\ at = "idle" => /\ Up(state) <=> core # "nil"
                      /\ Up(state) <=> mons # None
    /\ at \in {"test", "pick", "core"} => core = "nil" /\ mons = None
    /\ at \in {"tun", "routing", "enforce", "monitors"} => core # "nil" /\ mons = None
    /\ at \in {"revive", "switch", "verify"} => core # "nil" /\ mons # None
    /\ at = "down" => mons = None

\* The inductive invariant of the daemon's connection.
LifecycleInv == TypeOK /\ FlowKnows /\ MachineFollowsFlow /\ FlowHoldings

USE DEF counters, loops, flow, Limit, Owners, Steps, TickPC, WatchPC, Take, Release

\* The table leads from a state to a state.
LEMMA AfterType ==
  ASSUME NEW s \in ConnStates, NEW to \in ConnStates
  PROVE  After(s, to) \in ConnStates
BY DEF After

LEMMA BestChoice ==
  ASSUME NEW list \in SUBSET Servers
  PROVE  Best(list) \subseteq list /\ Usable(list, bad) \subseteq list
BY DEF Best, Usable

\* Every step keeps the types.
LEMMA TypeStep ==
  ASSUME TypeOK, FlowKnows, [Next]_vars
  PROVE  TypeOK'
<1> USE DEF TypeOK, FlowKnows, ConnStates, After, Awake, Bump, Usable, Best
<1>1. ASSUME NEW w \in Servers \cup {AutoSelect}, Connect(w) PROVE TypeOK'
  BY <1>1 DEF Connect
<1>2. CASE FinishDisconnect  BY <1>2 DEF FinishDisconnect
<1>3. CASE Test  BY <1>3 DEF Test
<1>4. CASE PickMissing  BY <1>4 DEF PickMissing
<1>5. CASE Pick  BY <1>5 DEF Pick
<1>6. CASE StartCore  BY <1>6 DEF StartCore
<1>7. CASE VerifyTUN  BY <1>7 DEF VerifyTUN
<1>8. CASE VerifyRouting  BY <1>8 DEF VerifyRouting
<1>9. CASE Establish  BY <1>9 DEF Establish
<1>10. CASE BringUpFails  BY <1>10 DEF BringUpFails
<1>11. CASE StartMonitors  BY <1>11 DEF StartMonitors
<1>12. CASE Revive  BY <1>12 DEF Revive
<1>13. CASE SwitchInPlace  BY <1>13 DEF SwitchInPlace
<1>14. CASE SwitchRestart  BY <1>14 DEF SwitchRestart, Restart
<1>15. CASE SwitchProbed  BY <1>15 DEF SwitchProbed
<1>16. CASE Disconnect  BY <1>16 DEF Disconnect
<1>17. CASE DisconnectForced  BY <1>17 DEF DisconnectForced
<1>18. CASE CoreDies  BY <1>18 DEF CoreDies
<1>19. CASE CooldownOver  BY <1>19 DEF CooldownOver
<1>20. CASE Shutdown  BY <1>20 DEF Shutdown
<1>21. CASE Reboot  BY <1>21 DEF Reboot
<1>22. ASSUME NEW g \in Gens, HealthTick(g) PROVE TypeOK'
  BY <1>22 DEF HealthTick, Unhealthy
<1>23. ASSUME NEW g \in Gens, ProbeOk(g) PROVE TypeOK'
  BY <1>23 DEF ProbeOk
<1>24. ASSUME NEW g \in Gens, ProbeBad(g) PROVE TypeOK'
  BY <1>24 DEF ProbeBad, Unhealthy
<1>25. ASSUME NEW g \in Gens, NetChange(g) PROVE TypeOK'
  BY <1>25 DEF NetChange
<1>26. ASSUME NEW g \in Gens, NetHolds(g) PROVE TypeOK'
  BY <1>26 DEF NetHolds
<1>27. ASSUME NEW g \in Gens, NetBroken(g) PROVE TypeOK'
  BY <1>27 DEF NetBroken
<1>28. ASSUME NEW g \in Gens, FailoverStandsDown(g) PROVE TypeOK'
  BY <1>28 DEF FailoverStandsDown
<1>29. ASSUME NEW g \in Gens, FailoverRetry(g) PROVE TypeOK'
  BY <1>29 DEF FailoverRetry, Restart
<1>30. ASSUME NEW g \in Gens, FailoverHop(g) PROVE TypeOK'
  BY <1>30 DEF FailoverHop, Others
<1>31. ASSUME NEW g \in Gens, NetReconnect(g) PROVE TypeOK'
  BY <1>31 DEF NetReconnect, Restart
<1>32. CASE UNCHANGED vars  BY <1>32 DEF vars
<1> HIDE DEF TypeOK, FlowKnows, ConnStates, After, Awake, Bump, Usable, Best
<1> QED
  BY <1>1, <1>2, <1>3, <1>4, <1>5, <1>6, <1>7, <1>8, <1>9, <1>10, <1>11,
     <1>12, <1>13, <1>14, <1>15, <1>16, <1>17, <1>18, <1>19, <1>20, <1>21,
     <1>22, <1>23, <1>24, <1>25, <1>26, <1>27, <1>28, <1>29, <1>30, <1>31,
     <1>32
     DEF Next, UserStep, FlowStep, LoopStep, Locks

\* The owner of connMu and its step move together.
LEMMA KnowsStep ==
  ASSUME TypeOK, FlowKnows, [Next]_vars
  PROVE  FlowKnows'
<1> USE DEF TypeOK, FlowKnows
<1>1. ASSUME NEW w \in Servers \cup {AutoSelect}, Connect(w) PROVE FlowKnows'
  BY <1>1, ServersAssumption DEF Connect
<1>2. CASE FinishDisconnect  BY <1>2 DEF FinishDisconnect
<1>3. CASE Test  BY <1>3 DEF Test
<1>4. CASE PickMissing  BY <1>4 DEF PickMissing
<1>5. CASE Pick  BY <1>5 DEF Pick
<1>6. CASE StartCore  BY <1>6 DEF StartCore
<1>7. CASE VerifyTUN  BY <1>7 DEF VerifyTUN
<1>8. CASE VerifyRouting  BY <1>8 DEF VerifyRouting
<1>9. CASE Establish  BY <1>9 DEF Establish
<1>10. CASE BringUpFails  BY <1>10 DEF BringUpFails
<1>11. CASE StartMonitors  BY <1>11 DEF StartMonitors
<1>12. CASE Revive  BY <1>12 DEF Revive
<1>13. CASE SwitchInPlace  BY <1>13 DEF SwitchInPlace
<1>14. CASE SwitchRestart  BY <1>14 DEF SwitchRestart, Restart
<1>15. CASE SwitchProbed  BY <1>15 DEF SwitchProbed
<1>16. CASE Disconnect  BY <1>16 DEF Disconnect
<1>17. CASE DisconnectForced  BY <1>17 DEF DisconnectForced
<1>18. CASE CoreDies  BY <1>18 DEF CoreDies
<1>19. CASE CooldownOver  BY <1>19 DEF CooldownOver
<1>20. CASE Shutdown  BY <1>20 DEF Shutdown
<1>21. CASE Reboot  BY <1>21 DEF Reboot
<1>22. ASSUME NEW g \in Gens, HealthTick(g) PROVE FlowKnows'
  BY <1>22 DEF HealthTick, Unhealthy
<1>23. ASSUME NEW g \in Gens, ProbeOk(g) PROVE FlowKnows'
  BY <1>23 DEF ProbeOk
<1>24. ASSUME NEW g \in Gens, ProbeBad(g) PROVE FlowKnows'
  BY <1>24 DEF ProbeBad, Unhealthy
<1>25. ASSUME NEW g \in Gens, NetChange(g) PROVE FlowKnows'
  BY <1>25 DEF NetChange
<1>26. ASSUME NEW g \in Gens, NetHolds(g) PROVE FlowKnows'
  BY <1>26 DEF NetHolds
<1>27. ASSUME NEW g \in Gens, NetBroken(g) PROVE FlowKnows'
  BY <1>27 DEF NetBroken
<1>28. ASSUME NEW g \in Gens, FailoverStandsDown(g) PROVE FlowKnows'
  BY <1>28 DEF FailoverStandsDown
<1>29. ASSUME NEW g \in Gens, FailoverRetry(g) PROVE FlowKnows'
  BY <1>29 DEF FailoverRetry, Restart
<1>30. ASSUME NEW g \in Gens, FailoverHop(g) PROVE FlowKnows'
  <2>1. Best(Others) \subseteq Servers  BY DEF Best, Others, Usable
  <2> QED  BY <1>30, <2>1 DEF FailoverHop
<1>31. ASSUME NEW g \in Gens, NetReconnect(g) PROVE FlowKnows'
  BY <1>31 DEF NetReconnect, Restart
<1>32. CASE UNCHANGED vars  BY <1>32 DEF vars
<1> HIDE DEF TypeOK, FlowKnows
<1> QED
  BY <1>1, <1>2, <1>3, <1>4, <1>5, <1>6, <1>7, <1>8, <1>9, <1>10, <1>11,
     <1>12, <1>13, <1>14, <1>15, <1>16, <1>17, <1>18, <1>19, <1>20, <1>21,
     <1>22, <1>23, <1>24, <1>25, <1>26, <1>27, <1>28, <1>29, <1>30, <1>31,
     <1>32
     DEF Next, UserStep, FlowStep, LoopStep, Locks

\* The machine's transitions are the ones the step of the flow expects.
LEMMA FollowsStep ==
  ASSUME TypeOK, FlowKnows, MachineFollowsFlow, FlowHoldings, [Next]_vars
  PROVE  MachineFollowsFlow'
<1> USE DEF TypeOK, FlowKnows, MachineFollowsFlow, StatesAt, After, Allowed,
            Up, Underway
<1>1. ASSUME NEW w \in Servers \cup {AutoSelect}, Connect(w) PROVE MachineFollowsFlow'
  BY <1>1 DEF Connect
<1>2. CASE FinishDisconnect  BY <1>2 DEF FinishDisconnect
<1>3. CASE Test  BY <1>3 DEF Test
<1>4. CASE PickMissing  BY <1>4 DEF PickMissing
<1>5. CASE Pick  BY <1>5 DEF Pick
<1>6. CASE StartCore  BY <1>6 DEF StartCore
<1>7. CASE VerifyTUN  BY <1>7 DEF VerifyTUN
<1>8. CASE VerifyRouting  BY <1>8 DEF VerifyRouting
<1>9. CASE Establish  BY <1>9 DEF Establish
<1>10. CASE BringUpFails  BY <1>10 DEF BringUpFails
<1>11. CASE StartMonitors  BY <1>11 DEF StartMonitors
<1>12. CASE Revive  BY <1>12 DEF Revive
<1>13. CASE SwitchInPlace  BY <1>13 DEF SwitchInPlace
<1>14. CASE SwitchRestart  BY <1>14 DEF SwitchRestart, Restart
<1>15. CASE SwitchProbed  BY <1>15 DEF SwitchProbed
<1>16. CASE Disconnect  BY <1>16 DEF Disconnect
<1>17. CASE DisconnectForced  BY <1>17 DEF DisconnectForced
<1>18. CASE CoreDies  BY <1>18 DEF CoreDies
<1>19. CASE CooldownOver  BY <1>19 DEF CooldownOver
<1>20. CASE Shutdown  BY <1>20 DEF Shutdown
<1>21. CASE Reboot  BY <1>21 DEF Reboot
<1>22. ASSUME NEW g \in Gens, HealthTick(g) PROVE MachineFollowsFlow'
  BY <1>22 DEF HealthTick, Unhealthy
<1>23. ASSUME NEW g \in Gens, ProbeOk(g) PROVE MachineFollowsFlow'
  BY <1>23 DEF ProbeOk
<1>24. ASSUME NEW g \in Gens, ProbeBad(g) PROVE MachineFollowsFlow'
  BY <1>24 DEF ProbeBad, Unhealthy
<1>25. ASSUME NEW g \in Gens, NetChange(g) PROVE MachineFollowsFlow'
  BY <1>25 DEF NetChange
<1>26. ASSUME NEW g \in Gens, NetHolds(g) PROVE MachineFollowsFlow'
  BY <1>26 DEF NetHolds
<1>27. ASSUME NEW g \in Gens, NetBroken(g) PROVE MachineFollowsFlow'
  BY <1>27 DEF NetBroken
<1>28. ASSUME NEW g \in Gens, FailoverStandsDown(g) PROVE MachineFollowsFlow'
  BY <1>28 DEF FailoverStandsDown
<1>29. ASSUME NEW g \in Gens, FailoverRetry(g) PROVE MachineFollowsFlow'
  BY <1>29 DEF FailoverRetry, Restart
<1>30. ASSUME NEW g \in Gens, FailoverHop(g) PROVE MachineFollowsFlow'
  BY <1>30 DEF FailoverHop, Others
<1>31. ASSUME NEW g \in Gens, NetReconnect(g) PROVE MachineFollowsFlow'
  BY <1>31 DEF NetReconnect, Restart
<1>32. CASE UNCHANGED vars  BY <1>32 DEF vars
<1> HIDE DEF TypeOK, FlowKnows, MachineFollowsFlow, StatesAt, After, Allowed,
            Up, Underway
<1> QED
  BY <1>1, <1>2, <1>3, <1>4, <1>5, <1>6, <1>7, <1>8, <1>9, <1>10, <1>11,
     <1>12, <1>13, <1>14, <1>15, <1>16, <1>17, <1>18, <1>19, <1>20, <1>21,
     <1>22, <1>23, <1>24, <1>25, <1>26, <1>27, <1>28, <1>29, <1>30, <1>31,
     <1>32
     DEF Next, UserStep, FlowStep, LoopStep, Locks

\* Core and monitors come and go with the session.
LEMMA HoldingsStep ==
  ASSUME TypeOK, TypeOK', FlowKnows, MachineFollowsFlow, FlowHoldings, [Next]_vars
  PROVE  FlowHoldings'
<1> USE DEF TypeOK, FlowKnows, MachineFollowsFlow, FlowHoldings, StatesAt,
            After, Allowed, Up, Underway
<1>1. ASSUME NEW w \in Servers \cup {AutoSelect}, Connect(w) PROVE FlowHoldings'
  BY <1>1 DEF Connect
<1>2. CASE FinishDisconnect  BY <1>2 DEF FinishDisconnect
<1>3. CASE Test  BY <1>3 DEF Test
<1>4. CASE PickMissing  BY <1>4 DEF PickMissing
<1>5. CASE Pick  BY <1>5 DEF Pick
<1>6. CASE StartCore  BY <1>6 DEF StartCore
<1>7. CASE VerifyTUN  BY <1>7 DEF VerifyTUN
<1>8. CASE VerifyRouting  BY <1>8 DEF VerifyRouting
<1>9. CASE Establish  BY <1>9 DEF Establish
<1>10. CASE BringUpFails  BY <1>10 DEF BringUpFails
<1>11. CASE StartMonitors
  BY <1>11, GensAssumption DEF StartMonitors
<1>12. CASE Revive  BY <1>12 DEF Revive
<1>13. CASE SwitchInPlace  BY <1>13 DEF SwitchInPlace
<1>14. CASE SwitchRestart  BY <1>14 DEF SwitchRestart, Restart
<1>15. CASE SwitchProbed  BY <1>15 DEF SwitchProbed
<1>16. CASE Disconnect  BY <1>16 DEF Disconnect
<1>17. CASE DisconnectForced  BY <1>17 DEF DisconnectForced
<1>18. CASE CoreDies  BY <1>18 DEF CoreDies
<1>19. CASE CooldownOver  BY <1>19 DEF CooldownOver
<1>20. CASE Shutdown  BY <1>20 DEF Shutdown
<1>21. CASE Reboot  BY <1>21 DEF Reboot
<1>22. ASSUME NEW g \in Gens, HealthTick(g) PROVE FlowHoldings'
  BY <1>22 DEF HealthTick, Unhealthy
<1>23. ASSUME NEW g \in Gens, ProbeOk(g) PROVE FlowHoldings'
  BY <1>23 DEF ProbeOk
<1>24. ASSUME NEW g \in Gens, ProbeBad(g) PROVE FlowHoldings'
  BY <1>24 DEF ProbeBad, Unhealthy
<1>25. ASSUME NEW g \in Gens, NetChange(g) PROVE FlowHoldings'
  BY <1>25 DEF NetChange
<1>26. ASSUME NEW g \in Gens, NetHolds(g) PROVE FlowHoldings'
  BY <1>26 DEF NetHolds
<1>27. ASSUME NEW g \in Gens, NetBroken(g) PROVE FlowHoldings'
  BY <1>27 DEF NetBroken
<1>28. ASSUME NEW g \in Gens, FailoverStandsDown(g) PROVE FlowHoldings'
  BY <1>28 DEF FailoverStandsDown
<1>29. ASSUME NEW g \in Gens, FailoverRetry(g) PROVE FlowHoldings'
  BY <1>29 DEF FailoverRetry, Restart
<1>30. ASSUME NEW g \in Gens, FailoverHop(g) PROVE FlowHoldings'
  BY <1>30 DEF FailoverHop, Others
<1>31. ASSUME NEW g \in Gens, NetReconnect(g) PROVE FlowHoldings'
  BY <1>31 DEF NetReconnect, Restart
<1>32. CASE UNCHANGED vars  BY <1>32 DEF vars
<1> HIDE DEF TypeOK, FlowKnows, MachineFollowsFlow, FlowHoldings, StatesAt,
            After, Allowed, Up, Underway
<1> QED
  BY <1>1, <1>2, <1>3, <1>4, <1>5, <1>6, <1>7, <1>8, <1>9, <1>10, <1>11,
     <1>12, <1>13, <1>14, <1>15, <1>16, <1>17, <1>18, <1>19, <1>20, <1>21,
     <1>22, <1>23, <1>24, <1>25, <1>26, <1>27, <1>28, <1>29, <1>30, <1>31,
     <1>32
     DEF Next, UserStep, FlowStep, LoopStep, Locks

\* The inductive invariant holds of every behaviour.
LEMMA SpecLifecycleInv == Spec => []LifecycleInv
<1>1. Init => LifecycleInv
  <2> SUFFICES ASSUME Init PROVE LifecycleInv  OBVIOUS
  <2>1. TypeOK  BY DEF Init, TypeOK, ConnStates
  <2>2. FlowKnows  BY DEF Init, FlowKnows
  <2>3. MachineFollowsFlow  BY DEF Init, MachineFollowsFlow, StatesAt
  <2>4. FlowHoldings  BY DEF Init, FlowHoldings, Up
  <2> QED  BY <2>1, <2>2, <2>3, <2>4 DEF LifecycleInv
<1>2. LifecycleInv /\ [Next]_vars => LifecycleInv'
  BY TypeStep, KnowsStep, FollowsStep, HoldingsStep DEF LifecycleInv
<1> QED  BY <1>1, <1>2, PTL DEF Spec

\* Every variable keeps its type.
THEOREM SpecTypeOK == Spec => []TypeOK
<1>1. LifecycleInv => TypeOK  BY DEF LifecycleInv
<1> QED  BY SpecLifecycleInv, <1>1, PTL

\* The machine is always in a state the step of the running flow expects, whatever
\* stale probes, network changes and core deaths come in between.
THEOREM SpecMachineFollowsFlow == Spec => []MachineFollowsFlow
<1>1. LifecycleInv => MachineFollowsFlow  BY DEF LifecycleInv
<1> QED  BY SpecLifecycleInv, <1>1, PTL

\* With connMu free the daemon is live with a core and monitors, or has neither.
THEOREM SpecSettled == Spec => []Settled
<1>1. LifecycleInv => Settled
  BY DEF LifecycleInv, Settled, FlowKnows, FlowHoldings
<1> QED  BY SpecLifecycleInv, <1>1, PTL

\* The exception of FlowOwnsMachine, and what it says of a step.
OwnsStep ==
  phase = "running" /\ owner # "none" /\ at' = at /\ phase' = "running"
      => /\ state' = state \/ (at \in {"revive", "monitors"} /\ Up(state'))
         /\ core' = core \/ core' = "dead"

\* Nobody but the owner of connMu moves the machine or takes the core.
LEMMA OwnerStep ==
  ASSUME LifecycleInv, [Next]_vars
  PROVE  OwnsStep
<1> USE DEF LifecycleInv, TypeOK, FlowKnows, MachineFollowsFlow, FlowHoldings,
            StatesAt, OwnsStep, After, Allowed, Up, Underway
<1>1. ASSUME NEW w \in Servers \cup {AutoSelect}, Connect(w) PROVE OwnsStep
  BY <1>1 DEF Connect
<1>2. CASE FinishDisconnect  BY <1>2 DEF FinishDisconnect
<1>3. CASE Test  BY <1>3 DEF Test
<1>4. CASE PickMissing  BY <1>4 DEF PickMissing
<1>5. CASE Pick  BY <1>5 DEF Pick
<1>6. CASE StartCore  BY <1>6 DEF StartCore
<1>7. CASE VerifyTUN  BY <1>7 DEF VerifyTUN
<1>8. CASE VerifyRouting  BY <1>8 DEF VerifyRouting
<1>9. CASE Establish  BY <1>9 DEF Establish
<1>10. CASE BringUpFails  BY <1>10 DEF BringUpFails
<1>11. CASE StartMonitors  BY <1>11 DEF StartMonitors
<1>12. CASE Revive  BY <1>12 DEF Revive
<1>13. CASE SwitchInPlace  BY <1>13 DEF SwitchInPlace
<1>14. CASE SwitchRestart  BY <1>14 DEF SwitchRestart, Restart
<1>15. CASE SwitchProbed  BY <1>15 DEF SwitchProbed
<1>16. CASE Disconnect  BY <1>16 DEF Disconnect
<1>17. CASE DisconnectForced  BY <1>17 DEF DisconnectForced
<1>18. CASE CoreDies  BY <1>18 DEF CoreDies
<1>19. CASE CooldownOver  BY <1>19 DEF CooldownOver
<1>20. CASE Shutdown  BY <1>20 DEF Shutdown
<1>21. CASE Reboot  BY <1>21 DEF Reboot
<1>22. ASSUME NEW g \in Gens, HealthTick(g) PROVE OwnsStep
  BY <1>22 DEF HealthTick, Unhealthy
<1>23. ASSUME NEW g \in Gens, ProbeOk(g) PROVE OwnsStep
  BY <1>23 DEF ProbeOk
<1>24. ASSUME NEW g \in Gens, ProbeBad(g) PROVE OwnsStep
  BY <1>24 DEF ProbeBad, Unhealthy
<1>25. ASSUME NEW g \in Gens, NetChange(g) PROVE OwnsStep
  BY <1>25 DEF NetChange
<1>26. ASSUME NEW g \in Gens, NetHolds(g) PROVE OwnsStep
  BY <1>26 DEF NetHolds
<1>27. ASSUME NEW g \in Gens, NetBroken(g) PROVE OwnsStep
  BY <1>27 DEF NetBroken
<1>28. ASSUME NEW g \in Gens, FailoverStandsDown(g) PROVE OwnsStep
  BY <1>28 DEF FailoverStandsDown
<1>29. ASSUME NEW g \in Gens, FailoverRetry(g) PROVE OwnsStep
  BY <1>29 DEF FailoverRetry, Restart
<1>30. ASSUME NEW g \in Gens, FailoverHop(g) PROVE OwnsStep
  BY <1>30 DEF FailoverHop, Others
<1>31. ASSUME NEW g \in Gens, NetReconnect(g) PROVE OwnsStep
  BY <1>31 DEF NetReconnect, Restart
<1>32. CASE UNCHANGED vars  BY <1>32 DEF vars
<1> HIDE DEF LifecycleInv, TypeOK, FlowKnows, MachineFollowsFlow,
            FlowHoldings, StatesAt, OwnsStep, After, Allowed, Up, Underway
<1> QED
  BY <1>1, <1>2, <1>3, <1>4, <1>5, <1>6, <1>7, <1>8, <1>9, <1>10, <1>11,
     <1>12, <1>13, <1>14, <1>15, <1>16, <1>17, <1>18, <1>19, <1>20, <1>21,
     <1>22, <1>23, <1>24, <1>25, <1>26, <1>27, <1>28, <1>29, <1>30, <1>31,
     <1>32
     DEF Next, UserStep, FlowStep, LoopStep, Locks

\* While a flow holds connMu nobody else moves the machine or takes the core away.
THEOREM SpecFlowOwnsMachine == Spec => FlowOwnsMachine
<1>1. LifecycleInv /\ [Next]_vars => [OwnsStep]_vars
  BY OwnerStep
<1> QED  BY SpecLifecycleInv, <1>1, PTL DEF Spec, FlowOwnsMachine, OwnsStep

\* Every step of the daemon is one of the session, or none.
LEMMA SessionStep ==
  ASSUME LifecycleInv, LifecycleInv', [Next]_vars
  PROVE  [Session!Next]_(Session!svars)
<1> USE DEF LifecycleInv, TypeOK, FlowKnows, MachineFollowsFlow, FlowHoldings,
            StatesAt, After, Allowed, Up, Underway, SessionOf, Session!Next,
            Session!svars, Session!Begin, Session!Progress, Session!Succeed,
            Session!Fail, Session!Stop, Session!Stopping, Session!Rest
<1>1. ASSUME NEW w \in Servers \cup {AutoSelect}, Connect(w) PROVE [Session!Next]_(Session!svars)
  BY <1>1 DEF Connect
<1>2. CASE FinishDisconnect  BY <1>2 DEF FinishDisconnect
<1>3. CASE Test  BY <1>3 DEF Test
<1>4. CASE PickMissing  BY <1>4 DEF PickMissing
<1>5. CASE Pick  BY <1>5 DEF Pick
<1>6. CASE StartCore  BY <1>6 DEF StartCore
<1>7. CASE VerifyTUN  BY <1>7 DEF VerifyTUN
<1>8. CASE VerifyRouting  BY <1>8 DEF VerifyRouting
<1>9. CASE Establish  BY <1>9 DEF Establish
<1>10. CASE BringUpFails  BY <1>10 DEF BringUpFails
<1>11. CASE StartMonitors  BY <1>11 DEF StartMonitors
<1>12. CASE Revive  BY <1>12 DEF Revive
<1>13. CASE SwitchInPlace  BY <1>13 DEF SwitchInPlace
<1>14. CASE SwitchRestart  BY <1>14 DEF SwitchRestart, Restart
<1>15. CASE SwitchProbed  BY <1>15 DEF SwitchProbed
<1>16. CASE Disconnect  BY <1>16 DEF Disconnect
<1>17. CASE DisconnectForced  BY <1>17 DEF DisconnectForced
<1>18. CASE CoreDies  BY <1>18 DEF CoreDies
<1>19. CASE CooldownOver  BY <1>19 DEF CooldownOver
<1>20. CASE Shutdown  BY <1>20 DEF Shutdown
<1>21. CASE Reboot  BY <1>21 DEF Reboot
<1>22. ASSUME NEW g \in Gens, HealthTick(g) PROVE [Session!Next]_(Session!svars)
  BY <1>22 DEF HealthTick, Unhealthy
<1>23. ASSUME NEW g \in Gens, ProbeOk(g) PROVE [Session!Next]_(Session!svars)
  BY <1>23 DEF ProbeOk
<1>24. ASSUME NEW g \in Gens, ProbeBad(g) PROVE [Session!Next]_(Session!svars)
  BY <1>24 DEF ProbeBad, Unhealthy
<1>25. ASSUME NEW g \in Gens, NetChange(g) PROVE [Session!Next]_(Session!svars)
  BY <1>25 DEF NetChange
<1>26. ASSUME NEW g \in Gens, NetHolds(g) PROVE [Session!Next]_(Session!svars)
  BY <1>26 DEF NetHolds
<1>27. ASSUME NEW g \in Gens, NetBroken(g) PROVE [Session!Next]_(Session!svars)
  BY <1>27 DEF NetBroken
<1>28. ASSUME NEW g \in Gens, FailoverStandsDown(g) PROVE [Session!Next]_(Session!svars)
  BY <1>28 DEF FailoverStandsDown
<1>29. ASSUME NEW g \in Gens, FailoverRetry(g) PROVE [Session!Next]_(Session!svars)
  BY <1>29 DEF FailoverRetry, Restart
<1>30. ASSUME NEW g \in Gens, FailoverHop(g) PROVE [Session!Next]_(Session!svars)
  BY <1>30 DEF FailoverHop, Others
<1>31. ASSUME NEW g \in Gens, NetReconnect(g) PROVE [Session!Next]_(Session!svars)
  BY <1>31 DEF NetReconnect, Restart
<1>32. CASE UNCHANGED vars  BY <1>32 DEF vars
<1> HIDE DEF LifecycleInv, TypeOK, FlowKnows, MachineFollowsFlow,
            FlowHoldings, StatesAt, After, Allowed, Up, Underway, SessionOf,
            Session!Next, Session!svars, Session!Begin, Session!Progress,
            Session!Succeed, Session!Fail, Session!Stop, Session!Stopping,
            Session!Rest
<1> QED
  BY <1>1, <1>2, <1>3, <1>4, <1>5, <1>6, <1>7, <1>8, <1>9, <1>10, <1>11,
     <1>12, <1>13, <1>14, <1>15, <1>16, <1>17, <1>18, <1>19, <1>20, <1>21,
     <1>22, <1>23, <1>24, <1>25, <1>26, <1>27, <1>28, <1>29, <1>30, <1>31,
     <1>32
     DEF Next, UserStep, FlowStep, LoopStep, Locks

\* Traffic flows only while a core is held, and nothing is held once the session is
\* off or has failed: the daemon implements the abstract session.
THEOREM SpecSession == Spec => SessionSpec
<1>1. Init => Session!Init
  BY DEF Init, Session!Init, Session!Off, SessionOf, Up
<1>2. LifecycleInv /\ LifecycleInv' /\ [Next]_vars
        => [Session!Next]_(Session!svars)
  BY SessionStep
<1> QED  BY <1>1, <1>2, SpecLifecycleInv, PTL DEF Spec, SessionSpec, Session!Spec
=============================================================================
