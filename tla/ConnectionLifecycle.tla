------------------------ MODULE ConnectionLifecycle ------------------------
(***************************************************************************)
(* The session logic of the daemon (backend/cmd/connectived/main.go):      *)
(* Connect, Disconnect, the health loop and its failover, the network      *)
(* watcher, the shared reconnect path and the shutdown in run().           *)
(*                                                                         *)
(* connMu is the variable owner: the flow that holds it runs one step at a *)
(* time, and the step it is about to take is at.  The goroutines that do   *)
(* not hold it (one health loop and one watcher per monitor generation)    *)
(* look at the machine without it, wait on probes, and then act, which is  *)
(* where a stale answer meets a newer session.                             *)
(*                                                                         *)
(* The kernel state a session leaves behind (core process, TUN device,     *)
(* kill switch) and its marker file are the subject of SystemState.        *)
(***************************************************************************)
EXTENDS ConnectionMachine, Naturals

CONSTANTS
  Servers,     \* the ids in serverList; the catalog does not change here
  Gens,        \* identities of monitor generations (*monSet), reused once free
  AutoSelect,  \* the "auto" selection of a connect request
  None         \* no server, no generation

ASSUME ServersAssumption ==
  Servers # {} /\ AutoSelect \notin Servers /\ None \notin Servers \cup {AutoSelect}
ASSUME GensAssumption == Gens # {} /\ None \notin Gens

VARIABLES
  phase,     \* "running", or "stopping" once run() has seen a signal
  state,     \* machine.state
  active,    \* machine.serverID
  bad,       \* servers whose Health is HealthUnhealthy
  core,      \* coreMgr: "nil", "up", or "dead" (set, but its process exited)
  mons,      \* d.mons
  failCount, \* consecutive failed probes, as far as the code tells them apart
  flapCount, \* consecutive failovers, as far as the code tells them apart
  lastRecovery, \* "recent" for 90s, then "old"
  owner,     \* who holds connMu
  at,        \* the next step of the owner's flow
  want,      \* the server the flow was asked for, or AutoSelect
  targets,   \* the candidate set of the flow
  tick,      \* the health goroutine of each generation
  watch      \* the watcher callback of each generation

vars == <<phase, state, active, bad, core, mons, failCount, flapCount, lastRecovery,
          owner, at, want, targets, tick, watch>>

counters == <<failCount, flapCount>>
loops    == <<tick, watch>>
flow     == <<owner, at, want, targets>>

\* Both counters are only compared with 2, so they are kept up to 2.
Limit == 2
Bump(n) == IF n < Limit THEN n + 1 ELSE Limit

Owners == {"none", "user", "health", "watch"}
Steps  == {"idle", "test", "pick", "core", "tun", "routing", "enforce",
           "monitors", "revive", "switch", "verify", "down"}
TickPC  == {"idle", "probing", "failover", "recovering"}
WatchPC == {"idle", "probing", "cooled", "waiting", "recovering"}

TypeOK ==
  /\ phase \in {"running", "stopping"}
  /\ state \in ConnStates
  /\ active \in Servers \cup {None}
  /\ bad \subseteq Servers
  /\ core \in {"nil", "up", "dead"}
  /\ mons \in Gens \cup {None}
  /\ failCount \in 0..Limit /\ flapCount \in 0..Limit
  /\ lastRecovery \in {"recent", "old"}
  /\ owner \in Owners
  /\ at \in Steps
  /\ want \in Servers \cup {AutoSelect, None}
  /\ targets \subseteq Servers
  /\ tick \in [Gens -> TickPC]
  /\ watch \in [Gens -> WatchPC]

\* NewMachine and an empty Daemon; the health records are what loadState read.
Init ==
  /\ phase = "running" /\ state = "disconnected" /\ active = None
  /\ bad \in SUBSET Servers
  /\ core = "nil" /\ mons = None
  /\ failCount = 0 /\ flapCount = 0 /\ lastRecovery = "old"
  /\ owner = "none" /\ at = "idle" /\ want = None /\ targets = {}
  /\ tick = [g \in Gens |-> "idle"] /\ watch = [g \in Gens |-> "idle"]

----------------------------------------------------------------------------
\* Helpers

\* usableServers: the servers not known bad, or all when none is left.
Usable(list, b) == IF list \ b # {} THEN list \ b ELSE list

\* selector.Select over a nonempty list: any server its ranking may put
\* first (scores are abstracted; Rank drops known-bad servers while it can).
Best(list) == Usable(list, bad)

\* The bound on generations: a flow that will start monitors needs an identity
\* none of whose goroutines is still busy, its own (g) excepted.
Idle(g) == tick[g] = "idle" /\ watch[g] = "idle"
Spare(g) == \E h \in Gens \ {mons} :
              Idle(h) \/ (h = g /\ (tick[h] = "idle" \/ watch[h] = "idle"))

Take(who, step, server, list) ==
  /\ owner' = who /\ at' = step /\ want' = server /\ targets' = list

Awake(pc) == IF pc = "recovering" THEN "idle" ELSE pc

\* The flow returns: connMu is released and its goroutine goes back to idle.
Release ==
  /\ owner' = "none" /\ at' = "idle" /\ want' = None /\ targets' = {}
  /\ tick' = [g \in Gens |-> Awake(tick[g])]
  /\ watch' = [g \in Gens |-> Awake(watch[g])]

----------------------------------------------------------------------------
\* User requests (IPC handlers; each runs on a goroutine of its own)

\* Connect and connectLocked up to the first test.  Without servers, or next
\* to a foreign tunnel, the request is refused.
Connect(w) ==
  /\ owner = "none"
  /\ state \in {"disconnected", "error"}
  /\ Spare(None)
  /\ lastRecovery' = "recent"
  /\ \/ /\ state' = After(state, "error")
        /\ UNCHANGED <<flow, loops>>
     \/ /\ state' = After(state, "selecting")
        /\ Take("user", "test", w, Usable(Servers, bad))
        /\ UNCHANGED loops
  /\ UNCHANGED <<phase, active, bad, core, mons, counters>>

\* disconnect from Error or a wedged transient: cleanup and a forced reset.
DisconnectForced ==
  /\ owner = "none"
  /\ state = "error" \/ Underway(state)
  /\ mons' = None /\ core' = "nil" /\ state' = "disconnected"
  /\ UNCHANGED <<phase, active, bad, counters, lastRecovery, flow, loops>>

\* disconnect from a live session: Disconnecting, then the monitors go.
Disconnect ==
  /\ owner = "none"
  /\ Up(state)
  /\ state' = After(state, "disconnecting")
  /\ mons' = None
  /\ Take("user", "down", None, {})
  /\ UNCHANGED <<phase, active, bad, core, counters, lastRecovery, loops>>

\* Mutations of FinishDisconnect: the machine stays Disconnecting; it waits for
\* a core it cannot signal; it forgets the core.
StaysDisconnecting ==
  /\ at = "down"
  /\ core' = "nil"
  /\ Release
  /\ UNCHANGED <<phase, state, active, bad, mons, counters, lastRecovery>>

WaitsForCore ==
  /\ at = "down" /\ core # "up"
  /\ core' = "nil"
  /\ state' = After(state, "disconnected")
  /\ Release
  /\ UNCHANGED <<phase, active, bad, mons, counters, lastRecovery>>

ForgetsCore ==
  /\ at = "down"
  /\ state' = After(state, "disconnected")
  /\ Release
  /\ UNCHANGED <<phase, active, bad, core, mons, counters, lastRecovery>>

\* The rest of it: the core is stopped and the machine rests.
FinishDisconnect ==
  /\ at = "down"
  /\ core' = "nil"
  /\ state' = After(state, "disconnected")
  /\ Release
  /\ UNCHANGED <<phase, active, bad, mons, counters, lastRecovery>>

----------------------------------------------------------------------------
\* The shared connect path: quickTest, select, bringUp, startMonitors

\* quickTest over the candidates.  A first connect then selects among the
\* requested server, or among what is usable now; a reconnect keeps the set
\* it tested.
Test ==
  /\ at = "test"
  /\ \E down \in SUBSET targets :
       /\ bad' = (bad \ targets) \cup down
       /\ targets' = IF owner # "user" THEN targets
                     ELSE IF want = AutoSelect THEN Usable(Servers, bad')
                     ELSE {want}
  /\ at' = "pick"
  /\ UNCHANGED <<phase, state, active, core, mons, counters, lastRecovery, owner,
                 want, loops>>

\* A requested server that is no longer in the catalog.
PickMissing ==
  /\ at = "pick" /\ owner = "user" /\ want # AutoSelect
  /\ state' = After(state, "error")
  /\ Release
  /\ UNCHANGED <<phase, active, bad, core, mons, counters, lastRecovery>>

\* Select a server; the config is rendered and written, or that fails.
Pick ==
  /\ at = "pick"
  /\ active' \in Best(targets)
  /\ \/ /\ state' = After(After(state, "connecting"), "starting-core")
        /\ at' = "core"
        /\ UNCHANGED <<owner, want, targets, loops>>
     \/ /\ state' = After(After(state, "connecting"), "error")
        /\ Release
  /\ UNCHANGED <<phase, bad, core, mons, counters, lastRecovery>>

\* bringUp: startCore, up to the readiness of the core.
StartCore ==
  /\ at = "core"
  /\ \/ /\ core' = "up"
        /\ state' = After(state, "initializing-tun")
        /\ at' = "tun"
        /\ UNCHANGED <<owner, want, targets, loops>>
     \/ /\ state' = After(state, "error")
        /\ Release
        /\ UNCHANGED core
  /\ UNCHANGED <<phase, active, bad, mons, counters, lastRecovery>>

\* bringUp: the TUN device shows up, the routes point at it.
VerifyTUN ==
  /\ at = "tun"
  /\ state' = After(state, "applying-routing")
  /\ at' = "routing"
  /\ UNCHANGED <<phase, active, bad, core, mons, counters, lastRecovery, owner,
                 want, targets, loops>>

VerifyRouting ==
  /\ at = "routing"
  /\ at' = "enforce"
  /\ UNCHANGED <<phase, state, active, bad, core, mons, counters, lastRecovery,
                 owner, want, targets, loops>>

\* bringUp: the kill switch is on (or not asked for); the session is up.
Establish ==
  /\ at = "enforce"
  /\ state' = After(state, "connected")
  /\ failCount' = 0 /\ flapCount' = 0
  /\ at' = "monitors"
  /\ UNCHANGED <<phase, active, bad, core, mons, lastRecovery, owner, want,
                 targets, loops>>

\* Mutation of BringUpFails: the core is left running.
FailsWithCore ==
  /\ at \in {"tun", "routing", "enforce"}
  /\ state' = After(state, "error")
  /\ Release
  /\ UNCHANGED <<phase, active, bad, core, mons, counters, lastRecovery>>

\* bringUp: one of the three checks fails, so the core is stopped again.
BringUpFails ==
  /\ at \in {"tun", "routing", "enforce"}
  /\ core' = "nil"
  /\ state' = After(state, "error")
  /\ Release
  /\ UNCHANGED <<phase, active, bad, mons, counters, lastRecovery>>

\* startMonitors: a new generation of loops, and the flow returns.
StartMonitors ==
  /\ at = "monitors"
  /\ \E g \in Gens : /\ Awake(tick[g]) = "idle" /\ Awake(watch[g]) = "idle"
                    /\ mons' = g
  /\ Release
  /\ UNCHANGED <<phase, state, active, bad, core, counters, lastRecovery>>

----------------------------------------------------------------------------
\* The health loop: checkHealth and failover

\* Mutation of Unhealthy: give up on the session at once, connMu or not.
GivesUpAtOnce(g) ==
  /\ failCount' = Bump(failCount)
  /\ state' = After(state, "error")
  /\ tick' = [tick EXCEPT ![g] = "idle"]
  /\ UNCHANGED <<phase, active, bad, core, mons, flapCount, lastRecovery, flow, watch>>

\* A failed check: count it, degrade, and on the second one give the current
\* server up and queue for connMu.
Unhealthy(g) ==
  /\ failCount' = Bump(failCount)
  /\ state' = IF state = "connected" THEN After(state, "degraded") ELSE state
  /\ IF failCount' = Limit
     THEN /\ bad' = bad \cup ({active} \cap Servers)
          /\ tick' = [tick EXCEPT ![g] = "failover"]
     ELSE /\ tick' = [tick EXCEPT ![g] = "idle"]
          /\ UNCHANGED bad
  /\ UNCHANGED <<phase, active, core, mons, flapCount, lastRecovery, flow, watch>>

\* Mutation of HealthTick: the core process is not looked at.
OnlyProbes(g) ==
  /\ tick[g] = "idle" /\ mons = g /\ Up(state)
  /\ tick' = [tick EXCEPT ![g] = "probing"]
  /\ UNCHANGED <<phase, state, active, bad, core, mons, counters, lastRecovery, flow,
                 watch>>

\* A tick of the current generation: an absent or exited core is unhealthy at
\* once, otherwise the probe starts.
HealthTick(g) ==
  /\ tick[g] = "idle" /\ mons = g /\ Up(state)
  /\ \/ core # "up" /\ Unhealthy(g)
     \/ /\ core = "up"
        /\ tick' = [tick EXCEPT ![g] = "probing"]
        /\ UNCHANGED <<phase, state, active, bad, core, mons, counters,
                       lastRecovery, flow, watch>>

\* The probe answers, up to 25s later and whatever happened meanwhile.
ProbeOk(g) ==
  /\ tick[g] = "probing"
  /\ failCount' = 0 /\ flapCount' = 0
  /\ state' = IF state = "degraded" THEN After(state, "connected") ELSE state
  /\ tick' = [tick EXCEPT ![g] = "idle"]
  /\ UNCHANGED <<phase, active, bad, core, mons, lastRecovery, flow, watch>>

ProbeBad(g) == tick[g] = "probing" /\ Unhealthy(g)

\* stopMonitors, stopCore, and the connect path again (reconnectLocked).
Restart(who, server) ==
  /\ mons' = None /\ core' = "nil"
  /\ Take(who, "test", server, Usable(Servers, bad))

\* failover's candidates.
Others == Usable(Servers, bad) \ {active}

\* connMu is free at last, but there is no live session any more.
FailoverStandsDown(g) ==
  /\ tick[g] = "failover" /\ owner = "none"
  /\ ~Up(state)
  /\ failCount' = 0
  /\ tick' = [tick EXCEPT ![g] = "idle"]
  /\ UNCHANGED <<phase, state, active, bad, core, mons, flapCount, lastRecovery,
                 flow, watch>>

\* No alternative: restart on the current server, or hold after two rounds.
FailoverRetry(g) ==
  /\ tick[g] = "failover" /\ owner = "none"
  /\ Up(state) /\ Others = {}
  /\ lastRecovery' = "recent" /\ failCount' = 0
  /\ \/ /\ flapCount = Limit
        /\ tick' = [tick EXCEPT ![g] = "idle"]
        /\ UNCHANGED <<state, core, mons, flapCount, flow>>
     \/ /\ flapCount < Limit /\ Spare(g)
        /\ flapCount' = Bump(flapCount)
        /\ state' = After(state, "reconnecting")
        /\ Restart("health", active)
        /\ tick' = [tick EXCEPT ![g] = "recovering"]
  /\ UNCHANGED <<phase, active, bad, watch>>

\* An alternative: switch to it, or re-test everything after two hops.
FailoverHop(g) ==
  /\ tick[g] = "failover" /\ owner = "none"
  /\ Up(state) /\ Spare(g)
  /\ lastRecovery' = "recent"
  /\ \E s \in Best(Others) :
       \/ /\ flapCount = Limit
          /\ Take("health", "revive", s, {})
          /\ UNCHANGED <<state, flapCount>>
       \/ /\ flapCount < Limit
          /\ flapCount' = Bump(flapCount)
          /\ state' = After(state, "switching-server")
          /\ Take("health", "switch", s, {})
  /\ tick' = [tick EXCEPT ![g] = "recovering"]
  /\ UNCHANGED <<phase, active, bad, core, mons, failCount, watch>>

\* reviveCheck: every server is tested again; any answer resumes switching.
Revive ==
  /\ at = "revive"
  /\ \E down \in SUBSET Servers :
       /\ bad' = down
       /\ \/ /\ down # Servers
             /\ flapCount' = 1
             /\ state' = After(state, "switching-server")
             /\ at' = "switch"
             /\ UNCHANGED <<owner, want, targets, failCount, loops>>
          \/ /\ down = Servers
             /\ failCount' = 0
             /\ Release
             /\ UNCHANGED <<state, flapCount>>
  /\ UNCHANGED <<phase, active, core, mons, lastRecovery>>

\* The clash API of a running core accepts the new outbound.
SwitchInPlace ==
  /\ at = "switch" /\ core = "up"
  /\ active' = want /\ failCount' = 0
  /\ at' = "verify"
  /\ UNCHANGED <<phase, state, bad, core, mons, flapCount, lastRecovery, owner,
                 want, targets, loops>>

\* It does not: the core is restarted on the new server.
SwitchRestart ==
  /\ at = "switch"
  /\ active' = want
  /\ state' = After(state, "reconnecting")
  /\ Restart("health", want)
  /\ UNCHANGED <<phase, bad, counters, lastRecovery, loops>>

\* The probe of the new path decides what failover reports.
SwitchProbed ==
  /\ at = "verify"
  /\ \/ /\ flapCount' = 0 /\ UNCHANGED failCount
        /\ state' = After(state, "connected")
     \/ /\ failCount' = 1 /\ UNCHANGED flapCount
        /\ state' = After(state, "degraded")
  /\ Release
  /\ UNCHANGED <<phase, active, bad, core, mons, lastRecovery>>

----------------------------------------------------------------------------
\* The network watcher: onNetworkChange

NetChange(g) ==
  /\ watch[g] = "idle" /\ mons = g /\ Up(state)
  /\ watch' = [watch EXCEPT ![g] = IF lastRecovery = "recent"
                                         THEN "cooled" ELSE "probing"]
  /\ UNCHANGED <<phase, state, active, bad, core, mons, counters, lastRecovery,
                 flow, tick>>

\* One of the two probes is fine, or both failed inside the cooldown.
NetHolds(g) ==
  /\ watch[g] \in {"probing", "cooled"}
  /\ watch' = [watch EXCEPT ![g] = "idle"]
  /\ UNCHANGED <<phase, state, active, bad, core, mons, counters, lastRecovery,
                 flow, tick>>

\* Both failed: queue for connMu.
NetBroken(g) ==
  /\ watch[g] = "probing"
  /\ lastRecovery' = "recent"
  /\ watch' = [watch EXCEPT ![g] = "waiting"]
  /\ UNCHANGED <<phase, state, active, bad, core, mons, counters, flow, tick>>

\* connMu is free: reconnect, whatever the machine says now.
NetReconnect(g) ==
  /\ watch[g] = "waiting" /\ owner = "none"
  /\ Spare(g)
  /\ state' = After(state, "reconnecting")
  /\ Restart("watch", active)
  /\ watch' = [watch EXCEPT ![g] = "recovering"]
  /\ UNCHANGED <<phase, active, bad, counters, lastRecovery, tick>>

----------------------------------------------------------------------------
\* The environment, the shutdown and the crash

CoreDies ==
  /\ core = "up" /\ core' = "dead"
  /\ UNCHANGED <<phase, state, active, bad, mons, counters, lastRecovery, flow,
                 loops>>

CooldownOver ==
  /\ lastRecovery = "recent" /\ lastRecovery' = "old"
  /\ UNCHANGED <<phase, state, active, bad, core, mons, counters, flow, loops>>

\* run() on a signal: disconnect("shutdown"), without connMu.
Shutdown ==
  /\ phase = "running" /\ Up(state)
  /\ phase' = "stopping"
  /\ state' = After(state, "disconnecting")
  /\ mons' = None
  /\ UNCHANGED <<active, bad, core, counters, lastRecovery, flow, loops>>

\* The process ends, after a shutdown or at any point, and a new one starts.
\* The core dies with its supervisor.
Reboot ==
  /\ phase' = "running" /\ state' = "disconnected" /\ active' = None
  /\ core' = "nil" /\ mons' = None
  /\ failCount' = 0 /\ flapCount' = 0 /\ lastRecovery' = "old"
  /\ owner' = "none" /\ at' = "idle" /\ want' = None /\ targets' = {}
  /\ tick' = [g \in Gens |-> "idle"] /\ watch' = [g \in Gens |-> "idle"]
  /\ UNCHANGED bad

FlowStep == \/ FinishDisconnect \/ Test \/ PickMissing \/ Pick \/ StartCore
            \/ VerifyTUN \/ VerifyRouting \/ Establish \/ BringUpFails
            \/ StartMonitors \/ Revive \/ SwitchInPlace \/ SwitchRestart
            \/ SwitchProbed

\* A goroutine that waited for connMu gets it.
Locks(g) == \/ FailoverStandsDown(g) \/ FailoverRetry(g) \/ FailoverHop(g)
            \/ NetReconnect(g)

LoopStep(g) == \/ HealthTick(g) \/ ProbeOk(g) \/ ProbeBad(g)
               \/ NetChange(g) \/ NetHolds(g) \/ NetBroken(g)
               \/ Locks(g)

UserStep == \/ \E w \in Servers \cup {AutoSelect} : Connect(w)
            \/ Disconnect \/ DisconnectForced

Next == \/ UserStep
        \/ FlowStep
        \/ \E g \in Gens : LoopStep(g)
        \/ CoreDies \/ CooldownOver \/ Shutdown \/ Reboot

\* Every wait of a flow is bounded (probes, readiness, helper calls), so its
\* steps are fair; the ticker of a live generation keeps firing, a probe always
\* answers, and a goroutine queued on connMu gets it (Go mutexes hand over to a
\* waiter that starves), which takes strong fairness.
Fairness ==
  /\ WF_vars(FlowStep)
  /\ \A g \in Gens : /\ WF_vars(HealthTick(g))
                     /\ WF_vars(ProbeOk(g) \/ ProbeBad(g))
                     /\ WF_vars(NetHolds(g) \/ NetBroken(g))
                     /\ SF_vars(Locks(g))

Spec     == Init /\ [][Next]_vars
FairSpec == Spec /\ Fairness

----------------------------------------------------------------------------
\* Properties

\* The machine states in which each step of a flow may find the machine while
\* the daemon is not shutting down.  bringUp's comment asks its callers for
\* "the machine in connecting state"; a network-change recovery that finds
\* the session gone starts from "disconnected", because the edge it asked
\* for was refused.
StatesAt(step) ==
  CASE step = "idle"     -> {"disconnected", "error", "connected", "degraded"}
    [] step \in {"test", "pick"} -> {"selecting", "reconnecting",
                                     "switching-server", "disconnected"}
    [] step = "core"     -> {"starting-core"}
    [] step = "tun"      -> {"initializing-tun"}
    [] step \in {"routing", "enforce"} -> {"applying-routing"}
    [] step \in {"monitors", "revive"} -> {"connected", "degraded"}
    [] step \in {"switch", "verify"}   -> {"switching-server"}
    [] step = "down"     -> {"disconnecting"}

\* No interleaving of users, stale ticks and network changes takes the machine
\* out of step with the flow that holds connMu: its transitions are all legal
\* and it is never left in a transient state with nobody driving it
\* ("wedges the state machine", recoveryUnderway's comment).
MachineFollowsFlow == phase = "running" => state \in StatesAt(at)

\* Whenever connMu is free, the daemon is either live, with a core manager and
\* a current generation of monitors, or at rest with neither.
Settled ==
  phase = "running" /\ owner = "none" =>
    /\ Up(state) <=> core # "nil"
    /\ Up(state) <=> mons # None

\* While a flow is under way nobody else moves the machine or takes the core
\* away ("double recovery kills the new core out from under the first
\* flow").  The exceptions are the two steps at which the session is still,
\* or already, reported connected: a late probe may grade it.
FlowOwnsMachine ==
  [][ phase = "running" /\ owner # "none" /\ at' = at /\ phase' = "running"
      => /\ state' = state \/ (at \in {"revive", "monitors"} /\ Up(state'))
         /\ core' = core \/ core' = "dead" ]_vars

AtRest == state \in {"disconnected", "error"}

\* Only the user's connect takes the daemon out of rest: a recovery that waited
\* for connMu finds the session disconnected or failed, and stands down.
RecoveryStandsDown ==
  [][ AtRest /\ ~(AtRest') => "user" \in {owner, owner'} ]_vars

\* connMu is always given back: connect, disconnect and every recovery end.
FlowEnds == owner # "none" ~> owner = "none"

\* A session whose core process has died does not stay reported healthy.
DeadCoreNoticed == core = "dead" /\ state = "connected" ~> state # "connected"

\* The daemon implements the abstract session.
SessionOf ==
  IF phase = "stopping" \/ state = "disconnecting" THEN "stopping"
  ELSE IF Up(state) THEN "on"
  ELSE IF state = "disconnected" THEN "off"
  ELSE IF state = "error" THEN "failed"
  ELSE "starting"

Session == INSTANCE ConnectionSession
             WITH session <- SessionOf, held <- core # "nil"
SessionSpec == Session!Spec
=============================================================================
