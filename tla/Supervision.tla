---------------------------- MODULE Supervision ----------------------------
(***************************************************************************)
(* The goroutines that look after a session: the supervisor of its core    *)
(* process (core.Manager of internal/core) and the watcher of the host's   *)
(* network (monitor.Watcher), as the daemon starts, stops and replaces     *)
(* them.  A session attempt makes one Manager and, once it is up, one      *)
(* generation of monitors; its number names both.                          *)
(*                                                                         *)
(* ConnectionLifecycle decides when a session begins and ends.  Here one   *)
(* flow at a time (the holder of connMu) goes through Start and Stop with  *)
(* their signals and time limits, beside the wait goroutine of every       *)
(* process, processes that die or do not, and watchers, whose callback     *)
(* runs a flow that stops the very watcher it was called by.               *)
(*                                                                         *)
(* The names of the specification itself carry a prefix, as its proofs     *)
(* stand beside those of SystemState, which shares the core process.       *)
(***************************************************************************)
EXTENDS Naturals, Sequences

CONSTANTS
  MaxSessions,  \* bound: session attempts in a behaviour
  Confirm,      \* Watcher.Confirm, 2 in startMonitors
  Nets,         \* network fingerprints
  NoNet         \* "": the baseline when the first snapshot fails

ASSUME SessionsAssumption == MaxSessions \in Nat
ASSUME WatcherAssumption  == Confirm \in Nat \ {0} /\ NoNet \notin Nets

Sessions == 1..MaxSessions
Nobody   == 0
User     == MaxSessions + 1

VARIABLES
  holder,  \* of connMu: Nobody, User, or the watcher whose callback has it
  at,      \* the next step of the holder's flow
  goal,    \* what follows a stopCore: "down" a disconnect, "up" a reconnect
  cur,     \* d.coreMgr, 0 for nil
  last,    \* session attempts so far
  proc,    \* process of each session: "none", "live", "root" (live, and out of
           \* reach of the daemon's signals), "doomed" (a signal it obeys is
           \* on its way), "gone"
  status,  \* Manager.status
  done,    \* Manager.done, which holds one exit; "none" before it is made and
           \* once nobody will receive from it
  waiter,  \* the goroutine that waits for the process
  mons,    \* d.mons, 0 for nil
  watch,   \* the watcher's goroutine of each generation
  recent,  \* history: the latest polls in a row that agreed, at most Confirm
  net      \* the network as it is

cores    == <<proc, status, done, waiter>>
watchers == <<watch, recent>>
lock     == <<holder, at, goal>>
supVars  == <<lock, cur, last, cores, mons, watchers, net>>

FlowSteps == {"idle", "start", "poll", "killed", "verify", "stop", "grace",
          "forced", "clear", "helper"}
Idle  == [at |-> "none", base |-> NoNet, pending |-> NoNet, rounds |-> 0]
Watch == [at : {"none", "base", "poll", "call", "held", "ended"},
          base : Nets \cup {NoNet}, pending : Nets \cup {NoNet}, rounds : Nat]

SupTypeOK ==
  /\ holder \in {Nobody, User} \cup Sessions
  /\ at \in FlowSteps /\ goal \in {"up", "down"}
  /\ cur \in 0..MaxSessions /\ last \in 0..MaxSessions /\ mons \in 0..MaxSessions
  /\ proc \in [Sessions -> {"none", "live", "root", "doomed", "gone"}]
  /\ status \in [Sessions -> {"stopped", "running", "failed"}]
  /\ done \in [Sessions -> {"none", "empty", "full"}]
  /\ waiter \in [Sessions -> {"none", "waits", "marks", "ended"}]
  /\ watch \in [Sessions -> Watch]
  /\ recent \in [Sessions -> Seq(Nets)]
  /\ net \in Nets

SupInit ==
  /\ holder = Nobody /\ at = "idle" /\ goal = "down"
  /\ cur = 0 /\ last = 0 /\ mons = 0
  /\ proc   = [s \in Sessions |-> "none"]
  /\ status = [s \in Sessions |-> "stopped"]
  /\ done   = [s \in Sessions |-> "none"]
  /\ waiter = [s \in Sessions |-> "none"]
  /\ watch  = [s \in Sessions |-> Idle]
  /\ recent = [s \in Sessions |-> <<>>]
  /\ net \in Nets

----------------------------------------------------------------------------
\* Signals and the lock

\* SIGKILL, and the end of the command's context: only root is out of reach.
Killed(s) == [proc EXCEPT ![s] = IF @ = "live" THEN "doomed" ELSE @]
\* SIGTERM, which a process may also ignore.
Terminated(s) == {proc, Killed(s)}

\* connMu is given back; a callback goes on in its goroutine.
Release ==
  /\ holder' = Nobody /\ at' = "idle" /\ goal' = "down"
  /\ watch' = [s \in Sessions |-> IF s = holder THEN [watch[s] EXCEPT !.at = "poll"]
                                                ELSE watch[s]]

----------------------------------------------------------------------------
\* The flow: Manager.Start

\* The process does not start, or it does: the manager is Running and a
\* goroutine waits for the exit.
LaunchFails ==
  /\ at = "start"
  /\ Release
  /\ UNCHANGED <<cur, last, cores, mons, recent, net>>

Start ==
  /\ at = "start" /\ last < MaxSessions
  /\ last' = last + 1
  /\ \E p \in {"live", "root"} : proc' = [proc EXCEPT ![last + 1] = p]
  /\ status' = [status EXCEPT ![last + 1] = "running"]
  /\ done' = [done EXCEPT ![last + 1] = "empty"]
  /\ waiter' = [waiter EXCEPT ![last + 1] = "waits"]
  /\ at' = "poll"
  /\ UNCHANGED <<holder, goal, cur, mons, watchers, net>>

\* Ready dials a local port: whatever core process listens there answers.
Ready ==
  /\ at = "poll"
  /\ \E s \in Sessions : proc[s] \in {"live", "root", "doomed"}
  /\ cur' = last
  /\ at' = "verify"
  /\ UNCHANGED <<holder, goal, last, cores, mons, watchers, net>>

\* Mutation of GivesUp: the deadline only ends the wait.
LeavesIt ==
  /\ at = "poll"
  /\ at' = "killed"
  /\ UNCHANGED <<holder, goal, cur, last, cores, mons, watchers, net>>

\* The startup deadline: kill().
GivesUp ==
  /\ at = "poll"
  /\ proc' = Killed(last)
  /\ at' = "killed"
  /\ UNCHANGED <<holder, goal, cur, last, status, done, waiter, mons,
                 watchers, net>>

\* The exit arrives first; kill() will then wait in vain.
SeesExit ==
  /\ at = "poll" /\ done[last] = "full"
  /\ done' = [done EXCEPT ![last] = "empty"]
  /\ at' = "killed"
  /\ UNCHANGED <<holder, goal, cur, last, proc, status, waiter, mons,
                 watchers, net>>

\* kill() has the exit, or waited for two seconds.
StartGaveUp ==
  /\ at = "killed"
  /\ done' = [done EXCEPT ![last] = "none"]
  /\ status' = [status EXCEPT ![last] = "failed"]
  /\ Release
  /\ UNCHANGED <<cur, last, proc, waiter, mons, recent, net>>

\* bringUp: a check fails, or the session is up and startMonitors follows.
ChecksFail ==
  /\ at = "verify"
  /\ at' = "stop" /\ goal' = "down"
  /\ UNCHANGED <<holder, cur, last, cores, mons, watchers, net>>

StartMonitors ==
  /\ at = "verify"
  /\ mons' = cur
  /\ holder' = Nobody /\ at' = "idle" /\ goal' = "down"
  /\ watch' = [s \in Sessions |->
                 IF s = cur THEN [Idle EXCEPT !.at = "base"]
                 ELSE IF s = holder THEN [watch[s] EXCEPT !.at = "poll"]
                 ELSE watch[s]]
  /\ UNCHANGED <<cur, last, cores, recent, net>>

----------------------------------------------------------------------------
\* The flow: stopCore and Manager.Stop

\* Nothing runs, or SIGTERM is sent and the exit awaited.
NothingToStop ==
  /\ at = "stop" /\ cur = 0
  /\ IF goal = "up" THEN at' = "start" /\ UNCHANGED <<holder, goal, watch>> ELSE Release
  /\ UNCHANGED <<cur, last, cores, mons, recent, net>>

Terminate ==
  /\ at = "stop" /\ cur # 0
  /\ proc' \in Terminated(cur)
  /\ at' = "grace"
  /\ UNCHANGED <<holder, goal, cur, last, status, done, waiter, mons,
                 watchers, net>>

TakeExit ==
  /\ at \in {"grace", "forced"} /\ done[cur] = "full"
  /\ done' = [done EXCEPT ![cur] = "empty"]
  /\ at' = "clear"
  /\ UNCHANGED <<holder, goal, cur, last, proc, status, waiter, mons,
                 watchers, net>>

GraceOver ==
  /\ at = "grace"
  /\ proc' = Killed(cur)
  /\ at' = "forced"
  /\ UNCHANGED <<holder, goal, cur, last, status, done, waiter, mons,
                 watchers, net>>

\* Mutation of ForcedOver: only the exit ends the wait.
WaitsForExit ==
  /\ at = "forced" /\ done[cur] = "full"
  /\ at' = "clear"
  /\ UNCHANGED <<holder, goal, cur, last, cores, mons, watchers, net>>

\* Five seconds without an exit.
ForcedOver ==
  /\ at = "forced"
  /\ at' = "clear"
  /\ UNCHANGED <<holder, goal, cur, last, cores, mons, watchers, net>>

\* The end of Stop and of stopCore: the manager is forgotten.
Clear ==
  /\ at = "clear"
  /\ proc' = Killed(cur)
  /\ status' = [status EXCEPT ![cur] = "stopped"]
  /\ done' = [done EXCEPT ![cur] = "none"]
  /\ cur' = 0
  /\ at' = "helper"
  /\ UNCHANGED <<holder, goal, last, waiter, mons, watchers, net>>

\* ensureCoreGone: the helper ends a process that is still there, or fails.
EnsureGone ==
  /\ at = "helper"
  /\ proc' \in {proc, [proc EXCEPT ![last] = IF @ \in {"live", "root"} THEN "doomed" ELSE @]}
  /\ at' = "stop"
  /\ UNCHANGED <<holder, goal, cur, last, status, done, waiter, mons,
                 watchers, net>>

----------------------------------------------------------------------------
\* Who takes connMu

\* A user connects (a live session makes it a no-op) or disconnects.
UserConnects ==
  /\ holder = Nobody /\ cur = 0 /\ last < MaxSessions
  /\ holder' = User /\ at' = "start" /\ goal' = "down"
  /\ UNCHANGED <<cur, last, cores, mons, watchers, net>>

UserDisconnects ==
  /\ holder = Nobody /\ cur # 0
  /\ holder' = User /\ at' = "stop" /\ goal' = "down"
  /\ mons' = 0
  /\ UNCHANGED <<cur, last, cores, watchers, net>>

\* onNetworkChange, in the watcher's goroutine: it stands down or its probes are
\* fine, or it waits for connMu and reconnects, whatever has become of the
\* session by then.
CallbackReturns(s) ==
  /\ watch[s].at = "call"
  /\ watch' = [watch EXCEPT ![s].at = "poll"]
  /\ UNCHANGED <<lock, cur, last, cores, mons, recent, net>>

Reconnect(s) ==
  /\ watch[s].at = "call" /\ holder = Nobody /\ last < MaxSessions
  /\ watch' = [watch EXCEPT ![s].at = "held"]
  /\ holder' = s /\ at' = "stop" /\ goal' = "up"
  /\ mons' = 0
  /\ UNCHANGED <<cur, last, cores, recent, net>>

----------------------------------------------------------------------------
\* The process and the goroutine that waits for it

\* A core may exit at any time, and one that was signalled will.
Exits(s) ==
  /\ proc[s] \in {"live", "root", "doomed"}
  /\ proc' = [proc EXCEPT ![s] = "gone"]
  /\ UNCHANGED <<lock, cur, last, status, done, waiter, mons, watchers, net>>

\* Mutation of Reap: done is unbuffered, so somebody has to be receiving.
HandsOver(s) ==
  /\ waiter[s] = "waits" /\ proc[s] = "gone" /\ done[s] = "empty"
  /\ at \in {"poll", "killed", "grace", "forced"} /\ s = last
  /\ done' = [done EXCEPT ![s] = "full"]
  /\ waiter' = [waiter EXCEPT ![s] = "marks"]
  /\ UNCHANGED <<lock, cur, last, proc, status, mons, watchers, net>>

\* m.done <- cmd.Wait()
Reap(s) ==
  /\ waiter[s] = "waits" /\ proc[s] = "gone" /\ done[s] # "full"
  /\ done' = [done EXCEPT ![s] = IF @ = "empty" THEN "full" ELSE @]
  /\ waiter' = [waiter EXCEPT ![s] = "marks"]
  /\ UNCHANGED <<lock, cur, last, proc, status, mons, watchers, net>>

\* Only a manager nobody stopped becomes Failed by it.
MarkFailed(s) ==
  /\ waiter[s] = "marks"
  /\ status' = [status EXCEPT ![s] = IF @ = "running" THEN "failed" ELSE @]
  /\ waiter' = [waiter EXCEPT ![s] = "ended"]
  /\ UNCHANGED <<lock, cur, last, proc, done, mons, watchers, net>>

----------------------------------------------------------------------------
\* The watcher's goroutine

Remember(s, v) ==
  recent' = [recent EXCEPT ![s] =
    IF @ = <<>> \/ v # Head(@) THEN <<v>>
    ELSE IF Len(@) < Confirm THEN Append(@, v) ELSE @]

\* The baseline; a snapshot that fails counts as the empty one.
Baseline(s) ==
  /\ watch[s].at = "base"
  /\ \E v \in {net, NoNet} :
       watch' = [watch EXCEPT ![s] = [@ EXCEPT !.at = "poll", !.base = v]]
  /\ UNCHANGED <<lock, cur, last, cores, mons, recent, net>>

\* A poll (one that fails changes nothing): back at the baseline, or one more
\* round for the fingerprint that is pending, or the first for a new one.
\* Mutation of Seen: a return to the baseline does not start over.
SeenSticky(w, v) ==
  IF v = w.base THEN w
  ELSE IF v = w.pending THEN [w EXCEPT !.rounds = @ + 1]
  ELSE [w EXCEPT !.pending = v, !.rounds = 1]

Seen(w, v) ==
  IF v = w.base THEN [w EXCEPT !.pending = NoNet, !.rounds = 0]
  ELSE IF v = w.pending THEN [w EXCEPT !.rounds = @ + 1]
  ELSE [w EXCEPT !.pending = v, !.rounds = 1]

\* Mutation of Settles: the new fingerprint is not taken over.
KeepsBase(w) == [w EXCEPT !.at = "call", !.pending = NoNet, !.rounds = 0]

Settles(w) == [at |-> "call", base |-> w.pending, pending |-> NoNet, rounds |-> 0]

Poll(s) ==
  /\ watch[s].at = "poll"
  /\ LET w == Seen(watch[s], net) IN
     watch' = [watch EXCEPT ![s] = IF w.rounds >= Confirm THEN Settles(w) ELSE w]
  /\ Remember(s, net)
  /\ UNCHANGED <<lock, cur, last, cores, mons, net>>

\* The generation was stopped (stopMonitors and the goroutine that passes it on
\* to Watcher.Stop) and the select takes the closed channel; it may have taken a
\* tick that was due, or several, before.
WatcherEnds(s) ==
  /\ watch[s].at = "poll" /\ mons # s
  /\ watch' = [watch EXCEPT ![s] = [Idle EXCEPT !.at = "ended"]]
  /\ recent' = [recent EXCEPT ![s] = <<>>]
  /\ UNCHANGED <<lock, cur, last, cores, mons, net>>

NetChanges ==
  /\ \E v \in Nets \ {net} : net' = v
  /\ UNCHANGED <<lock, cur, last, cores, mons, watchers>>

----------------------------------------------------------------------------
FlowStep ==
  \/ LaunchFails \/ Start \/ Ready \/ GivesUp \/ SeesExit \/ StartGaveUp
  \/ ChecksFail \/ StartMonitors
  \/ NothingToStop \/ Terminate \/ TakeExit \/ GraceOver \/ ForcedOver
  \/ Clear \/ EnsureGone

CoreStep(s)  == Exits(s) \/ Reap(s) \/ MarkFailed(s)
WatchStep(s) == \/ Baseline(s) \/ Poll(s) \/ WatcherEnds(s)
                \/ CallbackReturns(s) \/ Reconnect(s)

SupNext ==
  \/ FlowStep \/ UserConnects \/ UserDisconnects \/ NetChanges
  \/ \E s \in Sessions :
       CoreStep(s) \/ WatchStep(s)

\* Every wait of a flow has a time limit; a signal that was obeyed takes
\* effect; the goroutines of a process run; tickers tick, snapshots do not fail
\* for ever and a callback ends.
Fairness ==
  /\ WF_supVars(FlowStep)
  /\ \A s \in Sessions :
       /\ WF_supVars(proc[s] = "doomed" /\ Exits(s))
       /\ WF_supVars(Reap(s)) /\ WF_supVars(MarkFailed(s))
       /\ WF_supVars(Baseline(s)) /\ WF_supVars(Poll(s)) /\ WF_supVars(CallbackReturns(s))

SupSpec == SupInit /\ [][SupNext]_supVars /\ Fairness

----------------------------------------------------------------------------
\* Properties

\* Whatever became of starts, deadlines and stops, a core that the daemon can
\* signal is never left running by itself: it is the current one, or a Start
\* still waits for it, or its end is under way.  And a generation of monitors
\* is only ever current for the core it was started with.
Supervised ==
  /\ \A s \in Sessions : proc[s] = "live" =>
       s = cur \/ (s = last /\ at = "poll")
  /\ mons # 0 => mons = cur

\* An exit that nobody asked for is noticed: the manager stops saying Running
\* even when no Start or Stop is there to receive it.
ExitNoticed == \A s \in Sessions :
  (proc[s] = "gone" /\ status[s] = "running") ~> (status[s] # "running")

\* Start and Stop never block for ever, not even on a process that ignores
\* signals or belongs to root: connMu always comes back.
FlowReturns == (holder # Nobody) ~> (holder = Nobody)

\* The callback runs for a change that Confirm polls in a row agreed on, and
\* never for one that went back to the baseline in between.
ConfirmedChange == [][\A s \in Sessions :
  watch[s].at = "poll" /\ watch'[s].at = "call" =>
    /\ watch'[s].base # watch[s].base
    /\ recent'[s] = [i \in 1..Confirm |-> watch'[s].base]]_supVars

\* A change that lasts is acted upon: while a generation stays current, its
\* watcher's baseline keeps coming to be the network as it is, unless that never
\* stops changing.
ChangeReported == \A s \in Sessions :
  []<>(mons # s \/ watch[s].base = net) \/ []<><<NetChanges>>_supVars

============================================================================
