# Connective: a TLA+ model of the client

Connective is a desktop VPN client. A Flutter application talks over a local
socket to `connectived`, a Go daemon, which drives a `sing-box` core. This
directory holds TLA+ modules of the daemon's own logic, TLC configurations that
check them on small instances, and TLAPS proofs of theorems about them. Paths
below are relative to the repository.

## 1. Inventory

### The parts and how they interact

| component | state it keeps | operations | talks to |
|---|---|---|---|
| connection machine (`backend/internal/connection`) | state, server, reason | `Transition`, observers | called by every session flow |
| session logic (`backend/cmd/connectived/main.go`) | `connMu`, `coreMgr`, `mons`, `failCount`, `flapCount`, `lastRecovery` | `Connect`, `disconnect`, `bringUp`, `checkHealth`, `failover`, `onNetworkChange`, `reconnectLocked`, shutdown in `run` | machine, core, monitors, selector, tester |
| applied record (`setApplied`, `reconcileApplied`) | `appliedKill`, `appliedTun`, `applied.json` | record, apply, undo, erase, reconcile at boot | helper, core |
| core supervisor (`backend/internal/core`) | process, exit channel of one, status | `Start` with its deadline, `Stop` with its two, `kill`, wait goroutine | the sing-box process, session logic |
| helper and firewall (`backend/cmd/connective-helper`, `backend/internal/firewall`) | nft table, or Windows policy and `killswitch.state` | `killswitch-on/off`, `stop-core`, `cleanup` | kernel, run with privileges by the daemon |
| health monitor, network watcher (`backend/internal/monitor`) | generation, baseline, pending fingerprint and its rounds | `Run`, `Stop`, `OnChange` callback in the watcher's own goroutine | session logic, by callback |
| selector, tester (`backend/internal/selector`, `tester`) | latency and health in the server records | `Rank`, `Select`, `RunBulk` behind a semaphore, grading of results | session logic, catalog |
| catalog (`servers.*`, `subscriptions.*` handlers, `backend/internal/subscriptions`) | `serverList`, `subs`, `sel`, three JSON documents | add, edit, remove, import, refresh, merge | HTTP, persistence |
| update manager (`backend/internal/update/manager.go`) | status, pending release, artifact, staged file, cancel function, dismissed version, `pending.json` | check, download, install, cancel, dismiss, boot reconciliation | provider, downloader, updater |
| updater (`backend/cmd/connective-updater`, `backend/internal/update/install.go`) | staged and installed trees, `current` and `previous` links, `result.json` | wait, promote, anchor, activate, report | file system; the daemon only through files |
| release search (`update/github.go`, `provider.go`, `version.go`) | none beyond one call | list pages, read release by release, skip or fail, answer | GitHub, update manager |
| downloader, artifacts (`update/download.go`, `delta.go`, `install.go`; `cmd/update-tool`) | partial file, assembled trees | resume, retry, verify, choose, unpack, overlay, fall back | HTTP, update manager, updater |
| IPC server (`backend/internal/ipc`) | clients, one queue of 256 each | concurrent requests, broadcast, teardown | the application |
| frontend (`frontend/lib`) | its view of the daemon | requests, reconnect, rendering | IPC |
| settings, statistics, logging, routing and DNS checks, platform, packaging | plain data or the system's own tables | reads and writes | everything |

The daemon is one process of many goroutines: one per IPC request, one health
loop and one watcher per monitor generation, the core's wait goroutine, and one
per update operation. Two mutexes order them: `connMu` is held for a whole
connect, disconnect or recovery (minutes), `d.mu` for short sections. Everything
slow (probe, download, hash, helper call) is done without `d.mu`, and the
answer is applied later to whatever state is there by then.

### What is hard

* **Stale answers.** A probe, a refresh, a download or a hash returns after
  the state it was started for has gone.
* **Refused transitions.** The machine and the update manager both drop an
  illegal transition silently, so a wrong order shows as a state that never
  ends rather than as an error.
* **Crashes.** The kill switch, the TUN device and a root-owned core survive the
  daemon; an updater may be killed between any two of its file operations; the
  catalog is three documents saved one after the other.
* **Partial failure.** Helper calls, core starts and route checks fail one at a
  time, and the flow has to undo what was done so far.
* **Sources that may not be trusted to be whole.** An index of releases any of
  which may be broken; connections that break, resume at the wrong place or
  start over; a delta for another base than the one installed.
* **Shared slices and pointers.** Rounds of tests read the array of `serverList`
  while requests move its elements in place and replace records.
* **Two processes that cannot signal each other.** The daemon and the updater
  share only files; the updater assumes the application has closed.

PROJECT.json lists each such hazard at the line where it bites, with the
properties that would catch it, or why none does yet.

### What makes each component correct

* Session: the machine is always in a state the flow holding `connMu` expects;
  with `connMu` free, the daemon is live or at rest; a stale goroutine never
  moves a machine that belongs to a flow; every flow ends; a dead core is
  noticed.
* System state: a block in force is on record whatever crashes; the record, the
  flags in memory and the session agree; a live session that asked for the kill
  switch has it.
* Catalog: what was answered is on disk; a tag names a subscription; a refresh
  replaces the servers of the subscriptions it fetched and nothing else.
* Update manager: a busy state has an operation that will leave it; a dismissed
  release does not come back; `restarting` means there is a contract.
* Updater: the links name complete trees, whatever is killed; a success is only
  reported for a tree in place.
* IPC server: nobody sends on a closed channel; a subscriber gets every edge of
  the machine, in order, or is dropped; a request on a working connection is
  answered; a teardown ends, whatever its handlers wait for.
* Core supervisor: a core the daemon can signal is never left alone; `Start` and
  `Stop` end whatever the process does with its signals; an exit nobody asked
  for is noticed.
* Watcher: the callback runs for a change that was confirmed and only for one,
  and a change that lasts is acted upon.
* Selection and testing: no goroutine of a round outlives it; a connect takes a
  listed server, and a sick one only if all are; a failover does not go back to
  the server it gave up; every flow decides.
* Release search: the newest release that serves, past any number that do not; no
  error passes for "no update".
* Download and assembly: what a retry resumes does no harm; what is assembled
  under a version has the contents that were released, from whichever artifact
  and over whatever base; whatever is under way ends.

## 2. The modules

| module | models | composed with |
|---|---|---|
| `ConnectionMachine` | the states and the transition table of `connection/machine.go` | extended by `ConnectionLifecycle` |
| `ConnectionSession` | abstract: what a session promises | implemented by `ConnectionLifecycle` |
| `ConnectionLifecycle` | the session logic, monitors and shutdown | `ConnectionMachine` |
| `WriteAhead` | abstract: record, apply, undo, erase | implemented by `SystemState` |
| `SystemState` | core process, TUN device, kill switch, `applied.json`, helper | stands below one flow of `ConnectionLifecycle` |
| `Catalog` | server and subscription handlers, refresh, merge, documents | |
| `UpdateManager` | check, download, install, cancel, dismiss | hands a contract to `UpdateHandoff` |
| `Deployment` | abstract: the promises of the versioned layout | implemented by `UpdateHandoff` |
| `UpdateHandoff` | contract, result, updater processes, trees and links | `Deployment` |
| `IpcServer` | connections, queues, handlers, broadcast, shutdown, the client's calls and view | takes the edges of `ConnectionMachine` as numbers |
| `Supervision` | `core.Manager` with its process and goroutines, and the watchers, under connects, disconnects and reconnects | refines what `ConnectionLifecycle` takes as one step (`StartCore`, `StartMonitors`, stop) |
| `ServerScores` | scores and hysteresis of the selector, exact over integers | extended by `ServerTesting` |
| `ServerTesting` | rounds of tests and the decisions of connect, reconnect, failover and revive on their results, over a list that changes | `ServerScores`; the decisions `ConnectionLifecycle` leaves arbitrary |
| `Versions` | version texts, their order, the minimum policy | extended by `ReleaseSearch` |
| `ReleaseSearch` | one check over the index of releases | part of `Acquisition` |
| `Fetching` | one download with its attempts | part of `Acquisition` |
| `ArtifactTrees` | what `genDelta` makes, and what unpacking and overlaying leave | part of `Acquisition` |
| `Acquisition` | the composition: check, download, install, activation, over a chain of updates | `ReleaseSearch`, `Fetching`, `ArtifactTrees` |

A module `MCx` gives module `x` the values TLC needs, and `x_proofs` holds its
theorems; those of `SystemState` and of `Supervision`, the two sides of the core
process, are in `CoreProcess_proofs`, those of `Versions` and `Fetching` in
`Acquisition_proofs`.

### Correspondence with the code

**ConnectionLifecycle.** `owner` is the holder of `connMu` and `at` the step its
flow takes next, so that the shared connect path (`quickTest`, select, `bringUp`,
`startMonitors`) is one sequence of actions `Test`, `Pick`, `StartCore`,
`VerifyTUN`, `VerifyRouting`, `Establish`, `StartMonitors` whoever runs it. `tick`
and `watch` are the health goroutine and the watcher callback of each monitor
generation, which run without `connMu` and queue for it (`Locks`). A server that
fails its test is in `bad`; the tester's and the selector's answers are
arbitrary within what the code can return. `failCount` and `flapCount` are only
compared with 2 and are kept up to 2. Time appears as `lastRecovery`, which may
turn from "recent" to "old" at any step. `Shutdown` is the disconnect that `run`
does *without* `connMu`. `Reboot` is a crash at any point.

**SystemState.** One flow at a time (`connMu` is what guarantees it), one step
per side effect, and a crash or power loss between any two. `flags` are
`appliedKill` and `appliedTun`, `marker` what a boot reads from `applied.json`.
Three constants choose the platform: `Privileged` (the daemon may signal a
root-owned core), `TornWrites` (a write of the file may be cut short),
`SnapshotsPolicy` (the Windows helper).

**Catalog.** Servers are records with an id, the node they stand for
(`Server.Key()`), an owner and a mark (the favourite flag). A handler changes
the memory and saves three documents in three steps under `d.mu` (`mu`). A
refresh reads its targets in one step, is answered per target, and writes back
in another; its `view` holds the copies `UpdateAll` works on, and `stale` the
objects that have left `d.subs` since.

**UpdateManager.** Each operation is a process in `ops` that releases `m.mu`
for its slow phase and decides by the state alone what its answer is worth. A
cancelled operation stays in flight beside the next one.

**UpdateHandoff.** The updater is a process with one step per file operation
(promote the staged tree, write the rollback anchor, make the temporary link,
rename it, report), killed between any two; the application may be started
again meanwhile. `Deployment` knows only the trees and the two links: an updater
that promotes installs, one that anchors or swaps moves one link, and everything
else leaves the layout alone.

**IpcServer.** One action per step of `serveConn`, of its writer and of the
goroutine of a request, joined by `queue` (`c.send`). `reader` says how far
`serveConn` is ("draining" once `done` is closed, "ended" once `send` is), a
`writer` is "broken" after a failed flush, which `bufio` only reports at the
next write. The edges of the machine are numbered; `event.state` carries its
number and the answer to `state.get` that of the last edge its handler saw. A
delivered frame is applied by the client in the same step, because the socket
keeps the order. `Close` takes three steps: listener, connections, wait.

**Supervision.** A session attempt makes one `Manager` and at most one generation
of monitors; its number names both. `holder` has `connMu` and `at` is where its
flow stands in `Start` ("start", "poll", "killed"), in the checks of `bringUp`
("verify") or in `Stop` ("stop", "grace", "forced", "clear", "helper"). A process
is live, out of reach of the daemon's signals ("root"), under a signal it will
obey ("doomed") or gone; `done` is the exit channel, `waiter` the goroutine in
`cmd.Wait`. `watch` has the baseline, the pending fingerprint and its rounds of
each watcher; its callback runs a flow that stops the very watcher it was called
by, which ends only after it has returned. Which checks fail, and which signals
a process ignores, is arbitrary. Its operators that `SystemState` has too carry the
prefix `Sup` (`SupInit`, `SupNext`, `SupSpec`), so that one module can extend both.

**ServerScores, ServerTesting.** Scores are integers in units in which every
weight of `Defaults()` and the 1.15 of the incumbent are whole. `cells` is the
array under `serverList`, `size` its length, so that the in-place removal of
`hRemoveServer` and an `append` within the capacity do what they do in Go; a
record is an id with a revision, an edit or refresh makes the next one, and a
flow's `all` may still point to an old one. An id names one record of the list,
as ids are given out once; duplicates come from `Merge` and are `Catalog`'s
subject. A refresh may leave the list in any order (`Refresh`). `round` is the round the flow waits
for: what the loop still has to read (a copy of the slice or the array itself),
and the tests in their slots of the semaphore; `Usable` are the rounds a decision may
start, over the list or over the servers not known to be sick. A round started by the user is
modelled by what it does to the records, at any time (`UserResult`).
`suspects` is a history variable: ids marked by a health probe and not tested
well since.

**Versions, ReleaseSearch.** A version text is its components and the place of its
prerelease tag in the byte order. `outcomes` records what became of each release
read so far; `Examined` has the order of the checks in `Check` and `releaseFrom`,
and `Judged` everything `releaseFrom` may find wrong. `Nets` says how a request
ends: answered, failed, refused for the request limit.

**Fetching.** A file and a body are sequences of blocks, 0 standing for any wrong
block. `source` turns "lying" with the first wrong or missing block: a source
that stays "honest" may break, start over or ignore ranges as often as it likes.

**ArtifactTrees.** A tree maps paths (sequences of names) to contents and mode;
`genDelta` comes from the publisher's tool, the rest from the client. `unzipInto`
keeps the mode of a file it overwrites and `Extracts` says when a path is in the
way of another.

**Acquisition.** The manager's `status`, `pending`, `artifact` and `staged`, with
the searches and fetches as steps, and the trees on disk. One operation is under
way at a time: what overlapping operations do to the manager's state is
`UpdateManager`'s subject, how an updater works `UpdateHandoff`'s. An updater
that was handed a version may activate it at any time from then on, also after
a cancel. `VerifyManifest` is modelled as it works on what `releaseFrom` left of
the manifest, relative URLs replaced included.

## 3. The runs

Passing runs, with TLC's figures:

| run | distinct states | what it shows |
|---|---|---|
| `lifecycle` | 361 816 | the machine follows the flow, rests only settled, belongs to one flow at a time; every flow ends, a dead core is noticed; `ConnectionSession` is implemented |
| `system_state` | 5 020 | a block is on record, memory and file agree, a live session is locked; `WriteAhead` is implemented |
| `catalog` | 292 376 | documents follow memory, tags have owners, a refresh replaces what it fetched and nothing else, ids and marks survive it |
| `update_manager` | 318 128 | busy states are worked on and end, a dismissal holds |
| `update_handoff` | 172 501 | the current link names a complete tree, a reported success is installed; `Deployment` is implemented |
| `ipc` | 378 976 | nobody sends on a closed channel, the stream of events has no gap, answers arrive, teardowns end |
| `supervision` | 121 726 | no core is left alone, an exit is noticed, `Start` and `Stop` end; a network change is acted upon if and only if it was confirmed |
| `testing` | 577 768 | rounds leave nobody behind, connects pick live servers, failovers avoid the server given up, flows decide |
| `acquire` | 393 256 | checks answer with the newest release that serves, honest sources yield genuine files, assembled trees are as released, operations end |

Type invariants are not among the runs: all of them are proved (section 4), of
`Acquisition` what its theorems need.

Bounds, and why they are enough:

* `lifecycle`: two servers (one to fail over to), two monitor generations (an
  old one that still probes beside the current one; a third would only repeat
  the old one), counters up to 2 (the code compares them with 2).
* `system_state` is finite as it stands: `Privileged`, `TornWrites` and
  `SnapshotsPolicy` are FALSE, the Linux helper and whole writes.
* `catalog`: two subscriptions, two nodes, two overlapping refreshes, three
  requests and one crash, six ids (no behaviour within those bounds uses more).
  These cover a refresh overtaken by an edit, by a removal or by another
  refresh. The bounds stop the system, so its runs switch the deadlock check
  off. Refreshes are symmetric.
* `update_manager`: two releases (one overtaken by the next) and two operations
  in flight (one cancelled but still hashing, one current); an identity is
  reused once its operation has ended, so a behaviour is not bounded.
* `update_handoff`: two versions over a base, two updaters that overlap.
  Versions and updaters are symmetric.
* `supervision`: two sessions one after the other (the second may start while a
  process, a waiter or a watcher of the first is still there; a third would
  repeat the second), `Confirm` as in the code, two networks, so that a change may
  flap back.
* `testing`: two servers listed and one to add, an array without a spare place at
  first (a removal makes one), one test at a time, one latency beside failure, one
  change of the catalog and one failover before all servers are tested. One slot
  of the semaphore is enough for a test to be under way when the list changes or
  the time is over; the code compares `flapCount` with 2, and nothing depends on
  the number.
* `acquire`: one release a page and two pages, so that an index may be longer than
  what is read; two attempts and at most three blocks, so that a download may
  break, resume, start over and be too long; five versions, of which two are the
  same under different texts, and indexes with one useless release of every kind
  before a useful one; live installs as released, as rebuilt, and none.
* `ipc`: one connection, because connections only share `subs` and the shutdown
  (the theorems hold for any number); a queue of two, two frames and three
  edges, so that events and answers together fill it and the client is dropped
  with a handler waiting. The process ends after `Close` and the bounds stop the
  machine, so the deadlock check is off here too.

Fairness is assumed only where liveness is asked. In
`ConnectionLifecycle` the steps of a flow, the ticker and a probe in flight are
weakly fair, because every wait in them has a timeout; taking `connMu` is
strongly fair, because a Go mutex hands itself to a waiter that starves. In
`UpdateManager` the work of an operation in flight is weakly fair: downloads and
hashes have timeouts or are cancelled. In `IpcServer` readers, writers,
handlers and `Close` are weakly fair; a write has a deadline and a handler's
callees have timeouts. Strong fairness is not needed, as the bounded edges and
frames let no queue stay contended for ever. In `Supervision` the flow is weakly
fair (each of its waits has a time limit), so are the goroutines of a process, the
effect of a signal that is obeyed, and the watcher's ticker; that a process exits
or a signal is obeyed is not assumed. In `ServerTesting` the loop, the tests, the
close and the flow of a round are weakly fair: goroutines run and a dial has a
timeout. In `Acquisition` whatever is under way is weakly fair as a whole:
requests time out, a download or install has thirty minutes, and the rest is
local. Nothing is assumed of users, of the network, of crashes, of updaters, and
nothing at all in the other modules.

Runs that end in a counterexample: each states what a comment of the
repository says and shows that the code does otherwise.

| run | statement | what happens |
|---|---|---|
| `stands_down` | "Recovery triggers must stand down while it is true" | `onNetworkChange` decides before its probes and acts after them: a disconnect in between is undone |
| `skipped` | "everything else ... is preserved stale" | updating all drops the servers of a disabled subscription |
| `blocked_check` | "One broken or unreachable release must not block every check forever" | `Check` takes the newest release that can be read; when its signature does not verify or it has no full artifact, `RunCheck` fails, this time and every time, although an older release would serve |

Observed while modelling, without a run of its own:

*Session and system state*

* "No orphan processes are left behind": a root-owned core that misses the
  startup deadline is neither killed nor remembered (`StartFails`).
* "snapshots/restores the previous firewall policy": on Windows a second
  `killswitch-on` snapshots the block itself; `SnapshotsPolicy = TRUE` breaks
  `KillRecorded`.
* `TornWrites = TRUE` breaks it too: `applied.json` is written in place and write
  errors are dropped.
* The shutdown disconnects without `connMu`. `stopCore` reads `d.coreMgr` again
  after a call on it, so a flow that clears it in between leaves a nil there.
* After `reviveCheck` ("decide on fresh data, not stale records"), failover still
  uses the choice made before it.

*Supervision*

* `Ready` only dials the local port: any process that listens there answers,
  the core of an earlier session included.
* `Confirm` is documented as consecutive polls that differ from the baseline; the
  code wants them identical as well, so a network that keeps changing is never
  reported.
* `Manager.Restart` has no caller.

*Selection and testing*

* A round over all servers, or over the list when all are sick, reads the array
  that `hRemoveServer` moves in place: one server is then skipped and another
  tested twice, while the tester's comment says every server.
* `reconnectWith` selects from the records it had before its round; an edit or
  refresh during it leaves it with old grades.
* A test cut off by the time limit marks its server unhealthy like one that
  failed. Sick servers are only tested again when all are sick, or by the user.
* `ShouldSwitch` is not used by the daemon; `BonusIsHysteresis` shows that `Rank`
  does the same.
* `connectLocked` and `Rank` read the list and the health of records without `d.mu`.

*Updates*

* A manifest with relative artifact URLs never verifies: `releaseFrom` rewrites
  them in the array the manifest to be verified refers to.
* `Check` takes the first release in the order of the API and not the highest
  version; the tag is not compared with the version of the manifest; after five
  pages it stops without saying so.
* Prerelease tags are compared as bytes, `beta.10` before `beta.9`, and the beta
  channel never offers a final release.
* A platform manifest without a signature file of its own is judged by the shared
  one, which belongs to another manifest.
* A tree assembled over a base keeps the modes of the files it overwrites, though
  the publisher's tool records the mode because "extraction honors it". The theorem
  is therefore about contents.
* An install that falls back to the full artifact, and a restart, leave the file
  of the delta behind.
* An early end of a body is final, not retried; a complete file whose connection
  broke at the end is asked to resume after its last byte and fails. The start
  of a resumed range is never compared with what was asked for.
* A cancelled download that is still hashing is taken for the next one, and its
  file is staged as the other release.
* Cancelling a hand-off removes `pending.json`; the waiting updater was given its
  contract as flags and never reads that file, so the activation goes on.

*IPC*

* `Close` ("stops the server and all connections") misses a connection accepted
  but not yet in `s.subs` and then waits until its client leaves.
* An event overtakes the answer to `state.get`, and `refreshAll` shows the older
  state over the newer one.
* An error answer is queued without a look at `done`: a reader that waits there
  behind a writer that has gone holds up its own teardown, and `Close`.
* A failed flush leaves the socket open: the client waits for its timeout.
* `DaemonClient._drop` keeps `_buffer`, so half a frame of the old connection is
  put before the first frame of the next.

*Catalog*

* A refresh overwrites an edit made while it was downloading and brings back a
  subscription removed meanwhile. No line of the repository says which should
  win, so the model does it and no property forbids it.
* `Merge` gives every record of one node the id and mark of whichever old record
  comes last, so ids stop being distinct once a node is listed twice.
* A rejected subscription edit has already changed name and URL of the object.

## 4. The proofs

Every theorem is stated for all values of the constants that satisfy the
assumptions named in the module. Each follows one argument: an inductive
invariant, its preservation with one step per action, and the property as a
consequence.

* **ConnectionLifecycle_proofs.** `LifecycleInv` adds to the types and
  `MachineFollowsFlow` what a flow knows (`FlowKnows`: it has candidates or a
  server once it needs them) and what it holds at each step (`FlowHoldings`:
  the core and monitors). Neither property is inductive alone: that a flow
  finds the machine where it left it rests on its holding `connMu`, and
  `Settled` rests on what it held when it let go. From it: `Settled`, the action
  property `FlowOwnsMachine`, and that every step is a step of
  `ConnectionSession` or a stutter.
* **CoreProcess_proofs, SystemState.** `RecInv` (types, the session asks only what settings
  allow, file and memory agree, a session is on record) needs whole writes.
  `BlockInv` adds that a block is on record and needs a helper without a policy
  snapshot. Both are hypotheses of the theorems, and TLC finds `KillRecorded`
  violated without either. From `RecInv` also `MarkerMatchesFlags`, from
  `BlockInv` the refinement of `WriteAhead`.
* **CoreProcess_proofs, Supervision.** That no core runs without its manager
  (`Supervised`) is not inductive: a flow that has cleared `coreMgr` too early would
  still satisfy it until its next step. `SupInv` adds what the flow holds at each
  of its steps (`FlowHolds`), that only a process that is gone has its exit on the
  channel (`ExitIsReal`), which is why whoever takes the exit may forget the
  process, and that a manager says Running only as the current one or in `Start`
  (`RunningIsHeld`). At most one core is live, for any number of sessions
  (`SpecOneCore`). `ConfirmedChange` goes another way: `recent` remembers the polls
  of a watcher, and `WatchInv` says that the rounds it has counted are polls that
  agreed with the fingerprint it waits for (`Counted`). A poll that completes the
  count has then seen the same network `Confirm` times (`PollCounts`).
* **UpdateManager_proofs.** `ManagerInv`: an operation knows its release, an
  offer stands whenever an operation works on it, and a busy state has one at
  the right phase. `BusyIsWorked` alone is not inductive: a stale answer may
  only be seen to leave a working operation behind when its phase is known.
* **UpdateHandoff_proofs.** `TreeInv` adds that a promoted tree is installed and
  that the temporary link names an installed tree, which is what makes the
  rename by either updater safe. It also makes every action a step of `Deployment`
  or none (`LayoutStep`), hence `SpecDeployment`; what the layout is good for is
  proved of `Deployment` alone (`DeploymentStartable`).
* **Catalog_proofs.** `CatalogInv` adds that the snapshot of a refresh only
  names subscriptions that exist or existed (`RefreshesSound`, `Remembered`) and
  which document is being saved (`SaveUnderWay`). From it, also the action
  properties `RefreshKeepsTheRest` and `MetadataSurvives`, and `FetchedIsExact`, for
  which `RefreshSound` has to say that a copy with fresh servers has no error.
* **IpcServer_proofs.** `ServerInv` adds that a connection has neither queue nor
  handlers before it is registered and has left `subs` before it drains
  (`Registered`), and that no subscriber has seen an edge that has not happened
  (`SeenPast`). `NoSendOnClosed` rests on the first: only a reader that reads
  starts handlers, and `Teardown` waits for them. `StreamHasNoGap` goes through
  three lemmas about a queue (`AppendAnswer`, `AppendEvent`, `TakeHead`).

* **ServerTesting_proofs.** `RoundInv` ties a flow to its round and says that the
  goroutines of a round are gone when it is closed: `NobodyLeftBehind` is its
  consequence. `ConnectPicksLive` follows from what `Ranked` leaves of the list.
  `SuspectWaits` needs `ListInv`: every place of the list holds a record of an id
  that was given out (`Fits`), each id once (`OneEach`), a suspect is graded sick in
  whatever record it has by now (`SuspectsSick`), and a round over the array reads
  records only, also past the end of the list after a removal (`Reaches`). `OneEach`
  is needed because a probe marks one record: another of the same id would keep its
  grade, and `SuspectsSick` would not hold.
  Beside the specification: three theorems on the scores, for all latencies
  (`SickRanksLast`, `BonusIsHysteresis`, `FasterIsBetter`), over the bounds of a
  base score (`BaseBounds`).
* **Acquisition_proofs.** First two facts about data: applying `genDelta(from, to)`
  to any tree with the contents of `from` gives the contents of `to`
  (`DeltaRoundTrip`), and unpacking a full artifact, flat or under one folder,
  gives what it was made of (`FullRoundTrip`, by `FolderOff` and `FolderFound`,
  which need a file outside all directories). Then `Inv`: the answer of a search
  is right for what it has read (`SearchInv`), the file of an honest source is a
  prefix of the artifact (`FetchInv`), what is on offer and staged is an artifact
  of a truthful manifest (`OfferInv`, `StagedInv`), the live tree has the contents
  its name says (`BaseInv`) and so has every assembled one. The last needs all
  others: a tree comes from a staged file, the file from a fetch, the artifact
  from a search, a delta also from the base, and the base from an earlier tree.
  Of `Versions`: `Compare` is total, antisymmetric and transitive, newer is a strict
  order on texts of any shape (`NewerIsStrict`), so no chain of offers leads back to
  where it began, and what is acceptable stays so on the way (`AcceptableOnTheWay`).
  Last, `SpecRunsDown`: each step of work under way lowers `Rank`, seven natural
  numbers in lexicographic order (`Bounded` makes them natural), or ends the
  operation. This is the part of `AcquisitionEnds` that is a matter of steps: no
  retry, no fall-back and no restarted body can go round for ever, for any
  numbers of tries, blocks, pages and releases. What is missing for the liveness
  property is that a step of `Work` can always be taken and, by fairness, is.

The constants carry the assumptions the proofs rest on: `ListingsAssumption` (a
manifest tells the truth about its artifacts), `ReleasedAssumption` (a tree has a
file at its top), `BasesAssumption` (the first install is as released). That a
hash has no collisions is in the definition of `Genuine`.

Only model-checked: the liveness properties (`FlowEnds`, `DeadCoreNoticed`,
`BusyEnds`, `AnswersArrive`, `TeardownEnds`, `ExitNoticed`, `FlowReturns`,
`ChangeReported`, `FlowDecides`, `AcquisitionEnds`). They rest on fairness and on
actions being enabled, which TLAPS cannot reason about. Every other property of a
passing run is a theorem. That the lexicographic order of `Rank` has no infinite
descent is common knowledge and not proved here, as it takes an induction.

## 5. What is not modelled

Left out inside modelled components: the length of timeouts and backoffs (the
backoff shift of the manager was worked out by hand for all 63 shifts and never
leaves its clamp), progress figures, `TestApply`, the Windows layout of the
install tree (`link_windows.go` removes a link before it makes the new one, so
that a kill in between leaves none), failures to save a catalog document, the
parsing of links and subscription bodies, conditional requests and headers of the
release index, the `file:` source of downloads and the directory provider, which
are for development. `Catalog` has `hRemoveServer` without its check of the active
session, which `ServerTesting` has. A round of tests that the user starts is
modelled by its results. Empty directories of a tree are left out.

Left out altogether: the configuration generator, statistics, logging, platform
queries, packaging and the frontend's presentation, which only render, format or
read. PROJECT.json gives the reason per component.

## 6. Plan

Done, in order of weight: the session and its system state, updates on both sides
of the hand-off, the catalog, the IPC server with the client's view of the
connection; then the supervisor and the watcher, selection and testing, and the
way of an update from the index to a tree. What would come next:

1. **Proofs**: ranks like that of `Acquisition` for the flows of `Supervision` and
   `ServerTesting` and for the teardown of `IpcServer`; that `Supervision`
   implements the steps `ConnectionLifecycle` takes for it.
2. **Frontend client**: reconnects with a buffer that survives, events before
   the first snapshot, overlapping refreshes.
3. **Share links**: parsing and formatting as a round trip over abstract fields.
4. **Windows layout** of the install tree, as a constant of `UpdateHandoff`.
5. The end of a hand-off that is killed before its report: what the next boot
   announces.

The set of runs is kept small enough to be repeated on every change: a new one
should answer a question of its own.
