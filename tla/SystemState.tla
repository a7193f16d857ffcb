---------------------------- MODULE SystemState ----------------------------
(***************************************************************************)
(* What a session changes outside the daemon and how the daemon keeps      *)
(* track of it: the core process, the TUN device it creates, the kill      *)
(* switch the helper installs, the in-memory flags appliedKill and         *)
(* appliedTun and their copy in <dataDir>/applied.json.                    *)
(*                                                                         *)
(* The sources are bringUp, stopCore, disconnect, cleanupApplied,          *)
(* setApplied, clearApplied and reconcileApplied of                        *)
(* cmd/connectived/main.go, Manager.Start and Stop of internal/core, and   *)
(* the subcommands of cmd/connective-helper.  connMu serialises these      *)
(* flows (ConnectionLifecycle), so one program counter, pc, is enough.     *)
(* The daemon may be killed, and the machine may lose power, between any   *)
(* two steps.                                                              *)
(***************************************************************************)

CONSTANTS
  Privileged,       \* the daemon may signal a root-owned core itself
  TornWrites,       \* a write of applied.json may be cut short or fail
  SnapshotsPolicy   \* the helper saves and restores a policy (Windows); else
                    \* the kill switch is a table of its own (Linux)

ASSUME ConstantsAssumption ==
  /\ Privileged \in BOOLEAN /\ TornWrites \in BOOLEAN
  /\ SnapshotsPolicy \in BOOLEAN

VARIABLES
  pc,       \* the next step of the flow under way, or where the daemon rests
  cfg,      \* what d.settings asks for: a subset of Changes
  st,       \* the settings the session was brought up with
  core,     \* the core process the flow started is running
  orphan,   \* a core process runs that the daemon has forgotten
  dev,      \* the device connective0 exists
  fw,       \* egress policy: "open" or "blocked"
  snap,     \* the policy in killswitch.state
  flags,    \* the set of appliedKill and appliedTun that are true
  marker    \* the flags a boot reads from applied.json; a missing file and one
            \* that does not parse both read as {}

vars == <<pc, cfg, st, core, orphan, dev, fw, snap, flags, marker>>

system == <<fw, snap>>
record == <<flags, marker>>

Changes  == {"kill", "tun"}   \* the kill switch, the TUN device
Policies == {"open", "blocked"}

\* "off" and "error" are the machine's resting states, "live" a session; "dead"
\* is a stopped daemon, the "boot" steps are reconcileApplied.
Steps == {"off", "error", "live", "dead", "starting", "record", "verify",
          "lockRecord", "lock", "cleanKill", "cleanTun", "bootKill", "bootTun"}

TypeOK ==
  /\ pc \in Steps
  /\ cfg \in SUBSET Changes /\ st \in SUBSET Changes
  /\ core \in BOOLEAN /\ orphan \in BOOLEAN /\ dev \in BOOLEAN
  /\ fw \in Policies /\ snap \in Policies \cup {"none"}
  /\ flags \in SUBSET Changes
  /\ marker \in SUBSET Changes

Init ==
  /\ pc = "off"
  /\ cfg \in SUBSET Changes /\ st = {}
  /\ core = FALSE /\ orphan = FALSE /\ dev = FALSE
  /\ fw = "open" /\ snap = "none"
  /\ flags = {} /\ marker = {}

----------------------------------------------------------------------------
\* Helpers

\* Mutation of Note: a flag once on disk stays there.
NoteGrows(f) ==
  /\ flags' = f
  /\ marker' = marker \cup f

\* setApplied and clearApplied: the flags change in memory, then on disk (no
\* flags: the file is removed).  os.WriteFile truncates before it writes, and
\* its error is dropped.
Note(f) ==
  /\ flags' = f
  /\ \/ marker' = f
     \/ TornWrites /\ marker' = {}

\* The core runs as root, out of the daemon's reach.
Unreachable == st # {} /\ ~Privileged

\* A core that goes takes its device along, or leaves it behind.
DeviceMayGo == dev' \in {dev, FALSE}

\* stopCore: Stop, then the helper's stop-core when the process survived it.
\* Only the helper's failure leaves a process behind.
StopCore ==
  /\ core' = FALSE
  /\ orphan' \in {orphan, orphan \/ (core /\ Unreachable)}
  /\ DeviceMayGo

\* killswitch-on and killswitch-off.
Lockdown ==
  /\ fw' = "blocked"
  /\ snap' = IF SnapshotsPolicy THEN fw ELSE snap
Unlock ==
  /\ fw' = IF SnapshotsPolicy /\ snap # "none" THEN snap ELSE "open"
  /\ UNCHANGED snap

\* The ways killswitch-on fails: before it did anything, after everything (the
\* 20s bound on the call), or halfway: the old table is gone and the new one
\* refused, or the policy saved and not set.
LockdownFails ==
  \/ UNCHANGED system
  \/ Lockdown
  \/ ~SnapshotsPolicy /\ fw' = "open" /\ UNCHANGED snap
  \/ SnapshotsPolicy /\ snap' = fw /\ UNCHANGED fw

UnlockFails == UNCHANGED system \/ Unlock

----------------------------------------------------------------------------
\* Bringing a session up: bringUp, from connect or from a recovery

\* Manager.Start launches the core; a recovery stops the running one first.
StartCore ==
  /\ pc \in {"off", "error", "live"}
  /\ IF pc = "live"
     THEN orphan' \in {orphan, orphan \/ (core /\ Unreachable)} /\ DeviceMayGo
     ELSE UNCHANGED <<orphan, dev>>
  /\ st' = cfg /\ core' = TRUE
  /\ pc' = "starting"
  /\ UNCHANGED <<cfg, system, record>>

\* The core creates its device some time after it has been launched.
CreateDevice ==
  /\ core /\ "tun" \in st /\ ~dev
  /\ dev' = TRUE
  /\ UNCHANGED <<pc, cfg, st, core, orphan, system, record>>

\* The core answers on the mixed port, and bringUp takes the manager over.
CoreReady ==
  /\ pc = "starting"
  /\ pc' = "record"
  /\ UNCHANGED <<cfg, st, core, orphan, dev, system, record>>

\* It exits, or the startup timeout passes and kill() cannot reach a root-owned
\* process.  The manager never reaches d.coreMgr.
StartFails ==
  /\ pc = "starting"
  /\ core' = FALSE
  /\ orphan' \in {orphan, orphan \/ Unreachable}
  /\ DeviceMayGo
  /\ pc' = "error"
  /\ UNCHANGED <<cfg, st, system, record>>

\* Mutation of RecordTun: the device is not recorded.
SkipTun ==
  /\ pc = "record"
  /\ pc' = "verify"
  /\ UNCHANGED <<cfg, st, core, orphan, dev, system, record>>

\* setApplied(false, true), before the device is verified.
RecordTun ==
  /\ pc = "record"
  /\ IF "tun" \in st THEN Note(flags \cup {"tun"}) ELSE UNCHANGED record
  /\ pc' = "verify"
  /\ UNCHANGED <<cfg, st, core, orphan, dev, system>>

\* Mutation of Verified: a block recorded earlier is taken to be in force.
TrustRecord ==
  /\ pc = "verify"
  /\ "tun" \in st => dev
  /\ pc' = IF "kill" \in st \ flags THEN "lockRecord" ELSE "live"
  /\ UNCHANGED <<cfg, st, core, orphan, dev, system, record>>

\* verifyTUN and verifyRouting.
Verified ==
  /\ pc = "verify"
  /\ "tun" \in st => dev
  /\ pc' = IF "kill" \in st THEN "lockRecord" ELSE "live"
  /\ UNCHANGED <<cfg, st, core, orphan, dev, system, record>>

VerifyFails ==
  /\ pc = "verify"
  /\ StopCore
  /\ pc' = "error"
  /\ UNCHANGED <<cfg, st, system, record>>

\* Mutation of RecordKill: the record is left for later.
SkipKill ==
  /\ pc = "lockRecord"
  /\ pc' = "lock"
  /\ UNCHANGED <<cfg, st, core, orphan, dev, system, record>>

\* setApplied(true, false), before the helper runs.
RecordKill ==
  /\ pc = "lockRecord"
  /\ Note(flags \cup {"kill"})
  /\ pc' = "lock"
  /\ UNCHANGED <<cfg, st, core, orphan, dev, system>>

\* applyKillSwitch succeeds: the session is connected.
Lock ==
  /\ pc = "lock"
  /\ Lockdown
  /\ pc' = "live"
  /\ UNCHANGED <<cfg, st, core, orphan, dev, record>>

LockFails ==
  /\ pc = "lock"
  /\ LockdownFails
  /\ StopCore
  /\ pc' = "error"
  /\ UNCHANGED <<cfg, st, record>>

----------------------------------------------------------------------------
\* Taking it down: disconnect and cleanupApplied

\* From Disconnected the request is refused ("not connected").
Disconnect ==
  /\ pc \in {"live", "error"}
  /\ StopCore
  /\ pc' = "cleanKill"
  /\ UNCHANGED <<cfg, st, system, record>>

\* Mutation of CleanKill: the flag goes even if the helper failed.
DropFlag(step, next) ==
  /\ pc = step
  /\ UnlockFails
  /\ Note(flags \ {"kill"})
  /\ pc' = next
  /\ UNCHANGED <<cfg, st, core, orphan, dev>>

\* killswitch-off, if the flag is set; the flag goes only if it succeeds.
CleanKill(step, next) ==
  /\ pc = step
  /\ \/ "kill" \notin flags /\ UNCHANGED <<system, record>>
     \/ "kill" \in flags /\ Unlock /\ Note(flags \ {"kill"})
     \/ "kill" \in flags /\ UnlockFails /\ UNCHANGED record
  /\ pc' = next
  /\ UNCHANGED <<cfg, st, core, orphan, dev>>

\* tun-cleanup, likewise.
CleanTun(step, next) ==
  /\ pc = step
  /\ \/ "tun" \notin flags /\ UNCHANGED <<dev, record>>
     \/ "tun" \in flags /\ dev' = FALSE /\ Note(flags \ {"tun"})
     \/ "tun" \in flags /\ DeviceMayGo /\ UNCHANGED record
  /\ pc' = next
  /\ UNCHANGED <<cfg, st, core, orphan, system>>

----------------------------------------------------------------------------
\* The end of the daemon and its next start

\* The process dies.  On Linux its children die with it; the device may stay.
Crash ==
  /\ pc # "dead"
  /\ pc' = "dead"
  /\ core' = FALSE
  /\ orphan' = (SnapshotsPolicy /\ (orphan \/ core))
  /\ DeviceMayGo
  /\ flags' = {}
  /\ UNCHANGED <<cfg, st, system, marker>>

\* The machine loses power: processes, device and table are gone; a firewall
\* policy is not, nor are the files.
PowerLoss ==
  /\ pc' = "dead"
  /\ core' = FALSE /\ orphan' = FALSE /\ dev' = FALSE
  /\ fw' = IF SnapshotsPolicy THEN fw ELSE "open"
  /\ flags' = {}
  /\ UNCHANGED <<cfg, st, snap, marker>>

\* reconcileApplied: without a marker there is nothing to clean up.
Boot ==
  /\ pc = "dead"
  /\ flags' = marker
  /\ pc' = IF marker = {} THEN "off" ELSE "bootKill"
  /\ UNCHANGED <<cfg, st, core, orphan, dev, system, marker>>

\* The environment: a core exits by itself, the user edits the settings.
CoreExits ==
  /\ core \/ orphan
  /\ \/ core' = FALSE /\ UNCHANGED orphan
     \/ orphan' = FALSE /\ UNCHANGED core
  /\ DeviceMayGo
  /\ UNCHANGED <<pc, cfg, st, system, record>>

ChangeSettings ==
  /\ cfg' \in SUBSET Changes
  /\ UNCHANGED <<pc, st, core, orphan, dev, system, record>>

Teardown == \/ CleanKill("cleanKill", "cleanTun") \/ CleanTun("cleanTun", "off")
Reconcile == \/ CleanKill("bootKill", "bootTun") \/ CleanTun("bootTun", "off")

Next ==
  \/ StartCore \/ CreateDevice \/ CoreReady \/ StartFails
  \/ RecordTun \/ Verified \/ VerifyFails
  \/ RecordKill \/ Lock \/ LockFails
  \/ Disconnect \/ Teardown
  \/ Crash \/ PowerLoss \/ Boot \/ Reconcile
  \/ CoreExits \/ ChangeSettings

Spec == Init /\ [][Next]_vars

----------------------------------------------------------------------------
\* Properties

Running == pc # "dead"

\* An egress block is always in applied.json, and in the daemon's memory while
\* it runs, so a crash at any point is reconcilable at the next boot
\* (appliedState's comment) and no failed helper call is forgotten.
KillRecorded ==
  fw = "blocked" => "kill" \in marker /\ (Running => "kill" \in flags)

\* What a session relies on is on record before it is verified or asked for:
\* the device once the core is up, the block before the helper sets it.
SessionRecorded ==
  /\ pc \in {"verify", "lockRecord", "lock", "live"} /\ "tun" \in st
       => "tun" \in marker /\ "tun" \in flags
  /\ pc \in {"lock", "live"} /\ "kill" \in st => "kill" \in marker /\ "kill" \in flags

\* The daemon's memory and its file agree whenever it runs.
MarkerMatchesFlags == Running => marker = flags

\* A live session that asked for the kill switch has it in force: nothing but
\* a teardown, a newer bring-up or the loss of the machine lifts the block.
LiveSessionLocked == pc = "live" /\ "kill" \in st => fw = "blocked"

\* The kill switch follows the write-ahead discipline: recorded, then applied;
\* undone, then erased.
KillSwitch == INSTANCE WriteAhead
                WITH effect <- fw = "blocked", ledger <- "kill" \in marker
KillSwitchSpec == KillSwitch!Spec
=============================================================================
