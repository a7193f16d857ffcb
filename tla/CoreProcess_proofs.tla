------------------------ MODULE CoreProcess_proofs ------------------------
(***************************************************************************)
(* Proofs about the two views of the core process: SystemState (what a     *)
(* session changes on the host, through crashes) and Supervision (who      *)
(* looks after the process and the network).                               *)
(*                                                                         *)
(* SystemState: the typing theorem holds on every platform.  The others    *)
(* assume that applied.json is written whole (~TornWrites); what concerns  *)
(* the block itself also assumes the Linux helper (~SnapshotsPolicy): the  *)
(* Windows one may restore a block it saved.  Supervision: every theorem   *)
(* holds for every value of the constants.                                 *)
(***************************************************************************)
EXTENDS SystemState, Supervision, TLAPS

\* What the properties leave out: only a session that asked for the kill switch
\* reaches the steps that set it.
Asked == pc \in {"lockRecord", "lock"} => "kill" \in st

\* The inductive invariant of the records, on every platform.
RecInv == TypeOK /\ Asked /\ MarkerMatchesFlags /\ SessionRecorded

\* The inductive invariant of the block.
BlockInv == RecInv /\ KillRecorded /\ LiveSessionLocked

USE DEF Changes, Policies, Steps, system, record

\* Every variable keeps its type.
THEOREM SpecTypeOK == Spec => []TypeOK
<1>1. Init => TypeOK
  BY DEF Init, TypeOK
<1>2. TypeOK /\ [Next]_vars => TypeOK'
  <2> SUFFICES ASSUME TypeOK, [Next]_vars PROVE TypeOK'
    OBVIOUS
  <2> USE DEF TypeOK
  <2>1. CASE StartCore  BY <2>1 DEF StartCore, DeviceMayGo
  <2>2. CASE CreateDevice  BY <2>2 DEF CreateDevice
  <2>3. CASE CoreReady  BY <2>3 DEF CoreReady
  <2>4. CASE StartFails  BY <2>4 DEF StartFails, DeviceMayGo, Unreachable
  <2>5. CASE RecordTun  BY <2>5 DEF RecordTun, Note
  <2>6. CASE Verified  BY <2>6 DEF Verified
  <2>7. CASE VerifyFails  BY <2>7 DEF VerifyFails, StopCore, DeviceMayGo
  <2>8. CASE RecordKill  BY <2>8 DEF RecordKill, Note
  <2>9. CASE Lock  BY <2>9 DEF Lock, Lockdown
  <2>10. CASE LockFails
    BY <2>10 DEF LockFails, LockdownFails, Lockdown, StopCore, DeviceMayGo
  <2>11. CASE Disconnect  BY <2>11 DEF Disconnect, StopCore, DeviceMayGo
  <2>12. CASE Teardown
    BY <2>12 DEF Teardown, CleanKill, CleanTun, Note, Unlock, UnlockFails, DeviceMayGo
  <2>13. CASE Crash  BY <2>13, ConstantsAssumption DEF Crash, DeviceMayGo
  <2>14. CASE PowerLoss  BY <2>14 DEF PowerLoss
  <2>15. CASE Boot  BY <2>15 DEF Boot
  <2>16. CASE Reconcile
    BY <2>16 DEF Reconcile, CleanKill, CleanTun, Note, Unlock, UnlockFails, DeviceMayGo
  <2>17. CASE CoreExits  BY <2>17 DEF CoreExits, DeviceMayGo
  <2>18. CASE ChangeSettings  BY <2>18 DEF ChangeSettings
  <2>19. CASE UNCHANGED vars  BY <2>19 DEF vars
  <2> QED
    BY <2>1, <2>2, <2>3, <2>4, <2>5, <2>6, <2>7, <2>8, <2>9, <2>10, <2>11,
       <2>12, <2>13, <2>14, <2>15, <2>16, <2>17, <2>18, <2>19 DEF Next
<1> QED  BY <1>1, <1>2, PTL DEF Spec

\* One step keeps memory, file and session in agreement.
LEMMA RecInvStep ==
  ASSUME TornWrites = FALSE, TypeOK, TypeOK', RecInv, [Next]_vars
  PROVE  RecInv'
<1> SUFFICES (Asked /\ MarkerMatchesFlags /\ SessionRecorded)'
  BY DEF RecInv
<1> USE DEF RecInv, TypeOK, Asked, MarkerMatchesFlags, SessionRecorded, Running
<1>1. (Asked /\ MarkerMatchesFlags /\ SessionRecorded)'
  <2>1. CASE StartCore  BY <2>1 DEF StartCore
  <2>2. CASE CreateDevice  BY <2>2 DEF CreateDevice
  <2>3. CASE CoreReady  BY <2>3 DEF CoreReady
  <2>4. CASE StartFails  BY <2>4 DEF StartFails
  <2>5. CASE RecordTun  BY <2>5 DEF RecordTun, Note
  <2>6. CASE Verified  BY <2>6 DEF Verified
  <2>7. CASE VerifyFails  BY <2>7 DEF VerifyFails, StopCore
  <2>8. CASE RecordKill  BY <2>8 DEF RecordKill, Note
  <2>9. CASE Lock  BY <2>9 DEF Lock, Lockdown
  <2>10. CASE LockFails  BY <2>10 DEF LockFails, LockdownFails, Lockdown, StopCore
  <2>11. CASE Disconnect  BY <2>11 DEF Disconnect, StopCore
  <2>12. CASE Teardown  BY <2>12 DEF Teardown, CleanKill, CleanTun, Note, Unlock, UnlockFails
  <2>13. CASE Crash  BY <2>13 DEF Crash
  <2>14. CASE PowerLoss  BY <2>14 DEF PowerLoss
  <2>15. CASE Boot  BY <2>15 DEF Boot
  <2>16. CASE Reconcile  BY <2>16 DEF Reconcile, CleanKill, CleanTun, Note, Unlock, UnlockFails
  <2>17. CASE CoreExits  BY <2>17 DEF CoreExits
  <2>18. CASE ChangeSettings  BY <2>18 DEF ChangeSettings
  <2>19. CASE UNCHANGED vars  BY <2>19 DEF vars
  <2> QED
    BY <2>1, <2>2, <2>3, <2>4, <2>5, <2>6, <2>7, <2>8, <2>9, <2>10,
       <2>11, <2>12, <2>13, <2>14, <2>15, <2>16, <2>17, <2>18, <2>19 DEF Next
<1> QED  BY <1>1

\* If applied.json is written whole, the daemon and its file agree and every
\* session is on record before it relies on what it changed.
THEOREM SpecRecorded ==
  ASSUME TornWrites = FALSE
  PROVE  Spec => [](MarkerMatchesFlags /\ SessionRecorded)
<1>1. Init => RecInv
  BY DEF Init, RecInv, TypeOK, Asked, MarkerMatchesFlags, SessionRecorded, Running
<1>2. TypeOK /\ TypeOK' /\ RecInv /\ [Next]_vars => RecInv'
  BY RecInvStep
<1>3. RecInv => MarkerMatchesFlags /\ SessionRecorded
  BY DEF RecInv
<1> QED  BY <1>1, <1>2, <1>3, SpecTypeOK, PTL DEF Spec

\* The file agrees with the memory of the running daemon, whichever of its helper
\* calls fail and wherever it crashed before.
THEOREM SpecMarkerMatchesFlags ==
  ASSUME TornWrites = FALSE
  PROVE  Spec => []MarkerMatchesFlags
<1> QED  BY SpecRecorded, PTL

\* One step keeps the block on record, and in force under a live session.
LEMMA BlockInvStep ==
  ASSUME TornWrites = FALSE, SnapshotsPolicy = FALSE,
         TypeOK, TypeOK', BlockInv, [Next]_vars
  PROVE  BlockInv'
<1> SUFFICES (KillRecorded /\ LiveSessionLocked)'
  BY RecInvStep DEF BlockInv
<1> USE DEF BlockInv, RecInv, TypeOK, Asked, MarkerMatchesFlags,
            SessionRecorded, KillRecorded, LiveSessionLocked, Running
<1>1. (KillRecorded /\ LiveSessionLocked)'
  <2>1. CASE StartCore  BY <2>1 DEF StartCore
  <2>2. CASE CreateDevice  BY <2>2 DEF CreateDevice
  <2>3. CASE CoreReady  BY <2>3 DEF CoreReady
  <2>4. CASE StartFails  BY <2>4 DEF StartFails
  <2>5. CASE RecordTun  BY <2>5 DEF RecordTun, Note
  <2>6. CASE Verified  BY <2>6 DEF Verified
  <2>7. CASE VerifyFails  BY <2>7 DEF VerifyFails, StopCore
  <2>8. CASE RecordKill  BY <2>8 DEF RecordKill, Note
  <2>9. CASE Lock  BY <2>9 DEF Lock, Lockdown
  <2>10. CASE LockFails  BY <2>10 DEF LockFails, LockdownFails, Lockdown, StopCore
  <2>11. CASE Disconnect  BY <2>11 DEF Disconnect, StopCore
  <2>12. CASE Teardown  BY <2>12 DEF Teardown, CleanKill, CleanTun, Note, Unlock, UnlockFails
  <2>13. CASE Crash  BY <2>13 DEF Crash
  <2>14. CASE PowerLoss  BY <2>14 DEF PowerLoss
  <2>15. CASE Boot  BY <2>15 DEF Boot
  <2>16. CASE Reconcile  BY <2>16 DEF Reconcile, CleanKill, CleanTun, Note, Unlock, UnlockFails
  <2>17. CASE CoreExits  BY <2>17 DEF CoreExits
  <2>18. CASE ChangeSettings  BY <2>18 DEF ChangeSettings
  <2>19. CASE UNCHANGED vars  BY <2>19 DEF vars
  <2> QED
    BY <2>1, <2>2, <2>3, <2>4, <2>5, <2>6, <2>7, <2>8, <2>9, <2>10,
       <2>11, <2>12, <2>13, <2>14, <2>15, <2>16, <2>17, <2>18, <2>19 DEF Next
<1> QED  BY <1>1

LEMMA InitBlockInv == Init => BlockInv
  BY DEF Init, BlockInv, RecInv, TypeOK, Asked, MarkerMatchesFlags,
         SessionRecorded, KillRecorded, LiveSessionLocked, Running

\* On Linux no crash, failed helper call or change of settings makes the
\* daemon forget a block that is in force.
THEOREM SpecKillRecorded ==
  ASSUME TornWrites = FALSE, SnapshotsPolicy = FALSE
  PROVE  Spec => []KillRecorded
<1>1. TypeOK /\ TypeOK' /\ BlockInv /\ [Next]_vars => BlockInv'
  BY BlockInvStep
<1>2. BlockInv => KillRecorded
  BY DEF BlockInv
<1> QED  BY InitBlockInv, <1>1, <1>2, SpecTypeOK, PTL DEF Spec

\* A live session that asked for the kill switch has it in force.
THEOREM SpecLiveSessionLocked ==
  ASSUME TornWrites = FALSE, SnapshotsPolicy = FALSE
  PROVE  Spec => []LiveSessionLocked
<1>1. TypeOK /\ TypeOK' /\ BlockInv /\ [Next]_vars => BlockInv'
  BY BlockInvStep
<1>2. BlockInv => LiveSessionLocked
  BY DEF BlockInv
<1> QED  BY InitBlockInv, <1>1, <1>2, SpecTypeOK, PTL DEF Spec

\* The kill switch is recorded, applied, undone and erased in that order: the
\* daemon implements the write-ahead discipline, crashes included.
THEOREM SpecKillSwitch ==
  ASSUME TornWrites = FALSE, SnapshotsPolicy = FALSE
  PROVE  Spec => KillSwitchSpec
<1>1. Init => KillSwitch!Init
  BY DEF Init, KillSwitch!Init
<1>2. BlockInv /\ BlockInv' /\ [Next]_vars
        => [KillSwitch!Next]_(KillSwitch!wvars)
  <2> SUFFICES ASSUME BlockInv, BlockInv', [Next]_vars
               PROVE  [KillSwitch!Next]_(KillSwitch!wvars)
    OBVIOUS
  <2>1. /\ fw = "blocked" => "kill" \in marker
        /\ fw' = "blocked" => "kill" \in marker'
    BY DEF BlockInv, KillRecorded
  <2>2. CASE fw # "blocked" /\ fw' # "blocked"
    BY <2>2 DEF KillSwitch!Next, KillSwitch!Record, KillSwitch!Erase
  <2>3. CASE fw' = "blocked"
    <3>1. fw # "blocked" => pc = "lock" /\ UNCHANGED marker
      BY <2>3 DEF Next, vars, StartCore, CreateDevice, CoreReady, StartFails,
         RecordTun, Verified, VerifyFails, RecordKill, LockFails, Lock,
         Disconnect, Teardown, CleanKill, CleanTun, Crash, PowerLoss, Boot,
         Reconcile, CoreExits, ChangeSettings, UnlockFails, Unlock,
         BlockInv, RecInv, TypeOK
    <3>2. pc = "lock" => "kill" \in marker
      BY DEF BlockInv, RecInv, Asked, SessionRecorded, TypeOK
    <3> QED  BY <2>1, <2>3, <3>1, <3>2 DEF KillSwitch!Next, KillSwitch!Apply
  <2>4. CASE fw = "blocked" /\ fw' # "blocked"
    BY <2>1, <2>4 DEF KillSwitch!Next, KillSwitch!Undo, KillSwitch!Erase
  <2> QED  BY <2>2, <2>3, <2>4
<1>3. TypeOK /\ TypeOK' /\ BlockInv /\ [Next]_vars => BlockInv'
  BY BlockInvStep
<1> QED
  BY InitBlockInv, <1>1, <1>2, <1>3, SpecTypeOK, PTL
  DEF Spec, KillSwitchSpec, KillSwitch!Spec

----------------------------------------------------------------------------
\* The supervisor and its flows

\* Where a flow stands says what it holds.
FlowHolds ==
  /\ holder = Nobody <=> at = "idle"
  /\ at # "idle" => mons = 0
  /\ cur # 0 => cur = last
  /\ at \in {"start", "poll", "killed", "helper"} => cur = 0
  /\ at \in {"verify", "grace", "forced", "clear"} => cur # 0
  /\ at \in {"poll", "killed", "helper"} => last # 0

\* Only a process that is gone has its exit on the channel.
ExitIsReal == \A s \in Sessions : done[s] = "full" => proc[s] = "gone"

\* A manager says Running only as the current one, or while Start has it.
RunningIsHeld ==
  \A s \in Sessions : status[s] = "running" =>
    s = cur \/ (s = last /\ at \in {"poll", "killed"})

SupInv == SupTypeOK /\ FlowHolds /\ ExitIsReal /\ RunningIsHeld /\ Supervised

USE SessionsAssumption, WatcherAssumption
    DEF Sessions, Nobody, User, FlowSteps, Watch, cores, watchers, lock

\* A step of one watcher leaves a watcher.
LEMMA OneWatch ==
  ASSUME SupTypeOK, NEW s \in Sessions, NEW w \in Watch, watch' = [watch EXCEPT ![s] = w]
  PROVE  watch' \in [Sessions -> Watch]
  BY DEF SupTypeOK

LEMMA WatchAt ==
  ASSUME NEW w \in Watch, NEW a \in {"poll", "held"}
  PROVE  [w EXCEPT !.at = a] \in Watch
  OBVIOUS

\* What a poll makes of a watcher is a watcher.
LEMMA SeenTyped ==
  ASSUME NEW w \in Watch, NEW v \in Nets
  PROVE  Seen(w, v) \in Watch
<1>1. [w EXCEPT !.pending = NoNet, !.rounds = 0] \in Watch
  OBVIOUS
<1>2. [w EXCEPT !.rounds = w.rounds + 1] \in Watch
  OBVIOUS
<1>3. [w EXCEPT !.pending = v, !.rounds = 1] \in Watch
  OBVIOUS
<1> QED  BY <1>1, <1>2, <1>3 DEF Seen

LEMMA BaseTyped ==
  ASSUME NEW w \in Watch, NEW v \in Nets \cup {NoNet}
  PROVE  [w EXCEPT !.at = "poll", !.base = v] \in Watch
  OBVIOUS

LEMMA ReleaseTyped ==
  ASSUME SupTypeOK, Release
  PROVE  /\ holder' = Nobody /\ at' = "idle" /\ goal' = "down"
         /\ watch' \in [Sessions -> Watch]
<1>1. \A s \in Sessions : [watch[s] EXCEPT !.at = "poll"] \in Watch
  BY WatchAt DEF SupTypeOK
<1> QED  BY <1>1 DEF Release, SupTypeOK

LEMMA KilledTyped ==
  ASSUME SupTypeOK, NEW s
  PROVE  Killed(s) \in [Sessions -> {"none", "live", "root", "doomed", "gone"}]
  BY DEF SupTypeOK, Killed

LEMMA SupTyped == SupTypeOK /\ [SupNext]_supVars => SupTypeOK'
<1> SUFFICES ASSUME SupTypeOK, [SupNext]_supVars  PROVE SupTypeOK'
  OBVIOUS
<1> USE DEF SupTypeOK
<1>1. CASE LaunchFails  BY <1>1, ReleaseTyped DEF LaunchFails
<1>2. CASE Start
  <2>1. last + 1 \in Sessions
    BY <1>2 DEF Start
  <2>2. PICK p \in {"live", "root"} : proc' = [proc EXCEPT ![last + 1] = p]
    BY <1>2 DEF Start
  <2>3. proc' \in [Sessions -> {"none", "live", "root", "doomed", "gone"}]
    BY <2>2
  <2> QED  BY <1>2, <2>1, <2>3 DEF Start
<1>3. CASE Ready  BY <1>3 DEF Ready
<1>4. CASE GivesUp  BY <1>4 DEF GivesUp, Killed
<1>5. CASE SeesExit  BY <1>5 DEF SeesExit
<1>6. CASE StartGaveUp  BY <1>6, ReleaseTyped DEF StartGaveUp
<1>7. CASE ChecksFail  BY <1>7 DEF ChecksFail
<1>8. CASE StartMonitors  BY <1>8 DEF StartMonitors, Idle
<1>9. CASE NothingToStop
  <2>1. CASE goal = "up"  BY <1>9, <2>1 DEF NothingToStop
  <2>2. CASE goal # "up"  BY <1>9, <2>2, ReleaseTyped DEF NothingToStop
  <2> QED  BY <2>1, <2>2
<1>10. CASE Terminate  BY <1>10 DEF Terminate, Terminated, Killed
<1>11. CASE TakeExit  BY <1>11 DEF TakeExit
<1>12. CASE GraceOver  BY <1>12 DEF GraceOver, Killed
<1>13. CASE ForcedOver  BY <1>13 DEF ForcedOver
<1>14. CASE Clear
  <2>1. proc' \in [Sessions -> {"none", "live", "root", "doomed", "gone"}]
    BY <1>14, KilledTyped DEF Clear
  <2>2. status' \in [Sessions -> {"stopped", "running", "failed"}]
    BY <1>14 DEF Clear
  <2>3. done' \in [Sessions -> {"none", "empty", "full"}]
    BY <1>14 DEF Clear
  <2> QED  BY <1>14, <2>1, <2>2, <2>3 DEF Clear
<1>15. CASE EnsureGone  BY <1>15 DEF EnsureGone
<1>16. CASE UserConnects  BY <1>16 DEF UserConnects
<1>17. CASE UserDisconnects  BY <1>17 DEF UserDisconnects
<1>18. CASE NetChanges  BY <1>18 DEF NetChanges
<1>19. ASSUME NEW s \in Sessions, CoreStep(s)  PROVE SupTypeOK'
  <2>1. CASE Exits(s)  BY <2>1 DEF Exits
  <2>2. CASE Reap(s)  BY <2>2 DEF Reap
  <2>3. CASE MarkFailed(s)  BY <2>3 DEF MarkFailed
  <2> QED  BY <1>19, <2>1, <2>2, <2>3 DEF CoreStep
<1>20. ASSUME NEW s \in Sessions, Poll(s)  PROVE SupTypeOK'
  <2>1. watch' \in [Sessions -> Watch]
    <3> DEFINE w == Seen(watch[s], net)
    <3>1. w \in Watch
      BY SeenTyped
    <3>2. Settles(w) \in Watch
      BY <3>1 DEF Settles
    <3>3. watch' = [watch EXCEPT ![s] = IF w.rounds >= Confirm THEN Settles(w) ELSE w]
      BY <1>20 DEF Poll
    <3> HIDE DEF w
    <3> QED  BY <3>1, <3>2, <3>3, OneWatch
  <2>2. recent' \in [Sessions -> Seq(Nets)]
    BY <1>20 DEF Poll, Remember
  <2> QED  BY <1>20, <2>1, <2>2 DEF Poll
<1>21. ASSUME NEW s \in Sessions, Baseline(s) \/ WatcherEnds(s)  PROVE SupTypeOK'
  <2>1. CASE Baseline(s)
    <3>1. PICK v \in {net, NoNet} :
            watch' = [watch EXCEPT ![s] = [@ EXCEPT !.at = "poll", !.base = v]]
      BY <2>1 DEF Baseline
    <3>2. [watch[s] EXCEPT !.at = "poll", !.base = v] \in Watch
      BY BaseTyped
    <3>3. watch' \in [Sessions -> Watch]
      BY <3>1, <3>2
    <3> QED  BY <2>1, <3>3 DEF Baseline
  <2>2. CASE WatcherEnds(s)
    <3>1. [Idle EXCEPT !.at = "ended"] \in Watch
      BY DEF Idle
    <3>2. watch' \in [Sessions -> Watch]
      BY <2>2, <3>1, OneWatch DEF WatcherEnds
    <3> QED  BY <2>2, <3>2 DEF WatcherEnds
  <2> QED  BY <1>21, <2>1, <2>2
<1>22. ASSUME NEW s \in Sessions, CallbackReturns(s) \/ Reconnect(s)  PROVE SupTypeOK'
  <2>1. PICK a \in {"poll", "held"} : watch' = [watch EXCEPT ![s] = [watch[s] EXCEPT !.at = a]]
    BY <1>22 DEF CallbackReturns, Reconnect
  <2>2. watch' \in [Sessions -> Watch]
    BY <2>1, OneWatch, WatchAt
  <2> QED  BY <1>22, <2>2 DEF CallbackReturns, Reconnect
<1>23. CASE UNCHANGED supVars  BY <1>23 DEF supVars
<1> QED
  BY <1>1, <1>2, <1>3, <1>4, <1>5, <1>6, <1>7, <1>8, <1>9, <1>10, <1>11, <1>12, <1>13,
     <1>14, <1>15, <1>16, <1>17, <1>18, <1>19, <1>20, <1>21, <1>22, <1>23
     DEF SupNext, FlowStep, WatchStep

\* A step keeps what the flow holds, and the exits and the states of managers
\* true to their processes.
LEMMA SupStep ==
  ASSUME SupInv, SupTypeOK', [SupNext]_supVars
  PROVE  (FlowHolds /\ ExitIsReal /\ RunningIsHeld /\ Supervised)'
<1> USE DEF SupInv, SupTypeOK, FlowHolds, ExitIsReal, RunningIsHeld, Supervised
<1>1. CASE LaunchFails  BY <1>1 DEF LaunchFails, Release
<1>2. CASE Start
  <2>1. PICK p \in {"live", "root"} : proc' = [proc EXCEPT ![last + 1] = p]
    BY <1>2 DEF Start
  <2> QED  BY <1>2, <2>1 DEF Start
<1>3. CASE Ready  BY <1>3 DEF Ready
<1>4. CASE GivesUp  BY <1>4 DEF GivesUp, Killed
<1>5. CASE SeesExit  BY <1>5 DEF SeesExit
<1>6. CASE StartGaveUp  BY <1>6 DEF StartGaveUp, Release
<1>7. CASE ChecksFail  BY <1>7 DEF ChecksFail
<1>8. CASE StartMonitors  BY <1>8 DEF StartMonitors
<1>9. CASE NothingToStop  BY <1>9 DEF NothingToStop, Release
<1>10. CASE Terminate  BY <1>10 DEF Terminate, Terminated, Killed
<1>11. CASE TakeExit  BY <1>11 DEF TakeExit
<1>12. CASE GraceOver  BY <1>12 DEF GraceOver, Killed
<1>13. CASE ForcedOver  BY <1>13 DEF ForcedOver
<1>14. CASE Clear  BY <1>14 DEF Clear, Killed
<1>15. CASE EnsureGone  BY <1>15 DEF EnsureGone
<1>16. CASE UserConnects  BY <1>16 DEF UserConnects
<1>17. CASE UserDisconnects  BY <1>17 DEF UserDisconnects
<1>18. CASE NetChanges  BY <1>18 DEF NetChanges
<1>19. ASSUME NEW s \in Sessions, CoreStep(s)
       PROVE  (FlowHolds /\ ExitIsReal /\ RunningIsHeld /\ Supervised)'
  <2>1. CASE Exits(s)  BY <2>1 DEF Exits
  <2>2. CASE Reap(s)  BY <2>2 DEF Reap
  <2>3. CASE MarkFailed(s)  BY <2>3 DEF MarkFailed
  <2> QED  BY <1>19, <2>1, <2>2, <2>3 DEF CoreStep
<1>20. ASSUME NEW s \in Sessions, WatchStep(s)
       PROVE  (FlowHolds /\ ExitIsReal /\ RunningIsHeld /\ Supervised)'
  <2>1. CASE Reconnect(s)  BY <2>1 DEF Reconnect
  <2>2. CASE ~Reconnect(s)
    <3>1. UNCHANGED <<holder, at, cur, last, proc, status, done, mons>>
      BY <1>20, <2>2
         DEF WatchStep, Baseline, Poll, WatcherEnds, CallbackReturns
    <3> QED  BY <3>1
  <2> QED  BY <2>1, <2>2
<1>21. CASE UNCHANGED supVars  BY <1>21 DEF supVars
<1> QED
  BY <1>1, <1>2, <1>3, <1>4, <1>5, <1>6, <1>7, <1>8, <1>9, <1>10, <1>11, <1>12, <1>13,
     <1>14, <1>15, <1>16, <1>17, <1>18, <1>19, <1>20, <1>21 DEF SupNext, FlowStep

\* What SpecSupTypeOK, SpecSupervised and SpecRealExits have in common.
LEMMA SupInductive == SupSpec => []SupInv
<1> USE DEF SupInv
<1>1. SupInit => SupInv
  BY DEF SupInit, SupTypeOK, FlowHolds, ExitIsReal, RunningIsHeld, Supervised, Idle
<1>2. SupInv /\ [SupNext]_supVars => SupInv'
  BY SupTyped, SupStep
<1> QED  BY <1>1, <1>2, PTL DEF SupSpec

\* Every variable keeps its type.
THEOREM SpecSupTypeOK == SupSpec => []SupTypeOK
<1>1. SupInv => SupTypeOK
  BY DEF SupInv
<1> QED  BY <1>1, SupInductive, PTL

\* No core that the daemon can signal is ever left to itself, through every
\* deadline, exit and stop, however many sessions there are.
THEOREM SpecSupervised == SupSpec => []Supervised
<1>1. SupInv => Supervised
  BY DEF SupInv
<1> QED  BY <1>1, SupInductive, PTL

\* Two cores within reach of the daemon's signals are one and the same.
OneCore == \A r, s \in Sessions : proc[r] = "live" /\ proc[s] = "live" => r = s

THEOREM SpecOneCore == SupSpec => []OneCore
<1>1. SupInv => OneCore
  BY DEF SupInv, SupTypeOK, FlowHolds, Supervised, OneCore
<1> QED  BY <1>1, SupInductive, PTL

\* The exit that a Start or a Stop receives is that of a process that is gone,
\* and a manager that says Running is the daemon's current one or the one its
\* Start still waits for.
THEOREM SpecRealExits == SupSpec => [](ExitIsReal /\ RunningIsHeld)
<1>1. SupInv => ExitIsReal /\ RunningIsHeld
  BY DEF SupInv
<1> QED  BY <1>1, SupInductive, PTL

----------------------------------------------------------------------------
\* The watcher

\* The latest polls q agree, and the rounds that a watcher w has counted for the
\* fingerprint that is pending are among them.
Counted(w, q) ==
  /\ Len(q) <= Confirm
  /\ \A i, j \in 1..Len(q) : q[i] = q[j]
  /\ w.rounds < Confirm
  /\ w.rounds > 0 => /\ w.pending \in Nets /\ w.pending # w.base
                     /\ Len(q) >= w.rounds /\ q[1] = w.pending
  /\ w.pending \in Nets => w.rounds > 0
  /\ w.at = "base" => w.rounds = 0

WatchInv == SupTypeOK /\ \A s \in Sessions : Counted(watch[s], recent[s])

Remembered(q, v) ==
  IF q = <<>> \/ v # Head(q) THEN <<v>>
  ELSE IF Len(q) < Confirm THEN Append(q, v) ELSE q

\* One more poll: the polls remembered are v, and as many as before if they were.
LEMMA RememberedAgrees ==
  ASSUME NEW q \in Seq(Nets), NEW v \in Nets, Len(q) <= Confirm,
         \A i, j \in 1..Len(q) : q[i] = q[j]
  PROVE  LET r == Remembered(q, v) IN
         /\ r \in Seq(Nets) /\ Len(r) \in 1..Confirm
         /\ \A i \in 1..Len(r) : r[i] = v
         /\ Len(q) > 0 /\ q[1] = v => Len(r) = Confirm \/ Len(r) = Len(q) + 1
<1>1. CASE q = <<>> \/ v # Head(q)
  BY <1>1 DEF Remembered
<1>2. CASE q # <<>> /\ v = Head(q) /\ Len(q) < Confirm
  <2>1. \A i \in 1..Len(q) : q[i] = v
    BY <1>2
  <2> QED  BY <1>2, <2>1 DEF Remembered
<1>3. CASE q # <<>> /\ v = Head(q) /\ Len(q) = Confirm
  BY <1>3 DEF Remembered
<1> QED  BY <1>1, <1>2, <1>3

\* A poll either keeps the count right, or it is the last that was missing and
\* the watcher takes over what the last Confirm polls agreed on.
LEMMA PollCounts ==
  ASSUME NEW w \in Watch, NEW q \in Seq(Nets), NEW v \in Nets, Counted(w, q),
         w.at = "poll"
  PROVE  LET n == Seen(w, v)  r == Remembered(q, v) IN
         /\ n.rounds < Confirm => n.at = "poll" /\ Counted(n, r)
         /\ n.rounds >= Confirm =>
              /\ Counted(Settles(n), r)
              /\ Settles(n).base # w.base
              /\ r = [i \in 1..Confirm |-> Settles(n).base]
<1> DEFINE n == Seen(w, v)
           r == Remembered(q, v)
<1>1. /\ r \in Seq(Nets) /\ Len(r) \in 1..Confirm
      /\ \A i \in 1..Len(r) : r[i] = v
      /\ Len(q) > 0 /\ q[1] = v => Len(r) = Confirm \/ Len(r) = Len(q) + 1
  BY RememberedAgrees DEF Counted
<1>2. CASE v = w.base
  <2>1. n = [w EXCEPT !.pending = NoNet, !.rounds = 0]
    BY <1>2 DEF Seen
  <2>2. n.at = "poll" /\ n.rounds = 0 /\ n.pending = NoNet
    BY <2>1
  <2> QED  BY <1>1, <2>2 DEF Counted
<1>3. CASE v # w.base /\ v = w.pending
  <2>1. n = [w EXCEPT !.rounds = w.rounds + 1]
    BY <1>3 DEF Seen
  <2>2. /\ n.at = "poll" /\ n.rounds = w.rounds + 1
        /\ n.pending = v /\ n.base = w.base
    BY <1>3, <2>1
  <2>3. Len(r) = Confirm \/ Len(r) >= w.rounds + 1
    BY <1>1, <1>3 DEF Counted
  <2>4. n.rounds < Confirm => Counted(n, r)
    BY <1>1, <1>3, <2>2, <2>3 DEF Counted
  <2>5. ASSUME n.rounds >= Confirm
        PROVE  /\ Counted(Settles(n), r) /\ Settles(n).base # w.base
               /\ r = [i \in 1..Confirm |-> Settles(n).base]
    <3>1. Len(r) = Confirm
      BY <1>1, <2>2, <2>3, <2>5 DEF Counted
    <3>2. /\ Settles(n).base = v /\ Settles(n).pending = NoNet
          /\ Settles(n).rounds = 0 /\ Settles(n).at = "call"
      BY <2>2 DEF Settles
    <3>3. r = [i \in 1..Confirm |-> v]
      BY <1>1, <3>1
    <3> QED  BY <1>1, <1>3, <3>2, <3>3 DEF Counted
  <2> QED  BY <2>2, <2>4, <2>5
<1>4. CASE v # w.base /\ v # w.pending
  <2>1. n = [w EXCEPT !.pending = v, !.rounds = 1]
    BY <1>4 DEF Seen
  <2>2. n.at = "poll" /\ n.rounds = 1 /\ n.pending = v /\ n.base = w.base
    BY <2>1
  <2>3. n.rounds < Confirm => Counted(n, r)
    BY <1>1, <1>4, <2>2 DEF Counted
  <2>4. ASSUME n.rounds >= Confirm
        PROVE  /\ Counted(Settles(n), r) /\ Settles(n).base # w.base
               /\ r = [i \in 1..Confirm |-> Settles(n).base]
    <3>1. Len(r) = Confirm
      BY <1>1, <2>2, <2>4
    <3>2. /\ Settles(n).base = v /\ Settles(n).pending = NoNet
          /\ Settles(n).rounds = 0 /\ Settles(n).at = "call"
      BY <2>2 DEF Settles
    <3>3. r = [i \in 1..Confirm |-> v]
      BY <1>1, <3>1
    <3> QED  BY <1>1, <1>4, <3>2, <3>3 DEF Counted
  <2> QED  BY <2>2, <2>3, <2>4
<1> QED  BY <1>2, <1>3, <1>4

\* A watcher that only moves, but not to its start, keeps its count.
LEMMA MoveCounts ==
  ASSUME NEW w \in Watch, NEW a \in {"poll", "held"}, NEW q, Counted(w, q)
  PROVE  Counted([w EXCEPT !.at = a], q)
  BY DEF Counted

\* A step that is no poll keeps every count, and starts no callback.
LEMMA OthersCount ==
  ASSUME WatchInv, SupTypeOK', SupNext, NEW s \in Sessions, ~Poll(s)
  PROVE  /\ Counted(watch[s], recent[s])'
         /\ watch'[s].at = "call" => watch[s].at = "call"
<1> USE DEF WatchInv
<1>0. watch[s] \in Watch /\ Counted(watch[s], recent[s]) /\ recent[s] \in Seq(Nets)
  BY DEF SupTypeOK
<1>1. CASE UNCHANGED <<watch[s], recent[s]>>
  BY <1>0, <1>1
<1>2. CASE /\ recent'[s] = recent[s]
           /\ \E a \in {"poll", "held"} : watch'[s] = [watch[s] EXCEPT !.at = a]
  <2>1. PICK a \in {"poll", "held"} : watch'[s] = [watch[s] EXCEPT !.at = a]
    BY <1>2
  <2>2. watch'[s].at # "call"
    BY <1>0, <2>1
  <2>3. Counted([watch[s] EXCEPT !.at = a], recent[s])
    BY <1>0, MoveCounts
  <2> QED  BY <1>2, <2>1, <2>2, <2>3
<1>3. CASE Release /\ UNCHANGED recent
  BY <1>1, <1>2, <1>3 DEF Release, SupTypeOK
<1>4. CASE StartMonitors
  <2>1. recent'[s] = recent[s]
    BY <1>4 DEF StartMonitors
  <2>2. CASE s = cur
    <3>1. watch'[s] = [Idle EXCEPT !.at = "base"]
      BY <1>4, <2>2 DEF StartMonitors, SupTypeOK
    <3>2. /\ watch'[s].at = "base" /\ watch'[s].rounds = 0
          /\ watch'[s].pending = NoNet
      BY <3>1 DEF Idle
    <3> QED  BY <1>0, <2>1, <3>2 DEF Counted
  <2>3. CASE s # cur
    BY <1>1, <1>2, <1>4, <2>1, <2>3 DEF StartMonitors, SupTypeOK
  <2> QED  BY <2>2, <2>3
<1>5. CASE Reconnect(s) \/ CallbackReturns(s)
  BY <1>2, <1>5 DEF Reconnect, CallbackReturns, SupTypeOK
<1>6. CASE Baseline(s)
  <2>1. PICK v \in {net, NoNet} : watch'[s] = [watch[s] EXCEPT !.at = "poll", !.base = v]
    BY <1>6 DEF Baseline, SupTypeOK
  <2>2. /\ watch'[s].at = "poll" /\ watch'[s].rounds = watch[s].rounds
        /\ watch'[s].pending = watch[s].pending
    BY <1>0, <2>1
  <2>3. recent'[s] = recent[s] /\ watch[s].at = "base"
    BY <1>6 DEF Baseline
  <2> QED  BY <1>0, <2>2, <2>3 DEF Counted
<1>7. CASE WatcherEnds(s)
  <2>1. watch'[s] = [Idle EXCEPT !.at = "ended"] /\ recent'[s] = <<>>
    BY <1>7 DEF WatcherEnds, SupTypeOK
  <2>2. /\ watch'[s].at = "ended" /\ watch'[s].rounds = 0
        /\ watch'[s].pending = NoNet
    BY <2>1 DEF Idle
  <2> QED  BY <2>1, <2>2 DEF Counted
<1>8. CASE /\ ~(Release /\ UNCHANGED recent) /\ ~StartMonitors
           /\ ~(Reconnect(s) \/ CallbackReturns(s)) /\ ~Baseline(s) /\ ~WatcherEnds(s)
  <2>1. CASE FlowStep
    BY <1>1, <1>8, <2>1
       DEF FlowStep, LaunchFails, Start, Ready, GivesUp, SeesExit, StartGaveUp,
           ChecksFail, NothingToStop, Terminate, TakeExit, GraceOver, ForcedOver,
           Clear, EnsureGone
  <2>2. CASE UserConnects \/ UserDisconnects \/ NetChanges
    BY <1>1, <2>2 DEF UserConnects, UserDisconnects, NetChanges
  <2>3. ASSUME NEW r \in Sessions, CoreStep(r)
        PROVE  UNCHANGED <<watch[s], recent[s]>>
    BY <2>3 DEF CoreStep, Exits, Reap, MarkFailed
  <2>4. ASSUME NEW r \in Sessions, WatchStep(r)
        PROVE  UNCHANGED <<watch[s], recent[s]>>
    <3>1. r # s
      BY <1>8, <2>4 DEF WatchStep
    <3>2. /\ \E w : watch' = [watch EXCEPT ![r] = w]
          /\ recent' = recent \/ \E q : recent' = [recent EXCEPT ![r] = q]
      BY <2>4 DEF WatchStep, Baseline, Poll, Remember, WatcherEnds, CallbackReturns,
                  Reconnect, SupTypeOK
    <3> QED  BY <3>1, <3>2 DEF SupTypeOK
  <2> QED  BY <1>1, <2>1, <2>2, <2>3, <2>4 DEF SupNext
<1> QED  BY <1>3, <1>4, <1>5, <1>6, <1>7, <1>8

LEMMA PollStep ==
  ASSUME WatchInv, NEW s \in Sessions, Poll(s)
  PROVE  /\ Counted(watch[s], recent[s])'
         /\ watch'[s].at = "call" =>
              /\ watch'[s].base # watch[s].base
              /\ recent'[s] = [i \in 1..Confirm |-> watch'[s].base]
<1> DEFINE w == watch[s]
           q == recent[s]
           n == Seen(w, net)
<1>1. w \in Watch /\ q \in Seq(Nets) /\ net \in Nets /\ Counted(w, q) /\ w.at = "poll"
  BY DEF WatchInv, SupTypeOK, Poll
<1>2. n \in Watch
  BY <1>1, SeenTyped
<1>3. watch'[s] = IF n.rounds >= Confirm THEN Settles(n) ELSE n
  BY DEF Poll, WatchInv, SupTypeOK
<1>4. recent'[s] = Remembered(q, net)
  BY DEF Poll, Remember, Remembered, WatchInv, SupTypeOK
<1>5. /\ n.rounds < Confirm => n.at = "poll" /\ Counted(n, Remembered(q, net))
      /\ n.rounds >= Confirm =>
           /\ Counted(Settles(n), Remembered(q, net))
           /\ Settles(n).base # w.base
           /\ Remembered(q, net) = [i \in 1..Confirm |-> Settles(n).base]
  BY <1>1, PollCounts
<1>6. n.rounds \in Nat
  BY <1>2
<1>7. CASE n.rounds < Confirm
  BY <1>3, <1>4, <1>5, <1>6, <1>7
<1>8. CASE n.rounds >= Confirm
  BY <1>3, <1>4, <1>5, <1>6, <1>8
<1> QED  BY <1>6, <1>7, <1>8

\* A callback runs for a network change that Confirm polls in a row agreed on,
\* for every number of sessions and rounds and every set of networks.
THEOREM SpecConfirmedChange == SupSpec => ConfirmedChange
<1> DEFINE Sure == \A s \in Sessions :
             watch[s].at = "poll" /\ watch'[s].at = "call" =>
               /\ watch'[s].base # watch[s].base
               /\ recent'[s] = [i \in 1..Confirm |-> watch'[s].base]
<1>1. SupInit => WatchInv
  BY DEF SupInit, WatchInv, Counted, Idle, SupTypeOK
<1>2. WatchInv /\ [SupNext]_supVars => WatchInv' /\ [Sure]_supVars
  <2> SUFFICES ASSUME WatchInv, [SupNext]_supVars
               PROVE  WatchInv' /\ [Sure]_supVars
    OBVIOUS
  <2>1. SupTypeOK'
    BY SupTyped DEF WatchInv
  <2>2. CASE UNCHANGED supVars
    <3>1. UNCHANGED <<watch, recent>>
      BY <2>2 DEF supVars
    <3> QED  BY <2>1, <2>2, <3>1 DEF WatchInv
  <2>3. CASE SupNext
    BY <2>1, <2>3, OthersCount, PollStep DEF WatchInv
  <2> QED  BY <2>2, <2>3
<1> QED  BY <1>1, <1>2, PTL DEF SupSpec, ConfirmedChange
============================================================================
