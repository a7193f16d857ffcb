--------------------------- MODULE UpdateManager ---------------------------
(***************************************************************************)
(* The update manager of the daemon (backend/internal/update/manager.go    *)
(* and state.go): check, download, verify, stage, hand off, with cancel    *)
(* and dismiss.                                                            *)
(*                                                                         *)
(* Every operation releases m.mu for its slow phase and decides what its   *)
(* answer is worth when it has the lock again, by looking at the state     *)
(* alone.  An operation the user cancelled may therefore come back while   *)
(* a later one is under way; ops holds all of them.  What the updater does *)
(* with the contract is the subject of UpdateHandoff; backoff and check    *)
(* spacing only make checks rarer and are left out.                        *)
(***************************************************************************)
CONSTANTS
  Releases,  \* the releases a provider may answer with
  Ops,       \* identities of operations in flight, reused (the bound on them)
  None

ASSUME ReleasesAssumption == None \notin Releases
ASSUME OpsAssumption == Ops # {} /\ None \notin Ops

VARIABLES
  status,     \* m.status.State
  pending,    \* m.pending: the release the last check found
  artifact,   \* m.artifact: "none", "delta" or "full"
  staged,     \* m.staged: the release whose verified artifact lies there
  cancel,     \* m.cancel: the operation it would stop
  dismissed,  \* m.cache.Dismissed
  contract,   \* pending.json: the release handed to an updater, or None
  trees,      \* the stage root: releases whose assembled tree lies there
  ops         \* the operations in flight

vars == <<status, pending, artifact, staged, cancel, dismissed, contract,
          trees, ops>>

States == {"idle", "checking", "no-update", "update-available", "downloading",
           "verifying", "staging", "installing", "restarting", "updated",
           "cancelled", "failed", "rolled-back"}

\* Mutation of Allowed: a verified download has no way back to the offer.
AllowedShort(s) ==
  CASE s \in {"idle", "no-update", "updated", "cancelled", "failed",
              "rolled-back"} -> {"checking", "idle", "updated", "failed"}
    [] s = "checking"    -> {"no-update", "update-available", "failed", "cancelled"}
    [] s = "update-available" -> {"downloading", "staging", "checking", "idle"}
    [] s = "downloading" -> {"verifying", "failed", "cancelled"}
    [] s = "verifying"   -> {"staging", "failed", "cancelled"}
    [] s = "staging"     -> {"installing", "failed", "cancelled"}
    [] s \in {"installing", "restarting"} -> {"restarting", "failed", "cancelled"}

\* The table of state.go.
Allowed(s) ==
  CASE s = "idle"        -> {"checking", "updated", "failed"}
    [] s = "checking"    -> {"no-update", "update-available", "failed", "cancelled"}
    [] s = "no-update"   -> {"checking"}
    [] s = "update-available" -> {"downloading", "staging", "checking",
                                  "cancelled", "idle"}
    [] s = "downloading" -> {"verifying", "failed", "cancelled"}
    [] s = "verifying"   -> {"staging", "update-available", "failed", "cancelled"}
    [] s = "staging"     -> {"installing", "failed", "cancelled"}
    [] s = "installing"  -> {"restarting", "failed", "rolled-back"}
    [] s = "restarting"  -> {"updated", "failed", "rolled-back", "cancelled"}
    [] s = "updated"     -> {"checking"}
    [] s \in {"cancelled", "failed", "rolled-back"} -> {"checking", "idle"}

\* setState: an illegal transition is logged and ignored.
SetState(s, to) == IF to \in Allowed(s) THEN to ELSE s

Resting == {"idle", "no-update", "updated", "cancelled", "failed",
            "rolled-back", "update-available"}

\* An operation: where it is, the release and artifact it works on, and the
\* context it runs under.
NoOp == [at |-> "none", rel |-> None, kind |-> "none", ctx |-> "live"]
Steps == {"none", "check", "fetch", "verify", "assemble", "fallback", "settle",
          "broken"}

TypeOK ==
  /\ status \in States
  /\ pending \in Releases \cup {None} /\ staged \in Releases \cup {None}
  /\ artifact \in {"none", "delta", "full"}
  /\ cancel \in Ops \cup {None}
  /\ dismissed \in Releases \cup {None}
  /\ contract \in Releases \cup {None} /\ trees \subseteq Releases
  /\ ops \in [Ops -> [at : Steps, rel : Releases \cup {None},
                      kind : {"none", "delta", "full"}, ctx : {"live", "stopped"}]]

Init ==
  /\ status = "idle" /\ pending = None /\ artifact = "none" /\ staged = None
  /\ cancel = None /\ dismissed = None /\ contract = None
  /\ trees = {}
  /\ ops = [o \in Ops |-> NoOp]

----------------------------------------------------------------------------
\* Operations come and go

Free(o) == ops[o].at = "none"
Open(o, step) ==
  ops' = [ops EXCEPT ![o] = [NoOp EXCEPT !.at = step, !.rel = pending,
                                         !.kind = artifact]]
Step(o, step) == ops' = [ops EXCEPT ![o].at = step]
Close(o) == ops' = [ops EXCEPT ![o] = NoOp]

\* StartCheck, after the spacing and backoff guards of an automatic check.
StartCheck(o) ==
  /\ Free(o) /\ status \in Resting
  /\ status' = SetState(status, "checking")
  /\ ops' = [ops EXCEPT ![o] = [NoOp EXCEPT !.at = "check"]]
  /\ UNCHANGED <<pending, artifact, staged, cancel, dismissed, contract, trees>>

\* RunCheck after the network call: the answer counts if the state is checking.
CheckIgnored(o) ==
  /\ ops[o].at = "check" /\ status # "checking"
  /\ Close(o)
  /\ UNCHANGED <<status, pending, artifact, staged, cancel, dismissed, contract, trees>>

\* No update, or an error, an untrusted manifest, no artifact for us.
CheckEmpty(o) ==
  /\ ops[o].at = "check" /\ status = "checking"
  /\ \E to \in {"no-update", "failed"} : status' = SetState(status, to)
  /\ Close(o)
  /\ UNCHANGED <<pending, artifact, staged, cancel, dismissed, contract, trees>>

\* Mutation of CheckFound: a dismissed release is offered again.
OfferAgain(o) ==
  /\ ops[o].at = "check" /\ status = "checking"
  /\ pending' \in Releases /\ artifact' \in {"delta", "full"}
  /\ staged' = None
  /\ status' = SetState(status, "update-available")
  /\ Close(o)
  /\ UNCHANGED <<cancel, dismissed, contract, trees>>

\* A verified release: it replaces what was pending and what was staged.
CheckFound(o) ==
  /\ ops[o].at = "check" /\ status = "checking"
  /\ pending' \in Releases /\ artifact' \in {"delta", "full"}
  /\ staged' = None
  /\ status' = SetState(status, IF pending' = dismissed THEN "no-update"
                                ELSE "update-available")
  /\ Close(o)
  /\ UNCHANGED <<cancel, dismissed, contract, trees>>

----------------------------------------------------------------------------
\* Download

StartDownload(o) ==
  /\ Free(o)
  /\ status = "update-available" /\ pending # None /\ artifact # "none"
  /\ status' = SetState(status, "downloading")
  /\ cancel' = o
  /\ Open(o, "fetch")
  /\ UNCHANGED <<pending, artifact, staged, dismissed, contract, trees>>

\* Mutation of FetchFails: a stopped fetch leaves without a word.
FetchVanishes(o) ==
  /\ ops[o].at = "fetch"
  /\ cancel' = None
  /\ Close(o)
  /\ UNCHANGED <<status, pending, artifact, staged, dismissed, contract, trees>>

\* The fetch fails; a cancelled or expired context reports cancelled.
FetchFails(o) ==
  /\ ops[o].at = "fetch"
  /\ cancel' = None
  /\ \E to \in {"failed", "cancelled"} :
       /\ ops[o].ctx = "stopped" => to = "cancelled"
       /\ status' = SetState(status, to)
  /\ Close(o)
  /\ UNCHANGED <<pending, artifact, staged, dismissed, contract, trees>>

\* The bytes are there; they are dropped unless the state is downloading.
Fetched(o) ==
  /\ ops[o].at = "fetch"
  /\ cancel' = None
  /\ IF status = "downloading"
     THEN status' = SetState(status, "verifying") /\ Step(o, "verify")
     ELSE Close(o) /\ UNCHANGED status
  /\ UNCHANGED <<pending, artifact, staged, dismissed, contract, trees>>

\* The hash is compared, however long that takes, and the state looked at.
VerifyIgnored(o) ==
  /\ ops[o].at = "verify" /\ status # "verifying"
  /\ Close(o)
  /\ UNCHANGED <<status, pending, artifact, staged, cancel, dismissed, contract, trees>>

VerifyFails(o) ==
  /\ ops[o].at = "verify" /\ status = "verifying"
  /\ status' = SetState(status, "failed")
  /\ Close(o)
  /\ UNCHANGED <<pending, artifact, staged, cancel, dismissed, contract, trees>>

Verified(o) ==
  /\ ops[o].at = "verify" /\ status = "verifying"
  /\ staged' = ops[o].rel
  /\ status' = SetState(status, "update-available")
  /\ Close(o)
  /\ UNCHANGED <<pending, artifact, cancel, dismissed, contract, trees>>

----------------------------------------------------------------------------
\* Install

StartInstall(o) ==
  /\ Free(o)
  /\ status = "update-available" /\ pending # None /\ artifact # "none"
  /\ staged # None
  /\ status' = SetState(status, "staging")
  /\ cancel' = o
  /\ Open(o, "assemble")
  /\ UNCHANGED <<pending, artifact, staged, dismissed, contract, trees>>

\* Assemble returns, with a tree (one that is there is kept) or an error; a delta
\* that does not apply is followed by the full artifact when there is one.
Assembled(o) ==
  /\ ops[o].at = "assemble"
  /\ \/ Step(o, "settle") /\ trees' = trees \cup {ops[o].rel}
     \/ Step(o, "broken") /\ UNCHANGED trees
     \/ ops[o].kind = "delta" /\ Step(o, "fallback") /\ UNCHANGED trees
  /\ UNCHANGED <<status, pending, artifact, staged, cancel, dismissed, contract>>

\* fetchVerified of the full artifact; it replaces what is staged, whatever the
\* state, and is assembled in turn.  A stopped context leaves Assemble nothing but
\* a tree that is there already.
FallBack(o) ==
  /\ ops[o].at = "fallback"
  /\ \/ /\ staged' = ops[o].rel /\ artifact' = "full"
        /\ ops' = [ops EXCEPT
             ![o].kind = "full",
             ![o].at = CASE ops[o].ctx = "live" -> "assemble"
                         [] ops[o].ctx = "stopped" /\ ops[o].rel \in trees -> "settle"
                         [] OTHER -> "broken"]
     \/ Step(o, "broken") /\ UNCHANGED <<staged, artifact>>
  /\ UNCHANGED <<status, pending, cancel, dismissed, contract, trees>>

\* The user backed out: nothing is handed off, and what is staged is dropped,
\* the assembled tree too.
InstallAbandoned(o) ==
  /\ ops[o].at \in {"settle", "broken"} /\ status # "staging"
  /\ cancel' = None /\ staged' = None
  /\ trees' = IF ops[o].at = "settle" THEN trees \ {ops[o].rel} ELSE trees
  /\ Close(o)
  /\ UNCHANGED <<status, pending, artifact, dismissed, contract>>

\* Assembly failed, or the updater could not be started and the contract is
\* removed again.
InstallFails(o) ==
  /\ ops[o].at \in {"settle", "broken"} /\ status = "staging"
  /\ cancel' = None
  /\ status' = SetState(status, "failed")
  /\ contract' = IF ops[o].at = "settle" THEN None ELSE contract
  /\ Close(o)
  /\ UNCHANGED <<pending, artifact, staged, dismissed, trees>>

\* The contract is written, the updater spawned: installing, then restarting.
HandOff(o) ==
  /\ ops[o].at = "settle" /\ status = "staging"
  /\ cancel' = None
  /\ contract' = ops[o].rel
  /\ status' = SetState(SetState(status, "installing"), "restarting")
  /\ Close(o)
  /\ UNCHANGED <<pending, artifact, staged, dismissed, trees>>

\* onUpdaterExit: an updater that dies early, while its contract stands.
UpdaterExits ==
  /\ status = "restarting" /\ contract # None
  /\ status' = SetState(status, "failed")
  /\ UNCHANGED <<pending, artifact, staged, cancel, dismissed, contract, trees, ops>>

----------------------------------------------------------------------------
\* The user, and the restart of the daemon

Cancel ==
  /\ cancel' = None
  /\ status' = IF status \in {"downloading", "verifying", "staging", "checking",
                              "restarting"}
               THEN SetState(status, "cancelled") ELSE status
  /\ contract' = IF status = "restarting" THEN None ELSE contract
  /\ ops' = [o \in Ops |-> [ops[o] EXCEPT
                            !.ctx = IF cancel = o THEN "stopped" ELSE @]]
  /\ UNCHANGED <<pending, artifact, staged, dismissed, trees>>

Dismiss ==
  /\ status = "update-available" /\ pending # None
  /\ dismissed' = pending
  /\ status' = SetState(status, "idle")
  /\ UNCHANGED <<pending, artifact, staged, cancel, contract, trees, ops>>

\* The daemon stops and starts: Init and reconcileBoot, which may announce what
\* an updater reported; the updater removes the trees it promoted.
Restart ==
  /\ status' \in {"idle", "updated", "failed"}
  /\ pending' \in IF status' = "idle" THEN {None} ELSE Releases
  /\ artifact' = "none" /\ staged' = None /\ cancel' = None
  /\ contract' = None /\ trees' \in SUBSET trees
  /\ ops' = [o \in Ops |-> NoOp]
  /\ UNCHANGED dismissed

Check(o) == CheckIgnored(o) \/ CheckEmpty(o) \/ CheckFound(o)
Fetch(o) == FetchFails(o) \/ Fetched(o)
Verify(o) == VerifyIgnored(o) \/ VerifyFails(o) \/ Verified(o)
Settle(o) == InstallAbandoned(o) \/ InstallFails(o) \/ HandOff(o)
Work(o) == Check(o) \/ Fetch(o) \/ Verify(o) \/ Assembled(o) \/ FallBack(o) \/ Settle(o)

Next ==
  \/ \E o \in Ops : StartCheck(o) \/ StartDownload(o) \/ StartInstall(o) \/ Work(o)
  \/ UpdaterExits \/ Cancel \/ Dismiss \/ Restart

Spec == Init /\ [][Next]_vars

\* Every slow phase is bounded by the handler's 30 minutes or by the provider's
\* own timeouts, so an operation in flight moves on.
Fairness == \A o \in Ops : WF_vars(Work(o))
FairSpec == Spec /\ Fairness

----------------------------------------------------------------------------
\* Properties

\* A busy state always has the operation that will leave it, whatever stale
\* operations come back in between: the manager cannot wedge.
Busy(step) == \E o \in Ops : ops[o].at = step
BusyIsWorked ==
  /\ status = "checking" => Busy("check")
  /\ status = "downloading" => Busy("fetch")
  /\ status = "verifying" => Busy("verify")
  /\ status = "staging" =>
       \E step \in {"assemble", "fallback", "settle", "broken"} : Busy(step)
  /\ status # "installing"

\* "Dismiss hides the available update": the release on offer is never the
\* dismissed one.
DismissedStaysHidden == status = "update-available" => pending # dismissed

\* The contract of a spawned updater is withdrawn by whoever takes the manager
\* out of restarting on the user's behalf.
RestartingHasContract == status = "restarting" => contract # None

\* A check, a download and an assembly always come to an end.
BusyEnds ==
  status \in {"checking", "downloading", "verifying", "staging"} ~>
  status \notin {"checking", "downloading", "verifying", "staging"}
=============================================================================
