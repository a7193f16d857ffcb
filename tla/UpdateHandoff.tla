--------------------------- MODULE UpdateHandoff ---------------------------
(***************************************************************************)
(* Between the daemon and the updater it spawns: pending.json and          *)
(* result.json (backend/internal/update/handoff.go, result.go), the        *)
(* installed trees and the links that select one (install.go), and the     *)
(* updater itself (cmd/connective-updater/apply.go).                       *)
(*                                                                         *)
(* The updater waits for the application to close, and nothing keeps the   *)
(* application closed while it works; it may be killed between any two     *)
(* steps.  A second updater can be spawned while a first one still waits.  *)
(* The layout is the Unix one: links are replaced by rename.               *)
(***************************************************************************)

CONSTANTS
  Versions,  \* the versions a hand-off may install
  Base,      \* the version installed at the start
  Updaters,  \* identities of updater processes (the bound on them)
  None

ASSUME VersionsAssumption ==
  Base \notin Versions /\ None \notin Versions \cup {Base}
ASSUME UpdatersAssumption == Updaters # {}

VARIABLES
  app,         \* a process of the application is alive
  restarting,  \* the daemon's manager is in restarting: one hand-off stands
  contract,    \* pending.json: the version handed off, or None
  result,      \* result.json: a version and its fate, or NoResult
  staged,      \* complete trees in the daemon's stage root
  installed,   \* complete trees under the install root
  current,     \* the tree the current link names
  previous,    \* the tree the previous link names, or None
  tmp,         \* the tree .current.tmp names, or None
  ups          \* the updater processes: the next step and the version

vars == <<app, restarting, contract, result, staged, installed, current,
          previous, tmp, ups>>

links  == <<current, previous, tmp>>
daemon == <<app, restarting, contract>>
Trees  == Versions \cup {Base}

NoResult == [ver |-> None, fate |-> "none"]
Done == [at |-> "none", ver |-> None]

\* "fail" reports a failure; "undo" too, and drops the staged tree first.
Steps == {"none", "wait", "promote", "anchor", "link", "swap", "report",
          "fail", "undo"}

TypeOK ==
  /\ app \in BOOLEAN /\ restarting \in BOOLEAN
  /\ contract \in Versions \cup {None}
  /\ result \in [ver : Versions \cup {None}, fate : {"none", "ok", "failed"}]
  /\ staged \subseteq Versions /\ installed \subseteq Trees
  /\ current \in Trees /\ previous \in Trees \cup {None}
  /\ tmp \in Versions \cup {None}
  /\ ups \in [Updaters -> [at : Steps, ver : Versions \cup {None}]]

Init ==
  /\ app = TRUE /\ restarting = FALSE
  /\ contract = None /\ result = NoResult
  /\ staged = {} /\ installed = {Base} /\ current = Base /\ previous = None
  /\ tmp = None
  /\ ups = [u \in Updaters |-> Done]

----------------------------------------------------------------------------
\* The daemon's side

At(u, step) == ups[u].at = step
Move(u, step) == ups' = [ups EXCEPT ![u].at = step]

\* Manager.Install hands off: the tree is assembled (one that is there is kept),
\* the contract written over an older one, the updater spawned.
HandOff(u, v) ==
  /\ app /\ ~restarting /\ At(u, "none")
  /\ restarting' = TRUE
  /\ staged' = staged \cup {v}
  /\ contract' = v
  /\ ups' = [ups EXCEPT ![u] = [at |-> "wait", ver |-> v]]
  /\ UNCHANGED <<app, result, installed, links>>

\* Cancel from restarting: the contract goes.
Withdraw ==
  /\ app /\ restarting
  /\ restarting' = FALSE /\ contract' = None
  /\ UNCHANGED <<app, result, staged, installed, links, ups>>

\* Manager.Install of a cancelled operation that comes back late: it removes the
\* tree it assembled, whoever was handed that tree meanwhile (InstallAbandoned of
\* UpdateManager).
Abandons(v) ==
  /\ app /\ v \in staged
  /\ staged' = staged \ {v}
  /\ UNCHANGED <<app, restarting, contract, result, installed, links, ups>>

\* The user closes the application, or it dies.
AppCloses ==
  /\ app /\ app' = FALSE
  /\ UNCHANGED <<restarting, contract, result, staged, installed, links, ups>>

\* The next start runs reconcileBoot: a result is announced once and both files
\* are consumed; a contract without a result is dropped silently.
AppStarts ==
  /\ ~app
  /\ app' = TRUE /\ restarting' = FALSE
  /\ result' = NoResult /\ contract' = None
  /\ UNCHANGED <<staged, installed, links, ups>>

----------------------------------------------------------------------------
\* runApply, one step per effect

\* waitExit: no process of the application was seen, or the wait timed out.
Waited(u) ==
  /\ At(u, "wait")
  /\ Move(u, IF app THEN "fail" ELSE "promote")
  /\ UNCHANGED <<daemon, result, staged, installed, links>>

\* Mutation of Promote: the tree is copied in place, and the copy may stop short.
PromoteInPlace(u) ==
  /\ At(u, "promote") /\ ups[u].ver \in staged
  /\ installed' \in {installed, installed \cup {ups[u].ver}}
  /\ Move(u, "anchor")
  /\ UNCHANGED <<daemon, result, staged, current, previous, tmp>>

\* PromoteStaged: a tree already under the root is kept, otherwise the staged one
\* is copied next to it and renamed into place; without a staged one it fails.
\* Then checkTree and Activate's own look, which may refuse the tree.
Promote(u) ==
  /\ At(u, "promote")
  /\ \/ /\ ups[u].ver \in staged
        /\ installed' = installed \cup {ups[u].ver}
        /\ \/ Move(u, "anchor")
           \/ Move(u, "undo")
     \/ Move(u, "fail") /\ UNCHANGED installed
  /\ UNCHANGED <<daemon, result, staged, current, previous, tmp>>

\* Mutation of Anchor: previous is made to name the newest hand-off.
AnchorAhead(u) ==
  /\ At(u, "anchor")
  /\ previous' = contract /\ Move(u, "link")
  /\ UNCHANGED <<daemon, result, staged, installed, current, tmp>>

\* Activate: previous is removed and made again, naming what current names.
Anchor(u) ==
  /\ At(u, "anchor")
  /\ \/ previous' = current /\ Move(u, "link")
     \/ previous' = None /\ Move(u, "undo")
  /\ UNCHANGED <<daemon, result, staged, installed, current, tmp>>

\* Activate: the new link is made under a name all updaters share, over what
\* another one left there.
Link(u) ==
  /\ At(u, "link")
  /\ \/ tmp' = ups[u].ver /\ Move(u, "swap")
     \/ tmp' \in {tmp, None} /\ Move(u, "undo")
  /\ UNCHANGED <<daemon, result, staged, installed, current, previous>>

\* Activate: the new link is renamed over current; it has to be there.
Swap(u) ==
  /\ At(u, "swap")
  /\ \/ tmp # None /\ current' = tmp /\ Move(u, "report")
     \/ UNCHANGED current /\ Move(u, "undo")
  /\ tmp' = None
  /\ UNCHANGED <<daemon, result, staged, installed, previous>>

\* onUpdaterExit, in the daemon that spawned the process, if it still runs.
Noticed == restarting' \in {restarting, restarting /\ ~(app /\ contract # None)}

\* Mutation of Report: what is written is always a success.
ReportSuccess(u) ==
  /\ ups[u].at \in {"report", "fail", "undo"}
  /\ result' = [ver |-> ups[u].ver, fate |-> "ok"]
  /\ ups' = [ups EXCEPT ![u] = Done]
  /\ UNCHANGED <<app, restarting, contract, staged, installed, links>>

\* WriteResult, and the end of the process: the staged tree goes once it has
\* been promoted.
Report(u) ==
  /\ ups[u].at \in {"report", "fail", "undo"}
  /\ \/ result' = [ver |-> ups[u].ver,
                    fate |-> IF At(u, "report") THEN "ok" ELSE "failed"]
     \/ UNCHANGED result
  /\ staged' = IF At(u, "fail") THEN staged ELSE staged \ {ups[u].ver}
  /\ IF At(u, "report") THEN UNCHANGED restarting ELSE Noticed
  /\ ups' = [ups EXCEPT ![u] = Done]
  /\ UNCHANGED <<app, contract, installed, links>>

\* The updater is killed, or its authorisation declined.
Killed(u) ==
  /\ ~At(u, "none")
  /\ Noticed
  /\ ups' = [ups EXCEPT ![u] = Done]
  /\ UNCHANGED <<app, contract, result, staged, installed, links>>

UpdaterStep(u) == \/ Waited(u) \/ Promote(u) \/ Anchor(u) \/ Link(u)
                  \/ Swap(u) \/ Report(u)

Next ==
  \/ \E u \in Updaters :
       (\E v \in Versions : HandOff(u, v)) \/ UpdaterStep(u) \/ Killed(u)
  \/ \E v \in Versions : Abandons(v)
  \/ Withdraw \/ AppCloses \/ AppStarts

Spec == Init /\ [][Next]_vars

----------------------------------------------------------------------------
\* Properties

\* Whatever is killed when, and however many updaters overlap, there is always
\* a current version and its tree is complete: the application can start.
CurrentIsComplete == current \in installed

\* The rollback anchor, when there is one, names a complete tree too.
AnchorIsComplete == previous = None \/ previous \in installed

\* A success is only reported of a version whose tree is in place.
ReportedIsInstalled == result.fate = "ok" => result.ver \in installed

\* The layout of install.go, whoever overlaps and is killed: no tree is taken away or
\* put in place in parts, current moves in one step between trees already there, and
\* previous is only ever made to name what current names.
Layout == INSTANCE Deployment WITH trees <- installed, live <- current, anchor <- previous

DeploymentSpec == Layout!Spec
=============================================================================
